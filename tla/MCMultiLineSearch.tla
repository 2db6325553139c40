------------------------- MODULE MCMultiLineSearch -------------------------
(***************************************************************************)
(* Small files, matches in them and configurations for TLC.                *)
(***************************************************************************)
EXTENDS MultiLineSearch

CONSTANTS
    MaxLines,  \* lines of the longest file
    Contexts,  \* pairs of before and after
    Limits,    \* values of max_matches
    Inverts,   \* values of invert_match
    Binary     \* binary detections

ContextPairs == {<<0, 0>>, <<0, 1>>, <<2, 0>>, <<1, 1>>}
AfterPair == {<<0, 1>>}

\* Up to two matches, each with a beginning of its own.
Span == {s \in (0 .. 2 * MaxLines) \X (0 .. 2 * MaxLines) : s[1] <= s[2]}
SpanPairs == {pair \in Span \X Span : pair[1][1] < pair[2][1] \/ pair[1] = pair[2]}
SpanSets == {{}} \cup {{pair[1], pair[2]} : pair \in SpanPairs}

\* Taken alone, a line matches if a match lies within it, and may match if one
\* begins in it.
File(lines, open, spans, loose, binary) ==
    [ hit |-> [i \in 1 .. lines |-> \E s \in spans : s[1] \div 2 = i - 1 /\ (loose \/ s[2] <= 2 * i - 1)],
      binary |-> binary, open |-> open, spans |-> spans ]
Fits(lines, open, spans) == \A s \in spans : s[2] <= 2 * lines - (IF open THEN 1 ELSE 0)

PlainFiles ==
    {File(f[1], f[2], f[3], f[4], {}) :
        f \in {g \in (1 .. MaxLines) \X BOOLEAN \X SpanSets \X BOOLEAN : Fits(g[1], g[2], g[3])}}
ShortFiles == {f \in PlainFiles : Len(f.hit) <= 2}
BinaryFiles == {[f[1] EXCEPT !.binary = {f[2]}] : f \in {g \in ShortFiles \X {1, 2} : g[2] <= Len(g[1].hit)}}
MCFiles == PlainFiles \cup BinaryFiles

Every == {g \in [before : 0 .. 2, after : 0 .. 2, max : Limits, invert : Inverts, passthru : BOOLEAN,
                 stopOnNonmatch : {FALSE}, fast : {FALSE}, binary : Binary, slice : {TRUE}] :
            /\ <<g.before, g.after>> \in Contexts
            /\ g.passthru => g.before = 0 /\ g.after = 0}

\* Inversion with a limit is a run of its own.
Reliable == {g \in Every : ~(g.invert /\ g.max # None)}

\* Sinks that refuse, and binary data, with the short files.
FilesFor(binary, answer) ==
    IF binary # "none" THEN BinaryFiles ELSE IF answer # 0 THEN ShortFiles ELSE PlainFiles

MCInit ==
    /\ stopAnswer \in StopAnswers
    /\ cfg \in Configs
    /\ file \in FilesFor(cfg.binary, stopAnswer)
    /\ MultiFresh
MCSpec == MCInit /\ [][MultiNext]_multiVars
=============================================================================
