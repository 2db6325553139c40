----------------------------- MODULE LineOutput -----------------------------
(***************************************************************************)
(* What a line oriented search must report, defined from the file and the  *)
(* configuration alone: no buffers, no path through the code.  The         *)
(* properties compare LineSearch with it.                                  *)
(***************************************************************************)
EXTENDS LineSearch, SequencesExt

LineKinds == {"match", "before", "after", "other"}
LeastLine(S) == CHOOSE i \in S : \A j \in S : i <= j
LastLine(S) == CHOOSE i \in S : \A j \in S : j <= i
AtMost(a, b) == IF a < b THEN a ELSE b

Success(i) == file.hit[i] # cfg.invert
\* The lines that are matches within the limit.
Limited ==
    LET successes == {i \in 1 .. Total : Success(i)}
    IN {i \in successes : cfg.max = None \/ Cardinality({j \in successes : j <= i}) <= cfg.max}

\* --stop-on-nonmatch: the last line looked at is the first that is no match
\* after one that is.
Horizon ==
    IF ~cfg.stopOnNonmatch \/ Limited = {} THEN Total
    ELSE LeastLine({i \in 1 .. Total : i > LeastLine(Limited) /\ i \notin Limited} \cup {Total})

Chosen == {i \in Limited : i <= Horizon}
LimitReached == cfg.max # None /\ Cardinality(Chosen) = cfg.max

\* Beyond the limit there is only the context after the last match.
LastReported ==
    IF LimitReached /\ ~cfg.passthru
    THEN AtMost(Horizon, LastLine(Chosen) + cfg.after)
    ELSE Horizon

InAfter(i) == \E j \in Chosen : j < i /\ i <= j + cfg.after
InBefore(i) == \E j \in Chosen : i < j /\ j <= i + cfg.before

\* The help of --max-count: a line of the context beyond the limit that
\* matches is printed as a match.  Only the fast path of the core does so.
MatchInContext(i) ==
    /\ LimitReached /\ i > LastLine(Chosen)
    /\ Success(i)
    /\ cfg.fast /\ ~cfg.stopOnNonmatch /\ ~cfg.passthru

KindOf(i) ==
    IF i \in Chosen \/ (InAfter(i) /\ MatchInContext(i)) THEN "match"
    ELSE IF InAfter(i) THEN "after"
    ELSE IF InBefore(i) THEN "before"
    ELSE IF cfg.passthru THEN "other"
    ELSE "nothing"

Due == {i \in 1 .. LastReported : KindOf(i) # "nothing"}

\* The calls for line i, or for the lines from i to upto, which are due, behind
\* those before them: a break tells that lines were left out.
Gap(due, i) == cfg.before + cfg.after > 0 /\ i - 1 \notin due /\ \E j \in due : j < i
Calls(due, kind, i, upto) ==
    (IF Gap(due, i) THEN <<[kind |-> "break", line |-> i - 1, upto |-> i - 1]>> ELSE <<>>)
    \o <<[kind |-> kind, line |-> i, upto |-> upto]>>
CallsFor(due, i) == Calls(due, KindOf(i), i, i)

\* The calls for the first n lines, for each n.
Reports(total, due, calls) ==
    LET upTo[n \in 0 .. total] ==
            IF n = 0 THEN <<>>
            ELSE IF n \in due THEN upTo[n - 1] \o calls[n]
            ELSE upTo[n - 1]
    IN upTo

Expected ==
    LET due == Due
    IN Reports(Total, due, [i \in due |-> CallsFor(due, i)])[Total]

-----------------------------------------------------------------------------
\* What a sequence of calls says of lines; only a multi line search gives more
\* than one in a call.
UpTo(call) == IF "upto" \in DOMAIN call THEN call.upto ELSE call.line
LineCallsOf(calls) ==
    LET upTo[n \in 0 .. Len(calls)] ==
            IF n = 0 THEN <<>>
            ELSE IF calls[n].kind \in LineKinds \cup {"break"}
            THEN Append(upTo[n - 1], [kind |-> calls[n].kind, line |-> calls[n].line, upto |-> UpTo(calls[n])])
            ELSE upTo[n - 1]
    IN upTo[Len(calls)]

Reported == LineCallsOf(core.calls)

Uninterrupted ==
    /\ stopAnswer = 0 \/ stopAnswer > Len(core.calls)
    /\ ~(cfg.binary = "quit" /\ file.binary # {})

\* Besides the types: no range of the core runs backwards (Match.new panics),
\* context after a match is never counted below zero, and the reader is asked
\* for more only when everything shown was searched (the assertion of
\* ReadByLine.fill).
TypeOK ==
    /\ file \in Files /\ cfg \in Configs /\ stopAnswer \in StopAnswers
    /\ pc \in {"begin", "fill", "slow", "fast", "fastEnd", "finish", "done", "failed"}
    /\ base \in 0 .. Total /\ shown \in 0 .. Total - base
    /\ pc \notin {"finish", "done"} => core.pos \in 0 .. shown /\ core.visited \in 0 .. shown
    /\ core.counted \in 0 .. Total
    /\ core.afterLeft \in 0 .. cfg.after
    /\ core.binaryAt \in 1 .. Total \cup {None}
    /\ pc = "fill" => core.pos = shown
    /\ ~core.panicked

\* A sink that refuses a call ends the search, but in the inverted fast path:
\* there its answer ends a loop over one buffer (match_by_line_fast_invert).
Obeyed == stopAnswer = 0 \/ ~(cfg.invert /\ cfg.fast)

\* Lines are counted lazily, before a report or a roll, and positions move with
\* the buffer, yet each line comes with its offset and number in the whole
\* file, and behind every line that came before it, whichever path or context
\* each was given by (match_by_line and all it calls).
Numbered ==
    Obeyed =>
        \A k \in DOMAIN core.calls :
            core.calls[k].kind \in LineKinds =>
                /\ core.calls[k].offset = core.calls[k].line - 1 /\ core.calls[k].number = core.calls[k].line
                /\ \A j \in 1 .. k - 1 : core.calls[j].kind \in LineKinds => core.calls[j].line < core.calls[k].line

\* Whatever the reader's chunks, and whichever of the paths of the core is
\* taken, the sink is given the lines of the reference in its order, with its
\* kinds and its breaks, and nothing else, and all of them unless the search
\* was stopped.
ReportsExpected ==
    LET expected == Expected
    IN /\ Numbered
       /\ Obeyed => IsPrefix(Reported, expected)
       /\ (pc = "done" /\ Uninterrupted) => Reported = expected

\* Sink: "If this returns `false`, then searching is stopped immediately and
\* `finish` is called" (lib.v, lines 3277-3321, for each of its calls).
StopsAtOnce ==
    (Obeyed /\ stopAnswer > 0 /\ Len(core.calls) > stopAnswer) =>
        Len(core.calls) = stopAnswer + 1 /\ core.calls[stopAnswer + 1].kind = "finish"

\* Binary data is announced once, a reader announces the first, and no line
\* that holds a binary byte (a reader: or comes after one) is reported before;
\* under quit, none is reported after.  Of a slice only the first lines and
\* those that are reported are examined (fill, detect_binary).
BinaryAnnounced ==
    cfg.binary # "none" =>
        \A k \in DOMAIN core.calls :
            LET line == core.calls[k].line
                announced == \E j \in 1 .. k - 1 : core.calls[j].kind = "binary"
                Concerned == line \in file.binary \/ (~cfg.slice /\ \E b \in file.binary : b <= line)
            IN /\ core.calls[k].kind = "binary" =>
                    /\ ~announced /\ line \in file.binary
                    /\ ~cfg.slice => \A b \in file.binary : line <= b
               /\ core.calls[k].kind \in LineKinds =>
                    /\ Concerned => announced
                    /\ announced => cfg.binary = "convert"

\* A search ends: a fill after which searching goes on has read a line or
\* dropped one, although rolling may keep all lines for context (the forced
\* quit at the end of ReadByLine.fill).
FillAdvances ==
    [][ (pc = "fill" /\ pc' \in {"fast", "slow"}) => base' > base \/ base' + shown' > base + shown ]_vars

-----------------------------------------------------------------------------
\* What documentation says and the code does not do.

\* The limit of max_matches bounds the report: "it's possible for more matches
\* than the maximum to be printed if contextual lines contain a match", and
\* for no other reason (defs.v, lines 1893-1895).
LimitBounds ==
    LimitReached =>
        \A k \in 1 .. Len(Reported) : Reported[k].line <= LastLine(Chosen) + cfg.after
=============================================================================
