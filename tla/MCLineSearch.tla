---------------------------- MODULE MCLineSearch ----------------------------
(***************************************************************************)
(* Small files and configurations for TLC.                                 *)
(***************************************************************************)
EXTENDS LineOutput

CONSTANTS
    MaxLines,  \* lines of the longest file
    Contexts,  \* pairs of before and after
    Limits,    \* values of max_matches
    Binary     \* binary detections

PlainFiles == [hit : UNION {[1 .. n -> BOOLEAN] : n \in 0 .. MaxLines}, binary : {{}}]
BinaryFiles == {f \in [hit : UNION {[1 .. n -> BOOLEAN] : n \in 1 .. 3}, binary : SUBSET (1 .. 3)] :
                    f.binary # {} /\ \A i \in f.binary : i <= Len(f.hit)}

MCFiles == PlainFiles \cup BinaryFiles

ContextPairs == {<<0, 0>>, <<0, 1>>, <<2, 0>>, <<1, 1>>}
AfterPair == {<<0, 1>>}

Every == {g \in [before : 0 .. 2, after : 0 .. 2, max : Limits, invert : BOOLEAN, passthru : BOOLEAN,
                 stopOnNonmatch : BOOLEAN, fast : BOOLEAN, binary : Binary, slice : BOOLEAN] :
            /\ <<g.before, g.after>> \in Contexts
            /\ g.passthru => g.before = 0 /\ g.after = 0}

\* The configurations under which the code departs from its documentation.
LimitSlips(g) == g.invert /\ g.max # None /\ (g.after > 0 \/ g.passthru)
                 /\ (~g.fast \/ g.passthru \/ g.stopOnNonmatch \/ ~g.slice)
NonmatchSlips(g) == g.invert /\ g.stopOnNonmatch /\ g.fast

Reliable == {g \in Every : ~LimitSlips(g) /\ ~NonmatchSlips(g)}
Slow == {g \in Every : ~g.fast /\ ~g.passthru /\ ~g.stopOnNonmatch}

\* Files without binary data and a sink that is content; or short files with
\* binary data and few configurations, and a sink that may refuse.
Few(g) == <<g.before, g.after>> \in {<<0, 0>>, <<1, 1>>} /\ g.max \in {1, None}
Plain == {g \in Reliable : g.binary = "none"}
Examined == {g \in Reliable : g.binary # "none" /\ Few(g)}

MCInit ==
    /\ \/ file \in PlainFiles /\ cfg \in Plain /\ stopAnswer = 0
       \/ file \in BinaryFiles /\ cfg \in Examined /\ stopAnswer \in StopAnswers
    /\ Fresh
MCSpec == MCInit /\ [][Next]_vars
=============================================================================
