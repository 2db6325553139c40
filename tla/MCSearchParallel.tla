-------------------------- MODULE MCSearchParallel --------------------------
(***************************************************************************)
(* Three results for TLC: one that the run's workers may all find, one     *)
(* that matches or fails, one that is anything; or two that are no files   *)
(* and one that is anything.                                               *)
(***************************************************************************)
EXTENDS SearchParallel, TLC

CONSTANTS r1, r2, r3, w1, w2

Say(kind, hit, shows) == [kind |-> kind, hit |-> hit, shows |-> shows]
Match == Say("searched", TRUE, TRUE)
Skipped == Say("skipped", FALSE, FALSE)
NoMatch == Say("searched", FALSE, FALSE)
Failure == Say("fails", FALSE, TRUE)
Anything == {Match, NoMatch, Failure, Say("error", FALSE, FALSE), Skipped}

\* The results are alike, so it is enough to say how many have which verdict.
SomeVerdicts ==
    {(r1 :> p[1]) @@ (r2 :> p[2]) @@ (r3 :> v) :
        p \in {<<Match, Match>>, <<Match, Failure>>, <<NoMatch, Failure>>, <<Skipped, Skipped>>}, v \in Anything}

SomeConfigs ==
    {[quiet |-> FALSE, stats |-> FALSE, separator |-> FALSE, implicit |-> TRUE],
     [quiet |-> FALSE, stats |-> TRUE, separator |-> TRUE, implicit |-> FALSE],
     [quiet |-> TRUE, stats |-> FALSE, separator |-> FALSE, implicit |-> FALSE],
     [quiet |-> TRUE, stats |-> TRUE, separator |-> FALSE, implicit |-> TRUE]}
=============================================================================
