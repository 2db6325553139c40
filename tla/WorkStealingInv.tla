-------------------------- MODULE WorkStealingInv ---------------------------
(***************************************************************************)
(* The inductive invariant of WorkStealing: why no step can lose an entry, *)
(* hand it out twice or forget what is due to it.  WorkStealing_proofs     *)
(* proves from it that the walk implements Traversal.                      *)
(***************************************************************************)
EXTENDS WorkStealing

Unprepared == {Roots[i] : i \in nextRoot .. Len(Roots)}

\* What each phase of the main thread leaves in the workers' state.
Phase ==
    /\ mainPc \in {"prepare", "deal"} =>
          \A w \in Workers : /\ pc[w] = "unborn" /\ ~idle[w]
                             /\ queue[w] = <<>> /\ todo[w] = {}
    /\ mainPc \in {"walking", "joined"} => initial = <<>>
    /\ mainPc = "walking" => \A w \in Workers : pc[w] # "unborn"
    /\ mainPc # "prepare" /\ ~quit => nextRoot = Len(Roots) + 1
    /\ stop => quit

\* No entry is in two places.
OnePlace ==
    /\ IsInjective(initial)
    /\ \A e \in Range(initial) : e \in RootSet /\ e \notin Unprepared
    /\ \A w \in Workers :
          /\ IsInjective(queue[w])
          /\ Unprepared \cap Range(queue[w]) = {}
          /\ work[w] \notin Unprepared
          /\ todo[w] \cap RootSet = {}
    /\ \A u, w \in Workers :
          /\ Range(queue[u]) \cap todo[w] = {}
          /\ work[w] \notin Range(queue[u])
          /\ work[w] \notin todo[u]
          /\ u # w => /\ Range(queue[u]) \cap Range(queue[w]) = {}
                      /\ todo[u] \cap todo[w] = {}
                      /\ work[u] = NoEntry \/ work[u] # work[w]

\* What was done for an entry that still waits to be examined: nothing.
Untouched(e) == delivered[e] = 0 /\ e \notin listed /\ e \notin pruned
Fresh(e) == Untouched(e) /\ errors[e] = 0

\* What was done for an entry that was examined and may be queued: a root may
\* have had an error of its parents' ignore files reported.
Ready(e) ==
    /\ Untouched(e)
    /\ ~NeverQueued(fate, e)
    /\ errors[e] = IF fate[e] = "partial" THEN 1 ELSE 0

Waiting ==
    /\ \A e \in Unprepared : Fresh(e)
    /\ \A e \in Range(initial) : Ready(e)
    /\ \A w \in Workers :
          /\ \A e \in Range(queue[w]) : Ready(e)
          /\ \A e \in todo[w] : Fresh(e)

\* An entry nobody has seen yet is nowhere.
Undiscovered ==
    \A e \in Entry : e \notin RootSet /\ Parent[e] \notin listed =>
        /\ Fresh(e)
        /\ \A w \in Workers : e \notin Range(queue[w]) /\ e \notin todo[w] /\ e # work[w]

\* What was done for the entry a worker is handling, by where the worker is.
Handling(w) ==
    LET e == work[w] IN
    /\ pc[w] \in {"unborn", "take", "steal", "pair", "leave", "idle", "idleStop", "exited"} => e = NoEntry
    /\ pc[w] \in {"wake", "run"} => e \in Entry /\ Ready(e)
    /\ pc[w] = "visit" =>
          /\ e \in Entry /\ Untouched(e) /\ ~NeverQueued(fate, e)
          /\ errors[e] = IF fate[e] \in {"partial", "nodev"} THEN 1 ELSE 0
    /\ pc[w] = "list" =>
          /\ e \in Entry /\ e \notin listed /\ e \notin pruned /\ Descends(fate, e)
          /\ delivered[e] = DeliveriesDue(fate, e)
          /\ errors[e] = IF fate[e] = "partial" THEN 1 ELSE 0
    /\ pc[w] = "push" => e \in Entry /\ Settled(e)
    /\ pc[w] = "loop" => e = NoEntry \/ Settled(e)
    /\ pc[w] = "quit" => e \in Entry /\ quit
    /\ todo[w] # {} => pc[w] = "push" \/ (quit /\ pc[w] \in {"quit", "exited"})

\* A worker that found its queue empty finds it so until it takes work again.
EmptyHanded(w) ==
    \/ pc[w] \in {"steal", "pair", "leave", "idle", "idleStop"}
    \/ pc[w] = "take" /\ idle[w]
    \/ pc[w] = "exited" /\ ~stop
    => queue[w] = <<>>

\* Nobody waits in take_work and works at the same time.
IdlePlace(w) == idle[w] => pc[w] \in {"take", "steal", "pair", "idle", "idleStop", "wake", "exited"}

IInv ==
    /\ TypeOK
    /\ Phase
    /\ OnePlace
    /\ Waiting
    /\ Undiscovered
    /\ \A w \in Workers : Handling(w) /\ EmptyHanded(w) /\ IdlePlace(w)
=============================================================================
