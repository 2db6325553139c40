---------------------------- MODULE WorkStealing ----------------------------
(***************************************************************************)
(* The parallel walk of ignore/walk.v (WalkParallel.run): the main thread  *)
(* prepares the roots, deals them over one queue per worker and joins the  *)
(* workers; each worker pops its own queue from the back, steals half of a *)
(* victim's queue from the front, and leaves when no worker is active or   *)
(* the stop flag is set.                                                   *)
(*                                                                         *)
(* One action is one step between two accesses to what threads share: a    *)
(* queue (under its mutex), the atomic counter active_workers, the atomic  *)
(* flag quit_now, and the calls of the visitor.  A critical section that   *)
(* takes one lock is one action; a steal takes two locks, so acquiring the *)
(* first is an action of its own.                                          *)
(***************************************************************************)
EXTENDS FileTree, Integers, FiniteSets, Functions

CONSTANTS
    WorkerCount, \* worker_count(), after its clamping to at least 1
    Answers      \* what visitors may answer, a subset of WalkState

\* run takes the serial path for one worker (visit_serial).
ASSUME WorkerAssumption == WorkerCount \in Nat /\ WorkerCount >= 2
ASSUME AnswerAssumption == Answers \subseteq {"continue", "skip", "quit"}

Workers == 0 .. WorkerCount - 1
NoLock == WorkerCount

VARIABLES
    fate,      \* what the file system holds
    mainPc,    \* the main thread: preparing roots, dealing them, waiting, done
    nextRoot,  \* index of the next root to prepare
    initial,   \* roots prepared so far
    queue,     \* WorkStealingStacks.queues, oldest work first
    lock,      \* holder of each queue's mutex across steps
    pc,        \* where each worker is
    offset,    \* loop variable of the steal scan
    idle,      \* the worker is in take_work's waiting loop, after active.sub
    work,      \* the work walk_stealing_run_one was called with
    todo,      \* children read by that call and not yet handled
    active,    \* active_workers
    stop,      \* quit_now
    \* History: what the visitors were given and answered.
    delivered, errors, pruned, listed,
    quit,      \* some visitor has answered quit
    earlyQuit, \* it did so before any worker was started
    late       \* items each worker took although stop was already set

fsVars == <<fate>>
mainVars == <<mainPc, nextRoot, initial, earlyQuit>>
queueVars == <<queue, lock>>
seenVars == <<delivered, errors, pruned, listed, quit>>
vars == <<fate, mainPc, nextRoot, initial, queue, lock, pc, offset, idle, work, todo,
          active, stop, delivered, errors, pruned, listed, quit, earlyQuit, late>>

Init ==
    /\ fate \in FateFunctions
    /\ mainPc = "prepare"
    /\ nextRoot = 1
    /\ initial = <<>>
    /\ queue = [w \in Workers |-> <<>>]
    /\ lock = [w \in Workers |-> NoLock]
    /\ pc = [w \in Workers |-> "unborn"]
    /\ offset = [w \in Workers |-> 1]
    /\ idle = [w \in Workers |-> FALSE]
    /\ work = [w \in Workers |-> NoEntry]
    /\ todo = [w \in Workers |-> {}]
    /\ active = 0
    /\ stop = FALSE
    /\ delivered = [e \in Entry |-> 0]
    /\ errors = [e \in Entry |-> 0]
    /\ pruned = {}
    /\ listed = {}
    /\ quit = FALSE
    /\ earlyQuit = FALSE
    /\ late = [w \in Workers |-> 0]

(***************************************************************************)
(* The visitor.                                                            *)
(***************************************************************************)
VisitEntry(e, answer) ==
    /\ delivered' = [delivered EXCEPT ![e] = @ + 1]
    /\ pruned' = IF answer = "skip" THEN pruned \cup {e} ELSE pruned
    /\ quit' = (quit \/ answer = "quit")
    /\ UNCHANGED <<errors, listed>>

VisitError(e, answer) ==
    /\ errors' = [errors EXCEPT ![e] = @ + 1]
    /\ quit' = (quit \/ answer = "quit")
    /\ UNCHANGED <<delivered, pruned, listed>>

(***************************************************************************)
(* The main thread.                                                        *)
(***************************************************************************)
workerVars == <<pc, offset, idle, work, todo, active, stop, late>>

\* One iteration of initial_work for a root without an error.
PrepareRoot ==
    /\ mainPc = "prepare"
    /\ nextRoot <= Len(Roots)
    /\ fate[Roots[nextRoot]] \notin {"broken", "nodev", "partial"}
    /\ initial' = Append(initial, Roots[nextRoot])
    /\ nextRoot' = nextRoot + 1
    /\ UNCHANGED <<fsVars, mainPc, earlyQuit, queueVars, workerVars, seenVars>>

\* One iteration for a root whose error goes to the first visitor: a quit
\* returns the list as it is, else only a root that could be examined and
\* whose device is known is added.
PrepareFailingRoot ==
    LET r == Roots[nextRoot] IN
    /\ mainPc = "prepare"
    /\ nextRoot <= Len(Roots)
    /\ fate[r] \in {"broken", "nodev", "partial"}
    /\ \E answer \in Answers :
          /\ VisitError(r, answer)
          /\ mainPc' = IF answer = "quit" THEN "deal" ELSE mainPc
          /\ initial' = IF fate[r] = "partial" /\ answer # "quit" THEN Append(initial, r)
                                                                  ELSE initial
          /\ earlyQuit' = (answer = "quit")
    /\ nextRoot' = nextRoot + 1
    /\ UNCHANGED <<fsVars, queueVars, workerVars>>

PreparationDone ==
    /\ mainPc = "prepare"
    /\ nextRoot > Len(Roots)
    /\ mainPc' = "deal"
    /\ UNCHANGED <<fsVars, nextRoot, initial, earlyQuit, queueVars, workerVars, seenVars>>

\* WorkStealingStacks.new pops the list from its end and pushes round robin.
Dealt(list, w) ==
    [j \in 1 .. (Len(list) + WorkerCount - 1 - w) \div WorkerCount |->
        list[Len(list) - ((j - 1) * WorkerCount + w)]]

\* run: an empty list ends the walk, else the workers are started.
Deal ==
    /\ mainPc = "deal"
    /\ initial' = <<>>
    /\ IF initial = <<>>
       THEN /\ mainPc' = "joined"
            /\ UNCHANGED <<queue, pc, active>>
       ELSE /\ mainPc' = "walking"
            /\ queue' = [w \in Workers |-> Dealt(initial, w)]
            /\ pc' = [w \in Workers |-> "loop"]
            /\ active' = WorkerCount
    /\ UNCHANGED <<fsVars, nextRoot, earlyQuit, lock, offset, idle, work, todo, stop, late, seenVars>>

Join ==
    /\ mainPc = "walking"
    /\ \A w \in Workers : pc[w] = "exited"
    /\ mainPc' = "joined"
    /\ UNCHANGED <<fsVars, nextRoot, initial, earlyQuit, queueVars, workerVars, seenVars>>

(***************************************************************************)
(* A worker: walk_stealing_visit_worker and take_work.                     *)
(***************************************************************************)
Goto(w, label) == pc' = [pc EXCEPT ![w] = label]

\* Mutant: the loop does not look at the flag.
CheckStopNever(w) ==
    /\ pc[w] = "loop"
    /\ Goto(w, "take")
    /\ work' = [work EXCEPT ![w] = NoEntry]
    /\ UNCHANGED <<fsVars, mainVars, queueVars, offset, idle, todo, active, stop, late, seenVars>>

\* The head of the worker's loop; run_one has returned and let its work go.
CheckStop(w) ==
    /\ pc[w] = "loop"
    /\ Goto(w, IF stop THEN "exited" ELSE "take")
    /\ work' = [work EXCEPT ![w] = NoEntry]
    /\ UNCHANGED <<fsVars, mainVars, queueVars, offset, idle, todo, active, stop, late, seenVars>>

\* The worker has taken e; run_one starts, after active.add for an idle one.
Take(w, e) ==
    /\ work' = [work EXCEPT ![w] = e]
    /\ late' = [late EXCEPT ![w] = IF stop THEN @ + 1 ELSE @]
    /\ Goto(w, IF idle[w] THEN "wake" ELSE "run")

\* stacks.take found nothing: leave take_work or wait.
FindNothing(w) ==
    /\ Goto(w, IF idle[w] THEN "idle" ELSE "leave")
    /\ UNCHANGED <<work, late>>

\* Mutant: the scan starts at the worker itself.
FirstOffsetSelf == 0

\* The scan of the other queues starts at the next worker.
FirstOffset == 1

\* stacks.take, pop_back on the worker's own queue.
TakeOwn(w) ==
    /\ pc[w] = "take"
    /\ lock[w] = NoLock
    /\ IF queue[w] # <<>>
       THEN /\ Take(w, queue[w][Len(queue[w])])
            /\ queue' = [queue EXCEPT ![w] = SubSeq(@, 1, Len(@) - 1)]
            /\ UNCHANGED offset
       ELSE /\ Goto(w, "steal")
            /\ offset' = [offset EXCEPT ![w] = FirstOffset]
            /\ UNCHANGED <<queue, work, late>>
    /\ UNCHANGED <<fsVars, mainVars, lock, idle, todo, active, stop, seenVars>>

Victim(w) == (w + offset[w]) % WorkerCount
\* Mutant: the thief's own mutex first, whatever the index.
FirstOwn(w) == w

First(w) == IF w < Victim(w) THEN w ELSE Victim(w)
Second(w) == IF First(w) = w THEN Victim(w) ELSE w

\* The two mutexes of a steal are taken in index order.
LockFirst(w) ==
    /\ pc[w] = "steal"
    /\ lock[First(w)] = NoLock
    /\ lock' = [lock EXCEPT ![First(w)] = w]
    /\ Goto(w, "pair")
    /\ UNCHANGED <<fsVars, mainVars, queue, offset, idle, work, todo, active, stop, late, seenVars>>

StealCount(n) == IF n = 1 THEN 1 ELSE n \div 2

\* The second mutex is taken, the oldest half of the victim's queue moves (its
\* first item is the thief's work, the others go to the thief's queue), and
\* both mutexes are released; an empty victim sends the scan to the next.
Steal(w) ==
    LET v == Victim(w)
        n == Len(queue[v])
    IN
    /\ pc[w] = "pair"
    /\ lock[Second(w)] = NoLock
    /\ lock' = [lock EXCEPT ![First(w)] = NoLock]
    /\ IF n > 0
       THEN /\ Take(w, queue[v][1])
            /\ queue' = [queue EXCEPT ![w] = @ \o SubSeq(queue[v], 2, StealCount(n)),
                                      ![v] = SubSeq(@, StealCount(n) + 1, n)]
            /\ UNCHANGED offset
       ELSE /\ UNCHANGED queue
            /\ IF offset[w] < WorkerCount - 1
               THEN /\ offset' = [offset EXCEPT ![w] = @ + 1]
                    /\ Goto(w, "steal")
                    /\ UNCHANGED <<work, late>>
               ELSE /\ FindNothing(w)
                    /\ UNCHANGED offset
    /\ UNCHANGED <<fsVars, mainVars, idle, todo, active, stop, seenVars>>

\* take_work: the last active worker leaves, the others wait.
Leave(w) ==
    /\ pc[w] = "leave"
    /\ active' = active - 1
    /\ idle' = [idle EXCEPT ![w] = TRUE]
    /\ Goto(w, IF active = 1 THEN "exited" ELSE "idle")
    /\ UNCHANGED <<fsVars, mainVars, queueVars, offset, work, todo, stop, late, seenVars>>

\* The waiting loop's condition.
CheckActive(w) ==
    /\ pc[w] = "idle"
    /\ Goto(w, IF active > 0 THEN "idleStop" ELSE "exited")
    /\ UNCHANGED <<fsVars, mainVars, queueVars, offset, idle, work, todo, active, stop, late, seenVars>>

CheckStopIdle(w) ==
    /\ pc[w] = "idleStop"
    /\ Goto(w, IF stop THEN "exited" ELSE "take")
    /\ UNCHANGED <<fsVars, mainVars, queueVars, offset, idle, work, todo, active, stop, late, seenVars>>

\* An idle worker counts itself again only after it has taken work.
Wake(w) ==
    /\ pc[w] = "wake"
    /\ active' = active + 1
    /\ idle' = [idle EXCEPT ![w] = FALSE]
    /\ Goto(w, "run")
    /\ UNCHANGED <<fsVars, mainVars, queueVars, offset, work, todo, stop, late, seenVars>>

(***************************************************************************)
(* walk_stealing_run_one on e = work[w].                                   *)
(***************************************************************************)
runVars == <<fate, mainVars, offset, idle, work, active, stop, late>>

\* Only a directory's device is looked up, and a failure is not final.
CheckDevice(w) ==
    LET e == work[w] IN
    /\ pc[w] = "run"
    /\ IF fate[e] = "nodev"
       THEN \E answer \in Answers :
               /\ VisitError(e, answer)
               /\ Goto(w, IF answer = "quit" THEN "quit" ELSE "visit")
       ELSE /\ Goto(w, "visit")
            /\ UNCHANGED seenVars
    /\ UNCHANGED <<runVars, queueVars, todo>>

AfterVisit(e) == IF Descends(fate, e) THEN "list" ELSE "loop"

\* Mutant: a directory above min_depth is not descended into.
VisitShallowOnly(w) ==
    LET e == work[w] IN
    /\ pc[w] = "visit"
    /\ IF ShouldVisit(e)
       THEN \E answer \in Answers :
               /\ VisitEntry(e, answer)
               /\ Goto(w, CASE answer = "quit" -> "quit"
                            [] answer = "skip" -> "loop"
                            [] OTHER -> AfterVisit(e))
       ELSE /\ Goto(w, "loop")
            /\ UNCHANGED seenVars
    /\ UNCHANGED <<runVars, queueVars, todo>>

\* The entry is given to the visitor unless it is above min_depth.
Visit(w) ==
    LET e == work[w] IN
    /\ pc[w] = "visit"
    /\ IF ShouldVisit(e)
       THEN \E answer \in Answers :
               /\ VisitEntry(e, answer)
               /\ Goto(w, CASE answer = "quit" -> "quit"
                            [] answer = "skip" -> "loop"
                            [] OTHER -> AfterVisit(e))
       ELSE /\ Goto(w, AfterVisit(e))
            /\ UNCHANGED seenVars
    /\ UNCHANGED <<runVars, queueVars, todo>>

\* read_dir_children: the whole listing is read before any child is handled.
ReadDir(w) ==
    LET e == work[w] IN
    /\ pc[w] = "list"
    /\ IF fate[e] = "unreadable"
       THEN /\ \E answer \in Answers :
                  /\ VisitError(e, answer)
                  /\ Goto(w, IF answer = "quit" THEN "quit" ELSE "loop")
            /\ UNCHANGED todo
       ELSE /\ todo' = [todo EXCEPT ![w] = Children(e)]
            /\ listed' = listed \cup {e}
            /\ Goto(w, "push")
            /\ UNCHANGED <<delivered, errors, pruned, quit>>
    /\ UNCHANGED <<runVars, queueVars>>

\* The children come in the order of the directory, which is any order.
SkipChild(w, c) ==
    /\ pc[w] = "push"
    /\ c \in todo[w]
    /\ fate[c] = "skipped"
    /\ todo' = [todo EXCEPT ![w] = @ \ {c}]
    /\ UNCHANGED <<runVars, queueVars, pc, seenVars>>

BrokenChild(w, c) ==
    /\ pc[w] = "push"
    /\ c \in todo[w]
    /\ fate[c] = "broken"
    /\ todo' = [todo EXCEPT ![w] = @ \ {c}]
    /\ \E answer \in Answers :
          /\ VisitError(c, answer)
          /\ IF answer = "quit" THEN Goto(w, "quit") ELSE UNCHANGED pc
    /\ UNCHANGED <<runVars, queueVars>>

\* Mutant: the child is pushed on the next worker's queue.
PushChildAway(w, c) ==
    LET v == (w + 1) % WorkerCount IN
    /\ pc[w] = "push"
    /\ c \in todo[w]
    /\ fate[c] \notin {"skipped", "broken"}
    /\ lock[v] = NoLock
    /\ queue' = [queue EXCEPT ![v] = Append(@, c)]
    /\ todo' = [todo EXCEPT ![w] = @ \ {c}]
    /\ UNCHANGED <<runVars, lock, pc, seenVars>>

\* Mutant: skip_entry's answer is not looked at.
PushChildSkipped(w, c) ==
    /\ pc[w] = "push"
    /\ c \in todo[w]
    /\ fate[c] # "broken"
    /\ lock[w] = NoLock
    /\ queue' = [queue EXCEPT ![w] = Append(@, c)]
    /\ todo' = [todo EXCEPT ![w] = @ \ {c}]
    /\ UNCHANGED <<runVars, lock, pc, seenVars>>

PushChild(w, c) ==
    /\ pc[w] = "push"
    /\ c \in todo[w]
    /\ fate[c] \notin {"skipped", "broken"}
    /\ lock[w] = NoLock
    /\ queue' = [queue EXCEPT ![w] = Append(@, c)]
    /\ todo' = [todo EXCEPT ![w] = @ \ {c}]
    /\ UNCHANGED <<runVars, lock, pc, seenVars>>

ChildrenDone(w) ==
    /\ pc[w] = "push"
    /\ todo[w] = {}
    /\ Goto(w, "loop")
    /\ UNCHANGED <<runVars, queueVars, todo, seenVars>>

\* run_one returned quit: the flag is set and the worker leaves.  The children
\* it had not handled are dropped with its frame; todo keeps them on record.
StoreStop(w) ==
    /\ pc[w] = "quit"
    /\ stop' = TRUE
    /\ work' = [work EXCEPT ![w] = NoEntry]
    /\ Goto(w, "exited")
    /\ UNCHANGED <<fsVars, mainVars, queueVars, offset, idle, todo, active, late, seenVars>>

Terminated ==
    /\ mainPc = "joined"
    /\ UNCHANGED vars

MainStep == PrepareRoot \/ PrepareFailingRoot \/ PreparationDone \/ Deal \/ Join

\* A worker's steps that wait for no mutex.
FreeStep(w) ==
    \/ CheckStop(w) \/ Leave(w) \/ CheckActive(w) \/ CheckStopIdle(w) \/ Wake(w)
    \/ CheckDevice(w) \/ Visit(w) \/ ReadDir(w) \/ ChildrenDone(w) \/ StoreStop(w)
    \/ \E c \in Entry : SkipChild(w, c) \/ BrokenChild(w, c)

\* Those that wait for one.
LockStep(w) == TakeOwn(w) \/ LockFirst(w) \/ Steal(w) \/ \E c \in Entry : PushChild(w, c)

Next ==
    \/ MainStep
    \/ \E w \in Workers : FreeStep(w) \/ LockStep(w)
    \/ Terminated

(***************************************************************************)
(* Every thread runs, and a thread that waits for a mutex gets it in the   *)
(* end although others, which sleep 100 microseconds between two scans,    *)
(* keep taking it.                                                         *)
(***************************************************************************)
Fairness ==
    /\ WF_vars(MainStep)
    /\ \A w \in Workers : WF_vars(FreeStep(w)) /\ SF_vars(LockStep(w))

Spec == Init /\ [][Next]_vars
FairSpec == Spec /\ Fairness

-----------------------------------------------------------------------------
TypeOK ==
    /\ fate \in FateFunctions
    /\ mainPc \in {"prepare", "deal", "walking", "joined"}
    /\ nextRoot \in 1 .. Len(Roots) + 1
    /\ initial \in Seq(Entry)
    /\ queue \in [Workers -> Seq(Entry)]
    /\ lock \in [Workers -> Workers \cup {NoLock}]
    /\ pc \in [Workers -> {"unborn", "loop", "take", "steal", "pair", "leave", "idle", "idleStop",
                            "wake", "run", "visit", "list", "push", "quit", "exited"}]
    /\ offset \in [Workers -> 1 .. WorkerCount - 1]
    /\ idle \in [Workers -> BOOLEAN]
    /\ work \in [Workers -> Entry \cup {NoEntry}]
    /\ todo \in [Workers -> SUBSET Entry]
    /\ active \in Int
    /\ stop \in BOOLEAN
    /\ delivered \in [Entry -> Nat]
    /\ errors \in [Entry -> Nat]
    /\ pruned \subseteq Entry
    /\ listed \subseteq Entry
    /\ quit \in BOOLEAN
    /\ earlyQuit \in BOOLEAN
    /\ late \in [Workers -> Nat]

\* The places that hold e.
Places(e) ==
    {<<"initial", 0, i>> : i \in {i \in DOMAIN initial : initial[i] = e}}
    \cup (UNION {{<<"queue", w, i>> : i \in {i \in DOMAIN queue[w] : queue[w][i] = e}} : w \in Workers})
    \cup {<<"work", w, 0>> : w \in {w \in Workers : work[w] = e}}
    \cup {<<"todo", w, 0>> : w \in {w \in Workers : e \in todo[w]}}

Discovered(e) ==
    \/ \E i \in 1 .. nextRoot - 1 : Roots[i] = e
    \/ Parent[e] \in listed

\* Everything due to e was done, exactly once.
Settled(e) ==
    /\ delivered[e] = DeliveriesDue(fate, e)
    /\ errors[e] = ErrorsDue(fate, pruned, e)
    /\ e \in listed <=> ListingDue(fate, pruned, e)

\* Pushing, popping and stealing neither lose nor duplicate work: a discovered
\* entry is in one place, or in none and then, unless the visitor has quit,
\* all that was due to it was done.  (WorkStealingStacks, run_one.)
Conservation ==
    \A e \in Entry :
        /\ \A p, q \in Places(e) : p = q
        /\ Discovered(e) /\ Places(e) = {} /\ ~quit => Settled(e)

\* When run returns and no visitor has answered quit, every root and every
\* child of a listed directory was delivered, reported or dropped as it should
\* be, exactly once, and nothing else was.  (run, walk_stealing_run_one.)
Complete ==
    mainPc = "joined" /\ ~quit =>
        \A e \in Entry : IF e \in RootSet \/ Parent[e] \in listed
                          THEN Settled(e)
                          ELSE delivered[e] = 0 /\ errors[e] = 0

\* A worker leaves its queue empty, unless it leaves because of the stop flag:
\* nobody else pushes to that queue, so no work is abandoned.  (take_work.)
NoWorkAbandoned ==
    \A w \in Workers : pc[w] = "exited" /\ ~stop => queue[w] = <<>>

\* The counter the waiting workers read is the number of workers that are not
\* waiting; it never drops below zero and a worker that left because it was the
\* last one is not counted.  (take_work, active_workers.)
ActiveExact ==
    mainPc = "walking" => active = Cardinality({w \in Workers : ~idle[w]})

\* No entry is lost, handled twice or handled in part, and no worker is counted
\* wrong (walk_stealing_visit_worker and all it calls).
Accounted == Conservation /\ Complete /\ ActiveExact

\* Once the stop flag is set, a worker takes up at most one more item: the one
\* it was about to take when the flag was set.  (walk_stealing_visit_worker,
\* take_work.)
AtMostOneLate == \A w \in Workers : late[w] <= 1

\* WalkState.quit is documented to quit the iterator as soon as possible: a
\* visitor that quits before any worker was started is given no entry at all.
NothingAfterEarlyQuit == earlyQuit => \A e \in Entry : delivered[e] = 0

\* run returns: the workers agree that the work is over and none of them waits
\* for a mutex for ever.  (take_work, WorkStealingStacks.take.)
Terminates == <>(mainPc = "joined")

-----------------------------------------------------------------------------
\* The walk implements what a traversal promises.
waitingEntries ==
    {Roots[i] : i \in nextRoot .. Len(Roots)}
    \cup Range(initial)
    \cup (UNION {Range(queue[w]) : w \in Workers})
    \cup (UNION {todo[w] : w \in Workers})

openEntries == {work[w] : w \in Workers} \ {NoEntry}

T == INSTANCE Traversal WITH
        waiting <- waitingEntries,
        open <- openEntries,
        finished <- mainPc = "joined"

\* Each step of the parallel walk is a step of Traversal or changes nothing a
\* visitor can see: an entry is delivered or reported at most once, a directory
\* before it is listed, nothing below a directory the visitor pruned, and the
\* walk ends with nothing left unless the visitor quit.
Refines == T!Spec
=============================================================================
