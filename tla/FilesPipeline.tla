--------------------------- MODULE FilesPipeline ---------------------------
(***************************************************************************)
(* rg --files with several threads (files_parallel of rg/main.v).  The     *)
(* workers of WalkParallel.stream send every result of the walk down a     *)
(* bounded channel; a producer turns the searchable ones into paths and    *)
(* sends them down a second one; the main thread prints what arrives.  A   *)
(* stop flag runs the other way, set by the producer when one file is      *)
(* enough and by the main thread when it cannot print.                     *)
(*                                                                         *)
(* As in SearchParallel the walk is a set of results, each handed to some  *)
(* worker once; those that initial_work visits are sent by a worker here.  *)
(***************************************************************************)
EXTENDS Integers, Sequences

CONSTANTS
    Result,       \* what the walk delivers
    Kinds,        \* functions from Result to {"file", "other", "error"}
    Worker,
    Capacity,     \* parallel_job_queue_capacity
    OutputErrors  \* how a write to stdout may fail: a broken pipe, any other error

\* Messages that are no result, and the variables that hold none yet.
Done == "done"
Matched == "matched"
Empty == "empty"

ASSUME ResultAssumption == Result \cap {Done, Matched, Empty} = {}
ASSUME KindAssumption == Kinds \subseteq [Result -> {"file", "other", "error"}]
ASSUME WorkerAssumption == Worker # {}
ASSUME CapacityAssumption == Capacity \in Nat \ {0}
ASSUME OutputAssumption == OutputErrors \subseteq {"pipe", "other"}

VARIABLES
    kind,           \* what build_from_result makes of each result
    quiet,
    quitAfterMatch, \* --quiet, and no statistics
    pending,        \* results no worker has taken
    pc,             \* where each worker is
    held,           \* the result it sends
    events,         \* channel from the workers to the producer
    runner,         \* the thread of walk.stream: "join", "exited"
    producer,       \* the producer's program counter
    event,          \* the result it received
    results,        \* channel from the producer to the main thread
    stop,
    errored,
    main,           \* the main thread: "receive", "print", "wait", "returned"
    matched,
    outputErr,      \* what the write that failed came to, or "none"
    path,           \* what it prints
    printed         \* stdout: the paths printed

walkVars == <<pending, pc, held>>
producerVars == <<producer, event, errored>>
mainVars == <<main, matched, outputErr, path, printed>>
inputs == <<kind, quiet, quitAfterMatch>>
vars == <<inputs, walkVars, events, runner, producerVars, results, stop, mainVars>>

Init ==
    /\ kind \in Kinds
    /\ quiet \in BOOLEAN /\ quitAfterMatch \in (IF quiet THEN BOOLEAN ELSE {FALSE})
    /\ pending = Result
    /\ pc = [w \in Worker |-> "check"]
    /\ held = [w \in Worker |-> Empty]
    /\ events = <<>> /\ results = <<>>
    /\ runner = "join"
    /\ producer = "receive" /\ event = Empty /\ errored = FALSE
    /\ stop = FALSE
    /\ main = "receive" /\ matched = FALSE /\ outputErr = "none" /\ path = Empty /\ printed = <<>>

\* A send blocks while the channel is full.
MaySend(channel) == Len(channel) < Capacity
-----------------------------------------------------------------------------
\* walk_stealing_stream_worker with WalkParallelStreamVisitor.visit.  The flag
\* is read at the head of the loop, before the send and after it.

Goto(w, place) == pc' = [pc EXCEPT ![w] = place]

CheckStop(w) ==
    /\ pc[w] \in {"check", "visit", "sent"}
    /\ Goto(w, IF stop THEN "exited" ELSE CASE pc[w] = "check" -> "take" [] pc[w] = "visit" -> "send" [] pc[w] = "sent" -> "check")
    /\ UNCHANGED <<inputs, pending, held, events, runner, producerVars, results, stop, mainVars>>

Take(w, r) ==
    /\ pc[w] = "take"
    /\ r \in pending
    /\ pending' = pending \ {r}
    /\ held' = [held EXCEPT ![w] = r]
    /\ Goto(w, "visit")
    /\ UNCHANGED <<inputs, events, runner, producerVars, results, stop, mainVars>>

Leave(w) ==
    /\ pc[w] = "take"
    /\ pending = {} \/ stop
    /\ Goto(w, "exited")
    /\ UNCHANGED <<inputs, pending, held, events, runner, producerVars, results, stop, mainVars>>

SendEvent(w) ==
    /\ pc[w] = "send"
    /\ MaySend(events)
    /\ events' = Append(events, held[w])
    /\ held' = [held EXCEPT ![w] = Empty]
    /\ Goto(w, "sent")
    /\ UNCHANGED <<inputs, pending, runner, producerVars, results, stop, mainVars>>

\* Mutant: the end is announced before the threads are joined.
JoinWorkersNone ==
    /\ runner = "join"
    /\ MaySend(events)
    /\ events' = Append(events, Done)
    /\ runner' = "exited"
    /\ UNCHANGED <<inputs, walkVars, producerVars, results, stop, mainVars>>

\* stream joins the workers and announces the end.
JoinWorkers ==
    /\ runner = "join"
    /\ \A w \in Worker : pc[w] = "exited"
    /\ MaySend(events)
    /\ events' = Append(events, Done)
    /\ runner' = "exited"
    /\ UNCHANGED <<inputs, walkVars, producerVars, results, stop, mainVars>>

-----------------------------------------------------------------------------
\* files_parallel_producer.

ReceiveEvent ==
    /\ producer = "receive"
    /\ events # <<>>
    /\ events' = Tail(events)
    /\ event' = Head(events)
    /\ producer' = IF Head(events) = Done THEN "join" ELSE "inspect"
    /\ UNCHANGED <<inputs, walkVars, runner, errored, results, stop, mainVars>>

\* Mutant: the producer stops receiving once the flag is set.
InspectBreaks ==
    /\ producer = "inspect"
    /\ producer' = IF stop THEN "join" ELSE "build"
    /\ UNCHANGED <<inputs, walkVars, events, runner, event, errored, results, stop, mainVars>>

\* What arrives after the flag was set is dropped, but received to the end.
Inspect ==
    /\ producer = "inspect"
    /\ producer' = IF stop THEN "receive" ELSE "build"
    /\ event' = IF stop THEN Empty ELSE event
    /\ UNCHANGED <<inputs, walkVars, events, runner, errored, results, stop, mainVars>>

Build ==
    /\ producer = "build"
    /\ errored' = (errored \/ kind[event] = "error")
    /\ producer' = IF kind[event] = "file" THEN "send" ELSE "receive"
    /\ event' = IF kind[event] = "file" THEN event ELSE Empty
    /\ UNCHANGED <<inputs, walkVars, events, runner, results, stop, mainVars>>

SendResult ==
    /\ producer = "send"
    /\ MaySend(results)
    /\ results' = Append(results, IF quitAfterMatch THEN Matched ELSE event)
    /\ producer' = IF quitAfterMatch THEN "quit" ELSE "receive"
    /\ event' = Empty
    /\ UNCHANGED <<inputs, walkVars, events, runner, errored, stop, mainVars>>

StoreStop ==
    /\ producer = "quit"
    /\ stop' = TRUE
    /\ producer' = "receive"
    /\ UNCHANGED <<inputs, walkVars, events, runner, event, errored, results, mainVars>>

SendDone ==
    /\ producer = "join"
    /\ runner = "exited"
    /\ MaySend(results)
    /\ results' = Append(results, Done)
    /\ producer' = "exited"
    /\ UNCHANGED <<inputs, walkVars, events, runner, event, errored, stop, mainVars>>

-----------------------------------------------------------------------------
\* files_parallel.

ReceiveDone ==
    /\ main = "receive"
    /\ results # <<>> /\ Head(results) = Done
    /\ results' = Tail(results)
    /\ main' = "wait"
    /\ UNCHANGED <<inputs, walkVars, events, runner, producerVars, stop, matched, outputErr, path, printed>>

\* Mutant: only a result with a path counts as a match.
ReceiveResultPathOnly ==
    /\ main = "receive"
    /\ results # <<>> /\ Head(results) # Done
    /\ results' = Tail(results)
    /\ path' = Head(results)
    /\ matched' = (matched \/ Head(results) # Matched)
    /\ main' = IF outputErr # "none" \/ Head(results) = Matched THEN "receive" ELSE "print"
    /\ UNCHANGED <<inputs, walkVars, events, runner, producerVars, stop, outputErr, printed>>

\* After a write that failed the channel is drained and nothing is printed.
ReceiveResult ==
    /\ main = "receive"
    /\ results # <<>> /\ Head(results) # Done
    /\ results' = Tail(results)
    /\ path' = IF outputErr # "none" \/ Head(results) = Matched THEN Empty ELSE Head(results)
    /\ matched' = TRUE
    /\ main' = IF outputErr # "none" \/ Head(results) = Matched THEN "receive" ELSE "print"
    /\ UNCHANGED <<inputs, walkVars, events, runner, producerVars, stop, outputErr, printed>>

PrintPath ==
    /\ main = "print"
    /\ \/ printed' = Append(printed, path) /\ UNCHANGED <<outputErr, stop>>
       \/ outputErr' \in OutputErrors /\ stop' = TRUE /\ UNCHANGED printed
    /\ path' = Empty
    /\ main' = "receive"
    /\ UNCHANGED <<inputs, walkVars, events, runner, producerVars, results, matched>>

JoinProducer ==
    /\ main = "wait"
    /\ producer = "exited"
    /\ main' = "returned"
    /\ UNCHANGED <<inputs, walkVars, events, runner, producerVars, results, stop, matched, outputErr, path, printed>>

\* run, of what files_parallel returned.
RunCode ==
    IF matched /\ (quiet \/ ~errored) THEN 0
    ELSE IF errored THEN 2
    ELSE 1

\* main: files_parallel returns an error of the output that is no broken pipe
\* instead, and run passes it on.
ExitCode == IF outputErr = "other" THEN 2 ELSE RunCode

WorkerStep(w) == CheckStop(w) \/ (\E r \in Result : Take(w, r)) \/ Leave(w) \/ SendEvent(w)
ProducerStep == ReceiveEvent \/ Inspect \/ Build \/ SendResult \/ StoreStop \/ SendDone
MainStep == ReceiveDone \/ ReceiveResult \/ PrintPath \/ JoinProducer

\* Not a step: a listing that returned stays so.
Terminated == main = "returned" /\ UNCHANGED vars

Next == (\E w \in Worker : WorkerStep(w)) \/ JoinWorkers \/ ProducerStep \/ MainStep \/ Terminated

\* Every thread that can run does so at some time.
Fairness ==
    /\ \A w \in Worker : WF_vars(WorkerStep(w))
    /\ WF_vars(JoinWorkers) /\ WF_vars(ProducerStep) /\ WF_vars(MainStep)

Spec == Init /\ [][Next]_vars /\ Fairness
-----------------------------------------------------------------------------
Items(s) == {s[k] : k \in 1 .. Len(s)}

Files == {r \in Result : kind[r] = "file"}

\* A path is printed once and only if it is that of a file; a listing nobody
\* stopped has them all, so nothing is in a channel when its end is announced
\* (the order of the join, the done message and the last results).
Listed ==
    /\ Items(printed) \subseteq Files
    /\ \A j, k \in 1 .. Len(printed) : printed[j] = printed[k] => j = k
    /\ main = "returned" /\ ~stop => Items(printed) = Files

\* The exit code is a function of the results, not of the schedule: also when
\* the listing is stopped, and errors are dropped, before they were met.  Only
\* a pipe that breaks may hide an error, or not (run, main, files_parallel).
ExitDue ==
    LET errors == \E r \in Result : kind[r] = "error"
    IN IF outputErr = "other" THEN {2}
       ELSE IF Files # {} /\ (quiet \/ ~errors) THEN {0}
       ELSE IF outputErr = "pipe" THEN {0, 2}
       ELSE IF errors THEN {2} ELSE {1}
ExitExact == main = "returned" => ExitCode \in ExitDue

\* The listing ends and so do all its threads, however full the channels are
\* when it is stopped.
Terminates == <>(main = "returned" /\ events = <<>> /\ results = <<>> /\ \A w \in Worker : pc[w] = "exited")
=============================================================================
