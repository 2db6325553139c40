--------------------------- MODULE SearchParallel ---------------------------
(***************************************************************************)
(* The parallel search of rg/main.v: search_parallel, its visitors, and    *)
(* the exit code run makes of it.  Every worker of the walk has a search   *)
(* worker with a buffer of its own; what they share is in                  *)
(* SearchParallelShared: three atomic flags, the statistics under one      *)
(* mutex, and the writer to stdout under another.                          *)
(*                                                                         *)
(* The walk is the one Traversal specifies and WorkStealing implements:    *)
(* here it is a set of results, each handed to some worker once.  A search *)
(* (LineSearch) is one step, whose outcome the file decides.  A block of   *)
(* output is written in two parts, for write_all_fd may need several       *)
(* writes.                                                                 *)
(***************************************************************************)
EXTENDS Integers, Sequences, FiniteSets

CONSTANTS
    Result,    \* what the walk delivers
    Verdicts,  \* functions from Result to Verdict
    Configs,   \* subset of Config
    Worker,
    NoWorker,
    Writes     \* what a write to stdout may come to: ok, epipe, error

Verdict == [kind : {"error", "skipped", "fails", "searched"}, hit : BOOLEAN, shows : BOOLEAN]
Config == [quiet : BOOLEAN, stats : BOOLEAN, separator : BOOLEAN, implicit : BOOLEAN]

ASSUME VerdictAssumption == Verdicts \subseteq [Result -> Verdict]
ASSUME ConfigAssumption == Configs \subseteq Config
ASSUME WorkerAssumption == NoWorker \notin Worker /\ Worker # {}
\* Every path rg is given is delivered, or the error it is.
ASSUME ResultAssumption == Result # {}
ASSUME WriteAssumption == Writes \subseteq {"ok", "epipe", "error"}

VARIABLES
    verdict, cfg,
    pending,   \* results the walk has not handed out
    pc,        \* where each worker is
    result,    \* what it was handed
    buffer,    \* results whose output is in its buffer
    seen,      \* the statistics as it read them
    stop,      \* quit_now of the walk
    matched, brokenPipe, errored, stats,
    searched,  \* whether a file was met
    statsLock, outputLock,
    out,       \* stdout: separators and parts of blocks
    printed,   \* BufferWriter.printed
    done,      \* search_parallel has returned
    \* History
    completed, \* results whose search succeeded
    failed,    \* results whose output could not be written
    late       \* successful searches each worker began after the end was due

sharedVars == <<stop, matched, brokenPipe, errored>>
statsVars == <<stats, statsLock, seen>>
outputVars == <<outputLock, out, printed, failed>>
vars == <<verdict, cfg, pending, pc, result, buffer, seen, stop, matched, brokenPipe, errored, stats,
          statsLock, outputLock, out, printed, searched, done, completed, failed, late>>

QuitAfterMatch == cfg.quiet /\ ~cfg.stats
MayEnd == brokenPipe \/ (matched /\ QuitAfterMatch)

\* What a search leaves in its buffer; --quiet prints nothing.
Output(r) == IF verdict[r].shows /\ ~cfg.quiet THEN <<r>> ELSE <<>>

Init ==
    /\ verdict \in Verdicts
    /\ cfg \in Configs
    /\ pending = Result
    /\ pc = [w \in Worker |-> "check"]
    /\ result = [w \in Worker |-> CHOOSE r \in Result : TRUE]
    /\ buffer = [w \in Worker |-> <<>>]
    /\ stats = [r \in Result |-> 0]
    /\ seen = [w \in Worker |-> [r \in Result |-> 0]]
    /\ stop = FALSE /\ matched = FALSE /\ brokenPipe = FALSE /\ errored = FALSE
    /\ statsLock = NoWorker /\ outputLock = NoWorker
    /\ out = <<>> /\ printed = FALSE
    /\ searched = FALSE /\ done = FALSE
    /\ completed = {} /\ failed = {}
    /\ late = [w \in Worker |-> 0]

Goto(w, place) == pc' = [pc EXCEPT ![w] = place]

-----------------------------------------------------------------------------
\* walk_stealing_visit_worker: its loop, and the walk behind it.

CheckStop(w) ==
    /\ pc[w] = "check"
    /\ Goto(w, IF stop THEN "exited" ELSE "take")
    /\ UNCHANGED <<verdict, cfg, pending, result, buffer, sharedVars, statsVars, outputVars, searched, done, completed, late>>

\* Mutant: the item a worker takes is left with the walk.
TakeKeeps(w, r) ==
    /\ pc[w] = "take"
    /\ r \in pending
    /\ pending' = pending
    /\ result' = [result EXCEPT ![w] = r]
    /\ Goto(w, "visit")
    /\ UNCHANGED <<verdict, cfg, buffer, sharedVars, statsVars, outputVars, searched, done, completed, late>>

Take(w, r) ==
    /\ pc[w] = "take"
    /\ r \in pending
    /\ pending' = pending \ {r}
    /\ result' = [result EXCEPT ![w] = r]
    /\ Goto(w, "visit")
    /\ UNCHANGED <<verdict, cfg, buffer, sharedVars, statsVars, outputVars, searched, done, completed, late>>

Leave(w) ==
    /\ pc[w] = "take"
    /\ pending = {} \/ stop
    /\ Goto(w, "exited")
    /\ UNCHANGED <<verdict, cfg, pending, result, buffer, sharedVars, statsVars, outputVars, searched, done, completed, late>>

StoreStop(w) ==
    /\ pc[w] = "quit"
    /\ stop' = TRUE
    /\ Goto(w, "exited")
    /\ UNCHANGED <<verdict, cfg, pending, result, buffer, matched, brokenPipe, errored, statsVars, outputVars, searched, done, completed, late>>

-----------------------------------------------------------------------------
\* SearchParallelVisitor.visit.

\* Mutant: the worker's buffer is not cleared.
BuildDirty(w) ==
    /\ pc[w] = "visit"
    /\ LET haystack == verdict[result[w]].kind \in {"fails", "searched"}
       IN /\ errored' = (errored \/ verdict[result[w]].kind = "error")
          /\ searched' = (searched \/ haystack)
          /\ Goto(w, IF haystack THEN "search" ELSE "check")
          /\ late' = IF verdict[result[w]].kind = "searched" /\ MayEnd THEN [late EXCEPT ![w] = @ + 1] ELSE late
    /\ UNCHANGED <<verdict, cfg, pending, result, buffer, stop, matched, brokenPipe, statsVars, outputVars, done, completed>>

\* Mutant: an error of the walk is shown and not remembered.
BuildForgiving(w) ==
    /\ pc[w] = "visit"
    /\ LET haystack == verdict[result[w]].kind \in {"fails", "searched"}
       IN /\ searched' = (searched \/ haystack)
          /\ Goto(w, IF haystack THEN "search" ELSE "check")
          /\ buffer' = IF haystack THEN [buffer EXCEPT ![w] = <<>>] ELSE buffer
          /\ late' = IF verdict[result[w]].kind = "searched" /\ MayEnd THEN [late EXCEPT ![w] = @ + 1] ELSE late
    /\ UNCHANGED <<verdict, cfg, pending, result, sharedVars, statsVars, outputVars, done, completed>>

\* build_from_result, which shows an error; a haystack is noted and searched
\* into an empty buffer.
Build(w) ==
    /\ pc[w] = "visit"
    /\ LET haystack == verdict[result[w]].kind \in {"fails", "searched"}
       IN /\ errored' = (errored \/ verdict[result[w]].kind = "error")
          /\ searched' = (searched \/ haystack)
          /\ Goto(w, IF haystack THEN "search" ELSE "check")
          /\ buffer' = IF haystack THEN [buffer EXCEPT ![w] = <<>>] ELSE buffer
          /\ late' = IF verdict[result[w]].kind = "searched" /\ MayEnd THEN [late EXCEPT ![w] = @ + 1] ELSE late
    /\ UNCHANGED <<verdict, cfg, pending, result, stop, matched, brokenPipe, statsVars, outputVars, done, completed>>

\* A search that fails may have left some output in the buffer.
Search(w) ==
    /\ pc[w] = "search"
    /\ LET fails == verdict[result[w]].kind = "fails"
       IN /\ errored' = (errored \/ fails)
          /\ completed' = IF fails THEN completed ELSE completed \cup {result[w]}
          /\ Goto(w, IF fails THEN "check" ELSE "match")
    /\ buffer' = [buffer EXCEPT ![w] = @ \o Output(result[w])]
    /\ UNCHANGED <<verdict, cfg, pending, result, stop, matched, brokenPipe, statsVars, outputVars, searched, done, late>>

StoreMatch(w) ==
    /\ pc[w] = "match"
    /\ matched' = (matched \/ verdict[result[w]].hit)
    /\ Goto(w, IF cfg.stats THEN "stats" ELSE "output")
    /\ UNCHANGED <<verdict, cfg, pending, result, buffer, stop, brokenPipe, errored, statsVars, outputVars, searched, done, completed, late>>

\* Mutant: the statistics are read before their lock is taken.
LockStatsLate(w) ==
    /\ pc[w] = "stats"
    /\ statsLock' = w
    /\ seen' = [seen EXCEPT ![w] = stats]
    /\ Goto(w, "add")
    /\ UNCHANGED <<verdict, cfg, pending, result, buffer, sharedVars, stats, outputVars, searched, done, completed, late>>

LockStats(w) ==
    /\ pc[w] = "stats"
    /\ statsLock = NoWorker
    /\ statsLock' = w
    /\ seen' = [seen EXCEPT ![w] = stats]
    /\ Goto(w, "add")
    /\ UNCHANGED <<verdict, cfg, pending, result, buffer, sharedVars, stats, outputVars, searched, done, completed, late>>

AddStats(w) ==
    /\ pc[w] = "add"
    /\ stats' = [seen[w] EXCEPT ![result[w]] = @ + 1]
    /\ statsLock' = NoWorker
    /\ Goto(w, "output")
    /\ UNCHANGED <<verdict, cfg, pending, result, buffer, sharedVars, seen, outputVars, searched, done, completed, late>>
-----------------------------------------------------------------------------
\* BufferWriter.print, under output_lock.

\* Where print begins, for a buffer that holds blocks.
PrintFrom(blocks) ==
    IF blocks = <<>> THEN "unlock" ELSE IF printed /\ cfg.separator THEN "separator" ELSE "head"

LockOutput(w) ==
    /\ pc[w] = "output"
    /\ outputLock = NoWorker
    /\ outputLock' = w
    /\ Goto(w, PrintFrom(buffer[w]))
    /\ UNCHANGED <<verdict, cfg, pending, result, buffer, sharedVars, statsVars, out, printed, failed, searched, done, completed, late>>

\* A pipe that is broken stays so.
Outcomes == IF brokenPipe THEN {"epipe"} ELSE Writes

\* Worker w writes: `chunks` get to stdout and it goes on at `next`, or the
\* write fails and print returns.
Write(w, outcome, chunks, next) ==
    /\ IF outcome = "ok"
       THEN /\ out' = out \o chunks
            /\ Goto(w, next)
            /\ UNCHANGED <<brokenPipe, errored, failed>>
       ELSE /\ brokenPipe' = (brokenPipe \/ outcome = "epipe")
            /\ errored' = (errored \/ outcome = "error")
            /\ failed' = failed \cup {result[w]}
            /\ Goto(w, "unlock")
            /\ UNCHANGED out
    /\ UNCHANGED <<verdict, cfg, pending, result, buffer, stop, matched, statsVars, outputLock, searched, done, completed, late>>

Blocks(w, part) == [k \in 1 .. Len(buffer[w]) |-> <<part, buffer[w][k]>>]

WriteSeparator(w) ==
    /\ pc[w] = "separator"
    /\ \E outcome \in Outcomes : Write(w, outcome, <<<<"separator">>>>, "head")
    /\ UNCHANGED printed

WriteHead(w) ==
    /\ pc[w] = "head"
    /\ \E outcome \in Outcomes : Write(w, outcome, Blocks(w, "head"), "tail")
    /\ UNCHANGED printed

\* Mutant: the writer does not remember that it printed.
WriteTailForgets(w) ==
    /\ pc[w] = "tail"
    /\ \E outcome \in Outcomes : Write(w, outcome, Blocks(w, "tail"), "unlock")
    /\ UNCHANGED printed

WriteTail(w) ==
    /\ pc[w] = "tail"
    /\ \E outcome \in Outcomes :
        /\ Write(w, outcome, Blocks(w, "tail"), "unlock")
        /\ printed' = (printed \/ outcome = "ok")

\* Mutant: the lock is not released.
UnlockEarly(w) ==
    /\ pc[w] = "unlock"
    /\ outputLock' = outputLock
    /\ Goto(w, "answer")
    /\ UNCHANGED <<verdict, cfg, pending, result, buffer, sharedVars, statsVars, out, printed, failed, searched, done, completed, late>>

Unlock(w) ==
    /\ pc[w] = "unlock"
    /\ outputLock' = NoWorker
    /\ Goto(w, "answer")
    /\ UNCHANGED <<verdict, cfg, pending, result, buffer, sharedVars, statsVars, out, printed, failed, searched, done, completed, late>>

\* Mutant: only the visitor's own result makes it quit.
AnswerOwn(w) ==
    /\ pc[w] = "answer"
    /\ Goto(w, IF brokenPipe \/ (verdict[result[w]].hit /\ QuitAfterMatch) THEN "quit" ELSE "check")
    /\ UNCHANGED <<verdict, cfg, pending, result, buffer, sharedVars, statsVars, outputVars, searched, done, completed, late>>

Answer(w) ==
    /\ pc[w] = "answer"
    /\ Goto(w, IF MayEnd THEN "quit" ELSE "check")
    /\ UNCHANGED <<verdict, cfg, pending, result, buffer, sharedVars, statsVars, outputVars, searched, done, completed, late>>

-----------------------------------------------------------------------------
\* The workers are joined.  If no path was given and no file met, the user is
\* told so, which counts as an error (eprint_nothing_searched).  Then the
\* statistics are printed; should that fail after some chunks, the error is
\* ignored.
Return ==
    /\ ~done
    /\ \A w \in Worker : pc[w] = "exited"
    /\ done' = TRUE
    /\ errored' = (errored \/ (cfg.implicit /\ ~searched))
    /\ LET separator == IF printed /\ cfg.separator THEN <<<<"separator">>>> ELSE <<>>
           chunks == IF cfg.stats /\ ~brokenPipe THEN separator \o <<<<"stats">>>> ELSE <<>>
       IN \E n \in 0 .. Len(chunks) : out' = out \o SubSeq(chunks, 1, n)
    /\ UNCHANGED <<verdict, cfg, pending, pc, result, buffer, stop, matched, brokenPipe, statsVars, outputLock, printed, failed,
                   searched, completed, late>>

\* run, of what search_parallel returned.
ExitCode ==
    IF matched /\ (cfg.quiet \/ ~errored) THEN 0
    ELSE IF errored THEN 2
    ELSE 1

WorkerStep(w) ==
    \/ CheckStop(w) \/ (\E r \in Result : Take(w, r)) \/ Leave(w) \/ StoreStop(w)
    \/ Build(w) \/ Search(w) \/ StoreMatch(w) \/ LockStats(w) \/ AddStats(w)
    \/ LockOutput(w) \/ WriteSeparator(w) \/ WriteHead(w) \/ WriteTail(w) \/ Unlock(w) \/ Answer(w)

\* Not a step: a search that returned stays so.
Terminated == done /\ UNCHANGED vars

Next == (\E w \in Worker : WorkerStep(w)) \/ Return \/ Terminated

Spec == Init /\ [][Next]_vars

\* Threads are scheduled fairly, and a mutex that is released again and again
\* is got at some time.
Fairness ==
    /\ \A w \in Worker : WF_vars(WorkerStep(w)) /\ SF_vars(LockStats(w)) /\ SF_vars(LockOutput(w))
    /\ WF_vars(Return)

FairSpec == Spec /\ Fairness

-----------------------------------------------------------------------------
TypeOK ==
    /\ verdict \in Verdicts /\ cfg \in Configs
    /\ pending \subseteq Result
    /\ pc \in [Worker -> {"check", "take", "visit", "search", "match", "stats", "add", "output", "separator",
                          "head", "tail", "unlock", "answer", "quit", "exited"}]
    /\ result \in [Worker -> Result]
    /\ \A w \in Worker : buffer[w] \in {<<>>, <<result[w]>>} \/ pc[w] \in {"check", "take", "visit", "exited"}
    /\ stats \in [Result -> 0 .. 1]
    /\ seen \in [Worker -> [Result -> 0 .. 1]]
    /\ {stop, matched, brokenPipe, errored, printed, searched, done} \subseteq BOOLEAN
    /\ statsLock \in Worker \cup {NoWorker} /\ outputLock \in Worker \cup {NoWorker}
    /\ completed \subseteq Result /\ failed \subseteq completed
    /\ late \in [Worker -> Nat]

Shown(r) == \E k \in 1 .. Len(out) : out[k] = <<"tail", r>>
Due(r) == verdict[r].kind = "searched" /\ verdict[r].shows /\ ~cfg.quiet

\* Output of two files never mixes, whatever threads write at the same time,
\* and separators are exactly where two blocks meet, unless a write failed
\* (output_lock, BufferWriter.print).
BlocksWhole ==
    failed = {} =>
        \A k \in 1 .. Len(out) :
            /\ out[k][1] = "head" /\ k < Len(out) => out[k + 1] = <<"tail", out[k][2]>>
            /\ out[k][1] = "tail" => k > 1 /\ out[k - 1] = <<"head", out[k][2]>>
            /\ out[k][1] = "separator" => k > 1 /\ out[k - 1][1] = "tail"
            /\ out[k][1] \in {"head", "stats"} /\ k > 1 => out[k - 1][1] = IF cfg.separator THEN "separator" ELSE "tail"

\* The output of a search is printed at most once, and that of a search that
\* failed never, although its worker's buffer is used again (Buffer.clear).
ShownOnce ==
    /\ \A r \in Result : Shown(r) => Due(r) /\ r \in completed \ failed
    /\ \A j, k \in 1 .. Len(out) : (out[j] = out[k] /\ out[j][1] \in {"head", "tail"}) => j = k

\* A search that no match and no broken pipe ended has shown every file.
AllShown == (done /\ ~stop) => \A r \in Result : (Due(r) /\ r \notin failed) => Shown(r)

\* What is due is printed, whole files only (SearchParallelVisitor.visit).
ShownExact == ShownOnce /\ AllShown

\* The statistics are the sum over the searches, whichever threads added
\* theirs at the same time (stats_lock).
StatsExact ==
    (done /\ cfg.stats) => \A r \in Result : stats[r] = IF r \in completed THEN 1 ELSE 0

\* The exit code is a function of the files, not of the schedule: also when a
\* match ends the search before every error was met, and when there was no
\* file to search (run, quit_after_match, eprint_nothing_searched).
ExitCodeDue ==
    LET Of(kinds) == {r \in Result : verdict[r].kind \in kinds}
        hits == \E r \in Of({"searched"}) : verdict[r].hit
        errors == Of({"error", "fails"}) # {}
        nothing == cfg.implicit /\ Of({"fails", "searched"}) = {}
    IN IF hits /\ (cfg.quiet \/ ~errors) THEN 0 ELSE IF errors \/ nothing THEN 2 ELSE 1
ExitExact == (done /\ failed = {}) => ExitCode = ExitCodeDue

\* Once the search may end, every worker begins at most one more search that
\* succeeds (the answer of visit).  One that fails does not look at the flags:
\* of those there may be any number until another worker answers.
AtMostOneLate == \A w \in Worker : late[w] <= 1

\* The search returns, whatever the workers contend for.
Terminates == <>done
=============================================================================
