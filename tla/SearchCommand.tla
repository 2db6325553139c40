--------------------------- MODULE SearchCommand ---------------------------
(***************************************************************************)
(* Searching the output of an external command: search_preprocessor and    *)
(* search_decompress of core/search.v over the CommandReader of            *)
(* cli/process.v.  A worker opens two pipes, forks, and reads stdout by    *)
(* polling; a thread of its own drains stderr; when the search ends, with  *)
(* or without having read everything, the reader is closed: its end of     *)
(* stdout goes, the child is waited for, and its status and what it said   *)
(* on stderr decide whether the result stands.                             *)
(*                                                                         *)
(* Each worker runs one command.  Pipes, fork, polling and waitpid are     *)
(* those of the operating system, met through the os module: a child       *)
(* holds a copy of every descriptor rg held when it was forked, and closes *)
(* those of its own reader only.  Ends of pipes nobody's progress depends  *)
(* on (stdin, the write end of stdout, the read end of stderr) are left    *)
(* out.  SIGPIPE is ignored by rg and so by its children: writing to a     *)
(* pipe without a reader is an error that the child sees.                  *)
(***************************************************************************)
EXTENDS Integers, Sequences, FiniteSets

CONSTANTS
    Worker,
    Rg,        \* the process itself, among the holders of a descriptor
    Case,      \* the commands and searches a worker may be given
    PipeSize   \* chunks a pipe holds

Holder == Worker \cup {Rg}

\* What a child writes, in order: chunks of output, text to stderr, and text
\* there that names a broken pipe.
Written == {"output", "text", "pipe"}

\* script, code: what the child writes, and how it exits.  A search ends after
\* `after` chunks, because of a match or an error, unless it ends at "eof".
IsCase(c) ==
    /\ c.via \in {"preprocessor", "decompressor"}
    /\ c.script \in Seq(Written) /\ c.code \in {0, 1}
    /\ c.after \in Nat /\ c.end \in {"eof", "match", "error", "epipe"}

ASSUME RgAssumption == Rg \notin Worker
ASSUME CaseAssumption == \A c \in Case : IsCase(c)
ASSUME PipeAssumption == PipeSize \in Nat \ {0}

VARIABLES
    case,
    pc,        \* where each worker is
    child,     \* none, running, zombie, reaped
    rest,      \* what the child has still to write
    code,      \* its exit status
    stdout, stderr,             \* contents of the pipes
    readers,   \* holders of the read end of stdout
    writers,   \* holders of the write end of stderr
    drain,     \* the thread on stderr: off, reading, sent
    heard,     \* what it read
    got,       \* chunks the search was given
    eof,       \* CommandReader.eof
    found,     \* how the search ended: open, result, error, epipe
    outcome,   \* what search_preprocessor or search_decompress returns
    \* History
    wrote,     \* chunks of output the child wrote
    said       \* what it wrote to stderr

childVars == <<child, rest, code, wrote, said>>
pipeVars == <<stdout, stderr, readers, writers, drain, heard>>
searchVars == <<got, eof, found, outcome>>
vars == <<case, pc, childVars, pipeVars, searchVars>>

Init ==
    /\ case \in [Worker -> Case]
    /\ pc = [w \in Worker |-> "open"]
    /\ child = [w \in Worker |-> "none"]
    /\ rest = [w \in Worker |-> case[w].script]
    /\ code = [w \in Worker |-> case[w].code]
    /\ stdout = [w \in Worker |-> <<>>] /\ stderr = [w \in Worker |-> <<>>]
    /\ readers = [w \in Worker |-> {}] /\ writers = [w \in Worker |-> {}]
    /\ drain = [w \in Worker |-> "off"]
    /\ heard = [w \in Worker |-> <<>>]
    /\ got = [w \in Worker |-> <<>>]
    /\ eof = [w \in Worker |-> FALSE]
    /\ found = [w \in Worker |-> "open"]
    /\ outcome = [w \in Worker |-> "open"]
    /\ wrote = [w \in Worker |-> 0]
    /\ said = [w \in Worker |-> <<>>]

Goto(w, place) == pc' = [pc EXCEPT ![w] = place]

\* A command that cannot be started: for a preprocessor that is an error, a
\* decompressor is replaced by the file as it is.
NotStarted(w) == IF case[w].via = "preprocessor" THEN "failed" ELSE "raw"

-----------------------------------------------------------------------------
\* CommandReaderBuilder.build.

OpenPipes(w) ==
    /\ pc[w] = "open"
    /\ readers' = [readers EXCEPT ![w] = {Rg}]
    /\ writers' = [writers EXCEPT ![w] = {Rg}]
    /\ Goto(w, "fork")
    /\ UNCHANGED <<case, childVars, stdout, stderr, drain, heard, searchVars>>

\* Opening stdin or a pipe, finding the program or forking fails, and what was
\* opened is closed.
StartFails(w) ==
    /\ pc[w] \in {"open", "fork"}
    /\ readers' = [readers EXCEPT ![w] = {}]
    /\ writers' = [writers EXCEPT ![w] = {}]
    /\ outcome' = [outcome EXCEPT ![w] = NotStarted(w)]
    /\ Goto(w, "done")
    /\ UNCHANGED <<case, childVars, stdout, stderr, drain, heard, got, eof, found>>

\* The child keeps what rg held for other workers; of its own pipes it keeps
\* the ends it writes to.
Inherit(w, held) == [v \in Worker |-> IF v # w /\ Rg \in held[v] THEN held[v] \cup {w} ELSE held[v]]

Fork(w) ==
    /\ pc[w] = "fork"
    /\ child' = [child EXCEPT ![w] = "running"]
    /\ readers' = Inherit(w, readers)
    /\ writers' = [Inherit(w, writers) EXCEPT ![w] = @ \cup {w}]
    /\ Goto(w, "parent")
    /\ UNCHANGED <<case, rest, code, wrote, said, stdout, stderr, drain, heard, searchVars>>

\* Mutant: the parent keeps its copy of the end the child writes to.
StartDrainOpen(w) ==
    /\ pc[w] = "parent"
    /\ drain' = [drain EXCEPT ![w] = "reading"]
    /\ Goto(w, "search")
    /\ UNCHANGED <<case, childVars, stdout, stderr, readers, writers, heard, searchVars>>

\* The parent closes the ends it does not use and spawns stderr_drain_fd.
StartDrain(w) ==
    /\ pc[w] = "parent"
    /\ writers' = [writers EXCEPT ![w] = @ \ {Rg}]
    /\ drain' = [drain EXCEPT ![w] = "reading"]
    /\ Goto(w, "search")
    /\ UNCHANGED <<case, childVars, stdout, stderr, readers, heard, searchVars>>

-----------------------------------------------------------------------------
\* The child.

WriteOutput(w) ==
    /\ child[w] = "running" /\ rest[w] # <<>> /\ Head(rest[w]) = "output"
    /\ readers[w] # {} /\ Len(stdout[w]) < PipeSize
    /\ stdout' = [stdout EXCEPT ![w] = Append(@, wrote[w] + 1)]
    /\ wrote' = [wrote EXCEPT ![w] = @ + 1]
    /\ rest' = [rest EXCEPT ![w] = Tail(@)]
    /\ UNCHANGED <<case, pc, child, code, said, stderr, readers, writers, drain, heard, searchVars>>

\* Nobody reads any more: a well-behaved child fails, and may say why.
WriteFails(w) ==
    /\ child[w] = "running" /\ rest[w] # <<>> /\ Head(rest[w]) = "output"
    /\ readers[w] = {}
    /\ rest' \in {[rest EXCEPT ![w] = last] : last \in {<<>>, <<"text">>, <<"pipe">>}}
    /\ code' = [code EXCEPT ![w] = 1]
    /\ UNCHANGED <<case, pc, child, wrote, said, pipeVars, searchVars>>

WriteStderr(w) ==
    /\ child[w] = "running" /\ rest[w] # <<>> /\ Head(rest[w]) # "output"
    /\ Len(stderr[w]) < PipeSize
    /\ stderr' = [stderr EXCEPT ![w] = Append(@, Head(rest[w]))]
    /\ said' = [said EXCEPT ![w] = Append(@, Head(rest[w]))]
    /\ rest' = [rest EXCEPT ![w] = Tail(@)]
    /\ UNCHANGED <<case, pc, child, code, wrote, stdout, readers, writers, drain, heard, searchVars>>

\* Its descriptors are closed, those it inherited too.
Exit(w) ==
    /\ child[w] = "running" /\ rest[w] = <<>>
    /\ child' = [child EXCEPT ![w] = "zombie"]
    /\ readers' = [v \in Worker |-> readers[v] \ {w}]
    /\ writers' = [v \in Worker |-> writers[v] \ {w}]
    /\ UNCHANGED <<case, pc, rest, code, wrote, said, stdout, stderr, drain, heard, searchVars>>

-----------------------------------------------------------------------------
\* stderr_drain_fd.

\* Mutant: stderr is read when the child is known to have ended.
DrainLate(w) ==
    /\ drain[w] = "reading" /\ stderr[w] # <<>> /\ child[w] = "reaped"
    /\ heard' = [heard EXCEPT ![w] = Append(@, Head(stderr[w]))]
    /\ stderr' = [stderr EXCEPT ![w] = Tail(@)]
    /\ UNCHANGED <<case, pc, childVars, stdout, readers, writers, drain, searchVars>>

Drain(w) ==
    /\ drain[w] = "reading" /\ stderr[w] # <<>>
    /\ heard' = [heard EXCEPT ![w] = Append(@, Head(stderr[w]))]
    /\ stderr' = [stderr EXCEPT ![w] = Tail(@)]
    /\ UNCHANGED <<case, pc, childVars, stdout, readers, writers, drain, searchVars>>

\* The end of the pipe; the channel has room for the one message.
DrainEnds(w) ==
    /\ drain[w] = "reading" /\ stderr[w] = <<>> /\ writers[w] = {}
    /\ drain' = [drain EXCEPT ![w] = "sent"]
    /\ UNCHANGED <<case, pc, childVars, stdout, stderr, readers, writers, heard, searchVars>>

-----------------------------------------------------------------------------
\* The search, over CommandReader.read_for_search.

Ended(w, how) ==
    /\ found' = [found EXCEPT ![w] = how]
    /\ Goto(w, "close")

\* The searcher asks for more, or has seen enough.
Search(w) ==
    /\ pc[w] = "search"
    /\ IF case[w].end # "eof" /\ Len(got[w]) >= case[w].after
       THEN Ended(w, IF case[w].end = "match" THEN "result" ELSE case[w].end)
       ELSE Goto(w, "read") /\ UNCHANGED found
    /\ UNCHANGED <<case, childVars, pipeVars, got, eof, outcome>>

\* pipe_read, which does not block, gives the searcher a chunk.
Receive(w) ==
    /\ got' = [got EXCEPT ![w] = Append(@, Head(stdout[w]))]
    /\ stdout' = [stdout EXCEPT ![w] = Tail(@)]
    /\ Goto(w, "search")

Read(w) ==
    /\ pc[w] = "read"
    /\ IF stdout[w] # <<>> THEN Receive(w) ELSE Goto(w, "poll") /\ UNCHANGED <<got, stdout>>
    /\ UNCHANGED <<case, childVars, stderr, readers, writers, drain, heard, eof, found, outcome>>

\* is_alive, which reaps a child that has ended.
Poll(w) ==
    /\ pc[w] = "poll"
    /\ IF child[w] = "running"
       THEN Goto(w, "read") /\ UNCHANGED child
       ELSE Goto(w, "last") /\ child' = [child EXCEPT ![w] = "reaped"]
    /\ UNCHANGED <<case, rest, code, wrote, said, pipeVars, searchVars>>

\* Mutant: that the child ended is taken for the end of its output.
LastReadSkipped(w) ==
    /\ pc[w] = "last"
    /\ eof' = [eof EXCEPT ![w] = TRUE]
    /\ Ended(w, "result")
    /\ UNCHANGED <<case, childVars, pipeVars, got, outcome>>

\* The second read, of what the child wrote after the first.
LastRead(w) ==
    /\ pc[w] = "last"
    /\ IF stdout[w] # <<>>
       THEN Receive(w) /\ UNCHANGED <<eof, found>>
       ELSE /\ eof' = [eof EXCEPT ![w] = TRUE]
            /\ Ended(w, "result")
            /\ UNCHANGED <<got, stdout>>
    /\ UNCHANGED <<case, childVars, stderr, readers, writers, drain, heard, outcome>>

-----------------------------------------------------------------------------
\* CommandReader.close, and what its caller makes of it.

\* Mutant: the error of a search is returned at once.
CloseStdoutNotAfterError(w) ==
    /\ pc[w] = "close"
    /\ IF found[w] = "result"
       THEN /\ readers' = [readers EXCEPT ![w] = @ \ {Rg}]
            /\ Goto(w, "wait")
            /\ UNCHANGED outcome
       ELSE /\ outcome' = [outcome EXCEPT ![w] = IF found[w] = "epipe" THEN "epipe" ELSE "failed"]
            /\ Goto(w, "done")
            /\ UNCHANGED readers
    /\ UNCHANGED <<case, childVars, stdout, stderr, writers, drain, heard, got, eof, found>>

CloseStdout(w) ==
    /\ pc[w] = "close"
    /\ readers' = [readers EXCEPT ![w] = @ \ {Rg}]
    /\ Goto(w, "wait")
    /\ UNCHANGED <<case, childVars, stdout, stderr, writers, drain, heard, searchVars>>

Wait(w) ==
    /\ pc[w] = "wait" /\ child[w] # "running"
    /\ child' = [child EXCEPT ![w] = "reaped"]
    /\ Goto(w, "stderr")
    /\ UNCHANGED <<case, rest, code, wrote, said, pipeVars, searchVars>>

Says(texts, what) == \E k \in 1 .. Len(texts) : texts[k] = what

\* The error of close: none for a child that succeeded, nor for one that was
\* cut short and said nothing.
CloseError(w) ==
    IF code[w] = 0 \/ (~eof[w] /\ heard[w] = <<>>) THEN "none"
    ELSE IF Says(heard[w], "pipe") THEN "epipe"
    ELSE "failed"

\* The error of the search comes first, and a broken pipe under close is what
\* ending a search early makes.
Outcome(w) ==
    IF found[w] # "result" THEN (IF found[w] = "epipe" THEN "epipe" ELSE "failed")
    ELSE IF CloseError(w) = "failed" THEN "failed"
    ELSE "result"

\* Mutant: what the thread has read so far is taken.
FinishStderrEarly(w) ==
    /\ pc[w] = "stderr"
    /\ outcome' = [outcome EXCEPT ![w] = Outcome(w)]
    /\ Goto(w, "done")
    /\ UNCHANGED <<case, childVars, pipeVars, got, eof, found>>

\* finish_stderr, on either way out of close.
FinishStderr(w) ==
    /\ pc[w] = "stderr" /\ drain[w] = "sent"
    /\ outcome' = [outcome EXCEPT ![w] = Outcome(w)]
    /\ Goto(w, "done")
    /\ UNCHANGED <<case, childVars, pipeVars, got, eof, found>>

-----------------------------------------------------------------------------
WorkerStep(w) ==
    \/ OpenPipes(w) \/ StartFails(w) \/ Fork(w) \/ StartDrain(w)
    \/ Search(w) \/ Read(w) \/ Poll(w) \/ LastRead(w)
    \/ CloseStdout(w) \/ Wait(w) \/ FinishStderr(w)
ChildStep(w) == WriteOutput(w) \/ WriteFails(w) \/ WriteStderr(w) \/ Exit(w)
DrainStep(w) == Drain(w) \/ DrainEnds(w)

\* Not a step: searches that ended stay so.
Terminated == (\A w \in Worker : pc[w] = "done") /\ UNCHANGED vars

Next == (\E w \in Worker : WorkerStep(w) \/ ChildStep(w) \/ DrainStep(w)) \/ Terminated

Spec == Init /\ [][Next]_vars

\* Threads and processes are scheduled fairly; a child goes on while it can.
Fairness == \A w \in Worker : WF_vars(WorkerStep(w)) /\ WF_vars(ChildStep(w)) /\ WF_vars(DrainStep(w))
FairSpec == Spec /\ Fairness

-----------------------------------------------------------------------------
\* Besides the types: rg holds the ends of a worker's pipes from opening them
\* until they are closed, stderr's no longer than until the thread runs.
TypeOK ==
    /\ case \in [Worker -> Case]
    /\ pc \in [Worker -> {"open", "fork", "parent", "search", "read", "poll", "last", "close", "wait", "stderr", "done"}]
    /\ child \in [Worker -> {"none", "running", "zombie", "reaped"}]
    /\ rest \in [Worker -> Seq(Written)]
    /\ code \in [Worker -> {0, 1}]
    /\ stdout \in [Worker -> Seq(Nat)] /\ stderr \in [Worker -> Seq(Written)]
    /\ readers \in [Worker -> SUBSET Holder] /\ writers \in [Worker -> SUBSET Holder]
    /\ drain \in [Worker -> {"off", "reading", "sent"}]
    /\ heard \in [Worker -> Seq(Written)] /\ said \in [Worker -> Seq(Written)]
    /\ got \in [Worker -> Seq(Nat)]
    /\ eof \in [Worker -> BOOLEAN]
    /\ found \in [Worker -> {"open", "result", "error", "epipe"}]
    /\ outcome \in [Worker -> {"open", "result", "raw", "failed", "epipe"}]
    /\ wrote \in [Worker -> Nat]
    /\ \A w \in Worker :
        /\ Rg \in readers[w] <=> pc[w] \in {"fork", "parent", "search", "read", "poll", "last", "close"}
        /\ Rg \in writers[w] <=> pc[w] \in {"fork", "parent"}
        /\ Len(stdout[w]) <= PipeSize /\ Len(stderr[w]) <= PipeSize

\* A search sees the output of its command in order, and when it is told that
\* it ended all of it: also what was written between an empty read and the end
\* of the child (the second pipe_read of read_impl).
OutputWhole ==
    \A w \in Worker :
        /\ \A k \in 1 .. Len(got[w]) : got[w][k] = k
        /\ eof[w] => Len(got[w]) = wrote[w] /\ child[w] = "reaped"

\* Whatever failed, and whoever was first, one outcome is returned: the error
\* of the search if it failed, otherwise that of a child that failed and said
\* so, or failed after all of its output was read.  Everything the child said
\* counts (search_preprocessor, CommandReader.close, finish_stderr).
Blamed(w) == code[w] # 0 /\ (eof[w] \/ said[w] # <<>>) /\ ~Says(said[w], "pipe")
OutcomeExact ==
    \A w \in Worker :
        pc[w] = "done" /\ child[w] # "none" =>
            outcome[w] = CASE found[w] = "epipe" -> "epipe"
                           [] found[w] = "error" \/ (found[w] = "result" /\ Blamed(w)) -> "failed"
                           [] OTHER -> "result"

\* No search leaves a child, a descriptor or a thread behind, however it
\* ended (search_preprocessor closes on every path).
NothingLeft ==
    \A w \in Worker :
        pc[w] = "done" => /\ child[w] \in {"none", "reaped"}
                          /\ drain[w] = "sent" \/ child[w] = "none"
                          /\ Rg \notin readers[w] \cup writers[w]

\* A search of a command ends, however much the child says on stderr and
\* however early the search has seen enough, while no other search ends early
\* too (the thread of stderr_drain_fd; close_stdout before wait).
Finishes == \A w \in Worker : <>(pc[w] = "done")

\* Closing the read end of stdout makes the child end, as CommandReader.close
\* says of a well-behaved one.
ClosingEndsChild == \A w \in Worker : (pc[w] = "wait") ~> (child[w] # "running")
=============================================================================
