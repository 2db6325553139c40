# ripgrep.v in TLA+

Specifications of ripgrep.v, the V translation of ripgrep: what its threads, its
searcher and its buffers do, step by step as the code does it, what they
promise, model checking of both on small instances, and proofs for instances of
any size. `PROJECT.json` lists the components, the runs, which lines every
definition stands for (`map`), one mutated definition per checked property
(`mutants`: a plausible bug that the run finds), the hazards and the theorems.

    tlc -workers 2 -config WSDeep.cfg MCWorkStealing     # a run
    tlapm LineBuffer_proofs.tla                          # a proof

## 1. The system

`rg` turns flags into a mode (`rg/main.v`, `run`), walks directories
(`ignore/walk.v`) under ignore rules (`ignore/dir.v`), hands every searchable
entry (`core/haystack.v`) to a search worker (`core/search.v`), whose searcher
(`searcher/`) reads the file through a line buffer, asks the matcher (`regex/`,
`pcre2/`) for matches, and calls a sink (`printer/`) with matching lines and
their context. With several threads the walk's workers each own a search worker
and share the writer to stdout (`cli/wtr.v`).

| Component | State it keeps | Operations | Talks to | What is hard | What makes it correct |
|---|---|---|---|---|---|
| Parallel walk, `ignore/walk.v` | a queue per worker, `active_workers`, `quit_now` | prepare and deal roots, take, steal, run one, push children, retire, quit | visitors (callbacks), file system | interleaving of thieves, two locks per steal, termination by a counter, quitting | each entry handled once and exactly as due; nothing abandoned; it ends; quitting is prompt |
| Serial walk, `ignore/walk.v` | results that are ready, a stack of directory frames, an index into the roots | next, descend, skip, sort children | `Ignore`, file system | errors in the place of an entry or beside it, links that loop, limits of depth | each entry once and as due, in depth-first order, and it ends |
| Ignore rules, `ignore/dir.v`, `gitignore.v`, `overrides.v`, `types.v` | a chain of nodes up to the root, compiled matchers, a cache of parents | add child, add parents, matched | globs | precedence, `saw_git`, relative and absolute parents | the nearest and latest rule decides |
| Globs, `globset/` | none (compiled sets) | parse, build, match | regex | syntax corners | the strategies agree with the regular expression |
| Line buffer, `searcher/line_buffer.v` | bytes, `pos`, `last_lineterm`, `end`, absolute and binary offset | fill, consume, roll, grow, clear | a reader | short reads, partial consumption, limit, binary bytes, reuse | callers see each byte once, in whole lines, at its offset |
| Line oriented search, `searcher/lib.v` (`Core`), `glue.v` (`ReadByLine`, `SliceByLine`) | positions in a buffer, context and match counters, line counter | slow and fast match by line, before/after/other context, roll, begin, finish | line buffer, matcher, sink | two paths that must agree, positions across rolls, limits, sinks that stop | the sink gets the lines, kinds, offsets and breaks of the file, whatever the buffer |
| Multi line search, `glue.v` (`MultiLine`) | the match held back, the position | find, advance, sink | `Core` | adjacent matches, empty matches, matches that end in the middle of a line, the last one held back | the lines of all matches, joined where they touch, once each |
| Searcher entry points | buffers, a decoder | search path, file, reader, slice | all strategies | memory maps, byte order marks, transcoding | same result by every strategy |
| Search worker, `core/search.v` | printer, searcher, matcher | search a haystack, preprocess, decompress | searcher, commands | which of two errors wins | the child is reaped, one error reported |
| External commands, `cli/process.v`, `decompress.v` | a child, its pipes, a thread on stderr, buffered output | read, close | operating system | polling a child that ends, two pipes, descriptors other children inherit | no output lost, errors of the child told, the child reaped |
| Parallel search, `rg/main.v` | `matched`, `output_broken_pipe`, `errored`, statistics and output locks | visit, print, answer | walk, search worker, `BufferWriter` | output of several threads, errors in the middle, early end | blocks do not mix; exit code and statistics do not depend on the schedule |
| Parallel listing, `rg/main.v`, `walk.v` (`stream`) | two bounded channels, a stop flag | send event, build, send path, print | walk | everyone blocked on a full channel, order of the end message | all files once; all threads end |
| Printers, `printer/` | counters, a path, what was printed | the callbacks of `Sink` | searcher, writer | limits, binary files at `finish` | counts and lines agree |
| Flags, `core/flags/` | low and high level arguments | parse, convert | everything | a hundred flags, overriding | the last one wins |
| Matchers, `matcher/`, `regex/`, `pcre2/` | compiled patterns | find, captures, candidate lines | searcher | literals, line terminators | a match never spans a line unless asked |
| Messages and logger, `core/messages.v` | `errored` and verbosity flags | message, err_message | stderr, exit code | threads writing stderr | an error is never forgotten |

The rest (completions, manual, colours, hyperlinks, small helpers, tests) is text
generation or pure conversion; `PROJECT.json` says so for each.

## 2. Modules

| Module | Models | Theorems |
|---|---|---|
| `FileTree` | what the parallel walk can meet: a tree of entries, each with a fate (file, directory, unreadable, filtered, broken, of another file system ...), and what is due for it | |
| `Traversal` | the abstract specification of a walk: an entry waits, is open while handled, is closed when all due to it was done | |
| `WorkStealing` | `WalkParallel.run`, `initial_work`, `WorkStealingStacks`, `take_work`, `walk_stealing_visit_worker`, `walk_stealing_run_one` | |
| `WorkStealingInv`, `WorkStealing_proofs` | its inductive invariant; the refinement; what was done for each entry, the counter, promptness | yes |
| `SerialWalk`, `SerialWalk_proofs` | `Walk.next` with the ignore rules that decide what it skips (`Ignore.matched`, `add_parents`, `add_child`) | yes |
| `LineBuffer`, `LineBuffer_proofs` | `LineBufferReader`, `LineBuffer` | yes |
| `LineSearch`, `LineOutput` | `Core`, `ReadByLine`, `SliceByLine`; a reference for what they must report | |
| `MultiLineSearch` | `MultiLine`, over the operators of `LineSearch`, with a reference of its own, whose calls are put together by those of `LineOutput` | |
| `LineSearch_proofs` | the line oriented search: one lemma for each method of `Core`, then each step | yes |
| `MultiLineSearch_proofs` | the multi line search, over the lemmas about `Core` | yes |
| `SearchCommand`, `SearchCommand_proofs` | `search_preprocessor`, `search_decompress`, `CommandReader`, `StderrReader` and the children | yes |
| `SearchParallel`, `SearchParallel_proofs` | `search_parallel`, `SearchParallelVisitor.visit`, `BufferWriter.print`, the exit code | yes |
| `FilesPipeline`, `FilesPipeline_proofs` | `files_parallel`, `files_parallel_producer`, `WalkParallel.stream` | yes |
| `MC*` | the instances TLC checks | |

An operator whose comment begins with "Mutant" is a mutated copy of the definition after it; no specification uses it.

### The parallel walk

`WorkStealing` has one action per step between two accesses to what threads
share: a queue under its mutex, the counter, the flag, a call of the visitor. A
steal holds two mutexes, so taking the first is an action (`LockFirst`) and the
transfer another (`Steal`). `take_work`'s loop is the program counter (`take`,
`steal`, `pair`, `leave`, `idle`, `idleStop`, `wake`); `walk_stealing_run_one` is
`CheckDevice`, `Visit`, `ReadDir` and one action per child. What the file system
and the filters make of an entry is its *fate*, chosen at the start: ignore
rules, links, file types are behind it. `delivered`, `errors`, `pruned`,
`listed` record what visitors were given; `quit`, `earlyQuit` and `late` what was asked.

`Traversal` promises no order but that a directory is delivered before it is
listed, and nothing more once a visitor has quit. `WorkStealing` implements it:
an entry waits in `Traversal` while it is an unprepared root, in a queue, or
among the children just read, and is open while a worker handles it.

### The serial walk and the ignore rules

`SerialWalk` has what `FileTree` hides: objects with kinds, parents and link
targets, repositories, files of rules, options. A path is the sequence of
objects it names, so the same object met by two paths is two entries. `stack`
is `Walk.stack`, a frame for each directory the walk is in with the children
not yet taken and the chain of matchers of its directory; `pending` and
`rootIndex` are the fields of that name. The actions are the ways `next` goes
round: `PopPending`, `LeaveDir`, and `NextChild` and `NextRoot`, which decide in one
step what the entry is, whether it is skipped and whether it is descended into.

Calls of the operating system fail as the file system says (`fails`), and each has the fate the code gives it:

| Failure | Where | What is delivered |
|---|---|---|
| `parents` | `add_parents` of a path of the walk: a file of rules above it is not well formed | the error, then the entry |
| `device` | the device of a path of the walk | the error in the place of the entry |
| `device` | the device of a directory (`is_same_file_system`) | the error, then the entry; the directory is not read |
| `lost` | the type of a child (`from_child`), when what `readdir` said is not enough | the error in the place of the entry |
| `broken` | what a link, or a path of the walk, names | the error in the place of the entry |
| `unopened`, `loop` | a handle the search for a loop needs, the nearest directory first; a loop | the error in the place of the entry |
| `undecided` | whether an entry that is not ignored is the file of stdout (`skip_entry`) | the error in the place of the entry |
| `unreadable` | the listing of a directory | the entry, then the error |

So up to three results wait at once. What `skip_entry` asks last (sizes, filters) cannot fail: a size that cannot be
had keeps the entry. The error of a file of rules in a directory of the walk is carried by the entry itself
(`dent.err`), is no result, and is left out.

The chain of matchers is built as the code builds it (a node for each directory
of the walk, one for each directory above it), and searched in the order of
`Ignore.matched`: by kind of rule, and for each kind from the nearest directory
outwards, `saw_git` ending the search for the kinds that belong to a repository. The
reference (`DeliveredExact`) does not use the chain: it says from the file system
alone which paths are reached and which rule decides of each. A glob is the set of names it decides.

### The line buffer

`LineBuffer` goes byte by byte: a byte is a terminator, a binary byte or
another. The actions are the calls (`Consume`, `NewReader` for `clear` and a new
reader, `FillAfterQuit`) and the steps of `fill` (`Roll`, `Grow`, one read with
each of its outcomes). Bytes before `roll`'s shift, capacity doubling, the
limit that counts what was allocated before, and conversion of binary bytes are as in the code.

### The line oriented search

`LineSearch` has the line as its unit: a file is a sequence of lines that match
or not, some of which hold a binary byte. A buffer is a window of lines; a fill
adds any number of them, which stands for every buffer size and every way the
reader cuts the input (`LineBuffer` shows whole lines: `ShowsLines`). Positions
(`pos`, `visited`, `counted`) are relative to the window and `Roll` moves them,
as `Core.roll` does. The loops of the slow and the fast path are actions of one
line, or of one match; context loops are operators (`BeforeContext`,
`AfterContext`, `OtherContext`) that fold over lines and stop at a refusal of the
sink. Abstractions, each by what the code does at line granularity: candidate
lines of the regex prefilter are the next matching line; the first 64 KiB
looked at for binary data are the first `DetectLines` lines; line numbers are
always on; errors of the sink are left out, they end a search like a reader's
error (`FillFails`).

`LineOutput` defines `Expected` from the file and the configuration alone, with
no buffer and no path through the code.

### The multi line search

`MultiLineSearch` extends `LineOutput` and `LineSearch`, whose `Core` operators it calls, by a
position in bytes (`at`) and the match held back (`held`, `MultiLine.last_match`).
A line is two bytes, the second its terminator, so that a match can begin and
end inside a line, at its end, and after its terminator. A matcher is a set of
spans, the first of which at or after a position is found. That a line matches when it is
taken alone (which `after_context_by_line` asks) is part of the file: a line that
holds a whole match does, a line in which one begins may.

`MultiReference` says from the matches of the file, all of them at once, which lines are
due, of which kind each is, where a block of matched lines begins and up to where it goes; `MultiExpected` is the
sequence of calls (`CallsIn`) that makes.

### External commands

In `SearchCommand` each worker opens two pipes, forks, starts the thread that
drains stderr, reads stdout by polling (`Read`, `Poll`, `LastRead`: a read that finds nothing is
followed by the question whether the child lives, and that by one more read), closes, waits, and
takes what the thread heard. Pipes are bounded sequences; `readers` and `writers` are the holders of
their ends, which a fork adds the child to, for the pipes of *all* workers: a child closes only its
own. A child writes its script in order, blocks on a full pipe, fails on one nobody reads, and exits.
The search over the output is reduced to how many chunks it wants and how it ends.

### Parallel search and listing

`SearchParallel` and `FilesPipeline` use the walk as `Traversal` specifies it,
for a caller who never answers skip: a set of results, each handed to some
worker once, and a flag that ends it. In `SearchParallel` a search is one step
into the worker's own buffer; what is shared is stepped access by access: the
flags, the read and the write of the statistics under their lock, and a block of
output in two writes under the other. A write may succeed, meet a broken pipe,
or fail otherwise, at the separator or at either half of a block. When no path was given and no
result was a file, `Return` sets `errored`, as `eprint_nothing_searched` does by `err_message`: the answer is 2.
In `FilesPipeline` the channels are bounded sequences and a send to a full one blocks; a write that fails stops
the listing, and `JoinProducer` returns its error unless it is a broken pipe.
In both, `ExitCode` is the process's: 0 or 1 for a match or none, 2 for an error that was seen or returned. stdout's
own buffer, and the final flush, whose error the code ignores, are left out: a write fails when it reaches the descriptor.

## 3. Runs

| Run | Question | Bounds, and why they are enough |
|---|---|---|
| `ws_walk` | Is work lost or handled twice, is quitting prompt, is work abandoned, does it end, does the walk implement `Traversal`? | 3 workers, 2 roots, a directory below one of them with two children, `min_depth` 1 and `max_depth` 2; visitors continue, skip or quit; every fate occurs. Two workers can be idle while the third lists, and a thief can be robbed |
| `ws_early_quit` | expected violation, see 6 | 2 workers, 2 roots, one of which may fail while it is prepared |
| `lb_fill` | All safety of the line buffer, and that a fill returns | every input of up to 4 bytes, capacity 0 growing by at most 3, so the limit is met by lines that are shorter, equal and longer; two readers in turn |
| `ls_lines` | Do all paths report the reference, from a slice and from a reader? Binary data, and sinks that stop | every file of up to 5 lines, context (0,0), (0,1), (2,0), (1,1), limits none, 1, 2: two matches whose contexts overlap, touch or are apart, across every cut of the buffer. With binary bytes, of which a slice's first line is looked at in advance: up to 3 lines, a sink that stops at its 2nd or 3rd call, or never |
| `ls_limit` | expected violation | files of up to 4 lines, limit 1, one line of context |
| `ml_lines` | Does a multi line search report the lines of its matches, joined where they touch, and stop when told to? | files of up to 4 lines with a last line that is terminated or not, every set of up to 2 spans: nested, overlapping, adjacent and empty ones, at the end of a line and of the file |
| `ml_panic` | expected violation | files of up to 3 lines, inverted, limit 1, one line of context |
| `serial_walk` | Does the walk deliver what the file system and the rules say, in order, without running round a circle of links? Does it end? | 8 objects, four families: `GitCase` (repositories at any of three directories, `.gitignore` there and an exclude file, two roots), `KindCase` (which kind of rule decides), `WalkCase` (links upwards, sideways and to nothing, depths, devices, unreadable directories, several roots, sorting). `FailCase`: one or two calls that fail, of all the kinds of section 2, in a tree with a link into the walk, an unreadable directory and a rule, under each of the options that make the call |
| `command` | Is no output lost, which error is returned, is every child reaped, does it end? | 2 workers, pipes of one chunk, so that every script fills them; one search may stop early while the other worker's command runs and reads on to its end |
| `cmd_inherit` | expected violation | both searches stop early |
| `par_search` | Do blocks mix? Are statistics and exit code independent of the schedule? Does it return? | 2 workers and 3 results, so one worker uses its buffer twice and both print; quiet, statistics and separators; a path given or not, and results of which none is a file; every failure of a write |
| `files_pipeline` | Are all files listed once, is the exit code the one the results call for, and do all threads end however full the channels are? | channels of 1, 2 workers, 4 results: every thread meets a full channel; a write may fail at any path, over a broken pipe or otherwise |

Bounds that are not in the program: `MaxReaders` and `MaxLength` (`LineBuffer`),
`MaxLines`, `DetectLines` (`MCLineSearch`, `MCMultiLineSearch`), two spans at most
(`MCMultiLineSearch`), `PipeSize` (a pipe of the operating system holds 64 KiB),
`Capacity` of `FilesPipeline`, 256 in the program, and the sizes of the trees. No counter of the programs is cut off.

Deadlock is checked in every run but those of `LineSearch` and `MultiLineSearch`, and in `cmd_inherit`:
a walk, a parallel search, a listing and two commands that returned stutter, so
that any other state without a step is a deadlock. A search ends where `finish` was called or
the reader failed. `max_matches = 0` does not reach the searcher (`matches_possible`).

## 4. Fairness

- Parallel walk and search: the operating system runs every thread at some time
  (`WF` of each worker's steps), and a mutex that is free again and again is got at
  some time (`SF` of the steps that take one). `take_work` polls with a pause, so
  mutexes are free most of the time. Visitors return.
- Serial walk: the caller asks for the next result until there is none. `next` itself is a loop of one thread.
- Line buffer: `fill` is a loop without waiting; `WF` of its steps says the reader answers.
- Listing: `WF` of every thread. A send that waits for room needs no strong
  fairness, as the workers that could take the room before it are finite in their results.
- Commands: `WF` of every worker, every child and every thread on stderr: a
  child goes on while it can. A child that never exits would let rg wait, which is what `close` means to do.
- The line oriented search assumes none: that it ends is the action property
  `FillAdvances`, a fill after which the search goes on reads or drops a line. Neither does the multi line search.

## 5. What is proved

For every tree, number of workers, answers, inputs, limits, commands, capacities. Assumptions are
the named `ASSUME`s of the modules on their constants, all of them evaluated by
the runs: at least two workers of the walk (`run` takes the serial path for one) and at
least one elsewhere, roots distinct, depths that count from the roots, a positive growth, channels and
pipes that hold something; for the serial walk, a finite tree in which no directory is above itself, links that name what is not a link,
and rules that lie in directories.

**Parallel walk** (`WorkStealing_proofs`). `NoWorkAbandoned` and the refinement are not
inductive: a worker that leaves early matters only because its queue is known to
be empty, and a step of `Traversal` can be taken only because of what was done for the
entry before. `IInv` (`WorkStealingInv`) says: no entry is in two places
(`OnePlace`); nothing was done for one that waits (`Waiting`, `Undiscovered`);
what was done for one in hand follows from where its worker is (`Handling`); a
worker that found its queue empty finds it so until it takes work again, since
only the owner pushes and a thief pushes to its own (`EmptyHanded`); and how the
main thread's phase limits all that (`Phase`). One lemma per action shows it is
preserved (`Invariance`). `TypeCorrect` follows, with the bound on the scan's offset that
makes a victim another worker; `NothingAbandoned` from `EmptyHanded`;
`Refinement` by one lemma per action, each a step of `Traversal` or a stutter.
That the deal of the roots is a partition is arithmetic on rounds (`RoundReaches`).
`WalkAccounted` uses the refinement instead of going through the actions again: the
six actions of `Traversal` keep that an entry which is neither waiting nor open was settled
(`Tally`). The counter is exact because only a waiting worker counts itself again
(`Counted`). `WalkAtMostOneLate`: who took an item after the flag was set does not come
back to the queues, as the loop reads the flag first (`LatePlace`).

**Line buffer** (`LineBuffer_proofs`). `Inv` is the conjunction of all its safety
properties and of what connects the phases of `fill` (`Phases`): the loop runs
on a rolled buffer, never after binary data ended the input; such data leaves
no partial line; `fill` answers false only on an empty buffer. Each property
needs the others: the binary offset is exact because the window is, lines are
whole because of the offset. All of it holds for every input, capacity and limit.

**Commands** (`SearchCommand_proofs`). `IInv` is local to each worker. It follows the output from the child's hand
through the pipe to the search (what was read, what is in the pipe and what is left
of the script are the script), and says who may still hold an end of a pipe. From it: all the
output is searched, whatever the race between the child's last write and the poll
(`CommandOutputWhole`); one error is returned, the right one (`CommandOutcomeExact`);
no child is left a zombie and rg keeps no end of a pipe (`CommandNothingLeft`).

**Parallel search** (`SearchParallel_proofs`). `IInv`: a result has one owner until all
was done for it; whoever is in a section of a lock is its holder, so there is one; a
block in print has its head or its head and its tail in the output, and no block is in two
buffers; each flag that is set has a reason among the results, and the flag that a file was met is exact. From it `ParallelBlocksWhole`,
`ParallelShownExact`, `ParallelStatsExact`, `ParallelExitExact`, `ParallelAtMostOneLate`.

**Listing** (`FilesPipeline_proofs`). `IInv`: a result is in one place (with the walk, a worker,
the producer, the main thread, a channel, or printed); what is past the producer is a
file; the message that ends a channel is its last, and sent when no thread that could send
another is left; unless the listing was stopped nothing was dropped; and it was stopped because of a file the
main thread knows or hears of. The last is why the exit code is right (`PipelineExitExact`) although errors are dropped:
only a broken pipe hides one. Any other write that fails is returned, and the answer is 2.

**Serial walk** (`SerialWalk_proofs`). `IInv` says that the frames of the stack nest: each lists the directory that the
child last taken from the frame below names, their matchers are the chain of that path, no frame is the directory of one below it;
and everything delivered lies, in the order of the tree, before what the stack and the roots have left. From it
`SerialTypeOK`, `SerialNoCircle` (through however many links), `SerialOnce` and `SerialInOrder`. `ChildrenSorted` is about the
sort by exchanges of `sort_children` for any number of children.

**What that walk delivers** (same module, from the chain of matchers to `SerialDeliveredExact`). `DeliveredExact` says that the results are
those the reference `Due` derives from file system, rules, options and the calls that fail, each once. It takes three parts. `SkipIs`: what the code skips, asking
its chain of matchers in two loops, is what `Ignored` and the filter say of the path. `ChainHolds` connects them, a node for each directory
of the path and of those above its root, in their order, with `saw_git` the documentation's nearest repository. `ComeIs`: the levels
of `Come`, of which there are `Bound`, hold every path the walk can come to. A longer one would meet the same directory twice within stretches
that follow no link, or between two links to one directory, which the tree and the check for loops exclude (a pigeonhole over
pairs of directories). And the invariant `EInv`, next to `IInv`: every frame's path is one the reference comes to (`FramesReached`), which the walk may read (`Goes`), and the results
so far, with those pending, are what is owed for the roots taken so far, less what lies below the children the frames have still to take (`Found`). What is owed to one path is said kind by kind
(`Right`), and `EnqueueExact` and `ChildExact` show that the code's tests, in their order, push just that. Each of the four
actions keeps it. At the end nothing is left to take.

**Line oriented search** (`LineSearch_proofs`). `Sound` collects what a core owes to its caller at any depth: its ranges lie in the
buffer, what was counted agrees with what was visited, every call has its number and offset and comes behind the calls before it, binary
data was announced before what it concerns, and a refusal is the last call. Each method of `Core` keeps it (`DetectSound`,
`MatchedSound`, `ContextSound`, ...); so does each loop over lines (`BeforeSound`, `AfterSound`, `InvertedSound`), by induction
over its turns. `IInv` adds where `pos` and `visited` stand at each place of `match_by_line` and `fill`, and what is left when the search ends.
A refused call was counted but not visited: what was counted is bounded by what was visited only while no call was refused (`Steady`).
From it `LineTypeOK` (no range runs backwards, so `Match.new` does not panic), `LineNumbered`, `LineStops`, `LineBinary` and
the action property `LineFillAdvances`.

**The report of that search** (same module, from `Briefs` to `LineReports`). `LineReports` is what all the rest is for: the calls are a prefix of
those that `LineOutput` derives from file and configuration alone, and all of them when a search is done that nothing stopped.
Its invariant `RInv` needs `IInv` and says, of a core at work: everything up to the last line visited was reported and nothing else
(`Owed`: the calls are `Listed[v]`; `hasSunk` and the line last visited tell whether a break is due; `afterLeft` is the
context of `Chosen` that is left); there is no match within the limit between that line and the position (`Free`); and `count` is
the number of matches up to the position, cut at the limit (`Counted`). That `Chosen`, defined by counting lines, is what the
core finds by counting calls is `ChosenWithin`; that a full count means there are no more is `LimitIs`. Lines rolled away are not due,
and the one kept behind them tells whether there is a gap (`RolledQuiet`): with one line less the mutant `RolledShort` breaks it.
`LineReports` is stated under `Orderly`. It leaves out `--stop-on-nonmatch`; a limit with an inverted pattern, where the code
may report more than the limit allows (`LimitSlips`, 6); and, of an inverted search by the fast path, whose loop over a buffer a
refusal does not end for good, the searches with a sink that refuses or binary data that quits. Of these `ls_lines` checks what its
configurations hold.

**Multi line search** (`MultiLineSearch_proofs`). `MultiInv` says of the match held back that it lies behind every line given and, within
the limit, before the position; of an inverted search that it stands at the start of a line behind every line given; and that the core
is `Sound`, or, once the match held back at the end was refused, at least in range (`Firm`): the code goes on to the
context that is left. `MultiTypes`, `MultiStopsAtOnce` and `MultiNumbers` follow. All are stated under
`Unlimited`: with inversion and a limit, `NoPanic` is false (6).

**The report of the multi line search** (same module, from `MatchList` to `MultiReportsExact`). `MultiReports`: the calls are a prefix
of `MultiExpected`, and all of it when nothing stopped the search. Two things are to be related. The reference sees all matches at once: what
is true of its list (`ListFacts`: each match is the first one from where the search went on behind the one before;
`NextLines`, `Rising`, `Passed`: no line is stepped over) and of its blocks (`MultiIsReference`, `BlockIsWhole`) is proved from the file
alone. The search knows one match more than it has given. Its invariant `Reporting` says, at each turn of the loop (`Turning`): the matcher was asked
`count` times and stands where the reference goes on (`FromAt`); all up to the line last visited was reported, and nothing else (`OwedOf`
of `LineSearch_proofs`, which is `Owed` for any reference); the match held back is the part found so far of a block that begins behind a line of no
match (`HeldIs`), and of the lines between the last visited and it none is in a match. So when the next match does not join it, it is a whole block
and can be given, after the context between, whose kind no later match can change. At the end (`Ending`) the rest is context only. TLC checked
`Reporting` on the states of `ml_lines` before it was proved.
`MultiReportsExact` is stated under `Unlimited` and `Placed`. The latter matters only with a limit: a line that matches when it is taken
alone has the beginning of a match of the file in it. Context between two matches is given when the second is known, and if that is the last one allowed
the limit is reached by then: a line of it that matches alone would be given as a match, though it lies before the last match and in none (a pattern
that looks around itself can be like that). The files of `ml_lines` all satisfy it.

Loops of the code are recursive functions in the models. That such a function is defined and what each of its values
satisfies is proved from the well-foundedness of the naturals (`SetInduction`, `Recursion`, `RunExists`, `Along`), with
sets in the place of predicates, since no theorem with an operator as parameter can be instantiated. `SerialWalk_proofs` and
`LineSearch_proofs` each begin with these few lemmas.

Only model-checked: liveness (`Terminates`, `FillReturns`, `Finishes`), which TLAPS does not prove, and `ReportsExpected` outside
`Orderly`.

## 6. Where code and documentation differ

Each is a run that TLC ends with a counterexample; `PROJECT.json` quotes the lines.

- `ws_early_quit`: a quit answered while the roots are prepared is forgotten when a root was prepared before.
- `ls_limit`: `--invert-match` with `--max-count` and `--after-context` reports every line after the limit as a match.
- `ml_panic`: the same flags with `--multiline`: the position steps back behind lines already given, and a range that ends before it starts panics.
- `cmd_inherit`: a child forked while another worker's command runs inherits the read end of that
  command's output. When the worker closes early, its child does not notice, and blocks. Two such
  workers, each waiting for a child whose pipe the other's child holds, wait for good.

Configurations known to differ that have no run of their own, and are taken out of the passing runs by a predicate
that names them (`LimitSlips`, `NonmatchSlips` of `MCLineSearch`; `Reliable` of `MCMultiLineSearch`) or by a condition of the property:

- `LimitSlips` is `ls_limit` in full: the slow path, and the fast path from its second buffer on.
- `NonmatchSlips`: `--invert-match` with `--stop-on-nonmatch` steps over the first non-matching line on the fast path.
- `Obeyed` of `LineOutput`: a sink that stops an inverted fast search is called again (its answer ends a loop over one buffer).
- `Unlimited` of `MultiLineSearch`: the configurations of `ml_panic`, which the theorems leave out.

The references of the passing runs say what the code does, where that is less than one might expect:

- `MultiReports`: the limit counts matches, every one of several on a line, while the help of
  `--max-count` (`src/core/flags/defs.v:1890`) says that such a line counts once; the answer of the sink to the match held back
  last is not looked at (`src/searcher/glue.v:147`); an inverted search resumes at the end of the
  line a match ends in, so its lines are not the complement of the lines of all matches.
- `LimitKept`: a heap limit as long as the longest line is enough, but not for a last line without a terminator of that length.

## 7. Not modelled

- **Regular expressions, PCRE2, literals, globs** (`regex/`, `pcre2/`, `matcher/`, `globset/`): pure functions over
  strings, in part external. Modules that call them take an answer as given: a line matches, a glob decides of a name.
- **Encodings** (`searcher/encoding_tables.v`, `iconv_shim.c`): conversion of bytes by tables and an external library.
  The choice among memory map, whole file and reader is a chain of conditions without state.
- **Printers** (`printer/`): layout, colours, JSON. What the searcher calls them with is `LineSearch`'s output; a
  printer that stops is a sink that stops.
- **Flags, completions, help** (`core/flags/`): tables, and the last flag wins.
- **Serial search and listing, sorting by times** (`rg/main.v`): loops of one thread over the walk, sharing nothing.
- **Synchronous `StderrReader`**, which no caller in rg asks for; the text of messages.
- **Visiting serially** (`visit_root_path`, `visit_traverse_entry`): `SerialWalk`'s walk by recursion, for a visitor that
  may answer skip or quit. No module translates it, and nothing is mapped to it.
- **Several failures of one entry of the parallel walk**: `FileTree` gives each entry one fate, so at most one error is
  due to it. How failures combine is in `SerialWalk`, whose code for an entry is the same.

The number of levels of `Come` is a bound of the reference, not of the walk: the walk ends by itself, and `ComeIs` shows that
the square of the number of directories, and one, is enough. Twice the number of objects, say, is not: each of several links may lead into
a deep directory again.

What would add most next: `LineReports` under `--stop-on-nonmatch`; a proof that `SerialWalk`
implements `Traversal` with the links left out; the counters of `SummarySink` and `StandardSink` over the calls `LineSearch` makes.

The program is written in V. Line counts that only know C and headers (`encoding_multibyte_tables.h` and the
shims: generated tables and bindings) say nothing about how much of it is modelled.
