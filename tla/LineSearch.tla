----------------------------- MODULE LineSearch -----------------------------
(***************************************************************************)
(* The line oriented search of searcher/glue.v (ReadByLine, SliceByLine)   *)
(* over the Core of searcher/lib.v: which lines are given to a sink, as    *)
(* what, in which order, with which offsets and line numbers.              *)
(*                                                                         *)
(* The unit is the line.  A file says of each line whether the pattern     *)
(* matches it and whether it holds a binary byte; LineBuffer shows that a  *)
(* reader's buffer holds whole lines, so a fill adds some more lines.      *)
(* Under the conversion of binary data, a line that holds a binary byte is *)
(* one that ends in a converted byte.                                      *)
(*                                                                         *)
(* The fields of Core are a record, core; an operator that models a method *)
(* of Core takes it and returns it changed, with go = FALSE when the       *)
(* method answers that the search is over, and does nothing when go is     *)
(* FALSE already (the code's early returns).  One action is one turn of a  *)
(* loop of the code.                                                       *)
(***************************************************************************)
EXTENDS Integers, Sequences, FiniteSets

CONSTANTS
    Files,       \* [hit: lines to BOOLEAN, binary: set of lines]
    Configs,     \* configurations, see Config
    StopAnswers, \* which call the sink answers with false (0: none)
    DetectLines, \* how much of a slice is examined for binary data at first
    None

\* A configuration of the searcher: context is before and after, max is
\* max_matches, fast is what the matcher's line terminator allows, and slice
\* tells SliceByLine from ReadByLine.
Config == [before : Nat, after : Nat, max : (Nat \ {0}) \cup {None}, invert : BOOLEAN,
           passthru : BOOLEAN, stopOnNonmatch : BOOLEAN, fast : BOOLEAN,
           binary : {"none", "quit", "convert"}, slice : BOOLEAN]

ASSUME ConfigsAssumption == Configs \subseteq Config
\* --passthru and context lines exclude each other (HiArgs, context mode).
ASSUME PassthruAssumption == \A g \in Configs : g.passthru => g.before = 0 /\ g.after = 0
ASSUME StopAssumption == StopAnswers \subseteq Nat
ASSUME FilesAssumption == \A f \in Files : f.hit \in Seq(BOOLEAN) /\ f.binary \subseteq 1 .. Len(f.hit)
ASSUME DetectAssumption == DetectLines \in Nat
ASSUME NoneAssumption == None \notin Int

VARIABLES
    file, cfg, stopAnswer,
    pc,     \* begin, fill, slow, fast, fastEnd, finish, done, failed
    base,   \* lines of the file before the buffer
    shown,  \* lines in the buffer
    core

vars == <<file, cfg, stopAnswer, pc, base, shown, core>>

Total == Len(file.hit)
ReaderBinary == ~cfg.slice /\ cfg.binary # "none"

\* The core and the buffer at the beginning of a search.
Fresh ==
    /\ pc = "begin"
    /\ base = 0
    /\ shown = IF cfg.slice THEN Len(file.hit) ELSE 0
    /\ core = [pos |-> 0, offset |-> 0, binaryAt |-> None, lineNumber |-> 1, counted |-> 0,
               visited |-> 0, afterLeft |-> 0, hasSunk |-> FALSE, hasMatched |-> FALSE,
               count |-> 0, go |-> TRUE, panicked |-> FALSE, calls |-> <<>>]

Init == file \in Files /\ cfg \in Configs /\ stopAnswer \in StopAnswers /\ Fresh

-----------------------------------------------------------------------------
\* The calls of the sink.

Tell(c, call) ==
    [c EXCEPT !.calls = Append(@, call), !.go = Len(c.calls) + 1 # stopAnswer]

CountLines(c, upto) ==
    IF c.counted >= upto THEN c
    ELSE [c EXCEPT !.lineNumber = @ + (upto - c.counted), !.counted = upto]

\* Line i of the buffer is given to the sink: its content is that of line
\* base + i of the file, offset and number are what Core reports for it.
Report(c, i, kind) ==
    LET d == CountLines(c, i - 1)
    IN IF ~c.go THEN c
       ELSE Tell(d, [kind |-> kind, line |-> base + i, offset |-> d.offset + i - 1, number |-> d.lineNumber])

\* The binary lines among lines from + 1 .. to of the buffer.
BinaryIn(from, to) == {i \in from + 1 .. to : base + i \in file.binary}

DetectBinary(c, from, to) ==
    IF ~c.go \/ ~cfg.slice \/ cfg.binary = "none" THEN c
    ELSE IF c.binaryAt # None THEN [c EXCEPT !.go = cfg.binary # "quit"]
    ELSE IF BinaryIn(from, to) = {} THEN c
    ELSE LET first == CHOOSE i \in BinaryIn(from, to) : \A j \in BinaryIn(from, to) : i <= j
             told == Tell(c, [kind |-> "binary", line |-> first])
         IN [told EXCEPT !.binaryAt = first, !.go = @ /\ cfg.binary # "quit"]

BreakContext(c, start) ==
    IF c.go /\ cfg.before + cfg.after > 0 /\ c.hasSunk /\ c.visited < start
    THEN Tell(c, [kind |-> "break", line |-> base + start])
    ELSE c

SinkMatched(c, i) ==
    LET d == Report(BreakContext(DetectBinary(c, i - 1, i), i - 1), i, "match")
    IN IF d.go THEN [d EXCEPT !.visited = i, !.afterLeft = cfg.after, !.hasSunk = TRUE] ELSE d

\* Mutant: context lines are not examined for binary data.
SinkContextUnchecked(c, i, kind) ==
    LET d == Report(c, i, kind)
    IN IF d.go
       THEN [d EXCEPT !.visited = i, !.hasSunk = TRUE, !.afterLeft = IF kind = "after" THEN @ - 1 ELSE @]
       ELSE d

\* Mutant: the answer of the sink's context call is not looked at.
SinkContextHasty(c, i, kind) ==
    LET d == Report(DetectBinary(c, i - 1, i), i, kind)
    IN [d EXCEPT !.go = c.go, !.visited = i, !.hasSunk = TRUE,
                 !.afterLeft = IF kind = "after" THEN @ - 1 ELSE @]

\* sink_before_context, sink_after_context and sink_other_context.
SinkContext(c, i, kind) ==
    LET d == Report(DetectBinary(c, i - 1, i), i, kind)
    IN IF d.go
       THEN [d EXCEPT !.visited = i, !.hasSunk = TRUE, !.afterLeft = IF kind = "after" THEN @ - 1 ELSE @]
       ELSE d

-----------------------------------------------------------------------------
\* Core.

ExceededLimit(c) == cfg.max # None /\ c.count >= cfg.max
Hit(i) == file.hit[base + i]

\* A loop over the lines from + 1 .. upto, each of which makes Turn of the core.
ForLines(Turn(_, _), c, from, upto) ==
    LET after[i \in from .. upto] == IF i = from THEN c ELSE Turn(after[i - 1], i)
    IN IF from <= upto THEN after[upto] ELSE c

\* Match.new panics when a range runs backwards.
Checked(c, from, upto) == IF from <= upto THEN c ELSE [c EXCEPT !.go = FALSE, !.panicked = TRUE]

BeforeContext(c, upto) ==
    LET start == IF upto - cfg.before > c.visited THEN upto - cfg.before ELSE c.visited
        Sink(d, i) == SinkContext(BreakContext(d, i - 1), i, "before")
    IN IF ~c.go \/ cfg.before = 0 THEN c ELSE ForLines(Sink, Checked(c, start, upto), start, upto)

\* A line that would match is given as a match once the limit is exceeded.
AfterContext(c, upto) ==
    LET Sink(d, i) ==
            IF ~d.go \/ d.afterLeft = 0 THEN d
            ELSE IF ExceededLimit(c) /\ Hit(i) # cfg.invert
            THEN LET e == SinkMatched([d EXCEPT !.pos = i], i)
                 IN IF e.go THEN [e EXCEPT !.afterLeft = d.afterLeft - 1] ELSE e
            ELSE SinkContext(d, i, "after")
    IN IF ~c.go \/ c.afterLeft = 0 THEN c ELSE ForLines(Sink, Checked(c, c.visited, upto), c.visited, upto)

IsFast(c) == ~cfg.passthru /\ ~(cfg.stopOnNonmatch /\ c.hasMatched) /\ cfg.fast

\* Mutant: only the lines of the before context are kept, not the line before
\* them, which tells whether there is a gap.
RolledShort(c) ==
    LET kept == shown - cfg.before
    IN IF cfg.before + cfg.after = 0 THEN shown
       ELSE IF kept > c.visited THEN kept ELSE c.visited

\* What roll consumes: everything, or all but the context that may be needed.
Rolled(c) ==
    LET kept == shown - (cfg.before + 1)
    IN IF cfg.before + cfg.after = 0 THEN shown
       ELSE IF kept > c.visited THEN kept ELSE c.visited

\* Mutant: the last line visited is not moved with the buffer.
RollKeepsVisited(c, consumed) ==
    LET d == CountLines(c, consumed)
    IN [d EXCEPT !.offset = @ + consumed, !.counted = 0, !.pos = shown - consumed]

Roll(c, consumed) ==
    LET d == CountLines(c, consumed)
    IN [d EXCEPT !.offset = @ + consumed, !.counted = 0, !.visited = 0, !.pos = shown - consumed]

-----------------------------------------------------------------------------
\* Where match_by_line begins, and where it leads when it answers go.
MatchByLine(c) == IF IsFast(c) THEN "fast" ELSE "slow"
NextBuffer == IF cfg.slice THEN "finish" ELSE "fill"

\* consume_remaining, for a reader whose search is stopped.
Stop(c) ==
    /\ pc' = "finish"
    /\ core' = c
    /\ IF cfg.slice THEN UNCHANGED <<base, shown>>
       ELSE base' = base + c.pos /\ shown' = shown - c.pos

\* The core goes on at place `next`, unless it said that the search is over.
Continue(c, next) ==
    \/ c.go /\ core' = c /\ pc' = next /\ UNCHANGED <<base, shown>>
    \/ ~c.go /\ Stop(c)

Begin ==
    /\ pc = "begin"
    /\ LET begun == Tell(core, [kind |-> "begin", line |-> 0])
           examined == IF shown < DetectLines THEN shown ELSE DetectLines
           d == DetectBinary(begun, 0, examined)
       IN /\ core' = d
          /\ pc' = IF ~d.go \/ (cfg.slice /\ shown = 0) THEN "finish"
                   ELSE IF cfg.slice THEN MatchByLine(d) ELSE "fill"
    /\ UNCHANGED <<file, cfg, stopAnswer, base, shown>>

\* The lines a reader can still show: a quitting detection ends them at the
\* line that holds the first binary byte, which is shown up to that byte.
Readable ==
    IF cfg.binary = "quit" /\ file.binary # {}
    THEN CHOOSE i \in file.binary : \A j \in file.binary : i <= j
    ELSE Total

\* Mutant: what is left is searched again, for ever.
LeftoverKept(consumed, more) == consumed < 0 /\ more = 0

\* Nothing was rolled and nothing was read: only old context is left.
Leftover(consumed, more) == consumed = 0 /\ more = 0

\* ReadByLine.fill, with a reader that adds `more` lines.
Fill(more) ==
    /\ pc = "fill"
    /\ LET consumed == Rolled(core)
           rolled == Roll(core, consumed)
           left == shown - consumed
           newBinary == {i \in file.binary : i > base + shown /\ i <= base + shown + more}
           found == ReaderBinary /\ core.binaryAt = None /\ newBinary # {}
           offset == CHOOSE i \in newBinary : \A j \in newBinary : i <= j
           told == IF found
                   THEN Tell([rolled EXCEPT !.binaryAt = offset], [kind |-> "binary", line |-> offset])
                   ELSE rolled
           exhausted == \/ left + more = 0
                        \/ told.binaryAt # None /\ cfg.binary = "quit"
                        \/ ~told.go
           leftover == ~exhausted /\ Leftover(consumed, more)
       IN /\ base + shown + more <= Readable
          /\ more = 0 => base + shown = Readable
          /\ core' = told
          /\ base' = base + consumed + (IF leftover THEN left ELSE 0)
          /\ shown' = left + more - (IF leftover THEN left ELSE 0)
          /\ pc' = IF exhausted \/ leftover THEN "finish" ELSE MatchByLine(told)
    /\ UNCHANGED <<file, cfg, stopAnswer>>

\* The reader or the buffer fails: the error ends the search without finish.
FillFails ==
    /\ pc = "fill"
    /\ LET consumed == Rolled(core)
       IN /\ core' = Roll(core, consumed)
          /\ base' = base + consumed
          /\ shown' = shown - consumed
    /\ pc' = "failed"
    /\ UNCHANGED <<file, cfg, stopAnswer>>

\* match_by_line_slow: one line.
SlowLine ==
    /\ pc = "slow"
    /\ core.pos < shown
    /\ LET i == core.pos + 1
           success == (~ExceededLimit(core) /\ Hit(i)) # cfg.invert
           at == [core EXCEPT !.pos = i]
           counted == [at EXCEPT !.hasMatched = TRUE, !.count = @ + 1]
           d == IF success THEN SinkMatched(BeforeContext(counted, i - 1), i)
                ELSE IF core.afterLeft >= 1 THEN SinkContext(at, i, "after")
                ELSE IF cfg.passthru THEN SinkContext(at, i, "other")
                ELSE at
           nonmatch == cfg.stopOnNonmatch /\ ~success /\ d.hasMatched
       IN IF ExceededLimit(core) /\ ~cfg.passthru /\ core.afterLeft = 0
          THEN Stop(core)
          ELSE Continue([d EXCEPT !.go = @ /\ ~nonmatch], "slow")
    /\ UNCHANGED <<file, cfg, stopAnswer>>

SlowEnd ==
    /\ pc = "slow"
    /\ core.pos = shown
    /\ pc' = NextBuffer
    /\ UNCHANGED <<file, cfg, stopAnswer, base, shown, core>>

\* find_by_line_fast: the next line that matches, or None.
Found(c) ==
    LET matching == {i \in c.pos + 1 .. shown : Hit(i)}
    IN IF ExceededLimit(c) \/ matching = {} THEN None
       ELSE CHOOSE i \in matching : \A j \in matching : i <= j

\* match_by_line_fast: a turn of its loop; the loop ends at "fastEnd".
FastToSlow ==
    /\ pc = "fast"
    /\ core.pos < shown
    /\ cfg.stopOnNonmatch /\ core.hasMatched
    /\ pc' = "slow"
    /\ UNCHANGED <<file, cfg, stopAnswer, base, shown, core>>

FastMatch ==
    /\ pc = "fast"
    /\ core.pos < shown
    /\ ~(cfg.stopOnNonmatch /\ core.hasMatched)
    /\ ~cfg.invert
    /\ LET i == Found(core)
           counted == [core EXCEPT !.hasMatched = TRUE, !.count = @ + 1]
           context == BeforeContext(AfterContext(counted, i - 1), i - 1)
           at == IF context.go THEN [context EXCEPT !.pos = i] ELSE context
       IN IF i = None
          THEN pc' = "fastEnd" /\ UNCHANGED <<base, shown, core>>
          ELSE Continue(SinkMatched(at, i), "fast")
    /\ UNCHANGED <<file, cfg, stopAnswer>>

\* match_by_line_fast_invert: the lines before the next match are given; its
\* answer false ends the loop of its caller, not the search.
SinkInverted(c, start, end) ==
    LET counting == [c EXCEPT !.hasMatched = TRUE]
        context == BeforeContext(AfterContext(counting, start), start)
        Sink(d, i) == IF ~d.go THEN d
                      ELSE LET e == SinkMatched([d EXCEPT !.count = @ + 1], i)
                           IN [e EXCEPT !.go = @ /\ ~ExceededLimit(e)]
    IN IF ~context.go THEN context ELSE ForLines(Sink, Checked(context, start, end), start, end)

FastInvert ==
    /\ pc = "fast"
    /\ core.pos < shown
    /\ ~(cfg.stopOnNonmatch /\ core.hasMatched)
    /\ cfg.invert
    /\ LET i == Found(core)
           end == IF i = None THEN shown ELSE i - 1
           at == [core EXCEPT !.pos = IF i = None THEN shown ELSE i]
           d == IF core.pos = end THEN at ELSE SinkInverted(at, core.pos, end)
       IN /\ core' = d
          /\ pc' = IF d.go THEN "fast" ELSE "fastEnd"
    /\ UNCHANGED <<file, cfg, stopAnswer, base, shown>>

FastLoopEnds ==
    /\ pc = "fast"
    /\ core.pos = shown
    /\ pc' = "fastEnd"
    /\ UNCHANGED <<file, cfg, stopAnswer, base, shown, core>>

FastEnd ==
    /\ pc = "fastEnd"
    /\ LET d == AfterContext([core EXCEPT !.go = ~core.panicked], shown)
           over == d.go /\ ExceededLimit(d) /\ d.afterLeft = 0
       IN IF over THEN Stop(d)
          ELSE Continue(IF d.go THEN [d EXCEPT !.pos = shown] ELSE d, NextBuffer)
    /\ UNCHANGED <<file, cfg, stopAnswer>>

\* Core.finish, with the bytes (here lines) searched.
ByteCount ==
    IF ~cfg.slice THEN base
    ELSE IF core.binaryAt # None /\ core.binaryAt - 1 < core.pos THEN core.binaryAt - 1 ELSE core.pos

Finish ==
    /\ pc = "finish"
    /\ pc' = "done"
    /\ core' = IF core.panicked THEN core
               ELSE [core EXCEPT !.calls = Append(@, [kind |-> "finish", line |-> ByteCount])]
    /\ UNCHANGED <<file, cfg, stopAnswer, base, shown>>

Next ==
    \/ Begin
    \/ \E more \in 0 .. Total : Fill(more)
    \/ FillFails
    \/ SlowLine \/ SlowEnd
    \/ FastToSlow \/ FastMatch \/ FastInvert \/ FastLoopEnds \/ FastEnd
    \/ Finish

Spec == Init /\ [][Next]_vars
=============================================================================
