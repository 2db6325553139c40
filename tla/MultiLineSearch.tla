-------------------------- MODULE MultiLineSearch --------------------------
(***************************************************************************)
(* The multi line search of searcher/glue.v, MultiLine, over the Core of   *)
(* LineSearch: a match may begin and end anywhere, the lines it touches    *)
(* are given to the sink in one call, and so are those of the next match   *)
(* when it begins where they end.  A match is therefore held back until    *)
(* the next one is known.                                                  *)
(*                                                                         *)
(* A line has two bytes, the second its terminator, which an open file     *)
(* lacks at its end.  Positions count bytes, lines are counted from 0 as   *)
(* ends of ranges: the range 1 .. 3 holds the second and the third line.   *)
(* The fields of LineSearch's file are joined by                           *)
(*   open    whether the last terminator is missing;                       *)
(*   spans   matches <<start, end>>, at most one for a start: the matcher  *)
(*           finds the first at or after a position.                       *)
(* A file's hit says whether a line matches when it is taken alone.        *)
(***************************************************************************)
EXTENDS LineOutput

\* Matches lie within the file, and none ends before it begins; only a line can
\* lack its terminator.
ASSUME SpansAssumption ==
    \A f \in Files :
        /\ f.open \in BOOLEAN /\ (f.open => f.hit # <<>>) /\ f.spans \subseteq Nat \X Nat
        /\ \A s \in f.spans : s[1] <= s[2] /\ s[2] <= 2 * Len(f.hit) - (IF f.open THEN 1 ELSE 0)

\* No match is held back (none) is told from every range.
ASSUME HeldAssumption == None \notin [start : Nat, end : Nat]

VARIABLES
    at,   \* Core.pos, in bytes
    held  \* last_match, a range of lines

multiVars == <<file, cfg, stopAnswer, pc, base, shown, core, at, held>>
constant == <<file, cfg, stopAnswer, base, shown>>

Size == 2 * Total - (IF file.open THEN 1 ELSE 0)
AtLine(i) == IF 2 * i < Size THEN 2 * i ELSE Size

MultiFresh == Fresh /\ at = 0 /\ held = None

\* A matcher that cannot match a line terminator has its lines searched one by
\* one instead: what would allow the fast path rules a multi line search out.
MultiLineMatcher == ~cfg.fast
MultiInit == Init /\ cfg.slice /\ MultiLineMatcher /\ MultiFresh

Lines(from, to) == [start |-> from, end |-> to]

\* locate: the lines a match touches; a terminator ends its own line.
Locate(span) ==
    LET start == span[1] \div 2
        ended == span[2] > 2 * start /\ span[2] % 2 = 0
    IN Lines(start, IF ended \/ span[2] \div 2 = Total THEN span[2] \div 2 ELSE span[2] \div 2 + 1)

First(from) ==
    LET later == {s \in file.spans : s[1] >= from}
    IN IF later = {} THEN None ELSE CHOOSE s \in later : \A t \in later : s[1] <= t[1]

\* advance: past the match, and past a byte if it is empty.
After(start, end) == IF start = end /\ end < Size THEN end + 1 ELSE end

\* Core.pos of LineSearch is the line after_context_by_line moved it to.
Unmoved(c) == [c EXCEPT !.pos = None]
Moved(c, position) == IF c.pos = None THEN position ELSE AtLine(c.pos)
Counting(c) == [c EXCEPT !.count = @ + 1]

-----------------------------------------------------------------------------
\* The calls of the core.

OtherContext(c, upto) ==
    LET Sink(d, i) == SinkContext(d, i, "other")
    IN IF ~c.go THEN c ELSE ForLines(Sink, Checked(c, c.visited, upto), c.visited, upto)

\* MultiLine.sink_context.
Context(c, upto) ==
    IF cfg.passthru THEN OtherContext(c, upto) ELSE BeforeContext(AfterContext(c, upto), upto)

\* Several lines are given in one call, with the offset and number of the first.
TellBlock(c, range) ==
    LET d == CountLines(c, range.start)
    IN Tell(d, [kind |-> "match", line |-> range.start + 1, upto |-> range.end,
                offset |-> d.offset + range.start, number |-> d.lineNumber])

\* Mutant: the answer of the sink is not looked at.
SinkRangeHasty(c, range) ==
    LET ready == BreakContext(DetectBinary(c, range.start, range.end), range.start)
        told == TellBlock(ready, range)
    IN IF ~c.go THEN c
       ELSE IF range.start = range.end THEN [c EXCEPT !.go = FALSE]
       ELSE IF ~ready.go THEN ready
       ELSE IF ~told.panicked THEN [told EXCEPT !.go = TRUE, !.visited = range.end, !.afterLeft = cfg.after, !.hasSunk = TRUE]
       ELSE told

\* MultiLine.sink_matched: several lines in one call; none ends the search.
SinkRange(c, range) ==
    LET ready == BreakContext(DetectBinary(c, range.start, range.end), range.start)
        told == TellBlock(ready, range)
    IN IF ~c.go THEN c
       ELSE IF range.start = range.end THEN [c EXCEPT !.go = FALSE]
       ELSE IF ~ready.go THEN ready
       ELSE IF told.go THEN [told EXCEPT !.visited = range.end, !.afterLeft = cfg.after, !.hasSunk = TRUE]
       ELSE told

SinkHeld(c, range) == SinkRange(Context(c, range.start), range)

-----------------------------------------------------------------------------
MultiBegin ==
    /\ pc = "begin"
    /\ LET examined == IF Total < DetectLines THEN Total ELSE DetectLines
           d == DetectBinary(Tell(core, [kind |-> "begin", line |-> 0]), 0, examined)
       IN core' = d /\ pc' = IF d.go THEN "turn" ELSE "finish"
    /\ UNCHANGED <<constant, at, held>>

Answered(c) == core' = c /\ pc' = IF c.go THEN "turn" ELSE "finish"

\* Mutant: lines are joined only if they begin together.
JoinsStart(last, line) == last.start >= line.start

\* Mutant: only lines that overlap are joined.
JoinsOverlap(last, line) == last.end > line.start

\* Adjacent lines are joined, too.
Joins(last, line) == last.end >= line.start

\* MultiLine.sink: a turn of the loop, for the next match.
NextMatch ==
    /\ pc = "turn" /\ at < Size /\ ~cfg.invert
    /\ IF ExceededLimit(core) \/ First(at) = None
       THEN at' = Size /\ UNCHANGED <<pc, core, held>>
       ELSE LET span == First(at)
                line == Locate(span)
                c == Counting(Unmoved(core))
                sunk == SinkHeld(c, held)
            IN IF held = None
               THEN held' = line /\ Answered(c) /\ at' = After(span[1], span[2])
               ELSE IF Joins(held, line)
               THEN held' = Lines(held.start, line.end) /\ Answered(c) /\ at' = After(span[1], span[2])
               ELSE held' = line /\ Answered(sunk) /\ at' = Moved(sunk, After(span[1], span[2]))
    /\ UNCHANGED constant

\* sink_matched_inverted: the lines before those of the next match.
NextInverted ==
    /\ pc = "turn" /\ at < Size /\ cfg.invert
    /\ LET found == ~ExceededLimit(core) /\ First(at) # None
           line == Locate(First(at))
           upto == IF found THEN line.start ELSE Total
           next == IF found THEN After(AtLine(line.start), AtLine(line.end)) ELSE Size
           c == IF found THEN Counting(Unmoved(core)) ELSE Unmoved(core)
           context == Context(Checked(c, at \div 2, upto), at \div 2)
           Sink(d, i) == SinkRange(d, Lines(i - 1, i))
           sunk == IF at \div 2 = upto THEN c ELSE ForLines(Sink, context, at \div 2, upto)
       IN Answered(sunk) /\ at' = Moved(sunk, next)
    /\ UNCHANGED <<constant, held>>

\* After the loop: the match that is held back, and the context that is left;
\* what the sink answers to the former is not looked at.
LastMatch ==
    /\ pc = "turn" /\ at >= Size
    /\ LET c == Unmoved(core)
           sunk == IF held = None THEN c ELSE SinkHeld(c, held)
           going == [sunk EXCEPT !.go = ~sunk.panicked]
           rest == IF cfg.passthru THEN OtherContext(going, Total) ELSE AfterContext(going, Total)
       IN core' = rest /\ at' = Moved(rest, at)
    /\ held' = None
    /\ pc' = "finish"
    /\ UNCHANGED constant

MultiCount ==
    IF core.binaryAt # None /\ 2 * (core.binaryAt - 1) < at THEN 2 * (core.binaryAt - 1) ELSE at

MultiFinish ==
    /\ pc = "finish"
    /\ pc' = "done"
    /\ core' = IF core.panicked THEN core ELSE [core EXCEPT !.calls = Append(@, [kind |-> "finish", line |-> MultiCount])]
    /\ UNCHANGED <<constant, at, held>>

MultiNext == MultiBegin \/ NextMatch \/ NextInverted \/ LastMatch \/ MultiFinish
MultiSpec == MultiInit /\ [][MultiNext]_multiVars

-----------------------------------------------------------------------------
\* What must be reported, from the file and the configuration alone.

\* The matches one after the other: from the end of one, or of its lines.
Resume(span, inverted) == IF inverted THEN AtLine(Locate(span).end) ELSE After(span[1], span[2])
Matches(inverted, limit) ==
    LET next[n \in 0 .. Cardinality(file.spans)] ==
            IF n = 0 THEN <<>>
            ELSE LET before == next[n - 1]
                     from == IF before = <<>> THEN 0 ELSE Resume(Last(before), inverted)
                     over == from >= Size \/ First(from) = None \/ (limit # None /\ Len(before) = limit)
                 IN IF over THEN before ELSE Append(before, First(from))
    IN next[Cardinality(file.spans)]

\* The lines of a sequence of matches, numbered from 1.
Touched(matches) == UNION {Locate(matches[k]).start + 1 .. Locate(matches[k]).end : k \in DOMAIN matches}

\* Lines that touch or adjoin are given together, inverted ones each alone.  A
\* match at the very end is on no line, though lines may be its context.
\* Beyond the limit a line that matches alone is a match also as context.
ReferenceFor(matches, chosen, atEnd) ==
    LET after == {i \in 1 .. Total : \E j \in chosen : j < i /\ i <= j + cfg.after}
        before == {i \in 1 .. Total : \E j \in chosen \cup atEnd : i < j /\ j <= i + cfg.before}
        beyond == {i \in 1 .. Total : cfg.max # None /\ Len(matches) = cfg.max /\ file.hit[i] /\ \A j \in chosen : j < i}
        Kind(i) == CASE i \in chosen \cup (after \cap beyond) -> "match"
                     [] i \in after \ (chosen \cup beyond) -> "after"
                     [] i \in before \ (chosen \cup after) -> "before"
                     [] OTHER -> "other"
        due == IF cfg.passthru THEN 1 .. Total ELSE chosen \cup after \cup before
        Together(i) == ~cfg.invert /\ i \in chosen /\ i - 1 \in chosen
        Block(i) == IF cfg.invert \/ i \notin chosen THEN {i} ELSE {k \in i .. Total : i .. k \subseteq chosen}
    IN [ chosen |-> chosen \cup atEnd, over |-> beyond, due |-> due, starts |-> {i \in due : ~Together(i)},
         kind |-> [i \in 1 .. Total |-> Kind(i)], upto |-> [i \in 1 .. Total |-> LastLine(Block(i))] ]

MultiReference ==
    LET For(matches) ==
            ReferenceFor(matches, IF cfg.invert THEN (1 .. Total) \ Touched(matches) ELSE Touched(matches),
                         IF ~cfg.invert /\ matches # <<>> /\ Last(matches)[1] = 2 * Total THEN {Total + 1} ELSE {})
    IN For(Matches(cfg.invert, cfg.max))

CallsIn(r) == Reports(Total, r.starts, [i \in r.starts |-> Calls(r.due, r.kind[i], i, r.upto[i])])[Total]
MultiExpected == CallsIn(MultiReference)

\* The sink answered false to a call; finish, the last one, has no answer.
Refused == stopAnswer \in 1 .. Len(core.calls) - (IF pc = "done" THEN 1 ELSE 0)
Quit == cfg.binary = "quit" /\ file.binary # {}

\* Under inversion the limit moves the search's position (see NoPanic).
Unlimited == cfg.invert => cfg.max = None

\* A line that matches alone matches in the file, too: a match begins in it.
\* Only a pattern that looks at what is around a match could tell the two apart.
Placed == cfg.max # None => \A i \in 1 .. Total : file.hit[i] => \E s \in file.spans : s[1] \div 2 = i - 1

\* Each call for lines has their offset and number, and none goes back: though
\* lines are counted lazily, and a match held back is given after context that
\* comes before it was counted (count_lines, MultiLine.sink).
MultiNumbered ==
    ~Refused =>
        \A k \in DOMAIN core.calls :
            core.calls[k].kind \in LineKinds =>
                /\ core.calls[k].offset = core.calls[k].line - 1 /\ core.calls[k].number = core.calls[k].line
                /\ \A j \in 1 .. k - 1 : core.calls[j].kind \in LineKinds => core.calls[j].line < core.calls[k].line

\* Each line of a match, of its context and between is given once, in the
\* order of the file, with its own offset and number; lines of matches that
\* touch or adjoin come in one call, though a match is known to be the last of
\* its block only when the next one was found (MultiLine.sink, run).
MultiReports ==
    LET Agree(reported, expected) ==
            /\ IsPrefix(reported, expected)
            /\ (pc = "done" /\ ~Quit) => reported = expected
    IN ~Refused => Agree(Reported, MultiExpected) /\ MultiNumbered

\* Besides the types: the match held back lies behind every line that was given
\* and, until the limit is exceeded, before the position; an inverted search
\* stands at a line's start, and no range runs backwards.
MultiTypeOK ==
    /\ pc \in {"begin", "turn", "finish", "done"}
    /\ at \in 0 .. Size
    /\ cfg.invert => at = Size \/ at % 2 = 0
    /\ core.visited \in 0 .. Total /\ core.counted \in 0 .. Total /\ core.afterLeft \in 0 .. cfg.after
    /\ held # None => core.visited <= held.start /\ held.end <= Total
    /\ held # None => 2 * held.start <= at \/ ExceededLimit(core)
    /\ ~core.panicked

\* A sink that refuses a call ends the search: but for what is left to give
\* when the match held back at the end was refused, no call but finish follows
\* (MultiLine.run).
MultiStops ==
    Refused =>
        /\ pc \in {"finish", "done"}
        /\ (cfg.invert \/ held # None) => Len(core.calls) = stopAnswer + (IF pc = "done" THEN 1 ELSE 0)
        /\ pc = "done" => Last(core.calls).kind = "finish"

-----------------------------------------------------------------------------
\* What documentation says and the code does not do.

\* "Every `Match` is guaranteed to satisfy the invariant that `start <= end`"
\* (matcher/lib.v, line 44): Match.new panics otherwise.
NoPanic == ~core.panicked
=============================================================================
