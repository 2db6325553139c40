----------------------- MODULE MultiLineSearch_proofs -----------------------
(***************************************************************************)
(* Proofs about the multi line search, over those about the core it shares *)
(* with the line oriented one: ranges never run backwards, each line has   *)
(* its own number and offset, a sink that refuses is obeyed, and the calls *)
(* are those of the reference in MultiLineSearch, for all files, matches,  *)
(* configurations of Unlimited and Placed, and sinks.                      *)
(*                                                                         *)
(* MultiInv says where the core, the position and the match held back      *)
(* stand; Reporting, what was reported and what is held back.              *)
(***************************************************************************)
EXTENDS MultiLineSearch, LineSearch_proofs
-----------------------------------------------------------------------------
\* The multi line search: the same core, over a position in bytes.  What a
\* refused call leaves is still a core whose ranges do not run backwards.
Firm(c) == c \in Cores /\ Ranges(c)

Grown(c, d) == Firm(d) /\ Len(c.calls) <= Len(d.calls) /\ d.count = c.count

MultiPlace == Given /\ cfg.slice /\ MultiLineMatcher /\ base = 0 /\ shown = Total /\ at \in 0 .. Size

MultiRunning ==
    pc \in {"begin", "turn"} =>
        /\ Sound(core) /\ core.go
        /\ pc = "begin" => at = 0 /\ held = None /\ core.visited = 0

MultiHeld ==
    /\ held # None =>
        /\ ~cfg.invert /\ pc # "begin"
        /\ held = Lines(held.start, held.end)
        /\ held.start \in 0 .. Total /\ held.end \in held.start .. Total
        /\ core.visited <= held.start
        /\ 2 * held.start <= at \/ ExceededLimit(core)
    /\ (held = None /\ ~cfg.invert /\ pc \in {"begin", "turn"}) => core.visited = 0

MultiInverted ==
    cfg.invert =>
        /\ at = Size \/ at % 2 = 0
        /\ pc = "turn" => at = Size \/ core.visited <= at \div 2

MultiOver ==
    pc \in {"finish", "done"} =>
        /\ Firm(core)
        /\ (stopAnswer > 0 /\ (cfg.invert \/ held # None)) =>
                Len(core.calls) <= stopAnswer + (IF pc = "done" THEN 1 ELSE 0)
        /\ pc = "done" => core.calls # <<>> /\ core.calls[Len(core.calls)].kind = "finish"
        /\ ~Refused => NumbersMatch(core.calls)

MultiInv ==
    Unlimited =>
        /\ pc \in {"begin", "turn", "finish", "done"}
        /\ MultiPlace /\ MultiRunning /\ MultiHeld /\ MultiInverted /\ MultiOver
-----------------------------------------------------------------------------
LEMMA GrownTell ==
    ASSUME NEW c, Firm(c), NEW x \in SinkCalls
    PROVE  Grown(c, Tell(c, x)) /\ Kept(c, Tell(c, x)) /\ Told(c, Tell(c, x), x)
<1> DEFINE d == Tell(c, x)
<1>1. Told(c, d, x)
  BY TellTold DEF Firm
<1> HIDE DEF d
<1>2. c.calls \in Seq(SinkCalls)
  BY CoreTypes DEF Firm
<1>3. Len(d.calls) = Len(c.calls) + 1 /\ Len(c.calls) \in Nat
  BY <1>1, <1>2, AppendOne DEF Told
<1>4. Ranges(d)
  BY <1>1 DEF Told, Ranges, Firm
<1> QED BY <1>1, <1>3, <1>4 DEF Told, Grown, Firm, Kept, d

LEMMA GrownDetect ==
    ASSUME State, NEW c, Firm(c), NEW from \in Nat, NEW to \in Nat, to <= shown
    PROVE  LET d == DetectBinary(c, from, to)
           IN Grown(c, d) /\ Kept(c, d) /\ (d.go => c.go) /\ (~c.go => d = c)
<1> DEFINE d == DetectBinary(c, from, to)
<1>0. c \in Cores /\ Total \in Nat /\ file.binary \subseteq 1 .. Total /\ c.calls \in Seq(SinkCalls)
  BY Facts, CoreTypes DEF State, Firm
<1>6. Len(c.calls) \in Nat
  BY <1>0
<1>1. CASE ~c.go \/ ~cfg.slice \/ cfg.binary = "none"
  BY <1>1, <1>6 DEF DetectBinary, Kept, Grown
<1>2. CASE c.go /\ cfg.slice /\ cfg.binary # "none" /\ c.binaryAt # None
  <2> DEFINE g == cfg.binary # "quit"
  <2>1. d = [c EXCEPT !.go = g] /\ g \in BOOLEAN
    BY <1>2 DEF DetectBinary
  <2> HIDE DEF d, g
  <2>3. d \in Cores /\ d.pos = c.pos /\ d.binaryAt = c.binaryAt
        /\ d.counted = c.counted /\ d.visited = c.visited /\ d.afterLeft = c.afterLeft
        /\ d.hasMatched = c.hasMatched /\ d.count = c.count /\ d.panicked = c.panicked /\ d.calls = c.calls
    BY <1>0, <2>1 DEF Cores
  <2>4. Ranges(d)
    BY <2>3 DEF Firm, Ranges
  <2> QED BY <1>2, <1>6, <2>3, <2>4 DEF Firm, Grown, Kept, d
<1>3. CASE c.go /\ cfg.slice /\ cfg.binary # "none" /\ c.binaryAt = None /\ BinaryIn(from, to) = {}
  BY <1>3, <1>6 DEF DetectBinary, Kept, Grown
<1>4. CASE c.go /\ cfg.slice /\ cfg.binary # "none" /\ c.binaryAt = None /\ BinaryIn(from, to) # {}
  <2> DEFINE first == CHOOSE i \in BinaryIn(from, to) : \A j \in BinaryIn(from, to) : i <= j
             x == [kind |-> "binary", line |-> first]
             t == Tell(c, x)
             g == t.go /\ cfg.binary # "quit"
  <2>1. first \in BinaryIn(from, to)
    <3>1. BinaryIn(from, to) \subseteq Nat
      BY DEF BinaryIn
    <3>2. \E i \in BinaryIn(from, to) : \A j \in BinaryIn(from, to) : i <= j
      BY <1>4, <3>1, LeastNat
    <3> QED BY <3>2, Zenon
  <2> HIDE DEF first
  <2>2. base = 0 /\ first \in 1 .. Total /\ first \in Int
    BY <1>0, <1>4, <2>1 DEF State, BinaryIn
  <2>3. x \in SinkCalls
    BY <2>2 DEF Marks, SinkCalls
  <2>4. d = [t EXCEPT !.binaryAt = first, !.go = @ /\ cfg.binary # "quit"]
    BY <1>4 DEF DetectBinary, first
  <2> HIDE DEF x, d
  <2>5. Grown(c, t) /\ Kept(c, t) /\ t \in Cores
    BY <2>3, GrownTell DEF Grown, Firm
  <2> HIDE DEF t
  <2>6. d = [t EXCEPT !.binaryAt = first, !.go = g] /\ g \in BOOLEAN
    BY <2>4, <2>5 DEF Cores
  <2> HIDE DEF g
  <2>8. d \in Cores /\ d.pos = t.pos /\ d.binaryAt = first
        /\ d.counted = t.counted /\ d.visited = t.visited /\ d.afterLeft = t.afterLeft
        /\ d.hasMatched = t.hasMatched /\ d.count = t.count /\ d.panicked = t.panicked /\ d.calls = t.calls
    BY <2>2, <2>5, <2>6 DEF Cores
  <2>9. Ranges(d)
    BY <2>2, <2>5, <2>8 DEF Grown, Firm, Ranges
  <2> QED BY <1>4, <2>5, <2>8, <2>9 DEF Grown, Firm, Kept, d
<1> QED BY <1>0, <1>1, <1>2, <1>3, <1>4, CoreTypes DEF d

LEMMA GrownBreak ==
    ASSUME State, NEW c, Firm(c), NEW start \in Int
    PROVE  LET d == BreakContext(c, start)
           IN Grown(c, d) /\ Kept(c, d) /\ (d.go => c.go) /\ (~c.go => d = c)
<1>0. Len(c.calls) \in Nat
  <2>1. c.calls \in Seq(SinkCalls)
    BY CoreTypes DEF Firm
  <2> QED BY <2>1
<1>1. CASE c.go /\ cfg.before + cfg.after > 0 /\ c.hasSunk /\ c.visited < start
  <2> DEFINE x == [kind |-> "break", line |-> base + start]
  <2>1. x \in SinkCalls
    BY DEF SinkCalls, Marks, State
  <2>2. BreakContext(c, start) = Tell(c, x)
    BY <1>1 DEF BreakContext
  <2> HIDE DEF x
  <2> QED BY <1>1, <2>1, <2>2, GrownTell
<1>2. CASE ~(c.go /\ cfg.before + cfg.after > 0 /\ c.hasSunk /\ c.visited < start)
  BY <1>0, <1>2 DEF BreakContext, Kept, Grown
<1> QED BY <1>1, <1>2

LEMMA GrownCount ==
    ASSUME State, NEW c, Firm(c), NEW n \in 0 .. shown
    PROVE  LET d == CountLines(c, n)
           IN Grown(c, d) /\ Kept(c, d) /\ d.go = c.go
<1> DEFINE d == CountLines(c, n)
<1>0. c \in Cores /\ c.counted \in Int /\ c.lineNumber \in Int /\ n \in Int /\ c.calls \in Seq(SinkCalls)
  BY CoreTypes DEF Firm, State
<1>3. Len(c.calls) \in Nat
  BY <1>0
<1>1. CASE c.counted >= n
  BY <1>1, <1>3 DEF CountLines, Kept, Grown
<1>2. CASE ~(c.counted >= n)
  <2> DEFINE m == c.lineNumber + (n - c.counted)
  <2>1. d = [c EXCEPT !.lineNumber = m, !.counted = n] /\ m \in Int
    BY <1>0, <1>2 DEF CountLines, Cores
  <2> HIDE DEF m, d
  <2>3. d \in Cores /\ d.counted = n
        /\ d.pos = c.pos /\ d.binaryAt = c.binaryAt /\ d.visited = c.visited
        /\ d.afterLeft = c.afterLeft /\ d.hasMatched = c.hasMatched
        /\ d.count = c.count /\ d.go = c.go /\ d.panicked = c.panicked /\ d.calls = c.calls
    BY <1>0, <2>1 DEF Cores
  <2>4. Ranges(d)
    BY <2>3 DEF Firm, Ranges
  <2> QED BY <1>3, <2>3, <2>4 DEF Kept, Grown, Firm, d
<1> QED BY <1>1, <1>2

LEMMA GrownReport ==
    ASSUME State, NEW c, Firm(c), NEW i \in 1 .. shown, NEW kind \in LineKinds
    PROVE  LET d == Report(c, i, kind)
           IN Grown(c, d) /\ Kept(c, d) /\ (d.go => c.go) /\ (~c.go => d = c)
<1> DEFINE m == CountLines(c, i - 1)
           x == [kind |-> kind, line |-> base + i, offset |-> m.offset + i - 1, number |-> m.lineNumber]
<1>0. i - 1 \in 0 .. shown /\ base \in Nat /\ i \in Int /\ c.calls \in Seq(SinkCalls)
  BY CoreTypes DEF State, Firm
<1>1. Grown(c, m) /\ Kept(c, m) /\ m.go = c.go
  BY <1>0, GrownCount
<1>2. Report(c, i, kind) = IF ~c.go THEN c ELSE Tell(m, x)
  BY DEF Report
<1> HIDE DEF m
<1>3. Firm(m) /\ m.offset \in Int /\ m.lineNumber \in Int /\ m.calls \in Seq(SinkCalls)
  BY <1>1, CoreTypes DEF Grown, Firm
<1>4. x \in SinkCalls
  BY <1>0, <1>3 DEF SinkCalls, LineCalls
<1> HIDE DEF x
<1>5. Grown(m, Tell(m, x)) /\ Kept(m, Tell(m, x))
  BY <1>3, <1>4, GrownTell
<1> DEFINE t == Tell(m, x)
<1> HIDE DEF t
<1>6. Grown(m, t) /\ Kept(m, t) /\ Report(c, i, kind) = IF ~c.go THEN c ELSE t
  BY <1>2, <1>5 DEF t
<1>7. Len(c.calls) \in Nat /\ Len(m.calls) \in Nat /\ Len(t.calls) \in Nat
  <2>1. t.calls \in Seq(SinkCalls)
    BY <1>6, CoreTypes DEF Grown, Firm
  <2> QED BY <1>0, <1>3, <2>1
<1> QED BY <1>1, <1>6, <1>7 DEF Grown, Kept
\* Visited(d, e): e is d that visited more lines.
Visited(d, e) ==
    /\ e \in Cores /\ e.visited \in 0 .. shown /\ e.afterLeft \in 0 .. cfg.after
    /\ e.pos = d.pos /\ e.go = d.go /\ e.binaryAt = d.binaryAt /\ e.counted = d.counted
    /\ e.panicked = d.panicked /\ e.calls = d.calls /\ e.count = d.count

LEMMA VisitedGrown ==
    ASSUME NEW d, Firm(d), NEW e, Visited(d, e)
    PROVE  Grown(d, e)
<1>1. Ranges(e)
  BY DEF Ranges, Firm, Visited
<1>2. d.calls \in Seq(SinkCalls)
  BY CoreTypes DEF Firm
<1>3. Len(d.calls) \in Nat
  BY <1>2
<1> QED BY <1>1, <1>3 DEF Grown, Firm, Visited

LEMMA GrownContext ==
    ASSUME State, NEW c, Firm(c), NEW i \in 1 .. shown,
           NEW kind \in {"before", "after", "other"}, kind = "after" => c.afterLeft >= 1
    PROVE  LET d == SinkContext(c, i, kind)
           IN Grown(c, d) /\ d.pos = c.pos /\ (d.go => c.go) /\ d.visited \in {i, c.visited}
<1> DEFINE b == DetectBinary(c, i - 1, i)
           r == Report(b, i, kind)
           a == IF kind = "after" THEN r.afterLeft - 1 ELSE r.afterLeft
           e == [r EXCEPT !.visited = i, !.afterLeft = a, !.hasSunk = TRUE]
           d == SinkContext(c, i, kind)
<1>0. i - 1 \in Nat /\ i \in Nat /\ i <= shown /\ shown \in Nat /\ i \in 0 .. shown /\ kind \in LineKinds /\ cfg.after \in Nat
  BY Facts DEF State, LineKinds, Config
<1>1. Grown(c, b) /\ Kept(c, b) /\ (b.go => c.go)
  BY <1>0, GrownDetect
<1> HIDE DEF b
<1>2. Grown(b, r) /\ Kept(b, r) /\ (r.go => b.go)
  BY <1>0, <1>1, GrownReport DEF Grown
<1>3. d = IF r.go THEN [r EXCEPT !.visited = i, !.hasSunk = TRUE, !.afterLeft = IF kind = "after" THEN @ - 1 ELSE @] ELSE r
  BY DEF SinkContext, b
<1> HIDE DEF r, d
<1>4. Firm(b) /\ Firm(r) /\ r \in Cores /\ b \in Cores /\ c \in Cores
  BY <1>1, <1>2 DEF Grown, Firm
<1>5. d = IF r.go THEN e ELSE r
  BY <1>3, <1>4 DEF Cores
<1>6. a \in 0 .. cfg.after
  BY <1>0, <1>1, <1>2, <1>4 DEF Kept, Firm, Ranges
<1> HIDE DEF a
<1>7. Grown(r, e) /\ e.pos = r.pos /\ e.visited = i /\ e.go = r.go
  <2>1. i \in Int /\ a \in Int /\ r \in Cores /\ a \in 0 .. cfg.after
    BY <1>0, <1>4, <1>6
  <2>2. e \in Cores /\ e.visited = i /\ e.afterLeft = a /\ e.pos = r.pos /\ e.go = r.go /\ e.binaryAt = r.binaryAt
        /\ e.counted = r.counted /\ e.panicked = r.panicked /\ e.calls = r.calls /\ e.count = r.count
    BY <2>1 DEF Cores
  <2> HIDE DEF e
  <2>3. Visited(r, e)
    BY <1>0, <2>1, <2>2 DEF Visited
  <2> QED BY <1>4, <2>2, <2>3, VisitedGrown
<1> HIDE DEF e
<1>8. Len(c.calls) \in Nat /\ Len(b.calls) \in Nat /\ Len(r.calls) \in Nat /\ Len(e.calls) \in Nat
  <2>1. c.calls \in Seq(SinkCalls) /\ b.calls \in Seq(SinkCalls) /\ r.calls \in Seq(SinkCalls) /\ e.calls \in Seq(SinkCalls)
    BY <1>4, <1>7, CoreTypes DEF Grown, Firm
  <2> QED BY <2>1
<1>9. Grown(c, d) /\ d.pos = c.pos /\ (d.go => c.go) /\ d.visited \in {i, c.visited}
  BY <1>1, <1>2, <1>5, <1>7, <1>8 DEF Grown, Kept
<1> QED BY <1>9 DEF d

LEMMA GrownMatched ==
    ASSUME State, NEW c, Firm(c), NEW i \in 1 .. shown
    PROVE  LET d == SinkMatched(c, i)
           IN Grown(c, d) /\ d.pos = c.pos /\ (d.go => c.go) /\ d.visited \in {i, c.visited}
<1> DEFINE b == DetectBinary(c, i - 1, i)
           k == BreakContext(b, i - 1)
           r == Report(k, i, "match")
           a == cfg.after
           e == [r EXCEPT !.visited = i, !.afterLeft = a, !.hasSunk = TRUE]
           d == SinkMatched(c, i)
<1>0. i - 1 \in Nat /\ i - 1 \in Int /\ i \in Nat /\ i <= shown /\ shown \in Nat /\ i \in 0 .. shown /\ "match" \in LineKinds /\ a \in 0 .. cfg.after
  BY Facts DEF State, LineKinds, Config
<1>1. Grown(c, b) /\ Kept(c, b) /\ (b.go => c.go)
  BY <1>0, GrownDetect
<1> HIDE DEF b
<1>2. Grown(b, k) /\ Kept(b, k) /\ (k.go => b.go)
  BY <1>0, <1>1, GrownBreak DEF Grown
<1> HIDE DEF k
<1>3. Grown(k, r) /\ Kept(k, r) /\ (r.go => k.go)
  BY <1>0, <1>2, GrownReport DEF Grown
<1>5. d = IF r.go THEN e ELSE r
  BY DEF SinkMatched, b, k
<1> HIDE DEF r, d, a
<1>4. Firm(r) /\ r \in Cores /\ b \in Cores /\ c \in Cores /\ k \in Cores
  BY <1>1, <1>2, <1>3 DEF Grown, Firm
<1>7. Grown(r, e) /\ e.pos = r.pos /\ e.visited = i /\ e.go = r.go
  <2>1. i \in Int /\ a \in Int /\ r \in Cores /\ a \in 0 .. cfg.after
    BY <1>0, <1>4
  <2>2. e \in Cores /\ e.visited = i /\ e.afterLeft = a /\ e.pos = r.pos /\ e.go = r.go /\ e.binaryAt = r.binaryAt
        /\ e.counted = r.counted /\ e.panicked = r.panicked /\ e.calls = r.calls /\ e.count = r.count
    BY <2>1 DEF Cores
  <2> HIDE DEF e
  <2>3. Visited(r, e)
    BY <1>0, <2>1, <2>2 DEF Visited
  <2> QED BY <1>4, <2>2, <2>3, VisitedGrown
<1> HIDE DEF e
<1>8. Len(c.calls) \in Nat /\ Len(b.calls) \in Nat /\ Len(r.calls) \in Nat /\ Len(e.calls) \in Nat /\ Len(k.calls) \in Nat
  <2>1. c.calls \in Seq(SinkCalls) /\ b.calls \in Seq(SinkCalls) /\ r.calls \in Seq(SinkCalls) /\ e.calls \in Seq(SinkCalls)
        /\ k.calls \in Seq(SinkCalls)
    BY <1>4, <1>7, CoreTypes DEF Grown, Firm
  <2> QED BY <2>1
<1>9. Grown(c, d) /\ d.pos = c.pos /\ (d.go => c.go) /\ d.visited \in {i, c.visited}
  BY SMTT(30), <1>1, <1>2, <1>3, <1>5, <1>7, <1>8 DEF Grown, Kept
<1> QED BY <1>9 DEF d

LEMMA GrownAfterLine ==
    ASSUME State, NEW c, NEW d, Firm(d), NEW i \in 1 .. shown, d.visited < i
    PROVE  LET e == AfterLine(c, d, i)
           IN /\ Grown(d, e) /\ e.visited <= i
              /\ e.pos = d.pos \/ (ExceededLimit(c) /\ e.pos = i)
<1> DEFINE r == AfterLine(c, d, i)
<1>0. d \in Cores /\ i \in Int /\ i \in Int \cup {None} /\ d.visited \in Int /\ d.afterLeft \in 0 .. cfg.after /\ cfg.after \in Nat
      /\ d.calls \in Seq(SinkCalls)
  BY CoreTypes, Facts DEF Firm, State, Ranges, Config
<1>9. Len(d.calls) \in Nat
  BY <1>0
<1>1. CASE ~d.go \/ d.afterLeft = 0
  BY <1>0, <1>1, <1>9 DEF AfterLine, Grown
<1>2. CASE d.go /\ d.afterLeft # 0 /\ ExceededLimit(c) /\ Hit(i) # cfg.invert
  <2> DEFINE m == [d EXCEPT !.pos = i]
  <2>1. Alike(d, m) /\ m.pos = i /\ m.count = d.count
    BY <1>0, PosAlike
  <2> HIDE DEF m
  <2>2. Firm(m) /\ m.visited < i
    BY <2>1 DEF Alike, Firm, Ranges
  <2> DEFINE e == SinkMatched(m, i)
  <2>3. Grown(m, e) /\ e.pos = m.pos /\ e.visited \in {i, m.visited}
    BY <2>2, GrownMatched
  <2>4. r = IF e.go THEN [e EXCEPT !.afterLeft = d.afterLeft - 1] ELSE e
    BY <1>2 DEF AfterLine, m
  <2> HIDE DEF e, r
  <2>7. Grown(d, e) /\ e.pos = i /\ e.visited <= i /\ e \in Cores
    BY <1>0, <2>1, <2>2, <2>3 DEF Alike, Grown, Firm
  <2>5. CASE e.go
    <3> DEFINE a == d.afterLeft - 1
    <3>1. a \in 0 .. cfg.after /\ a \in Int
      BY <1>0, <1>2
    <3>2. r = [e EXCEPT !.afterLeft = a]
      BY <2>4, <2>5
    <3> HIDE DEF a
    <3>3. r \in Cores /\ r.pos = e.pos /\ r.visited = e.visited /\ r.afterLeft = a /\ r.binaryAt = e.binaryAt
          /\ r.counted = e.counted /\ r.panicked = e.panicked /\ r.calls = e.calls /\ r.count = e.count
      BY <2>7, <3>1, <3>2 DEF Cores
    <3>4. Grown(d, r)
      BY <2>7, <3>1, <3>3 DEF Grown, Firm, Ranges
    <3> QED BY <1>2, <2>7, <3>3, <3>4 DEF r
  <2>6. CASE ~e.go
    BY <1>2, <2>4, <2>6, <2>7 DEF r
  <2> QED BY <2>5, <2>6
<1>3. CASE d.go /\ d.afterLeft # 0 /\ ~(ExceededLimit(c) /\ Hit(i) # cfg.invert)
  <2>1. r = SinkContext(d, i, "after") /\ d.afterLeft >= 1
    BY <1>0, <1>3 DEF AfterLine
  <2> HIDE DEF r
  <2>2. Grown(d, r) /\ r.pos = d.pos /\ (r.go => d.go) /\ r.visited \in {i, d.visited}
    BY <2>1, GrownContext
  <2> QED BY <1>0, <2>2 DEF r
<1> QED BY <1>1, <1>2, <1>3
\* What grows grows on.
LEMMA GrownOn ==
    ASSUME NEW c \in Cores, NEW d, Grown(c, d), NEW e, Grown(d, e)
    PROVE  Grown(c, e)
<1>1. c.calls \in Seq(SinkCalls) /\ d.calls \in Seq(SinkCalls) /\ e.calls \in Seq(SinkCalls)
  BY CoreTypes DEF Grown, Firm
<1>2. Len(c.calls) \in Nat /\ Len(d.calls) \in Nat /\ Len(e.calls) \in Nat
  BY <1>1
<1> QED BY <1>2 DEF Grown

LEMMA GrownAfter ==
    ASSUME State, NEW c, Firm(c), NEW upto \in 0 .. shown, c.afterLeft > 0 => c.visited <= upto
    PROVE  LET d == AfterContext(c, upto)
           IN /\ Grown(c, d)
              /\ d.visited <= upto \/ d = c
              /\ d.pos = c.pos \/ (ExceededLimit(c) /\ d.pos \in 1 .. upto)
<1> DEFINE P(d, i) == /\ Grown(c, d) /\ d.visited <= i
                      /\ d.pos = c.pos \/ (ExceededLimit(c) /\ d.pos \in 1 .. upto)
           Sink(d, i) == AfterLine(c, d, i)
           b == c
<1>0. c \in Cores /\ c.visited \in 0 .. shown /\ shown \in Nat /\ c.afterLeft \in Nat /\ Grown(c, c)
  <2>1. c.calls \in Seq(SinkCalls)
    BY CoreTypes DEF Firm
  <2>2. Len(c.calls) \in Nat
    BY <2>1
  <2> QED BY <2>2, Facts DEF Firm, State, Config, Ranges, Grown
<1>1. CASE ~c.go \/ c.afterLeft = 0
  BY <1>0, <1>1 DEF AfterContext
<1>2. CASE c.go /\ c.afterLeft # 0
  <2>3. PICK a \in 0 .. shown : a = c.visited /\ a <= upto
    BY <1>0, <1>2
  <2>4. Checked(c, a, upto) = c
    BY <1>0, <2>3, CheckedSound
  <2> DEFINE Turns(f) == [i \in a .. upto |-> IF i = a THEN b ELSE Sink(f[i - 1], i)]
             rec == CHOOSE f : f = Turns(f)
             X == [i \in a .. upto |-> {d \in Cores : P(d, i)}]
             F == [p \in (a + 1 .. upto) \X Cores |-> Sink(p[2], p[1])]
  <2>5. AfterContext(c, upto) = rec[upto]
    BY <1>2, <2>3, <2>4 DEF ForLines, AfterContext, AfterLine
  <2>6. ASSUME NEW i \in a + 1 .. upto, NEW d, P(d, i - 1) PROVE P(Sink(d, i), i)
    <3>0. i \in 1 .. shown /\ i \in 1 .. upto /\ d.visited \in Int /\ d.visited < i /\ Firm(d)
      BY <1>0, <2>3, <2>6, CoreTypes DEF Grown, Firm
    <3> DEFINE e == AfterLine(c, d, i)
    <3>1. Grown(d, e) /\ e.visited <= i /\ (e.pos = d.pos \/ (ExceededLimit(c) /\ e.pos = i))
      BY <2>6, <3>0, GrownAfterLine
    <3> HIDE DEF e
    <3>2. P(e, i)
      BY <1>0, <2>6, <3>0, <3>1, GrownOn
    <3> QED BY <3>2 DEF e
  <2> HIDE DEF P, Sink
  <2>7. \A i \in a .. upto : X[i] = {d \in Cores : P(d, i)}
    OBVIOUS
  <2>8. \A d, i : P(d, i) => d \in Cores
    BY DEF P, Grown, Firm
  <2>9. a \in Int /\ upto \in Int /\ a <= upto /\ a \in a .. upto /\ upto \in a .. upto /\ \A i \in a + 1 .. upto : i \in a .. upto /\ i - 1 \in a .. upto
    BY <2>3
  <2>10. \A i \in a + 1 .. upto : \A d \in Cores : F[<<i, d>>] = Sink(d, i)
    OBVIOUS
  <2> HIDE DEF X, F
  <2>11. b \in X[a]
    BY <1>0, <2>3, <2>7, <2>9 DEF P
  <2>12. \A i \in a + 1 .. upto : \A d \in X[i - 1] : Sink(d, i) \in X[i]
    BY <2>6, <2>7, <2>8, <2>9
  <2>13. \A i \in a .. upto : X[i] \subseteq Cores
    BY <2>7
  <2>14. \A i \in a + 1 .. upto : \A d \in X[i - 1] : F[<<i, d>>] \in X[i]
    BY <2>9, <2>10, <2>12, <2>13
  <2>15. PICK g : IsRun(g, a, upto, X, b, F)
    BY <2>9, <2>11, <2>13, <2>14, RunExists
  <2>16. g = Turns(g)
    <3>1. \A i \in a + 1 .. upto : g[i] = Sink(g[i - 1], i)
      BY <2>9, <2>10, <2>13, <2>15 DEF IsRun
    <3>2. \A i \in a .. upto : g[i] = IF i = a THEN b ELSE Sink(g[i - 1], i)
      <4> TAKE i \in a .. upto
      <4>1. g[a] = b
        BY <2>15 DEF IsRun
      <4>2. i # a => i \in a + 1 .. upto
        BY <2>9
      <4> QED BY <3>1, <4>1, <4>2
    <3>3. g = [i \in a .. upto |-> g[i]]
      BY <2>15 DEF IsRun
    <3> QED BY <3>2, <3>3
  <2>17. rec = Turns(rec)
    BY <2>16, Zenon
  <2> HIDE DEF rec
  <2>18. rec[a] \in X[a] /\ \A i \in a + 1 .. upto : rec[i] = Sink(rec[i - 1], i)
    BY <2>9, <2>11, <2>17
  <2>19. \A i \in a + 1 .. upto : rec[i - 1] \in X[i - 1] => rec[i] \in X[i]
    BY <2>12, <2>18
  <2>20. \A i \in a .. upto : rec[i] \in X[i]
    BY <2>9, <2>18, <2>19, Along
  <2>21. P(rec[upto], upto)
    BY <2>7, <2>9, <2>20
  <2> QED BY <2>5, <2>21 DEF P
<1> QED BY <1>0, <1>1, <1>2

\* other_context_by_line.
LEMMA OtherContexts ==
    ASSUME State, NEW c, Firm(c), NEW upto \in 0 .. shown, c.visited <= upto
    PROVE  LET d == OtherContext(c, upto)
           IN /\ Grown(c, d) /\ d.visited <= upto /\ d.pos = c.pos /\ (d.go => c.go)
              /\ Sound(c) => Sound(d)
<1> DEFINE P(d, i) == Grown(c, d) /\ d.visited <= i /\ d.pos = c.pos /\ (d.go => c.go) /\ (Sound(c) => Sound(d))
           Sink(d, i) == SinkContext(d, i, "other")
           b == c
<1>0. c \in Cores /\ c.visited \in 0 .. shown /\ shown \in Nat /\ Grown(c, c)
  <2>1. c.calls \in Seq(SinkCalls)
    BY CoreTypes DEF Firm
  <2>2. Len(c.calls) \in Nat
    BY <2>1
  <2> QED BY <2>2, Facts DEF Firm, State, Config, Ranges, Grown
<1>1. CASE ~c.go
  BY <1>0, <1>1 DEF OtherContext
<1>2. CASE c.go
  <2>3. PICK a \in 0 .. shown : a = c.visited /\ a <= upto
    BY <1>0, <1>2
  <2>4. Checked(c, a, upto) = c
    BY <1>0, <2>3, CheckedSound
  <2> DEFINE Turns(f) == [i \in a .. upto |-> IF i = a THEN b ELSE Sink(f[i - 1], i)]
             rec == CHOOSE f : f = Turns(f)
             X == [i \in a .. upto |-> {d \in Cores : P(d, i)}]
             F == [p \in (a + 1 .. upto) \X Cores |-> Sink(p[2], p[1])]
  <2>5. OtherContext(c, upto) = rec[upto]
    BY <1>2, <2>3, <2>4 DEF ForLines, OtherContext
  <2>6. ASSUME NEW i \in a + 1 .. upto, NEW d, P(d, i - 1) PROVE P(Sink(d, i), i)
    <3>0. i \in 1 .. shown /\ d.visited \in Int /\ d.visited < i /\ Firm(d)
      BY <1>0, <2>3, <2>6, CoreTypes DEF Grown, Firm
    <3> DEFINE e == SinkContext(d, i, "other")
    <3>1. Grown(d, e) /\ e.pos = d.pos /\ (e.go => d.go) /\ e.visited \in {i, d.visited}
      BY <3>0, GrownContext
    <3>2. Sound(d) => Sound(e)
      BY <3>0, ContextSound
    <3> HIDE DEF e
    <3>3. e.visited <= i
      BY <3>0, <3>1
    <3>4. P(e, i)
      BY <1>0, <2>6, <3>1, <3>2, <3>3, GrownOn
    <3> QED BY <3>4 DEF e
  <2> HIDE DEF P, Sink
  <2>7. \A i \in a .. upto : X[i] = {d \in Cores : P(d, i)}
    OBVIOUS
  <2>8. \A d, i : P(d, i) => d \in Cores
    BY DEF P, Grown, Firm
  <2>9. a \in Int /\ upto \in Int /\ a <= upto /\ a \in a .. upto /\ upto \in a .. upto /\ \A i \in a + 1 .. upto : i \in a .. upto /\ i - 1 \in a .. upto
    BY <2>3
  <2>10. \A i \in a + 1 .. upto : \A d \in Cores : F[<<i, d>>] = Sink(d, i)
    OBVIOUS
  <2> HIDE DEF X, F
  <2>11. b \in X[a]
    BY <1>0, <2>3, <2>7, <2>9 DEF P
  <2>12. \A i \in a + 1 .. upto : \A d \in X[i - 1] : Sink(d, i) \in X[i]
    BY <2>6, <2>7, <2>8, <2>9
  <2>13. \A i \in a .. upto : X[i] \subseteq Cores
    BY <2>7
  <2>14. \A i \in a + 1 .. upto : \A d \in X[i - 1] : F[<<i, d>>] \in X[i]
    BY <2>9, <2>10, <2>12, <2>13
  <2>15. PICK g : IsRun(g, a, upto, X, b, F)
    BY <2>9, <2>11, <2>13, <2>14, RunExists
  <2>16. g = Turns(g)
    <3>1. \A i \in a + 1 .. upto : g[i] = Sink(g[i - 1], i)
      BY <2>9, <2>10, <2>13, <2>15 DEF IsRun
    <3>2. \A i \in a .. upto : g[i] = IF i = a THEN b ELSE Sink(g[i - 1], i)
      <4> TAKE i \in a .. upto
      <4>1. g[a] = b
        BY <2>15 DEF IsRun
      <4>2. i # a => i \in a + 1 .. upto
        BY <2>9
      <4> QED BY <3>1, <4>1, <4>2
    <3>3. g = [i \in a .. upto |-> g[i]]
      BY <2>15 DEF IsRun
    <3> QED BY <3>2, <3>3
  <2>17. rec = Turns(rec)
    BY <2>16, Zenon
  <2> HIDE DEF rec
  <2>18. rec[a] \in X[a] /\ \A i \in a + 1 .. upto : rec[i] = Sink(rec[i - 1], i)
    BY <2>9, <2>11, <2>17
  <2>19. \A i \in a + 1 .. upto : rec[i - 1] \in X[i - 1] => rec[i] \in X[i]
    BY <2>12, <2>18
  <2>20. \A i \in a .. upto : rec[i] \in X[i]
    BY <2>9, <2>18, <2>19, Along
  <2>21. P(rec[upto], upto)
    BY <2>7, <2>9, <2>20
  <2> QED BY <2>5, <2>21 DEF P
<1> QED BY <1>1, <1>2
\* MultiLine.sink_matched: a block of lines, or none.
LEMMA RangeSound ==
    ASSUME State, cfg.slice, NEW c, Sound(c), NEW start \in 0 .. shown, NEW end \in start .. shown, c.visited <= start
    PROVE  LET d == SinkRange(c, Lines(start, end))
           IN /\ Sound(d) /\ d.pos = c.pos /\ d.count = c.count /\ (d.go => c.go)
              /\ d.visited <= end
<1> DEFINE e == DetectBinary(c, start, end)
           b == BreakContext(e, start)
           m == CountLines(b, start)
           x == [kind |-> "match", line |-> start + 1, upto |-> end, offset |-> m.offset + start, number |-> m.lineNumber]
           t == Tell(m, x)
           a == cfg.after
           d == SinkRange(c, Lines(start, end))
<1>0. start \in Nat /\ end \in Nat /\ end <= shown /\ base = 0 /\ shown \in Nat /\ c.visited \in Int /\ c \in Cores
      /\ a \in Nat /\ start \in Int /\ start <= end
  BY Facts, CoreTypes DEF State, Config, Sound
<1>1. Sound(e) /\ Kept(c, e) /\ (e.go => c.go) /\ (~c.go => e = c)
  BY <1>0, DetectSound
<1> HIDE DEF e
<1>2. Sound(b) /\ Kept(e, b) /\ b.binaryAt = e.binaryAt /\ (b.go => e.go) /\ (~e.go => b = e)
  BY <1>0, <1>1, BreakSound
<1>3. d = IF ~c.go THEN c
          ELSE IF start = end THEN [c EXCEPT !.go = FALSE]
          ELSE IF ~b.go THEN b
          ELSE IF t.go THEN [t EXCEPT !.visited = end, !.afterLeft = a, !.hasSunk = TRUE] ELSE t
  BY DEF SinkRange, TellBlock, Lines, e
<1> HIDE DEF b, d
<1>4. CASE ~c.go
  BY <1>0, <1>3, <1>4 DEF d
<1>5. CASE c.go /\ start = end
  <2>1. FALSE \in BOOLEAN
    OBVIOUS
  <2>2. d = [c EXCEPT !.go = FALSE]
    BY <1>3, <1>5
  <2>3. Sound(d) /\ d.pos = c.pos /\ d.count = c.count /\ d.go = FALSE /\ d.visited = c.visited
    BY <2>1, <2>2, GoSound
  <2> QED BY <1>0, <2>3 DEF d
<1>6. CASE c.go /\ start # end /\ ~b.go
  BY <1>0, <1>1, <1>2, <1>3, <1>6 DEF Kept, d
<1>7. CASE c.go /\ start # end /\ b.go
  <2> DEFINE i == start + 1
  <2>1. i \in 1 .. shown /\ end \in i .. shown /\ i - 1 = start /\ base + i = start + 1 /\ start \in 0 .. shown
    BY <1>0, <1>7
  <2>2. m \in Cores /\ m.offset = b.offset /\ m.lineNumber \in Int /\ m.offset \in Int
    BY <1>0, <1>2, CountSound, CoreTypes
  <2> HIDE DEF m
  <2>3. x \in BlockCalls
    BY <1>0, <2>2 DEF BlockCalls
  <2>4. x.line = base + i /\ (Obeyed => x.offset = base + i - 1) /\ x.number = m.lineNumber
    BY <1>0, <1>2, <2>2 DEF Sound, Numbers
  <2>5. cfg.binary # "none" => (Concerned(base + i) => Announced(b.calls)) /\ (Announced(b.calls) => cfg.binary = "convert")
    BY <1>2, <1>7, <2>1, Examined DEF e
  <2>6. b.visited < i /\ c.visited = b.visited
    BY <1>0, <1>1, <1>2 DEF Kept
  <2> HIDE DEF x, i
  <2>7. t = Tell(CountLines(b, i - 1), x) /\ x.number = CountLines(b, i - 1).lineNumber
    BY <2>1, <2>4 DEF m
  <2> HIDE DEF t
  <2>8. t \in Cores /\ Kept(b, t) /\ (~t.go => Sound(t)) /\ (t.go => \A f : Visiting(t, f, end) => Sound(f))
    BY <1>2, <1>7, <2>1, <2>3, <2>4, <2>5, <2>6, <2>7, LineTold
  <2>9. CASE ~t.go
    BY <1>0, <1>1, <1>2, <1>3, <1>7, <2>8, <2>9 DEF Kept, d
  <2>10. CASE t.go
    <3>1. d = [t EXCEPT !.visited = end, !.afterLeft = a, !.hasSunk = TRUE]
      BY <1>3, <1>7, <2>10
    <3> HIDE DEF a
    <3>2. d \in Cores /\ d.visited = end /\ d.afterLeft = a /\ d.go = t.go /\ d.pos = t.pos /\ d.count = t.count
          /\ d.offset = t.offset /\ d.binaryAt = t.binaryAt /\ d.lineNumber = t.lineNumber
          /\ d.counted = t.counted /\ d.panicked = t.panicked /\ d.calls = t.calls
      <4>1. a \in Int /\ end \in Int
        BY <1>0 DEF a
      <4>2. t \in Cores
        BY <2>8
      <4> QED BY <3>1, <4>1, <4>2 DEF Cores
    <3>3. Visiting(t, d, end)
      BY <1>0, <3>2 DEF Visiting, a
    <3> QED BY <1>0, <1>1, <1>2, <1>7, <2>8, <2>10, <3>2, <3>3 DEF Kept, d
  <2> QED BY <2>9, <2>10
<1> QED BY <1>4, <1>5, <1>6, <1>7 DEF d

LEMMA SoundFirm == ASSUME NEW c, Sound(c) PROVE Firm(c)
  BY DEF Sound, Firm

\* MultiLine.sink_context.
LEMMA ContextsSound ==
    ASSUME State, NEW c, Sound(c), NEW upto \in 0 .. shown, c.visited <= upto
    PROVE  LET d == Context(c, upto)
           IN /\ Sound(d) /\ d.count = c.count /\ (d.go => c.go) /\ d.visited <= upto
              /\ d.pos = c.pos \/ (ExceededLimit(c) /\ d.pos \in 1 .. upto)
<1> DEFINE d == Context(c, upto)
<1>1. CASE cfg.passthru
  <2>1. d = OtherContext(c, upto)
    BY <1>1 DEF Context
  <2> HIDE DEF d
  <2> QED BY <2>1, SoundFirm, OtherContexts DEF Grown, d
<1>2. CASE ~cfg.passthru
  <2> DEFINE e == AfterContext(c, upto)
  <2>1. d = BeforeContext(e, upto)
    BY <1>2 DEF Context
  <2>2. /\ Sound(e) /\ Onward(c, e) /\ (e.visited <= upto \/ e = c)
        /\ e.pos = c.pos \/ (ExceededLimit(c) /\ e.pos \in 1 .. upto)
    BY AfterSound
  <2> HIDE DEF d, e
  <2>3. Sound(d) /\ Onward(e, d) /\ d.pos = e.pos /\ d.visited <= upto
    BY <2>1, <2>2, BeforeSound
  <2> QED BY <2>2, <2>3 DEF Onward, d
<1> QED BY <1>1, <1>2

\* The match held back is given, behind its context.
LEMMA HeldSound ==
    ASSUME State, cfg.slice, NEW c, Sound(c), NEW start \in 0 .. shown, NEW end \in start .. shown, c.visited <= start
    PROVE  LET d == SinkHeld(c, Lines(start, end))
           IN /\ Sound(d) /\ d.count = c.count /\ (d.go => c.go) /\ d.visited <= end
              /\ d.pos = c.pos \/ (ExceededLimit(c) /\ d.pos \in 1 .. start)
<1> DEFINE e == Context(c, start)
           d == SinkRange(e, Lines(start, end))
<1>1. SinkHeld(c, Lines(start, end)) = d
  BY DEF SinkHeld, Lines
<1>2. /\ Sound(e) /\ e.count = c.count /\ (e.go => c.go) /\ e.visited <= start
      /\ e.pos = c.pos \/ (ExceededLimit(c) /\ e.pos \in 1 .. start)
  BY ContextsSound
<1> HIDE DEF e
<1>3. Sound(d) /\ d.pos = e.pos /\ d.count = e.count /\ (d.go => e.go) /\ d.visited <= end
  BY <1>2, RangeSound
<1> HIDE DEF d
<1> QED BY <1>1, <1>2, <1>3
-----------------------------------------------------------------------------
\* Positions in bytes and lines.
LEMMA SizeFacts ==
    ASSUME Given
    PROVE  /\ Size \in Nat /\ 2 * Total - 1 <= Size /\ Size <= 2 * Total
           /\ file.open \in BOOLEAN /\ file.spans \subseteq Nat \X Nat
           /\ \A s \in file.spans : s[1] <= s[2] /\ s[2] <= Size
<1>1. /\ file.open \in BOOLEAN /\ (file.open => file.hit # <<>>) /\ file.spans \subseteq Nat \X Nat
      /\ \A s \in file.spans : s[1] <= s[2] /\ s[2] <= 2 * Len(file.hit) - (IF file.open THEN 1 ELSE 0)
  BY SpansAssumption DEF Given
<1>2. Total \in Nat /\ (file.open => Total > 0)
  <2>1. file.hit \in Seq(BOOLEAN)
    BY Facts
  <2>2. Len(file.hit) \in Nat /\ (file.hit # <<>> => Len(file.hit) > 0)
    BY <2>1
  <2> QED BY <1>1, <2>2 DEF Total
<1>3. Size = 2 * Len(file.hit) - (IF file.open THEN 1 ELSE 0)
  BY DEF Size, Total
<1>4. Size \in Nat /\ 2 * Total - 1 <= Size /\ Size <= 2 * Total
  BY <1>1, <1>2 DEF Size
<1> QED BY <1>1, <1>3, <1>4

\* The lines a match touches; only one behind the last line touches none.
LEMMA LocateBounds ==
    ASSUME Given, NEW s \in file.spans
    PROVE  LET line == Locate(s)
           IN /\ line = Lines(line.start, line.end)
              /\ line.start \in 0 .. Total /\ line.end \in line.start .. Total
              /\ 2 * line.start <= s[1] /\ s[1] <= 2 * line.start + 1
              /\ line.start = line.end => line.start = Total
<1>1. Total \in Nat /\ s[1] \in Nat /\ s[2] \in Nat /\ s[1] <= s[2] /\ s[2] <= 2 * Total /\ Size <= 2 * Total
  BY Facts, SizeFacts
<1> DEFINE a == s[1]
           b == s[2]
           start == a \div 2
           end == IF (b > 2 * start /\ b % 2 = 0) \/ b \div 2 = Total THEN b \div 2 ELSE b \div 2 + 1
<1>2. Locate(s) = Lines(start, end)
  BY DEF Locate
<1> HIDE DEF a, b
<1>3. a \in Nat /\ b \in Nat /\ a <= b /\ b <= 2 * Total
  BY <1>1 DEF a, b
<1>4. start \in 0 .. Total /\ 2 * start <= a /\ a <= 2 * start + 1
  BY <1>1, <1>3
<1>5. b \div 2 \in 0 .. Total /\ start <= b \div 2 /\ (b % 2 = 0 => b = 2 * (b \div 2))
  BY <1>1, <1>3
<1>6. end \in start .. Total
  BY <1>1, <1>3, <1>4, <1>5
<1>7. start = end => start = Total
  BY <1>1, <1>3, <1>4, <1>5
<1> HIDE DEF start, end
<1> QED BY <1>2, <1>4, <1>6, <1>7 DEF Lines, a

\* MultiLine.find: the first match at or after a position.
LEMMA FirstSpan ==
    ASSUME Given, NEW from \in Int, First(from) # None
    PROVE  First(from) \in file.spans /\ First(from)[1] >= from
<1> DEFINE later == {s \in file.spans : s[1] >= from}
           S == {s[1] : s \in later}
<1>1. later # {} /\ First(from) = CHOOSE s \in later : \A t \in later : s[1] <= t[1]
  BY DEF First
<1>2. S \in SUBSET Nat /\ S # {}
  BY <1>1, SizeFacts
<1>3. PICK i \in S : \A j \in S : i <= j
  BY <1>2, LeastNat
<1>4. \E s \in later : \A t \in later : s[1] <= t[1]
  BY <1>3
<1>5. First(from) \in later
  BY <1>1, <1>4, Zenon
<1> QED BY <1>5

LEMMA AfterBounds ==
    ASSUME Given, NEW s \in file.spans
    PROVE  After(s[1], s[2]) \in s[1] .. Size /\ (s[1] < Size => After(s[1], s[2]) > s[1])
<1>1. Size \in Nat /\ s[1] \in Nat /\ s[2] \in Nat /\ s[1] <= s[2] /\ s[2] <= Size
  BY SizeFacts
<1> QED BY <1>1 DEF After

\* A line of an inverted search.
BlockLine(d, i) == SinkRange(d, Lines(i - 1, i))

LEMMA BlocksSound ==
    ASSUME State, cfg.slice, NEW c, Sound(c), NEW start \in 0 .. shown, NEW upto \in start .. shown, c.visited <= start
    PROVE  LET d == ForLines(BlockLine, c, start, upto)
           IN Sound(d) /\ d.count = c.count /\ d.pos = c.pos /\ d.visited <= upto
<1> DEFINE P(d, i) == Sound(d) /\ d.count = c.count /\ d.pos = c.pos /\ d.visited <= i
           Sink(d, i) == BlockLine(d, i)
           b == c
<1>0. c \in Cores /\ shown \in Nat /\ start \in Int /\ upto \in Int /\ start <= upto /\ upto <= shown
  BY DEF Sound, State
<1>1. CASE ~(start <= upto)
  BY <1>0, <1>1
<1>2. CASE start <= upto
  <2>3. PICK a \in 0 .. shown : a = start /\ a <= upto
    BY <1>0, <1>2
  <2> DEFINE Turns(f) == [i \in a .. upto |-> IF i = a THEN b ELSE Sink(f[i - 1], i)]
             rec == CHOOSE f : f = Turns(f)
             X == [i \in a .. upto |-> {d \in Cores : P(d, i)}]
             F == [p \in (a + 1 .. upto) \X Cores |-> Sink(p[2], p[1])]
  <2>5. ForLines(BlockLine, c, start, upto) = rec[upto]
    BY <1>0, <2>3 DEF ForLines
  <2>6. ASSUME NEW i \in a + 1 .. upto, NEW d, P(d, i - 1) PROVE P(Sink(d, i), i)
    <3>0. i \in 1 .. shown /\ i - 1 \in 0 .. shown /\ i \in i - 1 .. shown /\ d.visited <= i - 1
      BY <1>0, <2>3, <2>6
    <3> DEFINE e == SinkRange(d, Lines(i - 1, i))
    <3>1. Sound(e) /\ e.pos = d.pos /\ e.count = d.count /\ (e.go => d.go) /\ e.visited <= i
      BY <2>6, <3>0, RangeSound
    <3> HIDE DEF e
    <3>2. P(e, i)
      BY <2>6, <3>1
    <3> QED BY <3>2 DEF e, BlockLine
  <2> HIDE DEF P, Sink
  <2>7. \A i \in a .. upto : X[i] = {d \in Cores : P(d, i)}
    OBVIOUS
  <2>8. \A d, i : P(d, i) => d \in Cores
    BY DEF P, Sound
  <2>9. a \in Int /\ upto \in Int /\ a <= upto /\ a \in a .. upto /\ upto \in a .. upto /\ \A i \in a + 1 .. upto : i \in a .. upto /\ i - 1 \in a .. upto
    BY <2>3
  <2>10. \A i \in a + 1 .. upto : \A d \in Cores : F[<<i, d>>] = Sink(d, i)
    OBVIOUS
  <2> HIDE DEF X, F
  <2>11. b \in X[a]
    BY <1>0, <2>3, <2>7, <2>9 DEF P
  <2>12. \A i \in a + 1 .. upto : \A d \in X[i - 1] : Sink(d, i) \in X[i]
    BY <2>6, <2>7, <2>8, <2>9
  <2>13. \A i \in a .. upto : X[i] \subseteq Cores
    BY <2>7
  <2>14. \A i \in a + 1 .. upto : \A d \in X[i - 1] : F[<<i, d>>] \in X[i]
    BY <2>9, <2>10, <2>12, <2>13
  <2>15. PICK g : IsRun(g, a, upto, X, b, F)
    BY <2>9, <2>11, <2>13, <2>14, RunExists
  <2>16. g = Turns(g)
    <3>1. \A i \in a + 1 .. upto : g[i] = Sink(g[i - 1], i)
      BY <2>9, <2>10, <2>13, <2>15 DEF IsRun
    <3>2. \A i \in a .. upto : g[i] = IF i = a THEN b ELSE Sink(g[i - 1], i)
      <4> TAKE i \in a .. upto
      <4>1. g[a] = b
        BY <2>15 DEF IsRun
      <4>2. i # a => i \in a + 1 .. upto
        BY <2>9
      <4> QED BY <3>1, <4>1, <4>2
    <3>3. g = [i \in a .. upto |-> g[i]]
      BY <2>15 DEF IsRun
    <3> QED BY <3>2, <3>3
  <2>17. rec = Turns(rec)
    BY <2>16, Zenon
  <2> HIDE DEF rec
  <2>18. rec[a] \in X[a] /\ \A i \in a + 1 .. upto : rec[i] = Sink(rec[i - 1], i)
    BY <2>9, <2>11, <2>17
  <2>19. \A i \in a + 1 .. upto : rec[i - 1] \in X[i - 1] => rec[i] \in X[i]
    BY <2>12, <2>18
  <2>20. \A i \in a .. upto : rec[i] \in X[i]
    BY <2>9, <2>18, <2>19, Along
  <2>21. P(rec[upto], upto)
    BY <2>7, <2>9, <2>20
  <2> QED BY <2>5, <2>21 DEF P
<1> QED BY <1>1, <1>2
-----------------------------------------------------------------------------
\* The steps of a multi line search.
LEMMA MultiState ==
    ASSUME MultiPlace
    PROVE  State /\ Given /\ cfg.slice /\ shown = Total /\ shown \in Nat /\ base = 0 /\ Obeyed /\ at \in 0 .. Size
  BY Facts DEF MultiPlace, State, Obeyed, MultiLineMatcher

LEMMA PlacePrimed ==
    ASSUME MultiPlace, UNCHANGED constant, at' \in 0 .. Size
    PROVE  MultiPlace' /\ Unlimited' = Unlimited /\ State' /\ Size' = Size /\ Total' = Total
<1>1. UNCHANGED <<file, cfg, stopAnswer, base, shown>>
  BY DEF constant
<1>2. Size' = Size /\ Total' = Total
  BY <1>1 DEF Size, Total
<1>3. Given' /\ State'
  BY <1>1, MultiState, StatePrimed
<1> QED BY <1>1, <1>2, <1>3 DEF MultiPlace, Unlimited, MultiLineMatcher

\* A core that is sound ends a search well.
LEMMA SoundOver ==
    ASSUME MultiPlace, Sound(core'), UNCHANGED constant, at' \in 0 .. Size, pc' = "finish"
    PROVE  MultiOver'
<1>1. UNCHANGED <<file, cfg, stopAnswer, base, shown>> /\ State /\ Obeyed /\ Given
  BY MultiState DEF constant
<1>2. Sound(core)'
  BY <1>1, SoundPrimed
<1>3. Firm(core)' /\ Refusal(core)' /\ Numbers(core)'
  BY <1>2 DEF Sound, Firm
<1>4. Obeyed' /\ stopAnswer' = stopAnswer /\ stopAnswer \in Nat
  BY <1>1, Facts DEF Obeyed
<1>5. NumbersMatch(core.calls)' /\ (stopAnswer > 0 => Len(core'.calls) <= stopAnswer)
  BY <1>3, <1>4 DEF Refusal, Numbers
<1>6. Len(core'.calls) \in Nat
  <2>1. core'.calls \in Seq(SinkCalls)
    BY CoreTypes DEF Sound
  <2> QED BY <2>1
<1> QED BY <1>3, <1>4, <1>5, <1>6 DEF MultiOver

LEMMA MultiAnswered ==
    ASSUME MultiPlace, Sound(core'), Answered(core'), UNCHANGED constant,
           at' \in 0 .. Size, MultiHeld', MultiInverted'
    PROVE  MultiInv'
<1>1. UNCHANGED <<file, cfg, stopAnswer, base, shown>> /\ State
  BY MultiState DEF constant
<1>2. MultiPlace'
  BY PlacePrimed
<1>3. pc' = IF core'.go THEN "turn" ELSE "finish"
  BY DEF Answered
<1>4. CASE core'.go
  <2>1. Sound(core)'
    BY <1>1, SoundPrimed
  <2>2. MultiRunning' /\ MultiOver'
    BY <1>3, <1>4, <2>1 DEF MultiRunning, MultiOver
  <2> QED BY <1>2, <1>3, <1>4, <2>2 DEF MultiInv
<1>5. CASE ~core'.go
  <2>1. MultiRunning' /\ MultiOver'
    BY <1>3, <1>5, SoundOver DEF MultiRunning
  <2> QED BY <1>2, <1>3, <1>5, <2>1 DEF MultiInv
<1> QED BY <1>4, <1>5

LEMMA MultiInitInv == MultiInit => MultiInv
<1> SUFFICES ASSUME MultiInit PROVE MultiInv
  OBVIOUS
<1>1. Init /\ cfg.slice /\ MultiLineMatcher /\ at = 0 /\ held = None /\ pc = "begin"
  BY DEF MultiInit, MultiFresh, Fresh
<1>2. IInv
  BY <1>1, InitInv
<1>3. Given /\ Sound(core) /\ core.visited = 0 /\ base = 0
  BY <1>1, <1>2 DEF IInv, Running, Loop, Window
<1>4. shown = Total /\ core.go
  BY <1>1 DEF Init, Fresh, Total
<1>5. at \in 0 .. Size /\ at % 2 = 0
  BY <1>1, <1>3, SizeFacts
<1>6. MultiPlace /\ MultiRunning
  BY <1>1, <1>3, <1>4, <1>5 DEF MultiPlace, MultiRunning
<1>7. MultiHeld /\ MultiInverted /\ MultiOver
  BY <1>1, <1>3, <1>5 DEF MultiHeld, MultiInverted, MultiOver
<1> QED BY <1>1, <1>6, <1>7 DEF MultiInv

LEMMA MultiBeginStep == ASSUME MultiInv, Unlimited, MultiBegin PROVE MultiInv'
<1> DEFINE x == [kind |-> "begin", line |-> 0]
           begun == Tell(core, x)
           examined == IF Total < DetectLines THEN Total ELSE DetectLines
           d == DetectBinary(begun, 0, examined)
<1>1. /\ pc = "begin" /\ MultiPlace /\ MultiHeld /\ MultiInverted /\ Sound(core) /\ core.go
      /\ at = 0 /\ held = None /\ core.visited = 0
  BY DEF MultiInv, MultiBegin, MultiRunning
<1>2. x \in Marks /\ x.kind \in {"begin", "break"}
  BY DEF Marks
<1>3. core' = d /\ pc' = (IF d.go THEN "turn" ELSE "finish") /\ UNCHANGED constant /\ at' = at /\ held' = held
  BY DEF MultiBegin
<1> HIDE DEF x
<1>4. Sound(begun) /\ Kept(core, begun)
  BY <1>1, <1>2, MarkTold, MultiState
<1> HIDE DEF begun
<1>5. examined \in Nat /\ examined <= shown /\ 0 \in Nat
  BY <1>1, MultiState, DetectAssumption
<1> HIDE DEF examined
<1>6. Sound(d) /\ Kept(begun, d)
  BY <1>1, <1>4, <1>5, MultiState, DetectSound
<1> HIDE DEF d
<1>7. Sound(core') /\ core'.visited = 0 /\ Answered(core')
  BY <1>1, <1>3, <1>4, <1>6 DEF Kept, Answered
<1>8. at' \in 0 .. Size /\ at' % 2 = 0 /\ Size' = Size /\ UNCHANGED cfg
  BY <1>1, <1>3, MultiState, SizeFacts DEF Size, Total, constant
<1>9. MultiHeld'
  BY <1>1, <1>3, <1>7 DEF MultiHeld
<1>10. MultiInverted'
  <2>1. 0 \div 2 = 0
    OBVIOUS
  <2> QED BY <1>1, <1>3, <1>7, <1>8, <2>1 DEF MultiInverted
<1> QED BY <1>1, <1>3, <1>7, <1>8, <1>9, <1>10, MultiAnswered
LEMMA UnmovedSound ==
    ASSUME NEW c, Sound(c)
    PROVE  /\ LET e == Unmoved(c)
              IN Sound(e) /\ e.pos = None /\ e.visited = c.visited /\ e.go = c.go /\ e.count = c.count
           /\ LET e == Counting(Unmoved(c))
              IN Sound(e) /\ e.pos = None /\ e.visited = c.visited /\ e.go = c.go /\ e.count = c.count + 1
<1> DEFINE u == Unmoved(c)
           e == Counting(u)
<1>1. c \in Cores /\ None \in Int \cup {None}
  BY DEF Sound
<1>2. Alike(c, u) /\ u.pos = None /\ u.count = c.count
  BY <1>1, PosAlike DEF Unmoved
<1> HIDE DEF u
<1>3. Sound(u) /\ u \in Cores /\ u.visited = c.visited /\ u.go = c.go
  BY <1>2, AlikeSound DEF Sound, Alike
<1>4. Alike(u, e) /\ e.pos = u.pos /\ e.count = u.count + 1
  BY <1>3, CountingAlike DEF Counting
<1> HIDE DEF e
<1>5. Sound(e) /\ e.visited = u.visited /\ e.go = u.go
  BY <1>3, <1>4, AlikeSound DEF Alike
<1> QED BY <1>2, <1>3, <1>4, <1>5 DEF u, e

LEMMA LineBounds ==
    ASSUME Given, NEW i \in 0 .. Total
    PROVE  AtLine(i) \in 0 .. Size /\ (AtLine(i) = 2 * i \/ AtLine(i) = Size)
           /\ (AtLine(i) < Size => AtLine(i) = 2 * i) /\ AtLine(Total) = Size
<1>1. Size \in Nat /\ Total \in Nat /\ i \in Nat /\ Size <= 2 * Total
  BY Facts, SizeFacts
<1> QED BY <1>1 DEF AtLine

LEMMA MovedBounds ==
    ASSUME Given, NEW c, c.pos \in {None} \cup (0 .. Total), NEW position \in 0 .. Size
    PROVE  /\ Moved(c, position) \in 0 .. Size
           /\ c.pos = None => Moved(c, position) = position
<1>1. CASE c.pos = None
  BY <1>1 DEF Moved
<1>2. CASE c.pos # None
  BY <1>2, LineBounds DEF Moved
<1> QED BY <1>1, <1>2

LEMMA LinesNotNone ==
    ASSUME Given, NEW start \in 0 .. Total, NEW end \in 0 .. Total
    PROVE  Lines(start, end) # None
  BY Facts, HeldAssumption DEF Lines

LEMMA NextMatchStep == ASSUME MultiInv, Unlimited, NextMatch PROVE MultiInv'
<1>1. /\ pc = "turn" /\ at < Size /\ ~cfg.invert /\ UNCHANGED constant
      /\ MultiPlace /\ MultiHeld /\ Sound(core) /\ core.go
  BY DEF MultiInv, NextMatch, MultiRunning
<1>2. State /\ Given /\ cfg.slice /\ shown = Total /\ shown \in Nat /\ base = 0 /\ at \in 0 .. Size /\ Size \in Nat
      /\ Size' = Size /\ Total' = Total /\ cfg' = cfg
  BY <1>1, MultiState, SizeFacts DEF Size, Total, constant
<1>3. MultiInverted'
  BY <1>1, <1>2 DEF MultiInverted
<1>4. CASE ExceededLimit(core) \/ First(at) = None
  <2>1. at' = Size /\ UNCHANGED <<pc, core, held>>
    BY <1>4 DEF NextMatch
  <2>2. at' \in 0 .. Size /\ at <= at' /\ Answered(core') /\ Sound(core')
    BY <1>1, <1>2, <2>1 DEF Answered
  <2>3. MultiHeld'
    BY <1>1, <1>2, <2>1, <2>2 DEF MultiHeld, ExceededLimit
  <2> QED BY <1>1, <1>3, <2>2, <2>3, MultiAnswered
<1>5. CASE ~(ExceededLimit(core) \/ First(at) = None)
  <2> DEFINE span == First(at)
             line == Locate(span)
             c == Counting(Unmoved(core))
             sunk == SinkHeld(c, held)
             next == After(span[1], span[2])
  <2>1. IF held = None
        THEN held' = line /\ Answered(c) /\ at' = next
        ELSE IF Joins(held, line)
        THEN held' = Lines(held.start, line.end) /\ Answered(c) /\ at' = next
        ELSE held' = line /\ Answered(sunk) /\ at' = Moved(sunk, next)
    BY <1>5 DEF NextMatch
  <2>2. span \in file.spans /\ span[1] >= at /\ span[1] \in Nat
    BY <1>2, <1>5, FirstSpan, SizeFacts
  <2> HIDE DEF span
  <2>3. /\ line = Lines(line.start, line.end)
        /\ line.start \in 0 .. Total /\ line.end \in line.start .. Total
        /\ 2 * line.start <= span[1] /\ span[1] <= 2 * line.start + 1
    BY <1>2, <2>2, LocateBounds
  <2>4. next \in span[1] .. Size
    BY <1>2, <2>2, AfterBounds
  <2>5. Sound(c) /\ c.pos = None /\ c.visited = core.visited /\ c.go = core.go
    BY <1>1, UnmovedSound
  <2> HIDE DEF line, c, next
  <2>6. next \in 0 .. Size /\ 2 * line.start <= next /\ at <= next /\ at <= 2 * line.start + 1
    BY <1>2, <2>2, <2>3, <2>4
  <2>10. line = Lines(line.start, line.end) /\ line.start \in 0 .. Total /\ line.end \in 0 .. Total
    BY <1>2, <2>3
  <2>7. CASE held = None
    <3>1. held' = line /\ Answered(c) /\ at' = next /\ core' = c /\ pc' \in {"turn", "finish"}
      BY <2>1, <2>7 DEF Answered
    <3>2. core'.visited = 0
      BY <1>1, <2>5, <2>7, <3>1 DEF MultiHeld
    <3>3. MultiHeld'
      <4>1. line # None
        BY <1>2, <2>10, LinesNotNone
      <4> QED BY <1>1, <1>2, <2>3, <2>6, <3>1, <3>2 DEF MultiHeld
    <3> QED BY <1>1, <1>3, <2>5, <2>6, <3>1, <3>3, MultiAnswered
  <2>8. CASE held # None /\ Joins(held, line)
    <3>0. /\ held.start \in 0 .. Total /\ held.end \in held.start .. Total /\ core.visited <= held.start
          /\ 2 * held.start <= at
      BY <1>1, <1>5, <2>8 DEF MultiHeld
    <3>1. held' = Lines(held.start, line.end) /\ Answered(c) /\ at' = next /\ core' = c /\ pc' \in {"turn", "finish"}
      BY <2>1, <2>8 DEF Answered
    <3>2. held'.start = held.start /\ held'.end = line.end
      BY <3>1 DEF Lines
    <3>3. line.end \in held.start .. Total /\ 2 * held.start <= next
      BY <1>2, <2>3, <2>6, <3>0
    <3>4. MultiHeld'
      <4>1. held' # None /\ held' = Lines(held'.start, held'.end)
        BY <1>2, <2>10, <3>0, <3>1, <3>2, LinesNotNone
      <4> QED BY <1>1, <1>2, <2>5, <3>0, <3>1, <3>2, <3>3, <4>1 DEF MultiHeld
    <3> QED BY <1>1, <1>3, <2>5, <2>6, <3>1, <3>4, MultiAnswered
  <2>9. CASE held # None /\ ~Joins(held, line)
    <3>0. /\ held = Lines(held.start, held.end)
          /\ held.start \in 0 .. Total /\ held.end \in held.start .. Total /\ core.visited <= held.start
      BY <1>1, <2>9 DEF MultiHeld
    <3>1. held' = line /\ Answered(sunk) /\ at' = Moved(sunk, next) /\ core' = sunk /\ pc' \in {"turn", "finish"}
      BY <2>1, <2>9 DEF Answered
    <3> DEFINE s == held.start
               t == held.end
    <3>2. s \in 0 .. shown /\ t \in s .. shown /\ c.visited <= s
      BY <1>2, <2>5, <3>0
    <3>3. sunk = SinkHeld(c, Lines(s, t))
      BY <3>0
    <3>8. t < line.start
      BY <2>3, <2>9, <3>0 DEF Joins
    <3> HIDE DEF s, t, sunk
    <3>4. /\ Sound(sunk) /\ sunk.count = c.count /\ sunk.visited <= t
          /\ sunk.pos = c.pos \/ (ExceededLimit(c) /\ sunk.pos \in 1 .. s)
      BY <1>2, <2>5, <3>2, <3>3, HeldSound
    <3>5. sunk.pos \in {None} \cup (0 .. Total) /\ (sunk.pos # None => ExceededLimit(core'))
      BY <1>2, <2>5, <3>1, <3>2, <3>4 DEF ExceededLimit
    <3>6. at' \in 0 .. Size /\ (at' = next \/ ExceededLimit(core'))
      BY <1>2, <2>6, <3>1, <3>5, MovedBounds
    <3>7. core'.visited <= line.start
      <4>1. sunk.visited \in Int
        BY <3>4, CoreTypes DEF Sound
      <4> QED BY <1>2, <2>3, <3>1, <3>2, <3>4, <3>8, <4>1
    <3>9. MultiHeld'
      <4>1. ExceededLimit(core)' = ExceededLimit(core')
        BY <1>2 DEF ExceededLimit
      <4>2. line # None
        BY <1>2, <2>10, LinesNotNone
      <4>3. 2 * line.start <= at' \/ ExceededLimit(core')
        BY <2>6, <3>6
      <4>4. held' = Lines(held'.start, held'.end) /\ held'.start \in 0 .. Total /\ held'.end \in held'.start .. Total
        BY <2>3, <3>1
      <4>5. core'.visited <= held'.start /\ (2 * held'.start <= at' \/ ExceededLimit(core)')
        BY <3>1, <3>7, <4>1, <4>3
      <4> QED BY <1>1, <1>2, <3>1, <4>2, <4>4, <4>5 DEF MultiHeld
    <3> QED BY <1>1, <1>3, <3>1, <3>4, <3>6, <3>9, MultiAnswered
  <2> QED BY <2>7, <2>8, <2>9
<1> QED BY <1>4, <1>5
LEMMA NextInvertedStep == ASSUME MultiInv, Unlimited, NextInverted PROVE MultiInv'
<1> DEFINE L == at \div 2
           span == First(at)
           line == Locate(span)
           found == ~ExceededLimit(core) /\ span # None
           upto == IF found THEN line.start ELSE Total
           next == IF found THEN After(AtLine(line.start), AtLine(line.end)) ELSE Size
           c == IF found THEN Counting(Unmoved(core)) ELSE Unmoved(core)
           context == Context(Checked(c, L, upto), L)
           sunk == IF L = upto THEN c ELSE ForLines(BlockLine, context, L, upto)
<1>1. /\ pc = "turn" /\ at < Size /\ cfg.invert /\ UNCHANGED <<constant, held>>
      /\ MultiPlace /\ Sound(core) /\ held = None /\ cfg.max = None
      /\ at % 2 = 0 /\ core.visited <= L
  <2>1. pc = "turn" /\ at < Size /\ cfg.invert /\ UNCHANGED <<constant, held>> /\ MultiPlace /\ MultiHeld /\ MultiInverted /\ Sound(core)
    BY DEF MultiInv, NextInverted, MultiRunning
  <2>2. at # Size
    BY <2>1, SizeFacts, MultiState
  <2> QED BY <2>1, <2>2 DEF MultiHeld, MultiInverted, Unlimited
<1>2. State /\ Given /\ cfg.slice /\ shown = Total /\ shown \in Nat /\ base = 0 /\ at \in 0 .. Size /\ Size \in Nat
      /\ Size' = Size /\ Total' = Total /\ cfg' = cfg /\ Size <= 2 * Total
  BY <1>1, MultiState, SizeFacts DEF Size, Total, constant
<1>3. at = 2 * L /\ L \in 0 .. Total
  BY <1>1, <1>2
<1>4. \A d : ~ExceededLimit(d)
  BY <1>1 DEF ExceededLimit
<1>5. Answered(sunk) /\ at' = Moved(sunk, next)
  BY DEF NextInverted, BlockLine
<1>6. found => span \in file.spans /\ span[1] >= at /\ span[1] \in Nat
  BY <1>2, FirstSpan, SizeFacts
<1> HIDE DEF span
<1>7. found => /\ line.start \in 0 .. Total /\ line.end \in line.start .. Total
               /\ span[1] <= 2 * line.start + 1
               /\ line.start = line.end => line.start = Total
  BY <1>2, <1>6, LocateBounds
<1>8. upto \in L .. Total
  <2>1. CASE found
    BY <1>2, <1>3, <1>6, <1>7, <2>1
  <2>2. CASE ~found
    BY <1>2, <1>3, <2>2
  <2> QED BY <2>1, <2>2
<1>9. next \in 0 .. Size /\ (next = Size \/ (next = 2 * (next \div 2) /\ upto <= next \div 2))
  <2>1. CASE found
    <3> DEFINE p == AtLine(line.start)
               q == AtLine(line.end)
    <3>1. /\ p \in 0 .. Size /\ (p = 2 * line.start \/ p = Size)
          /\ q \in 0 .. Size /\ (q = 2 * line.end \/ q = Size)
          /\ line.start = Total => p = Size
      BY <1>2, <1>7, <2>1, LineBounds
    <3>2. next = After(p, q) /\ upto = line.start
      BY <2>1
    <3> HIDE DEF p, q, line, next, upto
    <3>3. p = q => q = Size
      BY <1>2, <1>7, <2>1, <3>1
    <3>4. next = q
      BY <1>2, <3>1, <3>2, <3>3 DEF After
    <3> QED BY <1>2, <1>7, <2>1, <3>1, <3>2, <3>4
  <2>2. CASE ~found
    BY <1>2, <2>2
  <2> QED BY <2>1, <2>2
<1>10. Sound(c) /\ c.pos = None /\ c.visited = core.visited
  BY <1>1, UnmovedSound
<1> HIDE DEF found, line, upto, next, c
<1>11. Sound(sunk) /\ sunk.pos = None /\ sunk.visited <= upto
  <2>1. CASE L = upto
    BY <1>1, <1>2, <1>8, <1>10, <2>1
  <2>2. CASE L # upto
    <3>1. Checked(c, L, upto) = c
      BY <1>3, <1>8, CheckedSound
    <3>2. Sound(context) /\ context.pos = None /\ context.visited <= L
      BY <1>1, <1>2, <1>3, <1>4, <1>10, <3>1, ContextsSound
    <3> HIDE DEF context
    <3> DEFINE d == ForLines(BlockLine, context, L, upto)
    <3>3. L \in 0 .. shown /\ upto \in L .. shown
      BY <1>2, <1>3, <1>8
    <3> HIDE DEF L
    <3>4. Sound(d) /\ d.pos = context.pos /\ d.visited <= upto
      BY <1>2, <3>2, <3>3, BlocksSound
    <3> HIDE DEF d
    <3>5. sunk = d
      BY <2>2 DEF d
    <3> HIDE DEF sunk
    <3> QED BY <3>2, <3>4, <3>5
  <2> QED BY <2>1, <2>2
<1> HIDE DEF sunk, L
<1>12. at' = next /\ Sound(core') /\ core'.visited <= upto /\ Answered(core')
  BY <1>5, <1>11 DEF Moved, Answered
<1>13. MultiInverted'
  <2>1. core'.visited \in Int
    BY <1>12, CoreTypes DEF Sound
  <2>2. at' = Size \/ (at' % 2 = 0 /\ core'.visited <= at' \div 2)
    BY <1>2, <1>8, <1>9, <1>12, <2>1, <1>3
  <2> QED BY <1>2, <2>2 DEF MultiInverted
<1>14. MultiHeld'
  BY <1>1, <1>2 DEF MultiHeld
<1> QED BY <1>1, <1>9, <1>12, <1>13, <1>14, MultiAnswered
\* The context that is left, after the match held back.
RestContext(c) == IF cfg.passthru THEN OtherContext(c, Total) ELSE AfterContext(c, Total)

LEMMA RestSound ==
    ASSUME State, shown = Total, NEW c, Sound(c)
    PROVE  LET d == RestContext(c) IN Sound(d) /\ (d.pos = c.pos \/ d.pos \in 1 .. Total)
<1>1. Total \in 0 .. shown /\ c.visited <= Total /\ Firm(c)
  BY SoundFirm DEF State, Sound, Ranges
<1>2. CASE cfg.passthru
  BY <1>1, <1>2, OtherContexts DEF RestContext
<1>3. CASE ~cfg.passthru
  BY <1>1, <1>3, AfterSound DEF RestContext
<1> QED BY <1>2, <1>3

LEMMA RestGrown ==
    ASSUME State, shown = Total, NEW c, Firm(c)
    PROVE  LET d == RestContext(c) IN Grown(c, d) /\ (d.pos = c.pos \/ d.pos \in 1 .. Total)
<1>1. Total \in 0 .. shown /\ c.visited <= Total
  BY DEF State, Firm, Ranges
<1>2. CASE cfg.passthru
  BY <1>1, <1>2, OtherContexts DEF RestContext
<1>3. CASE ~cfg.passthru
  BY <1>1, <1>3, GrownAfter DEF RestContext
<1> QED BY <1>2, <1>3

LEMMA FirmGoes ==
    ASSUME NEW c, Firm(c), NEW g \in BOOLEAN
    PROVE  LET e == [c EXCEPT !.go = g] IN Firm(e) /\ e.pos = c.pos /\ e.calls = c.calls
<1> DEFINE e == [c EXCEPT !.go = g]
<1>1. c \in Cores
  BY DEF Firm
<1>2. e \in Cores /\ e.visited = c.visited /\ e.counted = c.counted /\ e.afterLeft = c.afterLeft
      /\ e.binaryAt = c.binaryAt /\ e.panicked = c.panicked /\ e.pos = c.pos /\ e.calls = c.calls
  BY <1>1 DEF Cores
<1> HIDE DEF e
<1> QED BY <1>2 DEF Firm, Ranges, e

LEMMA LastMatchStep == ASSUME MultiInv, Unlimited, LastMatch PROVE MultiInv'
<1> DEFINE c == Unmoved(core)
           sunk == IF held = None THEN c ELSE SinkHeld(c, held)
           going == [sunk EXCEPT !.go = ~sunk.panicked]
           rest == RestContext(going)
<1>1. /\ pc = "turn" /\ at = Size /\ UNCHANGED constant /\ held' = None /\ pc' = "finish"
      /\ MultiPlace /\ MultiHeld /\ Sound(core)
  <2>1. at >= Size /\ at \in 0 .. Size /\ Size \in Nat
    BY SizeFacts, MultiState DEF MultiInv, LastMatch
  <2>2. at = Size
    BY <2>1
  <2> QED BY <2>2 DEF MultiInv, LastMatch, MultiRunning
<1>2. State /\ Given /\ cfg.slice /\ shown = Total /\ shown \in Nat /\ base = 0 /\ at \in 0 .. Size /\ Size \in Nat
      /\ Size' = Size /\ Total' = Total /\ cfg' = cfg /\ stopAnswer' = stopAnswer /\ stopAnswer \in Nat
  BY <1>1, MultiState, SizeFacts, Facts DEF Size, Total, constant
<1>3. core' = rest /\ at' = Moved(rest, at)
  BY DEF LastMatch, RestContext
<1>4. Sound(c) /\ c.pos = None /\ c.visited = core.visited
  BY <1>1, UnmovedSound
<1> HIDE DEF c
<1>5. Sound(sunk) /\ sunk.pos \in {None} \cup (0 .. Total)
  <2>1. CASE held = None
    BY <1>4, <2>1
  <2>2. CASE held # None
    <3> DEFINE s == held.start
               t == held.end
               d == SinkHeld(c, Lines(s, t))
    <3>1. held = Lines(s, t) /\ s \in 0 .. shown /\ t \in s .. shown /\ c.visited <= s
      BY <1>1, <1>2, <1>4, <2>2 DEF MultiHeld
    <3>2. sunk = d
      BY <2>2, <3>1
    <3> HIDE DEF s, t, sunk
    <3>3. Sound(d) /\ (d.pos = c.pos \/ d.pos \in 1 .. s)
      BY <1>2, <1>4, <3>1, HeldSound
    <3> HIDE DEF d
    <3> QED BY <1>2, <1>4, <3>1, <3>2, <3>3
  <2> QED BY <2>1, <2>2
<1> HIDE DEF sunk
<1>6. ~sunk.panicked /\ going = [sunk EXCEPT !.go = TRUE] /\ Firm(sunk) /\ TRUE \in BOOLEAN
  BY <1>5, SoundFirm DEF Sound, Ranges
<1>7. Firm(going) /\ going.pos = sunk.pos /\ going.calls = sunk.calls
  BY <1>6, FirmGoes
<1>8. Steady(sunk) => Sound(going)
  BY <1>5, <1>6, GoSound
<1> HIDE DEF going
<1>9. Grown(going, rest) /\ rest.pos \in {None} \cup (0 .. Total) /\ (Sound(going) => Sound(rest))
  <2>1. Grown(going, rest) /\ (rest.pos = going.pos \/ rest.pos \in 1 .. Total)
    BY <1>2, <1>7, RestGrown
  <2>2. Sound(going) => Sound(rest)
    BY <1>2, RestSound
  <2> HIDE DEF rest
  <2> QED BY <1>2, <1>5, <1>7, <2>1, <2>2
<1> HIDE DEF rest
<1>10. at' \in 0 .. Size
  BY <1>2, <1>3, <1>9, MovedBounds
<1>11. MultiPlace' /\ MultiRunning' /\ MultiHeld'
  BY <1>1, <1>2, <1>10, PlacePrimed DEF MultiRunning, MultiHeld
<1>12. MultiInverted'
  <2>1. at' = Size \/ at' % 2 = 0
    <3>1. CASE rest.pos = None
      BY <1>1, <1>2, <1>3, <1>9, <3>1, MovedBounds
    <3>2. CASE rest.pos # None
      <4>1. PICK i \in 0 .. Total : i = rest.pos
        BY <1>9, <3>2
      <4>2. at' = AtLine(i) /\ i \in Nat
        BY <1>2, <1>3, <3>2, <4>1 DEF Moved
      <4>3. at' = 2 * i \/ at' = Size
        BY <1>2, <4>2, LineBounds
      <4> QED BY <4>2, <4>3
    <3> QED BY <3>1, <3>2
  <2> QED BY <1>1, <1>2, <2>1 DEF MultiInverted
<1>13. MultiOver'
  <2>1. CASE Steady(sunk)
    BY <1>1, <1>3, <1>8, <1>9, <1>10, <2>1, SoundOver
  <2>2. CASE ~Steady(sunk)
    <3>1. rest.calls \in Seq(SinkCalls) /\ sunk.calls \in Seq(SinkCalls)
      BY <1>5, <1>9, CoreTypes DEF Grown, Firm, Sound
    <3>2. stopAnswer > 0 /\ stopAnswer <= Len(sunk.calls) /\ ~sunk.go
      BY <1>2, <2>2, <3>1 DEF Steady
    <3>3. stopAnswer <= Len(rest.calls) /\ Len(rest.calls) \in Nat
      BY <1>2, <1>7, <1>9, <3>1, <3>2 DEF Grown
    <3>4. Refused'
      BY <1>1, <1>2, <1>3, <3>2, <3>3 DEF Refused
    <3>5. Firm(core)'
      <4>1. UNCHANGED <<file, cfg, stopAnswer, base, shown>>
        BY <1>1 DEF constant
      <4> QED BY <1>2, <1>3, <1>9, <4>1 DEF Grown, Firm, Ranges
    <3>6. ~cfg.invert
      <4>1. held = None => sunk = c
        BY DEF sunk
      <4>2. Steady(c)
        <5>1. c.go = core.go /\ core.go
          BY <1>1, UnmovedSound DEF c, MultiInv, MultiRunning
        <5> QED BY <5>1 DEF Steady
      <4>3. held # None
        BY <2>2, <4>1, <4>2
      <4> QED BY <1>1, <4>3 DEF MultiHeld
    <3> QED BY <1>1, <1>2, <3>4, <3>5, <3>6 DEF MultiOver
  <2> QED BY <2>1, <2>2
<1> QED BY <1>1, <1>11, <1>12, <1>13 DEF MultiInv
LEMMA MultiFinishStep == ASSUME MultiInv, Unlimited, MultiFinish PROVE MultiInv'
<1> DEFINE x == [kind |-> "finish", line |-> MultiCount]
           s == Append(core.calls, x)
<1>1. /\ pc = "finish" /\ pc' = "done" /\ UNCHANGED <<constant, at, held>>
      /\ MultiPlace /\ MultiHeld /\ MultiInverted /\ MultiOver /\ Firm(core)
  BY DEF MultiInv, MultiFinish, MultiOver
<1>2. State /\ Given /\ shown = Total /\ at \in 0 .. Size /\ Size \in Nat
      /\ Size' = Size /\ Total' = Total /\ cfg' = cfg /\ stopAnswer' = stopAnswer /\ stopAnswer \in Nat
  BY <1>1, MultiState, SizeFacts, Facts DEF Size, Total, constant
<1>3. core' = [core EXCEPT !.calls = s] /\ core \in Cores
  BY <1>1 DEF MultiFinish, Firm, Ranges
<1>4. x \in SinkCalls /\ x.kind = "finish" /\ x.kind \notin LineKinds
  <2>1. MultiCount \in Int
    BY <1>2, <1>3, CoreTypes DEF MultiCount
  <2> QED BY <2>1 DEF SinkCalls, Marks, LineKinds
<1> HIDE DEF x
<1>5. core.calls \in Seq(SinkCalls) /\ Len(core.calls) \in Nat
  BY <1>3, CoreTypes
<1>6. /\ NumbersMatch(core.calls) => NumbersMatch(s)
      /\ s \in Seq(SinkCalls) /\ Len(s) = Len(core.calls) + 1 /\ s[Len(s)].kind = "finish" /\ s # <<>>
  BY <1>4, <1>5, MarkAppended, AppendOne
<1> HIDE DEF s
<1>7. /\ core' \in Cores /\ core'.calls = s /\ core'.panicked = core.panicked /\ core'.visited = core.visited
      /\ core'.counted = core.counted /\ core'.afterLeft = core.afterLeft /\ core'.binaryAt = core.binaryAt /\ core'.count = core.count
  BY <1>3, <1>6 DEF Cores
<1>8. MultiPlace' /\ MultiRunning'
  BY <1>1, <1>2, PlacePrimed DEF MultiRunning
<1>9. MultiHeld' /\ MultiInverted'
  BY <1>1, <1>2, <1>7 DEF MultiHeld, MultiInverted, ExceededLimit
<1>10. Firm(core)'
  <2>1. UNCHANGED <<file, cfg, stopAnswer, base, shown>>
    BY <1>1 DEF constant
  <2> QED BY <1>1, <1>2, <1>7, <2>1 DEF Firm, Ranges
<1>11. MultiOver'
  <2>1. Refused' = Refused
    BY <1>1, <1>2, <1>5, <1>6, <1>7 DEF Refused
  <2>2. ~Refused' => NumbersMatch(core.calls)'
    <3>1. NumbersMatch(core.calls)' <=> NumbersMatch(s)
      BY <1>7 DEF NumbersMatch
    <3> QED BY <1>1, <1>6, <2>1, <3>1 DEF MultiOver
  <2>3. (stopAnswer > 0 /\ (cfg.invert \/ held # None)) => Len(s) <= stopAnswer + 1
    BY <1>1, <1>2, <1>5, <1>6 DEF MultiOver
  <2> QED BY <1>1, <1>2, <1>6, <1>7, <1>10, <2>2, <2>3 DEF MultiOver
<1> QED BY <1>1, <1>8, <1>9, <1>11 DEF MultiInv

LEMMA MultiNextInv == MultiInv /\ [MultiNext]_multiVars => MultiInv'
<1> SUFFICES ASSUME MultiInv, [MultiNext]_multiVars PROVE MultiInv'
  OBVIOUS
<1>1. CASE ~Unlimited
  <2>1. UNCHANGED cfg
    BY DEF MultiNext, MultiBegin, NextMatch, NextInverted, LastMatch, MultiFinish, constant, multiVars
  <2> QED BY <1>1, <2>1 DEF MultiInv, Unlimited
<1>2. CASE Unlimited
  <2>1. CASE MultiBegin
    BY <1>2, <2>1, MultiBeginStep
  <2>2. CASE NextMatch
    BY <1>2, <2>2, NextMatchStep
  <2>3. CASE NextInverted
    BY <1>2, <2>3, NextInvertedStep
  <2>4. CASE LastMatch
    BY <1>2, <2>4, LastMatchStep
  <2>5. CASE MultiFinish
    BY <1>2, <2>5, MultiFinishStep
  <2>6. CASE UNCHANGED multiVars
    <3>1. UNCHANGED <<file, cfg, stopAnswer, pc, base, shown, core, at, held>>
      BY <2>6 DEF multiVars
    <3>2. MultiPlace' /\ MultiHeld' /\ MultiInverted' /\ pc' \in {"begin", "turn", "finish", "done"}
      BY <1>2, <3>1 DEF MultiInv, MultiPlace, MultiHeld, MultiInverted, Given, MultiLineMatcher, Size, Total, ExceededLimit
    <3>3. MultiRunning'
      <4>1. Sound(core') => Sound(core)'
        BY <3>1, SoundPrimed
      <4> QED BY <1>2, <3>1, <4>1 DEF MultiInv, MultiRunning
    <3>4. MultiOver'
      BY <1>2, <3>1 DEF MultiInv, MultiOver, Firm, Ranges, Refused, NumbersMatch, Total
    <3> QED BY <3>2, <3>3, <3>4 DEF MultiInv
  <2> QED BY <2>1, <2>2, <2>3, <2>4, <2>5, <2>6 DEF MultiNext
<1> QED BY <1>1, <1>2

\* At every point of a multi line search the match held back, the position and
\* what was given agree as MultiInv says, unless an inverted search has a limit.
THEOREM MultiInvariant == MultiSpec => []MultiInv
<1>1. MultiInit => MultiInv
  BY MultiInitInv
<1>2. MultiInv /\ [MultiNext]_multiVars => MultiInv'
  BY MultiNextInv
<1> QED BY <1>1, <1>2, PTL DEF MultiSpec

\* No range of a multi line search runs backwards, so Match.new never panics, and
\* the match held back is behind every line given, although the matches may span
\* any lines, join, and be followed by context that is a match beyond the limit
\* (MultiLine.sink).  An inverted search with a limit is what NoPanic refutes.
THEOREM MultiTypes == MultiSpec => [](Unlimited => MultiTypeOK)
<1>1. MultiInv => (Unlimited => MultiTypeOK)
  <2> SUFFICES ASSUME MultiInv, Unlimited PROVE MultiTypeOK
    OBVIOUS
  <2>1. MultiPlace /\ MultiRunning /\ MultiHeld /\ MultiInverted /\ MultiOver /\ pc \in {"begin", "turn", "finish", "done"}
    BY DEF MultiInv
  <2>2. shown = Total /\ at \in 0 .. Size
    BY <2>1, MultiState
  <2>3. Firm(core)
    BY <2>1, SoundFirm DEF MultiRunning, MultiOver
  <2>4. /\ held # None => core.visited <= held.start /\ held.end <= Total
        /\ held # None => 2 * held.start <= at \/ ExceededLimit(core)
    BY <2>1, MultiState DEF MultiHeld
  <2>5. cfg.invert => at = Size \/ at % 2 = 0
    BY <2>1 DEF MultiInverted
  <2> QED BY <2>1, <2>2, <2>3, <2>4, <2>5 DEF MultiTypeOK, Firm, Ranges
<1> QED BY <1>1, MultiInvariant, PTL

\* A sink that refuses a call is obeyed by the multi line search: finish follows
\* and nothing else, but for the context that is left when the match held back at
\* the end was refused (MultiLine.run).
THEOREM MultiStopsAtOnce == MultiSpec => [](Unlimited => MultiStops)
<1>1. MultiInv => (Unlimited => MultiStops)
  <2> SUFFICES ASSUME MultiInv, Unlimited, Refused
               PROVE  /\ pc \in {"finish", "done"}
                      /\ (cfg.invert \/ held # None) => Len(core.calls) = stopAnswer + (IF pc = "done" THEN 1 ELSE 0)
                      /\ pc = "done" => Last(core.calls).kind = "finish"
    BY DEF MultiStops
  <2>1. MultiPlace /\ MultiRunning /\ MultiOver /\ pc \in {"begin", "turn", "finish", "done"}
    BY DEF MultiInv
  <2>2. stopAnswer \in Nat /\ Obeyed /\ core.calls \in Seq(SinkCalls)
    BY <2>1, Facts, MultiState, CoreTypes DEF MultiRunning, MultiOver, Firm, Sound
  <2>3. Len(core.calls) \in Nat
    BY <2>2
  <2>4. stopAnswer > 0 /\ stopAnswer <= Len(core.calls) - (IF pc = "done" THEN 1 ELSE 0)
    BY <2>2, <2>3 DEF Refused
  <2>5. pc \in {"finish", "done"}
    <3>1. ASSUME pc \in {"begin", "turn"} PROVE FALSE
      <4>1. Len(core.calls) < stopAnswer
        BY <2>1, <2>2, <2>4, <3>1 DEF MultiRunning, Sound, Refusal
      <4> QED BY <2>2, <2>3, <2>4, <3>1, <4>1
    <3> QED BY <2>1, <3>1
  <2>6. (cfg.invert \/ held # None) => Len(core.calls) <= stopAnswer + (IF pc = "done" THEN 1 ELSE 0)
    BY <2>1, <2>4, <2>5 DEF MultiOver
  <2>7. pc = "done" => Last(core.calls).kind = "finish"
    BY <2>1 DEF MultiOver, Last
  <2> QED BY <2>2, <2>3, <2>4, <2>5, <2>6, <2>7
<1> QED BY <1>1, MultiInvariant, PTL

\* Every call of a multi line search has the number and the offset of its first
\* line, and no call goes back behind another, although a block of lines is held
\* back while matches are still looked for (count_lines, MultiLine.sink).
THEOREM MultiNumbers == MultiSpec => [](Unlimited => MultiNumbered)
<1>1. MultiInv => (Unlimited => MultiNumbered)
  <2> SUFFICES ASSUME MultiInv, Unlimited, ~Refused PROVE NumbersMatch(core.calls)
    BY DEF MultiNumbered, NumbersMatch, LineKinds, LineKinds
  <2>1. MultiPlace /\ MultiRunning /\ MultiOver /\ pc \in {"begin", "turn", "finish", "done"} /\ Obeyed
    BY MultiState DEF MultiInv
  <2> QED BY <2>1 DEF MultiRunning, MultiOver, Sound, Numbers
<1> QED BY <1>1, MultiInvariant, PTL
-----------------------------------------------------------------------------
\* The matches of the file, one after the other.
MatchList == Matches(cfg.invert, cfg.max)
ResumeOf(s) == Resume(s, cfg.invert)
FromOf(q) == IF q = <<>> THEN 0 ELSE ResumeOf(Last(q))
OverOf(q) == FromOf(q) >= Size \/ First(FromOf(q)) = None \/ (cfg.max # None /\ Len(q) = cfg.max)
Another(q) == IF OverOf(q) THEN q ELSE Append(q, First(FromOf(q)))

\* Where the search goes on behind the first k of them.
FromIn(q, k) == IF k = 0 THEN 0 ELSE ResumeOf(q[k])

\* Each is the first match from where the one before it was left.
Chain(q) ==
    /\ q \in Seq(file.spans)
    /\ \A k \in 1 .. Len(q) :
           /\ FromIn(q, k - 1) < Size /\ First(FromIn(q, k - 1)) # None /\ q[k] = First(FromIn(q, k - 1))
           /\ cfg.max # None => k <= cfg.max

\* The matcher gives the first match that begins at a place or behind it.
LEMMA FirstLeast ==
    ASSUME Given, NEW from \in Int, First(from) # None
    PROVE  /\ First(from) \in file.spans /\ First(from)[1] >= from
           /\ \A t \in file.spans : t[1] >= from => First(from)[1] <= t[1]
<1> DEFINE later == {s \in file.spans : s[1] >= from}
           S == {s[1] : s \in later}
<1>1. later # {} /\ First(from) = CHOOSE s \in later : \A t \in later : s[1] <= t[1]
  BY DEF First
<1>2. S \in SUBSET Nat /\ S # {}
  BY <1>1, SizeFacts
<1>3. PICK i \in S : \A j \in S : i <= j
  BY <1>2, LeastNat
<1>4. \E s \in later : \A t \in later : s[1] <= t[1]
  BY <1>3
<1>5. First(from) \in later /\ \A t \in later : First(from)[1] <= t[1]
  BY <1>1, <1>4, Zenon
<1> QED BY <1>5

\* The search goes on behind the begin of a match, or is at the end.
LEMMA ResumeBounds ==
    ASSUME Given, NEW s \in file.spans
    PROVE  /\ ResumeOf(s) \in 0 .. Size /\ s[1] \in Nat
           /\ ResumeOf(s) > s[1] \/ ResumeOf(s) = Size
<1>0. Size \in Nat /\ s[1] \in Nat /\ s[2] \in Nat /\ s[1] <= s[2] /\ s[2] <= Size
  BY SizeFacts
<1>1. CASE ~cfg.invert
  <2>1. ResumeOf(s) = After(s[1], s[2])
    BY <1>1 DEF ResumeOf, Resume
  <2>2. ResumeOf(s) \in s[1] .. Size /\ (s[1] < Size => ResumeOf(s) > s[1])
    BY <2>1, AfterBounds
  <2> QED BY <1>0, <2>2
<1>2. CASE cfg.invert
  <2> DEFINE line == Locate(s)
  <2>1. ResumeOf(s) = AtLine(line.end)
    BY <1>2 DEF ResumeOf, Resume
  <2>2. /\ line.start \in 0 .. Total /\ line.end \in line.start .. Total
        /\ s[1] <= 2 * line.start + 1
        /\ line.start = line.end => line.start = Total
    BY LocateBounds
  <2> HIDE DEF line
  <2>3. line.end \in 0 .. Total /\ Total \in Nat
    BY <2>2, Facts
  <2>4. AtLine(line.end) \in 0 .. Size /\ (AtLine(line.end) = 2 * line.end \/ AtLine(line.end) = Size) /\ AtLine(Total) = Size
    BY <2>3, LineBounds
  <2>5. CASE line.start = line.end
    BY <1>0, <2>1, <2>2, <2>4, <2>5
  <2>6. CASE line.start # line.end
    BY <1>0, <2>1, <2>2, <2>3, <2>4, <2>6
  <2> QED BY <2>5, <2>6
<1> QED BY <1>1, <1>2

\* Where the search goes on is a place of the file.
LEMMA FromBounds ==
    ASSUME Given, NEW q \in Seq(file.spans)
    PROVE  /\ Len(q) \in Nat /\ FromOf(q) = FromIn(q, Len(q)) /\ FromOf(q) \in 0 .. Size
           /\ \A k \in 0 .. Len(q) : FromIn(q, k) \in 0 .. Size
<1>1. Len(q) \in Nat /\ (q = <<>> <=> Len(q) = 0) /\ Last(q) = q[Len(q)] /\ \A k \in 1 .. Len(q) : q[k] \in file.spans
  BY DEF Last
<1>2. \A k \in 0 .. Len(q) : FromIn(q, k) \in 0 .. Size
  <2> TAKE k \in 0 .. Len(q)
  <2>1. CASE k = 0
    BY <2>1, SizeFacts DEF FromIn
  <2>2. CASE k # 0
    <3>1. k \in 1 .. Len(q)
      BY <1>1, <2>2
    <3>2. q[k] \in file.spans
      BY <1>1, <3>1
    <3> QED BY <2>2, <3>2, ResumeBounds DEF FromIn
  <2> QED BY <2>1, <2>2
<1>3. FromOf(q) = FromIn(q, Len(q))
  BY <1>1 DEF FromOf, FromIn
<1>4. Len(q) \in 0 .. Len(q)
  BY <1>1
<1> QED BY <1>1, <1>2, <1>3, <1>4

\* One more match keeps the chain.
LEMMA ChainOn ==
    ASSUME Given, NEW q, Chain(q)
    PROVE  /\ Chain(Another(q))
           /\ ~OverOf(q) => /\ Another(q) = Append(q, First(FromOf(q))) /\ Len(Another(q)) = Len(q) + 1
                            /\ First(FromOf(q)) \in file.spans /\ First(FromOf(q))[1] >= FromOf(q)
                            /\ FromOf(Another(q)) = ResumeOf(First(FromOf(q)))
                            /\ FromOf(Another(q)) > First(FromOf(q))[1] \/ OverOf(Another(q))
<1>0. q \in Seq(file.spans) /\ Len(q) \in Nat /\ FromOf(q) \in Int /\ FromOf(q) = FromIn(q, Len(q)) /\ Size \in Nat
  BY FromBounds, SizeFacts DEF Chain
<1>1. CASE OverOf(q)
  BY <1>1 DEF Another
<1>2. CASE ~OverOf(q)
  <2> DEFINE s == First(FromOf(q))
             r == Append(q, s)
  <2>1. s \in file.spans /\ s[1] >= FromOf(q) /\ FromOf(q) < Size /\ s # None /\ ~(cfg.max # None /\ Len(q) = cfg.max)
    BY <1>0, <1>2, FirstLeast DEF OverOf
  <2> HIDE DEF s
  <2>2. r \in Seq(file.spans) /\ Len(r) = Len(q) + 1 /\ r[Len(q) + 1] = s /\ \A i \in 1 .. Len(q) : r[i] = q[i]
    BY <1>0, <2>1, AppendOne
  <2> HIDE DEF r
  <2>3. Another(q) = r
    BY <1>2 DEF Another, r, s
  <2>4. \A k \in 0 .. Len(q) : FromIn(r, k) = FromIn(q, k)
    BY <1>0, <2>2 DEF FromIn
  <2>5. cfg.max # None => Len(q) + 1 <= cfg.max
    <3> SUFFICES ASSUME cfg.max # None PROVE Len(q) + 1 <= cfg.max
      OBVIOUS
    <3>1. cfg.max \in Nat /\ cfg.max # 0
      BY Facts DEF Config
    <3>2. Len(q) <= cfg.max
      <4>1. CASE Len(q) = 0
        BY <3>1, <4>1
      <4>2. CASE Len(q) # 0
        <5>1. Len(q) \in 1 .. Len(q)
          BY <1>0, <4>2
        <5> QED BY <5>1 DEF Chain
      <4> QED BY <4>1, <4>2
    <3> QED BY <1>0, <2>1, <3>1, <3>2
  <2>6. Chain(r)
    <3> SUFFICES ASSUME NEW k \in 1 .. Len(r)
                 PROVE  /\ FromIn(r, k - 1) < Size /\ First(FromIn(r, k - 1)) # None /\ r[k] = First(FromIn(r, k - 1))
                        /\ cfg.max # None => k <= cfg.max
      BY <2>2 DEF Chain
    <3>1. CASE k = Len(q) + 1
      <4>1. k - 1 = Len(q) /\ Len(q) \in 0 .. Len(q)
        BY <1>0, <3>1
      <4>2. FromIn(r, k - 1) = FromOf(q)
        BY <1>0, <2>4, <4>1
      <4> QED BY <2>1, <2>2, <2>5, <3>1, <4>2 DEF s
    <3>2. CASE k # Len(q) + 1
      <4>1. k \in 1 .. Len(q) /\ k - 1 \in 0 .. Len(q)
        BY <1>0, <2>2, <3>2
      <4> QED BY <2>2, <2>4, <4>1 DEF Chain
    <3> QED BY <3>1, <3>2
  <2>7. FromOf(r) = ResumeOf(s)
    <3>1. FromOf(r) = FromIn(r, Len(r)) /\ Len(r) # 0 /\ r[Len(r)] = s
      BY <1>0, <2>2, FromBounds
    <3> QED BY <3>1 DEF FromIn
  <2>8. FromOf(r) > s[1] \/ OverOf(r)
    <3>1. ResumeOf(s) > s[1] \/ ResumeOf(s) = Size
      BY <2>1, ResumeBounds
    <3> QED BY <1>0, <2>7, <3>1 DEF OverOf
  <2> QED BY <2>1, <2>2, <2>3, <2>6, <2>7, <2>8 DEF s, r
<1> QED BY <1>1, <1>2
-----------------------------------------------------------------------------
\* A file has finitely many matches.
LEMMA SpansFinite ==
    ASSUME Given
    PROVE  IsFiniteSet(file.spans) /\ Cardinality(file.spans) \in Nat
<1> DEFINE T == (0 .. Size) \X (0 .. Size)
<1>1. Size \in Nat /\ file.spans \in SUBSET T
  BY SizeFacts
<1>2. IsFiniteSet(T)
  <2>1. IsFiniteSet(0 .. Size)
    BY <1>1, FS_Interval
  <2> QED BY <2>1, FS_Product
<1> HIDE DEF T
<1>3. IsFiniteSet(file.spans)
  BY <1>1, <1>2, FS_Subset
<1> QED BY <1>3, FS_CardinalityType

\* The recursive function of Matches is defined.
LEMMA MatchesAre ==
    ASSUME Given
    PROVE  \E g \in [0 .. Cardinality(file.spans) -> Seq(file.spans)] :
               /\ g[0] = <<>> /\ MatchList = g[Cardinality(file.spans)]
               /\ \A n \in 1 .. Cardinality(file.spans) : g[n] = Another(g[n - 1])
<1> DEFINE N == Cardinality(file.spans)
           D == {q \in Seq(file.spans) : Chain(q)}
           F == [p \in (1 .. N) \X D |-> Another(p[2])]
           Turns(f) == [n \in 0 .. N |->
                           IF n = 0 THEN <<>>
                           ELSE LET before == f[n - 1]
                                    from == IF before = <<>> THEN 0 ELSE Resume(Last(before), cfg.invert)
                                    over == from >= Size \/ First(from) = None \/ (cfg.max # None /\ Len(before) = cfg.max)
                                IN IF over THEN before ELSE Append(before, First(from))]
           rec == CHOOSE f : f = Turns(f)
<1>0. PICK z \in Int : z = 0
  OBVIOUS
<1>1. N \in Nat /\ N \in Int /\ z <= N
  BY <1>0, SpansFinite
<1>2. <<>> \in D
  BY DEF Chain
<1>3. MatchList = rec[N]
  BY DEF MatchList, Matches
<1>31. \A f : Turns(f) = [n \in 0 .. N |-> IF n = 0 THEN <<>> ELSE Another(f[n - 1])]
  BY Zenon DEF Another, OverOf, FromOf, ResumeOf
<1> HIDE DEF N
<1>4. \A n \in z + 1 .. N, d \in D : F[<<n, d>>] = Another(d)
  BY <1>0
<1>5. \A d \in D : Another(d) \in D
  BY ChainOn DEF Chain
<1> HIDE DEF F
<1>6. \A n \in z + 1 .. N, d \in D : F[<<n, d>>] \in D
  BY <1>4, <1>5
<1> HIDE DEF D, Turns
<1>7. PICK g : IsLoop(g, z, N, D, <<>>, F)
  BY <1>1, <1>2, <1>6, Recursion
<1>8. g \in [0 .. N -> D] /\ g[0] = <<>> /\ \A n \in 1 .. N : g[n] = Another(g[n - 1])
  <2>1. \A n \in 1 .. N : n - 1 \in 0 .. N /\ n \in z + 1 .. N
    BY <1>0, <1>1
  <2>2. g \in [0 .. N -> D] /\ g[0] = <<>> /\ \A n \in z + 1 .. N : g[n] = F[<<n, g[n - 1]>>]
    BY <1>0, <1>7 DEF IsLoop
  <2> QED BY <1>4, <2>1, <2>2
<1>9. g = Turns(g)
  <2>1. \A n \in 0 .. N : n # 0 => n \in 1 .. N
    BY <1>1
  <2>2. \A n \in 0 .. N : g[n] = IF n = 0 THEN <<>> ELSE Another(g[n - 1])
    BY <1>8, <2>1
  <2>3. g = [n \in 0 .. N |-> g[n]]
    BY <1>8
  <2>4. g = [n \in 0 .. N |-> IF n = 0 THEN <<>> ELSE Another(g[n - 1])]
    BY <2>2, <2>3
  <2> QED BY <1>31, <2>4
<1>10. rec = Turns(rec)
  BY <1>9, Zenon
<1> HIDE DEF rec
<1>11. /\ rec = [n \in 0 .. N |-> rec[n]] /\ rec[0] = <<>>
       /\ \A n \in 1 .. N : rec[n] = Another(rec[n - 1])
  <2>1. rec = [n \in 0 .. N |-> IF n = 0 THEN <<>> ELSE Another(rec[n - 1])]
    BY <1>10, <1>31
  <2>2. \A n \in 1 .. N : n # 0 /\ n \in 0 .. N
    BY <1>1
  <2>3. 0 \in 0 .. N
    BY <1>1
  <2> QED BY <2>1, <2>2, <2>3
<1> DEFINE X == [n \in 0 .. N |-> {q \in Seq(file.spans) : Chain(q)}]
<1>12. \A n \in 0 .. N : rec[n] \in X[n]
  <2>1. rec[z] \in X[z]
    BY <1>0, <1>1, <1>2, <1>11 DEF D
  <2>2. \A n \in z + 1 .. N : rec[n - 1] \in X[n - 1] => rec[n] \in X[n]
    <3> SUFFICES ASSUME NEW n \in z + 1 .. N, rec[n - 1] \in X[n - 1] PROVE rec[n] \in X[n]
      OBVIOUS
    <3>1. n \in 1 .. N /\ n - 1 \in 0 .. N /\ n \in 0 .. N
      BY <1>0, <1>1
    <3>2. rec[n - 1] \in D
      BY <3>1 DEF D
    <3>3. rec[n] \in D
      BY <1>5, <1>11, <3>1, <3>2
    <3> QED BY <3>1, <3>3 DEF D
  <2> HIDE DEF X
  <2>3. \A n \in z .. N : rec[n] \in X[n]
    BY <1>1, <2>1, <2>2, Along
  <2> QED BY <1>0, <2>3
<1>13. rec \in [0 .. N -> Seq(file.spans)]
  BY <1>11, <1>12
<1> QED BY <1>3, <1>11, <1>13 DEF N

\* They are a chain, and it ends only at the end, at the limit or without another.
LEMMA MatchesEnd ==
    ASSUME Given
    PROVE  Chain(MatchList) /\ OverOf(MatchList)
<1> DEFINE N == Cardinality(file.spans)
           Later(q) == {s \in file.spans : s[1] >= FromOf(q)}
           Near(n, q) == Chain(q) /\ (OverOf(q) \/ Cardinality(Later(q)) <= N - n)
<1>0. PICK z \in Int : z = 0
  OBVIOUS
<1>1. N \in Nat /\ IsFiniteSet(file.spans)
  BY SpansFinite
<1>2. PICK g \in [0 .. N -> Seq(file.spans)] :
          g[0] = <<>> /\ MatchList = g[N] /\ \A n \in 1 .. N : g[n] = Another(g[n - 1])
  BY MatchesAre
<1>3. \A q : IsFiniteSet(Later(q)) /\ Cardinality(Later(q)) \in Nat /\ Cardinality(Later(q)) <= N
  <2> TAKE q
  <2>1. Later(q) \in SUBSET file.spans
    OBVIOUS
  <2> HIDE DEF Later
  <2> QED BY <1>1, <2>1, FS_Subset, FS_CardinalityType
<1>4. \A q : Later(q) = {} => OverOf(q)
  BY DEF OverOf, First
<1>5. ASSUME NEW n \in 1 .. N, NEW q, Near(n - 1, q) PROVE Near(n, Another(q))
  <2> DEFINE r == Another(q)
  <2>1. Chain(r)
    BY <1>5, ChainOn
  <2>2. CASE OverOf(q)
    <3>1. r = q
      BY <2>2 DEF Another
    <3> QED BY <2>1, <2>2, <3>1
  <2>3. CASE ~OverOf(q)
    <3> DEFINE s == First(FromOf(q))
    <3>1. s \in file.spans /\ s[1] >= FromOf(q) /\ FromOf(r) = ResumeOf(s) /\ (FromOf(r) > s[1] \/ OverOf(r))
      BY <1>5, <2>3, ChainOn
    <3>2. FromOf(q) \in Int /\ FromOf(r) \in Int /\ \A t \in file.spans : t[1] \in Int
      BY <1>5, <2>1, FromBounds, SizeFacts DEF Chain
    <3> HIDE DEF r, s
    <3>3. CASE OverOf(r)
      BY <2>1, <3>3 DEF r
    <3>4. CASE ~OverOf(r)
      <4>1. s \in Later(q) /\ s \notin Later(r) /\ \A t \in Later(r) : t \in Later(q)
        BY <3>1, <3>2, <3>4
      <4>2. Cardinality(Later(q)) <= N - (n - 1)
        BY <1>5, <2>3
      <4> HIDE DEF Later
      <4> DEFINE rest == Later(q) \ {s}
      <4>3. IsFiniteSet(rest) /\ Cardinality(rest) = Cardinality(Later(q)) - 1
        BY <1>3, <4>1, FS_RemoveElement
      <4>4. Later(r) \in SUBSET rest
        BY <4>1
      <4> HIDE DEF rest
      <4>5. Cardinality(Later(r)) <= Cardinality(rest)
        BY <4>3, <4>4, FS_Subset
      <4>6. Cardinality(Later(r)) <= N - n
        BY <1>1, <1>3, <4>2, <4>3, <4>5
      <4> QED BY <2>1, <4>6 DEF r
    <3> QED BY <3>3, <3>4
  <2> QED BY <2>2, <2>3
<1> HIDE DEF N, Later
<1> DEFINE X == [n \in 0 .. N |-> {q \in Seq(file.spans) : Near(n, q)}]
<1>6. \A n \in 0 .. N : X[n] = {q \in Seq(file.spans) : Near(n, q)}
  OBVIOUS
<1>7. Near(0, <<>>)
  <2>1. Chain(<<>>)
    BY DEF Chain
  <2> QED BY <1>1, <1>3, <2>1
<1> HIDE DEF X, Near
<1>8. g[z] \in X[z]
  BY <1>0, <1>1, <1>2, <1>6, <1>7
<1>9. \A n \in z + 1 .. N : g[n - 1] \in X[n - 1] => g[n] \in X[n]
  <2> SUFFICES ASSUME NEW n \in z + 1 .. N, g[n - 1] \in X[n - 1] PROVE g[n] \in X[n]
    OBVIOUS
  <2>1. n \in 1 .. N /\ n - 1 \in 0 .. N /\ n \in 0 .. N
    BY <1>0, <1>1
  <2>2. Near(n, Another(g[n - 1]))
    BY <1>5, <1>6, <2>1
  <2> QED BY <1>2, <1>6, <2>1, <2>2
<1>91. N \in Int /\ z <= N
  BY <1>0, <1>1
<1>10. \A n \in z .. N : g[n] \in X[n]
  BY <1>8, <1>9, <1>91, Along
<1>11. Near(N, MatchList)
  BY <1>0, <1>1, <1>2, <1>6, <1>10
<1>12. Cardinality(Later(MatchList)) <= 0 => Later(MatchList) = {}
  BY <1>3, FS_EmptySet
<1> QED BY <1>1, <1>4, <1>11, <1>12 DEF Near
-----------------------------------------------------------------------------
\* The lines of the matches.
Top(k) == Locate(MatchList[k]).start
Bottom(k) == Locate(MatchList[k]).end
FromAt(k) == FromIn(MatchList, k)
Matched == Touched(MatchList)

\* What is known of each match of the list, and of the place where the
\* search goes on behind it.
LEMMA ListFacts ==
    ASSUME Given
    PROVE  /\ MatchList \in Seq(file.spans) /\ Len(MatchList) \in Nat /\ Total \in Nat /\ Size \in Nat
           /\ FromAt(0) = 0
           /\ \A k \in 0 .. Len(MatchList) : FromAt(k) \in 0 .. Size
           /\ \A k \in 1 .. Len(MatchList) :
                  /\ MatchList[k] \in file.spans /\ MatchList[k][1] \in Nat /\ MatchList[k][2] \in Nat
                  /\ Locate(MatchList[k]) = Lines(Top(k), Bottom(k))
                  /\ Top(k) \in 0 .. Total /\ Bottom(k) \in Top(k) .. Total
                  /\ 2 * Top(k) <= MatchList[k][1] /\ MatchList[k][1] <= 2 * Top(k) + 1
                  /\ Top(k) = Bottom(k) => Top(k) = Total
                  /\ FromAt(k - 1) < Size /\ First(FromAt(k - 1)) # None /\ MatchList[k] = First(FromAt(k - 1))
                  /\ FromAt(k - 1) <= MatchList[k][1]
                  /\ \A t \in file.spans : t[1] >= FromAt(k - 1) => MatchList[k][1] <= t[1]
                  /\ FromAt(k) = ResumeOf(MatchList[k])
                  /\ cfg.max # None => k <= cfg.max
           /\ \A i : i \in Matched <=> \E k \in 1 .. Len(MatchList) : i \in Top(k) + 1 .. Bottom(k)
<1>1. Chain(MatchList) /\ Total \in Nat /\ Size \in Nat
  BY MatchesEnd, SizeFacts, Facts
<1> DEFINE q == MatchList
<1> HIDE DEF q
<1>2. q \in Seq(file.spans) /\ Len(q) \in Nat /\ \A k \in 0 .. Len(q) : FromAt(k) \in 0 .. Size
  BY <1>1, FromBounds DEF Chain, FromAt, q
<1>3. FromAt(0) = 0 /\ DOMAIN q = 1 .. Len(q)
  BY <1>2 DEF FromAt, FromIn
<1>4. ASSUME NEW k \in 1 .. Len(q)
      PROVE  /\ q[k] \in file.spans /\ q[k][1] \in Nat /\ q[k][2] \in Nat
             /\ Locate(q[k]) = Lines(Top(k), Bottom(k))
             /\ Top(k) \in 0 .. Total /\ Bottom(k) \in Top(k) .. Total
             /\ 2 * Top(k) <= q[k][1] /\ q[k][1] <= 2 * Top(k) + 1
             /\ Top(k) = Bottom(k) => Top(k) = Total
             /\ FromAt(k - 1) < Size /\ First(FromAt(k - 1)) # None /\ q[k] = First(FromAt(k - 1))
             /\ FromAt(k - 1) <= q[k][1]
             /\ \A t \in file.spans : t[1] >= FromAt(k - 1) => q[k][1] <= t[1]
             /\ FromAt(k) = ResumeOf(q[k])
             /\ cfg.max # None => k <= cfg.max
  <2>1. k - 1 \in 0 .. Len(q) /\ k # 0
    BY <1>2
  <2>2. FromAt(k - 1) \in Int
    BY <1>2, <2>1
  <2>3. /\ FromAt(k - 1) < Size /\ First(FromAt(k - 1)) # None /\ q[k] = First(FromAt(k - 1))
        /\ cfg.max # None => k <= cfg.max
    BY <1>1, <1>4 DEF Chain, FromAt, q
  <2>4. q[k] \in file.spans /\ FromAt(k - 1) <= q[k][1] /\ \A t \in file.spans : t[1] >= FromAt(k - 1) => q[k][1] <= t[1]
    BY <2>2, <2>3, FirstLeast
  <2>5. FromAt(k) = ResumeOf(q[k])
    BY <2>1 DEF FromAt, FromIn, q
  <2>6. q[k][1] \in Nat /\ q[k][2] \in Nat
    BY <2>4, SizeFacts
  <2>7. /\ Locate(q[k]) = Lines(Top(k), Bottom(k))
        /\ Top(k) \in 0 .. Total /\ Bottom(k) \in Top(k) .. Total
        /\ 2 * Top(k) <= q[k][1] /\ q[k][1] <= 2 * Top(k) + 1
        /\ Top(k) = Bottom(k) => Top(k) = Total
    BY <2>4, LocateBounds DEF Top, Bottom, q
  <2> QED BY <2>3, <2>4, <2>5, <2>6, <2>7
<1>5. \A i : i \in Matched <=> \E k \in 1 .. Len(q) : i \in Top(k) + 1 .. Bottom(k)
  BY <1>3 DEF Matched, Touched, Top, Bottom, q
<1> QED BY <1>1, <1>2, <1>3, <1>4, <1>5 DEF q

\* The search goes on behind a match, and not before the lines it ends with.
LEMMA NextLines ==
    ASSUME Given, NEW k \in 1 .. Len(MatchList), k + 1 \in 1 .. Len(MatchList)
    PROVE  /\ Top(k) <= Top(k + 1) /\ Bottom(k) <= Bottom(k + 1)
           /\ cfg.invert => Bottom(k) <= Top(k + 1)
<1> DEFINE s == MatchList[k]
           t == MatchList[k + 1]
<1>1. Total \in Nat /\ Size \in Nat /\ Size <= 2 * Total /\ k + 1 - 1 = k
  BY ListFacts, SizeFacts
<1>2. /\ s \in file.spans /\ s[1] \in Nat /\ s[2] \in Nat /\ s[1] <= s[2] /\ s[2] <= Size
      /\ Top(k) \in 0 .. Total /\ Bottom(k) \in Top(k) .. Total
      /\ 2 * Top(k) <= s[1] /\ s[1] <= 2 * Top(k) + 1
      /\ Top(k) = Bottom(k) => Top(k) = Total
      /\ FromAt(k) = ResumeOf(s)
  BY ListFacts, SizeFacts
<1>3. /\ t[1] \in Nat
      /\ Top(k + 1) \in 0 .. Total /\ Bottom(k + 1) \in Top(k + 1) .. Total
      /\ 2 * Top(k + 1) <= t[1] /\ t[1] <= 2 * Top(k + 1) + 1
      /\ Top(k + 1) = Bottom(k + 1) => Top(k + 1) = Total
      /\ FromAt(k) < Size /\ FromAt(k) <= t[1]
  <2> PICK n \in 1 .. Len(MatchList) : n = k + 1
    OBVIOUS
  <2>1. n - 1 = k
    BY <1>1
  <2>2. /\ MatchList[n][1] \in Nat
        /\ Top(n) \in 0 .. Total /\ Bottom(n) \in Top(n) .. Total
        /\ 2 * Top(n) <= MatchList[n][1] /\ MatchList[n][1] <= 2 * Top(n) + 1
        /\ Top(n) = Bottom(n) => Top(n) = Total
        /\ FromAt(n - 1) < Size /\ FromAt(n - 1) <= MatchList[n][1]
    BY ListFacts
  <2> QED BY <2>1, <2>2
<1>4. ResumeOf(s) \in 0 .. Size /\ ResumeOf(s) > s[1]
  <2>1. ResumeOf(s) \in 0 .. Size /\ (ResumeOf(s) > s[1] \/ ResumeOf(s) = Size)
    BY <1>2, ResumeBounds
  <2>2. ResumeOf(s) < Size
    BY <1>2, <1>3
  <2> QED BY <1>1, <2>1, <2>2
<1>5. Bottom(k) = IF (s[2] > 2 * (s[1] \div 2) /\ s[2] % 2 = 0) \/ s[2] \div 2 = Total THEN s[2] \div 2 ELSE s[2] \div 2 + 1
  BY DEF Bottom, Locate, Lines
<1>6. cfg.invert => ResumeOf(s) = AtLine(Bottom(k)) /\ Bottom(k) \in 0 .. Total
  BY <1>1, <1>2 DEF ResumeOf, Resume, Bottom
<1>7. ~cfg.invert => s[2] <= ResumeOf(s)
  <2>1. ~cfg.invert => ResumeOf(s) = After(s[1], s[2])
    BY DEF ResumeOf, Resume
  <2> QED BY <1>2, <2>1 DEF After
<1> DEFINE a == s[1]
           b == s[2]
           r == ResumeOf(s)
           u == t[1]
           p == Bottom(k)
           x == Top(k)
           y == Top(k + 1)
           z == Bottom(k + 1)
<1> HIDE DEF s, t
<1>8. r <= u /\ r \in Nat /\ r < Size
  BY <1>1, <1>2, <1>3, <1>4
<1>9. cfg.invert => r = 2 * p
  <2> SUFFICES ASSUME cfg.invert PROVE r = 2 * p
    OBVIOUS
  <2>1. r = AtLine(Bottom(k)) /\ Bottom(k) \in 0 .. Total
    BY <1>6
  <2>2. AtLine(Bottom(k)) < Size => AtLine(Bottom(k)) = 2 * Bottom(k)
    BY <2>1, LineBounds
  <2> QED BY <1>8, <2>1, <2>2
<1>10. /\ a \in Nat /\ b \in Nat /\ a <= b /\ b <= Size /\ u \in Nat
       /\ x \in 0 .. Total /\ p \in x .. Total /\ y \in 0 .. Total /\ z \in y .. Total
       /\ 2 * x <= a /\ a <= 2 * x + 1 /\ 2 * y <= u /\ u <= 2 * y + 1
       /\ y = z => y = Total
       /\ p = IF (b > 2 * (a \div 2) /\ b % 2 = 0) \/ b \div 2 = Total THEN b \div 2 ELSE b \div 2 + 1
       /\ ~cfg.invert => b <= r
       /\ r > a
  BY <1>2, <1>3, <1>4, <1>5, <1>7
<1> HIDE DEF a, b, r, u, p, x, y, z
<1>11. x <= y
  BY <1>1, <1>8, <1>10
<1>12. cfg.invert => p <= y
  BY <1>1, <1>8, <1>9, <1>10
<1>13. ~cfg.invert => p <= z
  <2> SUFFICES ASSUME ~cfg.invert PROVE p <= z
    OBVIOUS
  <2>1. b \div 2 <= y
    BY <1>1, <1>8, <1>10
  <2>2. p <= b \div 2 + 1 /\ (b \div 2 = Total => p = Total)
    BY <1>1, <1>10
  <2> QED BY <1>1, <1>10, <2>1, <2>2
<1>14. p <= z
  BY <1>1, <1>10, <1>12, <1>13
<1> QED BY <1>11, <1>12, <1>14 DEF p, x, y, z

\* The matches come in order: neither end of their lines runs backwards.
LEMMA Rising ==
    ASSUME Given, NEW j \in 1 .. Len(MatchList), NEW k \in 1 .. Len(MatchList), j <= k
    PROVE  Top(j) <= Top(k) /\ Bottom(j) <= Bottom(k)
<1> DEFINE f == [i \in j .. k |-> 0]
           X == [i \in j .. k |-> {n \in {0} : Top(j) <= Top(i) /\ Bottom(j) <= Bottom(i)}]
<1>0. Len(MatchList) \in Nat /\ \A i \in 1 .. Len(MatchList) : Top(i) \in Int /\ Bottom(i) \in Int
  <2>1. Len(MatchList) \in Nat /\ Total \in Nat
        /\ \A i \in 1 .. Len(MatchList) : Top(i) \in 0 .. Total /\ Bottom(i) \in Top(i) .. Total
    BY ListFacts
  <2> QED BY <2>1
<1>1. f[j] \in X[j]
  BY <1>0
<1>2. \A i \in j + 1 .. k : f[i - 1] \in X[i - 1] => f[i] \in X[i]
  <2> SUFFICES ASSUME NEW i \in j + 1 .. k, f[i - 1] \in X[i - 1] PROVE f[i] \in X[i]
    OBVIOUS
  <2>1. i - 1 \in 1 .. Len(MatchList) /\ i \in 1 .. Len(MatchList) /\ (i - 1) + 1 = i /\ i - 1 \in j .. k /\ i \in j .. k
    BY <1>0
  <2>2. Top(i - 1) <= Top(i) /\ Bottom(i - 1) <= Bottom(i)
    BY <2>1, NextLines
  <2>3. Top(j) <= Top(i - 1) /\ Bottom(j) <= Bottom(i - 1)
    BY <2>1
  <2>4. Top(j) <= Top(i) /\ Bottom(j) <= Bottom(i)
    BY <1>0, <2>1, <2>2, <2>3
  <2> QED BY <2>1, <2>4
<1>3. \A i \in j .. k : X[i] = {n \in {0} : Top(j) <= Top(i) /\ Bottom(j) <= Bottom(i)}
  OBVIOUS
<1> HIDE DEF f, X
<1>4. j \in Int /\ k \in Int /\ k \in j .. k
  BY <1>0
<1>5. \A i \in j .. k : f[i] \in X[i]
  BY <1>1, <1>2, <1>4, Along
<1> QED BY <1>3, <1>4, <1>5

\* An inverted search goes on behind the lines of a match.
LEMMA InvertedRising ==
    ASSUME Given, cfg.invert, NEW j \in 1 .. Len(MatchList), NEW k \in 1 .. Len(MatchList), j < k
    PROVE  Bottom(j) <= Top(k)
<1>1. Len(MatchList) \in Nat /\ Total \in Nat
      /\ \A i \in 1 .. Len(MatchList) : Top(i) \in 0 .. Total /\ Bottom(i) \in Top(i) .. Total
  BY ListFacts
<1>2. j + 1 \in 1 .. Len(MatchList) /\ j + 1 <= k
  BY <1>1
<1>3. Bottom(j) <= Top(j + 1)
  BY <1>2, NextLines
<1>4. Top(j + 1) <= Top(k)
  BY <1>2, Rising
<1> QED BY <1>1, <1>2, <1>3, <1>4

\* Every match that begins before the place where the search goes on begins on a
\* line that was matched.
LEMMA Passed ==
    ASSUME Given, ~cfg.invert, NEW n \in 0 .. Len(MatchList), NEW s \in file.spans, s[1] < FromAt(n)
    PROVE  s[1] \div 2 + 1 \in Matched
<1> DEFINE f == [i \in 0 .. n |-> 0]
           X == [i \in 0 .. n |-> {x \in {0} : s[1] < FromAt(i) => s[1] \div 2 + 1 \in Matched}]
<1>0. /\ Len(MatchList) \in Nat /\ s[1] \in Nat /\ Total \in Nat /\ Size \in Nat /\ Size <= 2 * Total /\ FromAt(0) = 0
      /\ n \in Nat /\ \A i \in 0 .. n : FromAt(i) \in 0 .. Size
  <2>1. /\ Len(MatchList) \in Nat /\ s[1] \in Nat /\ Total \in Nat /\ Size \in Nat /\ Size <= 2 * Total /\ FromAt(0) = 0
        /\ \A i \in 0 .. Len(MatchList) : FromAt(i) \in 0 .. Size
    BY ListFacts, SizeFacts
  <2> QED BY <2>1
<1> PICK z \in Int : z = 0
  OBVIOUS
<1>1. f[z] \in X[z]
  BY <1>0
<1>2. \A i \in z + 1 .. n : f[i - 1] \in X[i - 1] => f[i] \in X[i]
  <2> SUFFICES ASSUME NEW i \in z + 1 .. n, f[i - 1] \in X[i - 1] PROVE f[i] \in X[i]
    OBVIOUS
  <2>0. i \in 1 .. Len(MatchList) /\ i - 1 \in 0 .. n /\ i \in 0 .. n
    BY <1>0
  <2> SUFFICES ASSUME s[1] < FromAt(i) PROVE s[1] \div 2 + 1 \in Matched
    BY <2>0
  <2>1. CASE s[1] < FromAt(i - 1)
    BY <2>0, <2>1
  <2>2. CASE ~(s[1] < FromAt(i - 1))
    <3> DEFINE m == MatchList[i]
    <3>1. /\ m \in file.spans /\ m[1] \in Nat /\ m[2] \in Nat
          /\ Top(i) \in 0 .. Total /\ Bottom(i) \in Top(i) .. Total
          /\ 2 * Top(i) <= m[1] /\ m[1] <= 2 * Top(i) + 1
          /\ FromAt(i) = ResumeOf(m)
          /\ \A t \in file.spans : t[1] >= FromAt(i - 1) => m[1] <= t[1]
          /\ FromAt(i) \in 0 .. Size
      BY <2>0, ListFacts, <1>0
    <3>2. m[1] <= s[1]
      <4>1. FromAt(i - 1) \in Int /\ s[1] \in Int
        BY <1>0, <2>0
      <4>2. s[1] >= FromAt(i - 1)
        BY <2>2, <4>1
      <4> QED BY <3>1, <4>2
    <3>3. FromAt(i) = After(m[1], m[2])
      BY <3>1 DEF ResumeOf, Resume
    <3>4. m[1] <= m[2] /\ m[2] <= Size
      BY <3>1, SizeFacts
    <3>5. Bottom(i) = IF (m[2] > 2 * (m[1] \div 2) /\ m[2] % 2 = 0) \/ m[2] \div 2 = Total THEN m[2] \div 2 ELSE m[2] \div 2 + 1
      BY DEF Bottom, Locate, Lines
    <3> DEFINE a == m[1]
               b == m[2]
               u == s[1]
               p == Bottom(i)
               x == Top(i)
    <3>6. a \in Nat /\ b \in Nat /\ u \in Nat /\ a <= b /\ b <= Size /\ a <= u
      BY <1>0, <3>1, <3>2, <3>4
    <3>11. u < Size
      <4>1. u \in Nat /\ Size \in Nat /\ FromAt(i) \in Nat /\ FromAt(i) <= Size
        BY <1>0, <3>1
      <4>2. u < FromAt(i)
        OBVIOUS
      <4> QED BY <4>1, <4>2
    <3>12. x \in Nat /\ p \in Nat /\ x <= p /\ 2 * x <= a /\ a <= 2 * x + 1
      BY <1>0, <3>1
    <3>13. p = IF (b > 2 * (a \div 2) /\ b % 2 = 0) \/ b \div 2 = Total THEN b \div 2 ELSE b \div 2 + 1
      BY <3>5
    <3>9. u < After(a, b) /\ After(a, b) = IF a = b /\ b < Size THEN b + 1 ELSE b
      BY <3>3 DEF After
    <3> HIDE DEF m, a, b, u, p, x
    <3>10. u < b \/ (a = b /\ u = b)
      <4>1. Size \in Int
        BY <1>0
      <4>2. CASE a = b /\ b < Size
        BY <3>6, <3>9, <4>2
      <4>3. CASE ~(a = b /\ b < Size)
        BY <3>9, <4>3
      <4> QED BY <4>2, <4>3
    <3>7. x < u \div 2 + 1 /\ u \div 2 + 1 <= p
      <4>1. Total \in Nat /\ Size \in Nat /\ Size <= 2 * Total
        BY <1>0
      <4>2. x <= u \div 2
        BY <3>6, <3>12
      <4>3. u \div 2 + 1 <= p
        <5>1. CASE u < b
          BY <3>6, <3>13, <4>1, <5>1
        <5>2. CASE a = b /\ u = b
          BY <3>6, <3>11, <3>13, <4>1, <5>2
        <5> QED BY <3>10, <5>1, <5>2
      <4> QED BY <3>6, <4>2, <4>3
    <3>8. u \div 2 + 1 \in x + 1 .. p
      BY <3>6, <3>7, <3>12
    <3> QED BY <2>0, <3>8, ListFacts DEF u, x, p
  <2> QED BY <2>1, <2>2
<1>3. \A i \in 0 .. n : X[i] = {x \in {0} : s[1] < FromAt(i) => s[1] \div 2 + 1 \in Matched}
  OBVIOUS
<1> HIDE DEF f, X
<1>4. z <= n /\ n \in Int
  BY <1>0
<1>5. \A i \in z .. n : f[i] \in X[i]
  BY <1>1, <1>2, <1>4, Along
<1>6. n \in z .. n /\ n \in 0 .. n
  BY <1>0
<1> QED BY <1>3, <1>5, <1>6

\* A line before a match that no match touches does not match alone.
LEMMA NoHit ==
    ASSUME Given, Placed, ~cfg.invert, cfg.max # None, NEW k \in 1 .. Len(MatchList), NEW n \in 1 .. Top(k), n \notin Matched
    PROVE  ~file.hit[n]
<1>1. /\ Total \in Nat /\ Len(MatchList) \in Nat /\ Size \in Nat
      /\ Top(k) \in 0 .. Total /\ MatchList[k] \in file.spans /\ MatchList[k][1] \in Nat /\ 2 * Top(k) <= MatchList[k][1]
      /\ FromAt(k) = ResumeOf(MatchList[k])
  BY ListFacts
<1>2. SUFFICES ASSUME file.hit[n] PROVE FALSE
  OBVIOUS
<1>3. n \in 1 .. Total
  BY <1>1
<1>4. PICK s \in file.spans : s[1] \div 2 = n - 1
  BY <1>2, <1>3 DEF Placed
<1>5. s[1] \in Nat
  BY SizeFacts
<1>6. s[1] < 2 * Top(k)
  BY <1>1, <1>3, <1>4, <1>5
<1>7. ResumeOf(MatchList[k]) >= MatchList[k][1] /\ ResumeOf(MatchList[k]) \in 0 .. Size
  <2>1. ResumeOf(MatchList[k]) = After(MatchList[k][1], MatchList[k][2])
    BY DEF ResumeOf, Resume
  <2>2. ResumeOf(MatchList[k]) \in MatchList[k][1] .. Size
    BY <1>1, <2>1, AfterBounds
  <2> QED BY <1>1, <2>2
<1>8. s[1] < FromAt(k) /\ k \in 0 .. Len(MatchList)
  BY <1>1, <1>5, <1>6, <1>7
<1>9. s[1] \div 2 + 1 = n
  BY <1>4, <1>5, <1>3
<1> QED BY <1>8, <1>9, Passed
-----------------------------------------------------------------------------
\* Blocks of lines, and the lines between them.

\* The lines behind start and up to end are reported in one call.
Whole(R, start, end) ==
    /\ start + 1 \in R.starts /\ R.kind[start + 1] = "match" /\ R.upto[start + 1] = end
    /\ \A k \in start + 2 .. end : k \notin R.starts
    /\ end \in R.due /\ end \in R.chosen

\* MultiLine.sink_matched.
LEMMA RangeAdds ==
    ASSUME State, cfg.slice, NEW R, Reference(R), NEW c, Sound(c), c.go, NEW start \in 0 .. shown, NEW end \in start .. shown, start < end,
           c.visited <= start, OwedOf(R, c.visited, c), Whole(R, start, end),
           \A k \in c.visited + 1 .. start : k \notin R.due
    PROVE  LET d == SinkRange(c, Lines(start, end))
           IN /\ d.go => OwedOf(R, end, d) /\ d.visited = end
              /\ ~d.go => EndedOf(R, d)
<1> DEFINE e == DetectBinary(c, start, end)
           b == BreakContext(e, start)
           m == CountLines(b, start)
           x == [kind |-> "match", line |-> start + 1, upto |-> end, offset |-> m.offset + start, number |-> m.lineNumber]
           t == Tell(m, x)
           a == cfg.after
           d == SinkRange(c, Lines(start, end))
<1>0. /\ start \in Nat /\ end \in Nat /\ end <= shown /\ base = 0 /\ shown \in Nat /\ c.visited \in 0 .. shown /\ c \in Cores
      /\ a \in Nat /\ start \in Int /\ start + 1 \in 1 .. shown /\ (start + 1) - 1 = start /\ Given /\ shown <= Total /\ Total \in Nat
  <2>1. base = 0 /\ shown \in Nat /\ c.visited \in 0 .. shown /\ c \in Cores /\ Given /\ base + shown <= Total /\ Total \in Nat
    BY Facts DEF State, Sound, Ranges
  <2>2. a \in Nat
    BY <2>1, ReferenceFacts
  <2> QED BY <2>1, <2>2
<1>1. Sound(e) /\ Kept(c, e) /\ Shown(e) = Shown(c) /\ e.hasSunk = c.hasSunk /\ (~e.go => Halted(e))
  BY <1>0, DetectSound, DetectShown
<1>2. d = IF ~e.go THEN b ELSE IF ~b.go THEN b
          ELSE IF t.go THEN [t EXCEPT !.visited = end, !.afterLeft = a, !.hasSunk = TRUE] ELSE t
  <2>1. d = IF ~b.go THEN b
            ELSE IF t.go THEN [t EXCEPT !.visited = end, !.afterLeft = a, !.hasSunk = TRUE] ELSE t
    BY <1>0 DEF SinkRange, TellBlock, Lines, e
  <2>2. ~e.go => ~b.go
    BY DEF BreakContext
  <2> QED BY <2>1, <2>2
<1> HIDE DEF e, d
<1>3. c.visited \in 0 .. Total /\ start + 1 \in 1 .. Total /\ start + 1 \in R.starts /\ end \in 1 .. Total
  BY <1>0 DEF Whole
<1>4. CASE ~e.go
  <2>1. b = e
    BY <1>4 DEF BreakContext
  <2>2. d = e /\ PreOf(R, e)
    BY <1>0, <1>1, <1>2, <1>3, <1>4, <2>1, OwedPreOf DEF OwedOf
  <2> QED BY <1>1, <1>4, <2>2 DEF EndedOf, d
<1>5. CASE e.go
  <2>1. OwedOf(R, e.visited, e) /\ e.visited = c.visited /\ e.visited < start + 1
    <3>1. e.visited = c.visited /\ e.afterLeft = c.afterLeft
      BY <1>1 DEF Kept
    <3>2. c.visited < start + 1
      BY <1>0
    <3> QED BY <1>1, <3>1, <3>2, OwedAlikeOf
  <2>2. ReadyOf(R, start + 1, b) /\ b.hasSunk = e.hasSunk /\ (~b.go => Halted(b))
    <3> DEFINE i == start + 1
    <3>1. i \in 1 .. shown /\ i - 1 = start /\ base + i = i /\ base + e.visited = e.visited /\ i \in R.starts
      BY <1>0, <1>3, <2>1
    <3>2. \A k \in e.visited + 1 .. i - 1 : k \notin R.due
      BY <2>1, <3>1
    <3> HIDE DEF i, b
    <3>3. Sound(e) /\ e.go /\ e.visited < i /\ OwedOf(R, base + e.visited, e)
          /\ base + i \in R.starts /\ \A k \in (base + e.visited) + 1 .. (base + i) - 1 : k \notin R.due
      BY <1>1, <1>5, <2>1, <3>1, <3>2 DEF i
    <3>4. LET f == BreakContext(e, i - 1)
          IN ReadyOf(R, base + i, f) /\ f.hasSunk = e.hasSunk /\ (~f.go => Halted(f))
      BY <3>1, <3>3, BreakAdds
    <3>5. b = BreakContext(e, i - 1)
      BY <3>1 DEF b
    <3> QED BY <3>1, <3>4, <3>5 DEF i
  <2>3. Sound(b)
    BY <1>0, <1>1, BreakSound
  <2> HIDE DEF b
  <2>4. CASE ~b.go
    <3>1. d = b /\ PreOf(R, b)
      BY <1>0, <1>2, <1>3, <1>5, <2>2, <2>4, ReadyPreOf
    <3> QED BY <2>2, <2>4, <3>1 DEF EndedOf, d
  <2>5. CASE b.go
    <3>1. m \in Cores /\ m.calls = b.calls /\ m.lineNumber \in Int /\ m.offset \in Int /\ Kept(b, m)
      BY <1>0, <2>3, CountSound, CoreTypes
    <3> HIDE DEF m
    <3>2. x \in SinkCalls /\ OfLines(x) /\ Brief(x) = Entry(R, start + 1)
      <4>1. m.offset + start \in Int /\ start + 1 \in Int /\ end \in Int /\ m.lineNumber \in Int
        BY <1>0, <3>1
      <4>2. x \in BlockCalls
        BY <1>0, <4>1 DEF BlockCalls
      <4>3. R.kind[start + 1] = "match" /\ R.upto[start + 1] = end
        BY DEF Whole
      <4> QED BY <4>2, <4>3 DEF SinkCalls, OfLines, Brief, UpTo, Entry, LineKinds
    <3> HIDE DEF x
    <3>3. Told(m, t, x) /\ Shown(t) = Append(Shown(m), Brief(x)) /\ (~t.go => Halted(t)) /\ t \in Cores
      BY <1>0, <3>1, <3>2, TellShown DEF Told
    <3> HIDE DEF t
    <3> DEFINE l == ListedOf(R)[start]
               y == Skip(start)
               z == Entry(R, start + 1)
    <3>4. Shown(t) = Append(Shown(b), z)
      BY <3>1, <3>2, <3>3 DEF Shown
    <3>5. Shown(b) = IF Gap(R.due, start + 1) THEN Append(l, y) ELSE l
      BY <1>0, <2>2 DEF ReadyOf
    <3>6. l \in Seq(Briefs) /\ ListedOf(R)[start + 1] = l \o CallsOf(R, start + 1)
      <4>1. start + 1 \in 1 .. Total /\ start \in 0 .. Total /\ (start + 1) - 1 = start
        BY <1>0
      <4>2. ListedOf(R)[start + 1] = ListedOf(R)[(start + 1) - 1] \o CallsOf(R, start + 1)
        BY <1>0, <1>3, ListedIsOf
      <4>3. ListedOf(R)[start] \in Seq(Briefs)
        BY <1>0, <4>1, ListedIsOf
      <4> QED BY <4>1, <4>2, <4>3
    <3>7. \A L \in Seq(Briefs) : L \o CallsOf(R, start + 1) = IF Gap(R.due, start + 1) THEN Append(Append(L, y), z) ELSE Append(L, z)
      <4>1. \A L \in Seq(Briefs) :
              L \o CallsOf(R, start + 1) = IF Gap(R.due, start + 1)
                    THEN Append(Append(L, Skip((start + 1) - 1)), z) ELSE Append(L, z)
        BY <1>0, <1>3, CallsTypedOf
      <4> QED BY <1>0, <4>1
    <3> HIDE DEF l, y, z
    <3>8. Shown(t) = ListedOf(R)[start + 1]
      BY <3>4, <3>5, <3>6, <3>7
    <3>9. ListedOf(R)[end] = ListedOf(R)[start + 1]
      <4>1. \A k \in (start + 1) + 1 .. end : k \notin R.starts
        BY <1>0 DEF Whole
      <4>2. start + 1 \in Nat /\ start + 1 <= end /\ end <= Total /\ end \in Nat
        BY <1>0
      <4> QED BY <1>0, <4>1, <4>2, QuietOf
    <3>10. CASE ~t.go
      <4>1. d = t
        BY <1>2, <1>5, <2>5, <3>10
      <4>2. start + 1 \in 0 .. Total
        BY <1>0
      <4>3. PreOf(R, t)
        BY <1>0, <3>8, <4>2, OwedPreOf
      <4> QED BY <3>3, <3>10, <4>1, <4>3 DEF EndedOf, d
    <3>11. CASE t.go
      <4>1. d = [t EXCEPT !.visited = end, !.afterLeft = a, !.hasSunk = TRUE]
        BY <1>2, <1>5, <2>5, <3>11
      <4>2. AfterOf(R, end, a)
        BY <1>0, AfterMatchedOf DEF Whole
      <4> HIDE DEF a
      <4>3. d.calls = t.calls /\ d.hasSunk = TRUE /\ d.afterLeft = a /\ d.go = t.go /\ d.visited = end
        BY <3>3, <4>1 DEF Cores
      <4>4. Shown(d) = ListedOf(R)[end]
        BY <3>8, <3>9, <4>3 DEF Shown
      <4>5. end \in R.due
        BY DEF Whole
      <4>6. OwedOf(R, end, d)
        BY <1>0, <4>2, <4>3, <4>4, <4>5, OwedNowOf
      <4> QED BY <3>11, <4>3, <4>6 DEF d
    <3> QED BY <3>10, <3>11
  <2> QED BY <2>4, <2>5
<1> QED BY <1>4, <1>5
-----------------------------------------------------------------------------
\* other_context_by_line.
LEMMA OtherAdds ==
    ASSUME State, cfg.slice, cfg.passthru, NEW R, Reference(R), NEW c, Sound(c), c.go, NEW upto \in 0 .. shown, c.visited <= upto,
           OwedOf(R, c.visited, c), FreeOf(R, c.visited, upto)
    PROVE  LET d == OtherContext(c, upto)
           IN /\ d.go => OwedOf(R, upto, d) /\ d.visited = upto
              /\ ~d.go => EndedOf(R, d)
<1> DEFINE P(d, i) == /\ Sound(d) /\ d.visited <= i
                      /\ d.go => OwedOf(R, i, d) /\ d.visited = i
                      /\ ~d.go => EndedOf(R, d)
           Sink(d, i) == SinkContext(d, i, "other")
<1>0. /\ c \in Cores /\ c.visited \in 0 .. shown /\ shown \in Nat /\ Given /\ base = 0
      /\ shown <= Total /\ Total \in Nat /\ cfg.after = 0
  <2>1. /\ c \in Cores /\ c.visited \in 0 .. shown /\ shown \in Nat /\ Given /\ base = 0 /\ base + shown <= Total
    BY DEF Sound, State, Ranges
  <2> QED BY <2>1, ReferenceFacts
<1>1. CASE TRUE
  <2>3. PICK a \in 0 .. shown : a = c.visited /\ a <= upto
    BY <1>0
  <2>4. Checked(c, a, upto) = c
    BY <1>0, <2>3, CheckedSound
  <2>31. P(c, a)
    BY <1>0, <2>3
  <2> DEFINE Turns(f) == [i \in a .. upto |-> IF i = a THEN c ELSE Sink(f[i - 1], i)]
             rec == CHOOSE f : f = Turns(f)
             X == [i \in a .. upto |-> {d \in Cores : P(d, i)}]
             F == [p \in (a + 1 .. upto) \X Cores |-> Sink(p[2], p[1])]
  <2>5. OtherContext(c, upto) = rec[upto]
    BY <2>3, <2>4 DEF ForLines, OtherContext
  <2>6. ASSUME NEW i \in a + 1 .. upto, NEW d, P(d, i - 1) PROVE P(Sink(d, i), i)
    <3>0. i \in 1 .. shown /\ i \in 1 .. Total /\ i - 1 \in Nat /\ i \in Nat /\ d.visited \in Int /\ d.visited < i /\ Sound(d) /\ d \in Cores /\ base + i = i
          /\ c.visited < i /\ i <= upto
      BY <1>0, <2>3, <2>6, CoreTypes DEF Sound
    <3> DEFINE e == SinkContext(d, i, "other")
    <3>1. Sound(e) /\ (e.go => d.go /\ e.visited = i) /\ (~e.go => e.visited = d.visited)
      BY <3>0, ContextSound
    <3>2. Sink(d, i) = e
      OBVIOUS
    <3>20. e.visited <= i
      BY <3>0, <3>1
    <3> HIDE DEF Sink
    <3>3. CASE ~d.go
      <4>1. e.calls = d.calls /\ EndedOf(R, d) /\ e.binaryAt = d.binaryAt /\ ~e.go
        BY <2>6, <3>1, <3>3 DEF SinkContext, DetectBinary, Report
      <4>2. EndedOf(R, e)
        BY <4>1 DEF EndedOf, PreOf, Halted, Shown
      <4> HIDE DEF e
      <4>3. P(e, i)
        BY <3>1, <3>20, <4>1, <4>2
      <4> QED BY <3>2, <4>3
    <3>4. CASE d.go
      <4>1. OwedOf(R, i - 1, d) /\ d.visited = i - 1 /\ (i - 1) + 1 = i
        BY <2>6, <3>0, <3>4
      <4>2. i \notin R.chosen
        BY <3>0 DEF FreeOf
      <4>3. Single(R, i, "other")
        BY <1>0, <3>0, <4>2, OtherKindOf
      <4>4. i \in R.due /\ i \in R.starts
        BY <1>0, <4>3, ReferenceFacts DEF Single
      <4>5. ReadyOf(R, i, d)
        <5> PICK v \in Nat : v = i - 1 /\ v + 1 = i
          BY <3>0
        <5>1. OwedOf(R, v, d) /\ v + 1 \in R.due
          BY <4>1, <4>4
        <5>2. ReadyOf(R, v + 1, d)
          BY <5>1, NextReadyOf
        <5> QED BY <5>2
      <4>6. ReadyOf(R, base + i, d) /\ Single(R, base + i, "other")
        BY <3>0, <4>3, <4>5
      <4>7. LET x == SinkContext(d, i, "other")
            IN /\ x.go => /\ Shown(x) = ListedOf(R)[base + i] /\ x.hasSunk = TRUE
                          /\ x.afterLeft = IF "other" = "after" THEN d.afterLeft - 1 ELSE d.afterLeft
               /\ ~x.go => EndedOf(R, x)
        BY <3>0, <3>4, <4>6, ContextAdds
      <4>8. /\ e.go => Shown(e) = ListedOf(R)[i] /\ e.hasSunk = TRUE /\ e.afterLeft = d.afterLeft
            /\ ~e.go => EndedOf(R, e)
        BY <3>0, <4>7
      <4> HIDE DEF e
      <4>9. AfterOf(R, i, d.afterLeft)
        <5>1. d.afterLeft = 0 /\ AfterOf(R, i - 1, d.afterLeft)
          BY <1>0, <3>0, <4>1 DEF Sound, Ranges, OwedOf
        <5>2. \A j \in R.chosen : j \in Nat
          BY <1>0, ReferenceFacts
        <5>3. FreeOf(R, i - 1, i)
          BY <3>0, <4>2, <5>2 DEF FreeOf
        <5>4. i - 1 \in Nat /\ i \in Nat /\ i - 1 <= i
          BY <3>0
        <5>5. AfterOf(R, i, 0)
          BY <1>0, <5>1, <5>3, <5>4, AfterNoneOf
        <5> QED BY <5>1, <5>5
      <4>10. e.go => OwedOf(R, i, e)
        BY <1>0, <4>4, <4>8, <4>9, OwedNowOf
      <4>11. P(e, i)
        BY <3>1, <3>20, <4>8, <4>10
      <4> QED BY <3>2, <4>11
    <3> QED BY <3>3, <3>4
  <2> HIDE DEF P, Sink
  <2>7. \A i \in a .. upto : X[i] = {d \in Cores : P(d, i)}
    OBVIOUS
  <2>8. \A d, i : P(d, i) => d \in Cores
    BY DEF P, Sound
  <2>9. a \in Int /\ upto \in Int /\ a <= upto /\ a \in a .. upto /\ upto \in a .. upto /\ \A i \in a + 1 .. upto : i \in a .. upto /\ i - 1 \in a .. upto
    BY <1>0, <2>3
  <2>10. \A i \in a + 1 .. upto : \A d \in Cores : F[<<i, d>>] = Sink(d, i)
    OBVIOUS
  <2> HIDE DEF X, F
  <2>11. c \in X[a]
    BY <1>0, <2>3, <2>7, <2>9, <2>31
  <2>12. \A i \in a + 1 .. upto : \A d \in X[i - 1] : Sink(d, i) \in X[i]
    BY <2>6, <2>7, <2>8, <2>9
  <2>13. \A i \in a .. upto : X[i] \subseteq Cores
    BY <2>7
  <2>14. \A i \in a + 1 .. upto : \A d \in X[i - 1] : F[<<i, d>>] \in X[i]
    BY <2>9, <2>10, <2>12, <2>13
  <2>15. PICK g : IsRun(g, a, upto, X, c, F)
    BY <2>9, <2>11, <2>13, <2>14, RunExists
  <2>16. g = Turns(g)
    <3>1. \A i \in a + 1 .. upto : g[i] = Sink(g[i - 1], i)
      BY <2>9, <2>10, <2>13, <2>15 DEF IsRun
    <3>2. \A i \in a .. upto : g[i] = IF i = a THEN c ELSE Sink(g[i - 1], i)
      <4> TAKE i \in a .. upto
      <4>1. g[a] = c
        BY <2>15 DEF IsRun
      <4>2. i # a => i \in a + 1 .. upto
        BY <2>9
      <4> QED BY <3>1, <4>1, <4>2
    <3>3. g = [i \in a .. upto |-> g[i]]
      BY <2>15 DEF IsRun
    <3> QED BY <3>2, <3>3
  <2>17. rec = Turns(rec)
    BY <2>16, Zenon
  <2> HIDE DEF rec
  <2>18. rec[a] \in X[a] /\ \A i \in a + 1 .. upto : rec[i] = Sink(rec[i - 1], i)
    BY <2>9, <2>11, <2>17
  <2>19. \A i \in a + 1 .. upto : rec[i - 1] \in X[i - 1] => rec[i] \in X[i]
    BY <2>12, <2>18
  <2>20. \A i \in a .. upto : rec[i] \in X[i]
    BY <2>9, <2>18, <2>19, Along
  <2>21. P(rec[upto], upto)
    BY <2>7, <2>9, <2>20
  <2> QED BY <2>5, <2>21 DEF P
<1> QED BY <1>1

\* The lines of an inverted search, each in a call of its own.
LEMMA BlocksAdds ==
    ASSUME State, cfg.slice, NEW R, Reference(R), NEW c, Sound(c), NEW start \in 0 .. shown, NEW upto \in start .. shown, start < upto,
           c.visited <= start,
           c.go => OwedOf(R, c.visited, c) /\ \A k \in c.visited + 1 .. start : k \notin R.due,
           ~c.go => EndedOf(R, c),
           \A i \in start + 1 .. upto : Whole(R, i - 1, i)
    PROVE  LET d == ForLines(BlockLine, c, start, upto)
           IN /\ d.go => OwedOf(R, upto, d) /\ d.visited = upto
              /\ ~d.go => EndedOf(R, d)
<1> DEFINE P(d, i) == /\ Sound(d) /\ d.visited <= i
                      /\ d.go => OwedOf(R, d.visited, d) /\ (d.visited = i \/ i = start) /\ \A k \in d.visited + 1 .. i : k \notin R.due
                      /\ ~d.go => EndedOf(R, d)
           Sink(d, i) == BlockLine(d, i)
<1>0. c \in Cores /\ shown \in Nat /\ start \in Int /\ upto \in Int /\ start <= upto /\ upto <= shown
  BY DEF Sound, State
<1>1. CASE TRUE
  <2>3. PICK a \in 0 .. shown : a = start /\ a <= upto
    BY <1>0
  <2>31. P(c, a)
    BY <1>0, <2>3
  <2> DEFINE Turns(f) == [i \in a .. upto |-> IF i = a THEN c ELSE Sink(f[i - 1], i)]
             rec == CHOOSE f : f = Turns(f)
             X == [i \in a .. upto |-> {d \in Cores : P(d, i)}]
             F == [p \in (a + 1 .. upto) \X Cores |-> Sink(p[2], p[1])]
  <2>5. ForLines(BlockLine, c, start, upto) = rec[upto]
    BY <2>3 DEF ForLines
  <2>6. ASSUME NEW i \in a + 1 .. upto, NEW d, P(d, i - 1) PROVE P(Sink(d, i), i)
    <3>0. i - 1 \in 0 .. shown /\ i \in i - 1 .. shown /\ i - 1 < i /\ d.visited <= i - 1 /\ Sound(d) /\ d.visited \in Int /\ i \in start + 1 .. upto /\ i # start
      BY <1>0, <2>3, <2>6, CoreTypes DEF Sound
    <3> DEFINE e == SinkRange(d, Lines(i - 1, i))
    <3>1. Sound(e) /\ (e.go => d.go) /\ e.visited <= i
      BY <3>0, RangeSound
    <3>2. Whole(R, i - 1, i)
      BY <3>0
    <3>3. Sink(d, i) = e
      BY DEF BlockLine
    <3> HIDE DEF Sink
    <3>4. CASE ~d.go
      <4>1. e = d
        BY <3>4 DEF SinkRange
      <4> HIDE DEF e
      <4>2. EndedOf(R, e)
        BY <2>6, <3>4, <4>1
      <4>3. P(e, i)
        BY <3>1, <3>4, <4>1, <4>2
      <4> QED BY <3>3, <4>3
    <3>5. CASE d.go
      <4>1. OwedOf(R, d.visited, d) /\ \A k \in d.visited + 1 .. i - 1 : k \notin R.due
        BY <2>6, <3>5
      <4> PICK s \in 0 .. shown : s = i - 1
        BY <3>0
      <4>2. i \in s .. shown /\ s < i /\ d.visited <= s /\ Whole(R, s, i) /\ \A k \in d.visited + 1 .. s : k \notin R.due
        BY <3>0, <3>2, <4>1
      <4>3. LET x == SinkRange(d, Lines(s, i))
            IN /\ x.go => OwedOf(R, i, x) /\ x.visited = i
               /\ ~x.go => EndedOf(R, x)
        BY <3>0, <3>5, <4>1, <4>2, RangeAdds
      <4>4. /\ e.go => OwedOf(R, i, e) /\ e.visited = i
            /\ ~e.go => EndedOf(R, e)
        BY <4>3
      <4> HIDE DEF e
      <4>5. e.go => OwedOf(R, e.visited, e) /\ e.visited = i /\ \A k \in e.visited + 1 .. i : k \notin R.due
        BY <3>0, <4>4
      <4>6. P(e, i)
        BY <3>1, <4>4, <4>5
      <4> QED BY <3>3, <4>6
    <3> QED BY <3>4, <3>5
  <2> HIDE DEF P, Sink
  <2>7. \A i \in a .. upto : X[i] = {d \in Cores : P(d, i)}
    OBVIOUS
  <2>8. \A d, i : P(d, i) => d \in Cores
    BY DEF P, Sound
  <2>9. a \in Int /\ upto \in Int /\ a <= upto /\ a \in a .. upto /\ upto \in a .. upto /\ \A i \in a + 1 .. upto : i \in a .. upto /\ i - 1 \in a .. upto
    BY <1>0, <2>3
  <2>10. \A i \in a + 1 .. upto : \A d \in Cores : F[<<i, d>>] = Sink(d, i)
    OBVIOUS
  <2> HIDE DEF X, F
  <2>11. c \in X[a]
    BY <1>0, <2>3, <2>7, <2>9, <2>31
  <2>12. \A i \in a + 1 .. upto : \A d \in X[i - 1] : Sink(d, i) \in X[i]
    BY <2>6, <2>7, <2>8, <2>9
  <2>13. \A i \in a .. upto : X[i] \subseteq Cores
    BY <2>7
  <2>14. \A i \in a + 1 .. upto : \A d \in X[i - 1] : F[<<i, d>>] \in X[i]
    BY <2>9, <2>10, <2>12, <2>13
  <2>15. PICK g : IsRun(g, a, upto, X, c, F)
    BY <2>9, <2>11, <2>13, <2>14, RunExists
  <2>16. g = Turns(g)
    <3>1. \A i \in a + 1 .. upto : g[i] = Sink(g[i - 1], i)
      BY <2>9, <2>10, <2>13, <2>15 DEF IsRun
    <3>2. \A i \in a .. upto : g[i] = IF i = a THEN c ELSE Sink(g[i - 1], i)
      <4> TAKE i \in a .. upto
      <4>1. g[a] = c
        BY <2>15 DEF IsRun
      <4>2. i # a => i \in a + 1 .. upto
        BY <2>9
      <4> QED BY <3>1, <4>1, <4>2
    <3>3. g = [i \in a .. upto |-> g[i]]
      BY <2>15 DEF IsRun
    <3> QED BY <3>2, <3>3
  <2>17. rec = Turns(rec)
    BY <2>16, Zenon
  <2> HIDE DEF rec
  <2>18. rec[a] \in X[a] /\ \A i \in a + 1 .. upto : rec[i] = Sink(rec[i - 1], i)
    BY <2>9, <2>11, <2>17
  <2>19. \A i \in a + 1 .. upto : rec[i - 1] \in X[i - 1] => rec[i] \in X[i]
    BY <2>12, <2>18
  <2>20. \A i \in a .. upto : rec[i] \in X[i]
    BY <2>9, <2>18, <2>19, Along
  <2>21. P(rec[upto], upto)
    BY <2>7, <2>9, <2>20
  <2>22. upto # start
    BY <1>0
  <2> QED BY <2>5, <2>21, <2>22 DEF P
<1> QED BY <1>1
-----------------------------------------------------------------------------
\* MultiLine.sink_context, before a match that begins in line upto + 1.
LEMMA ContextOwed ==
    ASSUME State, cfg.slice, NEW R, Reference(R), NEW c, Sound(c), c.go, NEW upto \in 0 .. shown, c.visited <= upto,
           OwedOf(R, c.visited, c), upto + 1 \in R.chosen, FreeOf(R, c.visited, upto),
           \A n \in c.visited + 1 .. upto : n \in R.over <=> ExceededLimit(c) /\ Success(n)
    PROVE  LET d == Context(c, upto)
           IN /\ d.go => /\ OwedOf(R, d.visited, d) /\ c.visited <= d.visited /\ d.visited <= upto
                         /\ \A k \in d.visited + 1 .. upto : k \notin R.due
              /\ ~d.go => EndedOf(R, d)
<1> DEFINE d == Context(c, upto)
<1>0. /\ c \in Cores /\ c.visited \in 0 .. shown /\ c.visited \in Int /\ shown \in Nat /\ Given /\ base = 0 /\ shown <= Total /\ Total \in Nat
      /\ base + upto = upto /\ base + c.visited = c.visited /\ c.afterLeft \in Nat
  <2>1. /\ c \in Cores /\ c.visited \in 0 .. shown /\ shown \in Nat /\ Given /\ base = 0 /\ base + shown <= Total /\ Total \in Nat
        /\ c.afterLeft \in 0 .. cfg.after
    BY Facts DEF Sound, State, Ranges
  <2>2. cfg.after \in Nat
    BY <2>1, ReferenceFacts
  <2> QED BY <2>1, <2>2
<1>1. CASE cfg.passthru
  <2>1. d = OtherContext(c, upto)
    BY <1>1 DEF Context
  <2> HIDE DEF d
  <2>2. /\ d.go => OwedOf(R, upto, d) /\ d.visited = upto
        /\ ~d.go => EndedOf(R, d)
    BY <1>1, <2>1, OtherAdds
  <2> QED BY <1>0, <2>2 DEF d
<1>2. CASE ~cfg.passthru
  <2> DEFINE e == AfterContext(c, upto)
  <2>1. d = BeforeContext(e, upto)
    BY <1>2 DEF Context
  <2>2. Sound(e) /\ (e.visited <= upto \/ e = c)
    BY AfterSound
  <2>3. /\ e.go => /\ OwedOf(R, base + e.visited, e)
                   /\ c.visited <= e.visited
                   /\ e.afterLeft > 0 => e.visited = upto
        /\ ~e.go => EndedOf(R, e)
    <3>1. /\ OwedOf(R, base + c.visited, c)
          /\ FreeOf(R, base + c.visited, base + upto)
          /\ \A n \in (base + c.visited) + 1 .. base + upto : n \in R.over <=> ExceededLimit(c) /\ Success(n)
      BY <1>0
    <3> QED BY <3>1, AfterAdds
  <2> HIDE DEF d, e
  <2>4. CASE ~e.go
    <3>1. d = e
      BY <2>1, <2>4 DEF BeforeContext
    <3> QED BY <2>3, <2>4, <3>1 DEF d
  <2>5. CASE e.go
    <3>1. e.visited \in Int /\ e.visited <= upto /\ e.afterLeft \in 0 .. cfg.after /\ cfg.after \in Nat /\ base + e.visited = e.visited
      <4>1. e.visited \in 0 .. shown /\ e.afterLeft \in 0 .. cfg.after
        BY <2>2 DEF Sound, Ranges
      <4>2. cfg.after \in Nat
        BY <1>0, ReferenceFacts
      <4> QED BY <1>0, <2>2, <4>1, <4>2
    <3>2. OwedOf(R, base + e.visited, e) /\ c.visited <= e.visited /\ (e.visited = upto \/ (e.afterLeft = 0 /\ ~cfg.passthru))
      BY <1>2, <2>3, <2>5, <3>1
    <3>3. FreeOf(R, base + e.visited, base + upto)
      <4>1. \A j \in R.chosen : j \in Nat
        BY <1>0, ReferenceFacts
      <4> QED BY <1>0, <3>1, <3>2, <4>1 DEF FreeOf
    <3>4. (base + upto) + 1 \in R.chosen
      BY <1>0
    <3>5. /\ d.go => /\ OwedOf(R, base + d.visited, d) /\ e.visited <= d.visited
                     /\ \A k \in (base + d.visited) + 1 .. base + upto : k \notin R.due
          /\ ~d.go => EndedOf(R, d)
      BY <2>1, <2>2, <2>5, <3>1, <3>2, <3>3, <3>4, BeforeAdds
    <3>6. d.visited <= upto /\ d.visited \in Int
      <4>1. Sound(d) /\ d.visited <= upto
        BY <2>1, <2>2, <3>1, BeforeSound
      <4> QED BY <4>1, CoreTypes DEF Sound
    <3>7. base + d.visited = d.visited
      BY <1>0, <3>6
    <3>8. d.go => c.visited <= d.visited
      BY <1>0, <3>1, <3>2, <3>5, <3>6
    <3> QED BY <1>0, <3>5, <3>6, <3>7, <3>8 DEF d
  <2> QED BY <2>4, <2>5
<1> QED BY <1>1, <1>2

\* The context that is left when there is no match any more.
LEMMA RestAdds ==
    ASSUME State, cfg.slice, shown = Total, NEW R, Reference(R), NEW c, Sound(c), c.go, OwedOf(R, c.visited, c), FreeOf(R, c.visited, Total),
           \A n \in c.visited + 1 .. Total : n \in R.over <=> ExceededLimit(c) /\ Success(n),
           Total + 1 \notin R.chosen \/ \A k \in c.visited + 1 .. Total : k \notin R.due
    PROVE  LET d == RestContext(c)
           IN /\ d.go => Shown(d) = ListedOf(R)[Total]
              /\ ~d.go => EndedOf(R, d)
<1> DEFINE d == RestContext(c)
<1>0. /\ c \in Cores /\ c.visited \in 0 .. Total /\ Given /\ base = 0 /\ Total \in Nat /\ Total \in 0 .. shown /\ c.visited <= Total
      /\ base + Total = Total /\ base + c.visited = c.visited
  BY Facts DEF Sound, State, Ranges
<1>1. CASE cfg.passthru
  <2>1. d = OtherContext(c, Total)
    BY <1>1 DEF RestContext
  <2> HIDE DEF d
  <2>2. /\ d.go => OwedOf(R, Total, d) /\ d.visited = Total
        /\ ~d.go => EndedOf(R, d)
    BY <1>0, <1>1, <2>1, OtherAdds
  <2> QED BY <2>2 DEF d, OwedOf
<1>2. CASE ~cfg.passthru
  <2>1. d = AfterContext(c, Total)
    BY <1>2 DEF RestContext
  <2> HIDE DEF d
  <2>2. Sound(d)
    BY <1>0, <2>1, AfterSound
  <2>3. /\ d.go => /\ OwedOf(R, base + d.visited, d)
                   /\ c.visited <= d.visited
                   /\ d.afterLeft > 0 => d.visited = Total
        /\ ~d.go => EndedOf(R, d)
    <3>1. /\ OwedOf(R, base + c.visited, c)
          /\ FreeOf(R, base + c.visited, base + Total)
          /\ \A n \in (base + c.visited) + 1 .. base + Total : n \in R.over <=> ExceededLimit(c) /\ Success(n)
      BY <1>0
    <3> QED BY <1>0, <2>1, <3>1, AfterAdds
  <2>4. ASSUME d.go PROVE Shown(d) = ListedOf(R)[Total]
    <3>1. d.visited \in 0 .. Total /\ d.afterLeft \in 0 .. cfg.after /\ cfg.after \in Nat /\ cfg.before \in Nat /\ base + d.visited = d.visited
      <4>1. d.visited \in 0 .. shown /\ d.afterLeft \in 0 .. cfg.after
        BY <2>2 DEF Sound, Ranges
      <4>2. cfg.after \in Nat /\ cfg.before \in Nat
        BY <1>0, ReferenceFacts
      <4> QED BY <1>0, <4>1, <4>2
    <3> PICK v \in Nat : v = d.visited
      BY <3>1
    <3>2. OwedOf(R, v, d) /\ c.visited <= v /\ (d.afterLeft = 0 \/ v = Total) /\ v <= Total
      BY <2>3, <2>4, <3>1
    <3>3. \A k \in v + 1 .. Total : k \notin R.due
      <4>1. CASE v = Total
        BY <1>0, <4>1
      <4>2. CASE \A k \in c.visited + 1 .. Total : k \notin R.due
        BY <1>0, <3>2, <4>2
      <4>3. CASE d.afterLeft = 0 /\ Total + 1 \notin R.chosen
        <5> TAKE k \in v + 1 .. Total
        <5>1. k \in Nat /\ v < k /\ AfterOf(R, v, 0)
          BY <3>2, <4>3 DEF OwedOf
        <5>2. \A j \in R.chosen : j \in Nat /\ j \in 1 .. Total + 1
          BY <1>0, ReferenceFacts
        <5>3. FreeOf(R, v, k)
          BY <1>0, <3>2, <5>2 DEF FreeOf
        <5>4. \A j \in R.chosen : k < j => k + cfg.before < j
          <6> SUFFICES ASSUME NEW j \in R.chosen, k < j PROVE FALSE
            OBVIOUS
          <6>1. j \in 1 .. Total + 1 /\ j # Total + 1 /\ ~(c.visited < j /\ j <= Total)
            BY <4>3, <5>2 DEF FreeOf
          <6> QED BY <1>0, <3>2, <5>1, <6>1
        <5> QED BY <1>0, <1>2, <5>1, <5>3, <5>4, NotDueOf
      <4> QED BY <3>2, <4>1, <4>2, <4>3
    <3>4. \A k \in v + 1 .. Total : k \notin R.starts
      BY <1>0, <3>3, ReferenceFacts
    <3>5. ListedOf(R)[Total] = ListedOf(R)[v]
      BY <1>0, <3>2, <3>4, QuietOf
    <3> QED BY <3>2, <3>5 DEF OwedOf
  <2> QED BY <2>3, <2>4 DEF d
<1> QED BY <1>1, <1>2

\* When binary data has ended the search, no context is given any more.
Silent(c, d) == d \in Cores /\ d.calls = c.calls /\ d.binaryAt = c.binaryAt

\* No line is given once binary data stopped the search.
LEMMA SilentLine ==
    ASSUME cfg.slice, cfg.binary = "quit", NEW c, NEW d, Silent(c, d), c.binaryAt # None, NEW i \in Int
    PROVE  /\ Silent(c, SinkContext(d, i, "other")) /\ Silent(c, SinkContext(d, i, "after"))
           /\ Silent(c, SinkMatched(d, i)) /\ ~SinkMatched(d, i).go
<1> DEFINE e == [d EXCEPT !.go = FALSE]
<1>1. d \in Cores /\ d.binaryAt # None /\ FALSE \in BOOLEAN
  BY DEF Silent
<1>2. e \in Cores /\ e.calls = d.calls /\ e.binaryAt = d.binaryAt /\ e.go = FALSE
  BY <1>1 DEF Cores
<1>3. DetectBinary(d, i - 1, i) = IF ~d.go THEN d ELSE e
  BY <1>1 DEF DetectBinary
<1> DEFINE b == DetectBinary(d, i - 1, i)
<1> HIDE DEF e
<1>4. b \in Cores /\ b.calls = d.calls /\ b.binaryAt = d.binaryAt /\ ~b.go
  BY <1>1, <1>2, <1>3
<1> HIDE DEF b
<1>5. \A kind : Report(b, i, kind) = b
  BY <1>4 DEF Report
<1>6. BreakContext(b, i - 1) = b
  BY <1>4 DEF BreakContext
<1>7. \A kind : SinkContext(d, i, kind) = b
  BY <1>4, <1>5 DEF SinkContext, b
<1>8. SinkMatched(d, i) = b
  BY <1>4, <1>5, <1>6 DEF SinkMatched, b
<1> QED BY <1>4, <1>7, <1>8 DEF Silent

\* Nor any by other_context_by_line,
LEMMA SilentOther ==
    ASSUME State, cfg.slice, cfg.binary = "quit", NEW c, Firm(c), c.binaryAt # None, NEW upto \in 0 .. shown, c.visited <= upto
    PROVE  Silent(c, OtherContext(c, upto))
<1> DEFINE P(d, i) == Silent(c, d)
           Sink(d, i) == SinkContext(d, i, "other")
<1>0. c \in Cores /\ c.visited \in 0 .. shown /\ shown \in Nat
  BY DEF Firm, State, Ranges
<1>1. CASE ~c.go
  BY <1>0, <1>1 DEF OtherContext, Silent
<1>2. CASE c.go
  <2>3. PICK a \in 0 .. shown : a = c.visited /\ a <= upto
    BY <1>0
  <2>4. Checked(c, a, upto) = c
    BY <1>0, <2>3, CheckedSound
  <2>31. P(c, a)
    BY <1>0 DEF Silent
  <2> DEFINE Turns(f) == [i \in a .. upto |-> IF i = a THEN c ELSE Sink(f[i - 1], i)]
             rec == CHOOSE f : f = Turns(f)
             X == [i \in a .. upto |-> {d \in Cores : P(d, i)}]
             F == [p \in (a + 1 .. upto) \X Cores |-> Sink(p[2], p[1])]
  <2>5. OtherContext(c, upto) = rec[upto]
    BY <1>2, <2>3, <2>4 DEF ForLines, OtherContext
  <2>6. ASSUME NEW i \in a + 1 .. upto, NEW d, P(d, i - 1) PROVE P(Sink(d, i), i)
    <3>1. i \in Int
      BY <2>3
    <3> QED BY <2>6, <3>1, SilentLine
  <2> HIDE DEF P, Sink
  <2>7. \A i \in a .. upto : X[i] = {d \in Cores : P(d, i)}
    OBVIOUS
  <2>8. \A d, i : P(d, i) => d \in Cores
    BY DEF P, Silent
  <2>9. a \in Int /\ upto \in Int /\ a <= upto /\ a \in a .. upto /\ upto \in a .. upto /\ \A i \in a + 1 .. upto : i \in a .. upto /\ i - 1 \in a .. upto
    BY <1>0, <2>3
  <2>10. \A i \in a + 1 .. upto : \A d \in Cores : F[<<i, d>>] = Sink(d, i)
    OBVIOUS
  <2> HIDE DEF X, F
  <2>11. c \in X[a]
    BY <1>0, <2>3, <2>7, <2>9, <2>31
  <2>12. \A i \in a + 1 .. upto : \A d \in X[i - 1] : Sink(d, i) \in X[i]
    BY <2>6, <2>7, <2>8, <2>9
  <2>13. \A i \in a .. upto : X[i] \subseteq Cores
    BY <2>7
  <2>14. \A i \in a + 1 .. upto : \A d \in X[i - 1] : F[<<i, d>>] \in X[i]
    BY <2>9, <2>10, <2>12, <2>13
  <2>15. PICK g : IsRun(g, a, upto, X, c, F)
    BY <2>9, <2>11, <2>13, <2>14, RunExists
  <2>16. g = Turns(g)
    <3>1. \A i \in a + 1 .. upto : g[i] = Sink(g[i - 1], i)
      BY <2>9, <2>10, <2>13, <2>15 DEF IsRun
    <3>2. \A i \in a .. upto : g[i] = IF i = a THEN c ELSE Sink(g[i - 1], i)
      <4> TAKE i \in a .. upto
      <4>1. g[a] = c
        BY <2>15 DEF IsRun
      <4>2. i # a => i \in a + 1 .. upto
        BY <2>9
      <4> QED BY <3>1, <4>1, <4>2
    <3>3. g = [i \in a .. upto |-> g[i]]
      BY <2>15 DEF IsRun
    <3> QED BY <3>2, <3>3
  <2>17. rec = Turns(rec)
    BY <2>16, Zenon
  <2> HIDE DEF rec
  <2>18. rec[a] \in X[a] /\ \A i \in a + 1 .. upto : rec[i] = Sink(rec[i - 1], i)
    BY <2>9, <2>11, <2>17
  <2>19. \A i \in a + 1 .. upto : rec[i - 1] \in X[i - 1] => rec[i] \in X[i]
    BY <2>12, <2>18
  <2>20. \A i \in a .. upto : rec[i] \in X[i]
    BY <2>9, <2>18, <2>19, Along
  <2>21. P(rec[upto], upto)
    BY <2>7, <2>9, <2>20
  <2> QED BY <2>5, <2>21 DEF P
<1> QED BY <1>1, <1>2

\* nor by after_context_by_line,
LEMMA SilentAfter ==
    ASSUME State, cfg.slice, cfg.binary = "quit", NEW c, Firm(c), c.binaryAt # None, NEW upto \in 0 .. shown, c.visited <= upto
    PROVE  Silent(c, AfterContext(c, upto))
<1> DEFINE P(d, i) == Silent(c, d)
           Sink(d, i) == AfterLine(c, d, i)
<1>0. c \in Cores /\ c.visited \in 0 .. shown /\ shown \in Nat
  BY DEF Firm, State, Ranges
<1>1. CASE ~c.go \/ c.afterLeft = 0
  BY <1>0, <1>1 DEF AfterContext, Silent
<1>2. CASE c.go /\ c.afterLeft # 0
  <2>3. PICK a \in 0 .. shown : a = c.visited /\ a <= upto
    BY <1>0
  <2>4. Checked(c, a, upto) = c
    BY <1>0, <2>3, CheckedSound
  <2>31. P(c, a)
    BY <1>0 DEF Silent
  <2> DEFINE Turns(f) == [i \in a .. upto |-> IF i = a THEN c ELSE Sink(f[i - 1], i)]
             rec == CHOOSE f : f = Turns(f)
             X == [i \in a .. upto |-> {d \in Cores : P(d, i)}]
             F == [p \in (a + 1 .. upto) \X Cores |-> Sink(p[2], p[1])]
  <2>5. AfterContext(c, upto) = rec[upto]
    BY <1>2, <2>3, <2>4 DEF ForLines, AfterContext, AfterLine
  <2>6. ASSUME NEW i \in a + 1 .. upto, NEW d, P(d, i - 1) PROVE P(Sink(d, i), i)
    <3>1. i \in Int
      BY <2>3
    <3> DEFINE m == [d EXCEPT !.pos = i]
               e == SinkMatched(m, i)
    <3>2. d \in Cores /\ i \in Int \cup {None}
      BY <2>6, <3>1 DEF Silent
    <3>3. m \in Cores /\ m.calls = d.calls /\ m.binaryAt = d.binaryAt
      BY <3>2 DEF Cores
    <3>4. Silent(c, m)
      BY <2>6, <3>3 DEF Silent
    <3> HIDE DEF m
    <3>5. Silent(c, e) /\ ~e.go
      BY <3>1, <3>4, SilentLine
    <3>6. Silent(c, SinkContext(d, i, "after"))
      BY <2>6, <3>1, SilentLine
    <3>7. AfterLine(c, d, i) \in {d, e, SinkContext(d, i, "after")}
      BY <3>5 DEF AfterLine, m
    <3> HIDE DEF e
    <3>8. Silent(c, AfterLine(c, d, i))
      BY <2>6, <3>5, <3>6, <3>7
    <3> QED BY <3>8
  <2> HIDE DEF P, Sink
  <2>7. \A i \in a .. upto : X[i] = {d \in Cores : P(d, i)}
    OBVIOUS
  <2>8. \A d, i : P(d, i) => d \in Cores
    BY DEF P, Silent
  <2>9. a \in Int /\ upto \in Int /\ a <= upto /\ a \in a .. upto /\ upto \in a .. upto /\ \A i \in a + 1 .. upto : i \in a .. upto /\ i - 1 \in a .. upto
    BY <1>0, <2>3
  <2>10. \A i \in a + 1 .. upto : \A d \in Cores : F[<<i, d>>] = Sink(d, i)
    OBVIOUS
  <2> HIDE DEF X, F
  <2>11. c \in X[a]
    BY <1>0, <2>3, <2>7, <2>9, <2>31
  <2>12. \A i \in a + 1 .. upto : \A d \in X[i - 1] : Sink(d, i) \in X[i]
    BY <2>6, <2>7, <2>8, <2>9
  <2>13. \A i \in a .. upto : X[i] \subseteq Cores
    BY <2>7
  <2>14. \A i \in a + 1 .. upto : \A d \in X[i - 1] : F[<<i, d>>] \in X[i]
    BY <2>9, <2>10, <2>12, <2>13
  <2>15. PICK g : IsRun(g, a, upto, X, c, F)
    BY <2>9, <2>11, <2>13, <2>14, RunExists
  <2>16. g = Turns(g)
    <3>1. \A i \in a + 1 .. upto : g[i] = Sink(g[i - 1], i)
      BY <2>9, <2>10, <2>13, <2>15 DEF IsRun
    <3>2. \A i \in a .. upto : g[i] = IF i = a THEN c ELSE Sink(g[i - 1], i)
      <4> TAKE i \in a .. upto
      <4>1. g[a] = c
        BY <2>15 DEF IsRun
      <4>2. i # a => i \in a + 1 .. upto
        BY <2>9
      <4> QED BY <3>1, <4>1, <4>2
    <3>3. g = [i \in a .. upto |-> g[i]]
      BY <2>15 DEF IsRun
    <3> QED BY <3>2, <3>3
  <2>17. rec = Turns(rec)
    BY <2>16, Zenon
  <2> HIDE DEF rec
  <2>18. rec[a] \in X[a] /\ \A i \in a + 1 .. upto : rec[i] = Sink(rec[i - 1], i)
    BY <2>9, <2>11, <2>17
  <2>19. \A i \in a + 1 .. upto : rec[i - 1] \in X[i - 1] => rec[i] \in X[i]
    BY <2>12, <2>18
  <2>20. \A i \in a .. upto : rec[i] \in X[i]
    BY <2>9, <2>18, <2>19, Along
  <2>21. P(rec[upto], upto)
    BY <2>7, <2>9, <2>20
  <2> QED BY <2>5, <2>21 DEF P
<1> QED BY <1>1, <1>2

\* nor by the context after the last match.
LEMMA QuitRest ==
    ASSUME State, cfg.slice, cfg.binary = "quit", shown = Total, NEW c, Firm(c), c.binaryAt # None
    PROVE  RestContext(c).calls = c.calls
<1>1. Total \in 0 .. shown /\ c.visited <= Total
  BY DEF State, Firm, Ranges
<1>2. CASE cfg.passthru
  BY <1>1, <1>2, SilentOther DEF RestContext, Silent
<1>3. CASE ~cfg.passthru
  BY <1>1, <1>3, SilentAfter DEF RestContext, Silent
<1> QED BY <1>2, <1>3

\* What is owed does not change when a match is counted.
LEMMA UnmovedOwed ==
    ASSUME NEW R, NEW c, Sound(c), NEW v, OwedOf(R, v, c)
    PROVE  OwedOf(R, v, Unmoved(c)) /\ OwedOf(R, v, Counting(Unmoved(c)))
<1> DEFINE u == Unmoved(c)
           e == Counting(u)
<1>1. c \in Cores /\ None \in Int \cup {None}
  BY DEF Sound
<1>2. u \in Cores /\ u.calls = c.calls /\ u.hasSunk = c.hasSunk /\ u.afterLeft = c.afterLeft
  BY <1>1 DEF Unmoved, Cores
<1> HIDE DEF u
<1>3. e.calls = u.calls /\ e.hasSunk = u.hasSunk /\ e.afterLeft = u.afterLeft
  BY <1>2 DEF Counting, Cores
<1> HIDE DEF e
<1>4. OwedOf(R, v, u)
  BY <1>2, OwedAlikeOf DEF Shown
<1>5. OwedOf(R, v, e)
  BY <1>3, <1>4, OwedAlikeOf DEF Shown
<1> QED BY <1>4, <1>5 DEF u, e
-----------------------------------------------------------------------------
\* The parts of MultiReference.
Taken == IF cfg.invert THEN (1 .. Total) \ Matched ELSE Matched
AtEnd == IF ~cfg.invert /\ MatchList # <<>> /\ Last(MatchList)[1] = 2 * Total THEN {Total + 1} ELSE {}
Behind == {i \in 1 .. Total : \E j \in Taken : j < i /\ i <= j + cfg.after}
Ahead == {i \in 1 .. Total : \E j \in Taken \cup AtEnd : i < j /\ j <= i + cfg.before}
Beyond == {i \in 1 .. Total : cfg.max # None /\ Len(MatchList) = cfg.max /\ file.hit[i] /\ \A j \in Taken : j < i}
KindIn(i) == CASE i \in Taken \cup (Behind \cap Beyond) -> "match"
               [] i \in Behind \ (Taken \cup Beyond) -> "after"
               [] i \in Ahead \ (Taken \cup Behind) -> "before"
               [] OTHER -> "other"
DueLines == IF cfg.passthru THEN 1 .. Total ELSE Taken \cup Behind \cup Ahead
BlockFrom(i) == IF cfg.invert \/ i \notin Taken THEN {i} ELSE {k \in i .. Total : i .. k \subseteq Taken}

Starts == {i \in DueLines : cfg.invert \/ i \notin Taken \/ i - 1 \notin Taken}

\* MultiReference is made of these parts.
LEMMA MultiParts ==
    MultiReference = [ chosen |-> Taken \cup AtEnd, over |-> Beyond, due |-> DueLines, starts |-> Starts,
                       kind |-> [i \in 1 .. Total |-> KindIn(i)], upto |-> [i \in 1 .. Total |-> LastLine(BlockFrom(i))] ]
<1> DEFINE starts == {i \in DueLines : ~(~cfg.invert /\ i \in Taken /\ i - 1 \in Taken)}
<1>1. MultiReference = [ chosen |-> Taken \cup AtEnd, over |-> Beyond, due |-> DueLines, starts |-> starts,
                         kind |-> [i \in 1 .. Total |-> KindIn(i)], upto |-> [i \in 1 .. Total |-> LastLine(BlockFrom(i))] ]
  BY DEF MultiReference, ReferenceFor, Taken, AtEnd, Behind, Ahead, Beyond, KindIn, DueLines, BlockFrom, Matched, MatchList
<1>2. starts = Starts
  BY DEF Starts
<1> HIDE DEF starts
<1> QED BY <1>1, <1>2

\* The same, field by field.
LEMMA MultiFields ==
    /\ MultiReference.chosen = Taken \cup AtEnd /\ MultiReference.over = Beyond /\ MultiReference.due = DueLines
    /\ MultiReference.starts = {i \in DueLines : cfg.invert \/ i \notin Taken \/ i - 1 \notin Taken}
    /\ \A i \in 1 .. Total : MultiReference.kind[i] = KindIn(i) /\ MultiReference.upto[i] = LastLine(BlockFrom(i))
  BY MultiParts DEF Starts

\* The lines the parts talk of are lines of the file.
LEMMA TakenFacts ==
    ASSUME Given
    PROVE  /\ Total \in Nat /\ cfg.before \in Nat /\ cfg.after \in Nat /\ cfg.passthru \in BOOLEAN
           /\ cfg.passthru => cfg.before = 0 /\ cfg.after = 0
           /\ \A i \in Matched : i \in 1 .. Total
           /\ \A i \in Taken : i \in 1 .. Total
           /\ \A i \in AtEnd : i = Total + 1
           /\ cfg.invert => AtEnd = {}
<1>1. cfg \in Config /\ Total \in Nat
  BY Facts
<1>2. cfg.passthru => cfg.before = 0 /\ cfg.after = 0
  BY PassthruAssumption DEF Given
<1>3. cfg.before \in Nat /\ cfg.after \in Nat /\ cfg.passthru \in BOOLEAN
  BY <1>1 DEF Config
<1>4. ASSUME NEW i \in Matched PROVE i \in 1 .. Total
  <2>1. PICK k \in 1 .. Len(MatchList) : i \in Top(k) + 1 .. Bottom(k)
    BY <1>4, ListFacts
  <2>2. Top(k) \in 0 .. Total /\ Bottom(k) \in Top(k) .. Total
    BY ListFacts
  <2> QED BY <1>1, <2>1, <2>2
<1>5. \A i \in Taken : i \in 1 .. Total
  BY <1>4 DEF Taken
<1> QED BY <1>1, <1>2, <1>3, <1>4, <1>5 DEF AtEnd

\* The last line of a line alone.
LEMMA AloneIs ==
    ASSUME Given, NEW i \in 1 .. Total
    PROVE  LastLine({i}) = i
<1>1. Total \in Nat /\ {i} \in SUBSET (1 .. Total) /\ {i} # {}
  BY Facts
<1>2. LastLine({i}) \in {i}
  BY <1>1, Greatest
<1> QED BY <1>2

\* The kinds of lines, one by one.
LEMMA KindsAre ==
    ASSUME NEW i
    PROVE  /\ i \in Taken => KindIn(i) = "match"
           /\ i \notin Taken /\ i \in Behind => KindIn(i) = IF i \in Beyond THEN "match" ELSE "after"
           /\ i \notin Taken /\ i \notin Behind /\ i \in Ahead => KindIn(i) = "before"
           /\ i \notin Taken /\ i \notin Behind /\ i \notin Ahead => KindIn(i) = "other"
  BY DEF KindIn

\* The parts are a reference as the lemmas about blocks of lines take one.
LEMMA MultiIsReference ==
    ASSUME Given
    PROVE  Reference(MultiReference)
<1> DEFINE R == MultiReference
<1>0. /\ R.chosen = Taken \cup AtEnd /\ R.over = Beyond /\ R.due = DueLines
      /\ R.starts = {i \in DueLines : cfg.invert \/ i \notin Taken \/ i - 1 \notin Taken}
      /\ \A i \in 1 .. Total : R.kind[i] = KindIn(i) /\ R.upto[i] = LastLine(BlockFrom(i))
  BY MultiFields
<1> HIDE DEF R
<1>1. /\ Total \in Nat /\ cfg.before \in Nat /\ cfg.after \in Nat /\ cfg.passthru \in BOOLEAN
      /\ cfg.passthru => cfg.before = 0 /\ cfg.after = 0
      /\ \A i \in Taken : i \in 1 .. Total
      /\ \A i \in AtEnd : i = Total + 1
  BY TakenFacts
<1>2. \A i \in DueLines : i \in 1 .. Total
  BY <1>1 DEF DueLines, Behind, Ahead
<1>3. R.chosen \in SUBSET (1 .. Total + 1) /\ R.due \in SUBSET (1 .. Total) /\ R.starts \in SUBSET R.due
  <2>1. \A i \in R.chosen : i \in 1 .. Total + 1
    BY <1>0, <1>1
  <2> QED BY <1>0, <1>2, <2>1
<1>4. ASSUME NEW i \in R.starts PROVE R.kind[i] \in LineKinds /\ R.upto[i] \in Int
  <2>1. i \in 1 .. Total /\ R.kind[i] = KindIn(i) /\ R.upto[i] = LastLine(BlockFrom(i))
    BY <1>0, <1>2, <1>4
  <2>2. KindIn(i) \in {"match", "after", "before", "other"}
    BY KindsAre
  <2>3. BlockFrom(i) \in SUBSET (1 .. Total) /\ BlockFrom(i) # {}
    <3>1. CASE cfg.invert \/ i \notin Taken
      BY <2>1, <3>1 DEF BlockFrom
    <3>2. CASE ~(cfg.invert \/ i \notin Taken)
      <4>1. i \in i .. Total /\ i .. i \subseteq Taken
        BY <1>1, <2>1, <3>2
      <4>2. i \in BlockFrom(i) /\ BlockFrom(i) = {k \in i .. Total : i .. k \subseteq Taken}
        BY <3>2, <4>1 DEF BlockFrom
      <4> QED BY <2>1, <4>2
    <3> QED BY <3>1, <3>2
  <2>4. LastLine(BlockFrom(i)) \in BlockFrom(i)
    BY <1>1, <2>3, Greatest
  <2>5. LastLine(BlockFrom(i)) \in Int
    BY <2>3, <2>4
  <2> QED BY <2>1, <2>2, <2>5 DEF LineKinds
<1>5. ASSUME NEW i \in 1 .. Total, i \notin R.chosen
      PROVE  /\ Follows(R, i) => Single(R, i, IF i \in R.over THEN "match" ELSE "after")
             /\ ~Follows(R, i) /\ Precedes(R, i) => Single(R, i, "before")
             /\ ~Follows(R, i) /\ ~Precedes(R, i) /\ cfg.passthru => Single(R, i, "other")
             /\ ~Follows(R, i) /\ ~Precedes(R, i) /\ ~cfg.passthru => i \notin R.due
  <2>1. i \notin Taken /\ i \in Int
    BY <1>0, <1>5
  <2>2. Follows(R, i) <=> i \in Behind
    <3>1. ASSUME NEW j \in R.chosen, j < i PROVE j \in Taken
      <4>1. j \in AtEnd => j = Total + 1
        BY <1>1
      <4> QED BY <1>0, <1>1, <2>1, <3>1, <4>1
    <3> QED BY <1>0, <3>1 DEF Follows, Behind
  <2>3. Precedes(R, i) <=> i \in Ahead
    BY <1>0 DEF Precedes, Ahead
  <2>4. R.upto[i] = i /\ R.kind[i] = KindIn(i)
    <3>1. BlockFrom(i) = {i}
      BY <2>1 DEF BlockFrom
    <3> QED BY <1>0, <3>1, AloneIs
  <2>5. i \in R.due => i \in R.starts
    BY <1>0, <2>1
  <2>6. i \in R.due <=> cfg.passthru \/ i \in Behind \/ i \in Ahead
    BY <1>0, <2>1 DEF DueLines
  <2> QED BY <1>0, <2>1, <2>2, <2>3, <2>4, <2>5, <2>6, KindsAre DEF Single
<1>6. Reference(R)
  BY <1>3, <1>4, <1>5 DEF Reference
<1> QED BY <1>6 DEF R

\* The lines of matches that touch or adjoin are one block.
LEMMA BlockIsWhole ==
    ASSUME Given, ~cfg.invert, NEW start \in 0 .. Total, NEW end \in start .. Total, start < end,
           start \notin Matched, end + 1 \notin Matched, \A i \in start + 1 .. end : i \in Matched
    PROVE  Whole(MultiReference, start, end)
<1> DEFINE R == MultiReference
<1>0. /\ R.chosen = Taken \cup AtEnd /\ R.due = DueLines
      /\ R.starts = {i \in DueLines : cfg.invert \/ i \notin Taken \/ i - 1 \notin Taken}
      /\ \A i \in 1 .. Total : R.kind[i] = KindIn(i) /\ R.upto[i] = LastLine(BlockFrom(i))
  BY MultiFields
<1> HIDE DEF R
<1>1. Total \in Nat /\ Taken = Matched /\ \A i \in Taken : i \in 1 .. Total
  BY TakenFacts DEF Taken
<1>2. \A i \in Taken : i \in DueLines
  BY <1>1 DEF DueLines
<1>3. PICK a \in 1 .. Total : a = start + 1 /\ a <= end /\ a - 1 = start
  BY <1>1
<1>4. a \in Taken /\ end \in Taken /\ a - 1 \notin Taken /\ end + 1 \notin Taken /\ \A i \in a .. end : i \in Taken
  BY <1>1, <1>3
<1>5. a \in R.starts /\ end \in R.due /\ end \in R.chosen
  BY <1>0, <1>2, <1>4
<1>6. R.kind[a] = "match"
  BY <1>0, <1>4, KindsAre
<1>7. R.upto[a] = end
  <2> DEFINE B == BlockFrom(a)
  <2>1. B = {k \in a .. Total : a .. k \subseteq Taken}
    BY <1>4 DEF BlockFrom
  <2> HIDE DEF B
  <2>2. end \in B
    BY <1>1, <1>3, <1>4, <2>1
  <2>3. \A k \in B : k <= end
    <3> SUFFICES ASSUME NEW k \in B, k > end PROVE FALSE
      BY <1>3, <2>1
    <3>1. end + 1 \in a .. k
      BY <1>3, <2>1
    <3> QED BY <1>4, <2>1, <3>1
  <2>4. B \in SUBSET (1 .. Total) /\ B # {}
    BY <1>3, <2>1, <2>2
  <2>5. LastLine(B) \in B /\ \A j \in B : j <= LastLine(B)
    BY <1>1, <2>4, Greatest
  <2> DEFINE m == LastLine(B)
  <2> HIDE DEF m
  <2>6. m \in B /\ end <= m
    BY <2>2, <2>5 DEF m
  <2>7. m = end
    BY <1>3, <2>3, <2>4, <2>6
  <2> QED BY <1>0, <2>7 DEF B, m
<1>8. \A k \in start + 2 .. end : k \notin R.starts
  <2> TAKE k \in start + 2 .. end
  <2>1. k \in a .. end /\ k - 1 \in a .. end
    BY <1>3
  <2> QED BY <1>0, <1>4, <2>1
<1> QED BY <1>3, <1>5, <1>6, <1>7, <1>8 DEF Whole, R

\* Those of an inverted search are given one by one.
LEMMA LineIsWhole ==
    ASSUME Given, cfg.invert, NEW i \in 1 .. Total, i \notin Matched
    PROVE  Whole(MultiReference, i - 1, i)
<1> DEFINE R == MultiReference
<1>0. /\ R.chosen = Taken \cup AtEnd /\ R.due = DueLines
      /\ R.starts = {k \in DueLines : cfg.invert \/ k \notin Taken \/ k - 1 \notin Taken}
      /\ \A k \in 1 .. Total : R.kind[k] = KindIn(k) /\ R.upto[k] = LastLine(BlockFrom(k))
  BY MultiFields
<1> HIDE DEF R
<1>1. i \in Taken /\ i \in DueLines
  <2>1. i \in Taken
    BY DEF Taken
  <2> QED BY <2>1, TakenFacts DEF DueLines
<1>2. BlockFrom(i) = {i}
  BY DEF BlockFrom
<1>3. R.upto[i] = i
  BY <1>0, <1>2, AloneIs
<1>4. R.kind[i] = "match" /\ i \in R.starts /\ i \in R.due /\ i \in R.chosen
  BY <1>0, <1>1, KindsAre
<1>5. (i - 1) + 1 = i /\ \A k \in (i - 1) + 2 .. i : k \notin R.starts
  OBVIOUS
<1> QED BY <1>3, <1>4, <1>5 DEF Whole, R

\* MultiExpected lists what the reference has for all lines.
LEMMA ExpectedIs == MultiExpected = ListedOf(MultiReference)[Total]
  BY DEF MultiExpected, CallsIn, ListedOf, CallsOf

\* File and configuration stay, and with them what is to be reported.
LEMMA MultiStays ==
    ASSUME UNCHANGED <<file, cfg, stopAnswer>>
    PROVE  /\ Total' = Total /\ Size' = Size /\ MatchList' = MatchList /\ Matched' = Matched
           /\ \A k : Top(k)' = Top(k) /\ Bottom(k)' = Bottom(k) /\ FromAt(k)' = FromAt(k)
           /\ MultiReference' = MultiReference
           /\ ListedOf(MultiReference)' = ListedOf(MultiReference)
           /\ MultiExpected' = MultiExpected
           /\ Placed' = Placed /\ Unlimited' = Unlimited /\ Quits' = Quits
<1>1. Total' = Total /\ Size' = Size
  BY DEF Total, Size
<1>2. MatchList' = MatchList
  BY DEF MatchList, Matches, Resume, First, Locate, Lines, AtLine, After, Size, Total
<1>3. \A k : Top(k)' = Top(k) /\ Bottom(k)' = Bottom(k)
  BY <1>1, <1>2 DEF Top, Bottom, Locate, Lines
<1>4. \A k : FromAt(k)' = FromAt(k)
  BY <1>1, <1>2 DEF FromAt, FromIn, ResumeOf, Resume, After, AtLine, Locate, Lines
<1>5. Matched' = Matched
  BY <1>1, <1>2 DEF Matched, Touched, Locate, Lines
<1>6. MultiReference' = MultiReference
  <2>1. Taken' = Taken /\ AtEnd' = AtEnd
    BY <1>1, <1>2, <1>5 DEF Taken, AtEnd, Last
  <2>2. Behind' = Behind /\ Ahead' = Ahead /\ Beyond' = Beyond
    BY <1>1, <1>2, <2>1 DEF Behind, Ahead, Beyond
  <2>3. DueLines' = DueLines
    BY <1>1, <2>1, <2>2 DEF DueLines
  <2>4. Starts' = Starts
    BY <2>1, <2>3 DEF Starts
  <2>5. \A i : KindIn(i)' = KindIn(i)
    BY <2>1, <2>2 DEF KindIn
  <2>6. \A i : BlockFrom(i)' = BlockFrom(i)
    BY <1>1, <2>1 DEF BlockFrom
  <2>7. \A i : LastLine(BlockFrom(i))' = LastLine(BlockFrom(i))
    BY <2>6 DEF LastLine
  <2>8. (MultiReference = [ chosen |-> Taken \cup AtEnd, over |-> Beyond, due |-> DueLines, starts |-> Starts,
                            kind |-> [i \in 1 .. Total |-> KindIn(i)], upto |-> [i \in 1 .. Total |-> LastLine(BlockFrom(i))] ])'
    BY MultiParts, PTL
  <2> QED BY <1>1, <2>1, <2>2, <2>3, <2>4, <2>5, <2>7, <2>8, MultiParts
<1>7. ListedOf(MultiReference)' = ListedOf(MultiReference)
  BY <1>1, <1>6 DEF ListedOf, CallsOf, Calls, Gap, Reports
<1>8. MultiExpected' = MultiExpected
  BY <1>1, <1>6 DEF MultiExpected, CallsIn, Calls, Gap, Reports
<1>9. Placed' = Placed /\ Unlimited' = Unlimited /\ Quits' = Quits
  BY <1>1 DEF Placed, Unlimited, Quits
<1> QED BY <1>1, <1>2, <1>3, <1>4, <1>5, <1>6, <1>7, <1>8, <1>9
-----------------------------------------------------------------------------
\* A line behind a match and not behind the first of the next is in none.
LEMMA Clear ==
    ASSUME Given, NEW n \in 0 .. Len(MatchList), NEW i \in Int,
           n > 0 => Bottom(n) < i, n < Len(MatchList) => i <= Top(n + 1)
    PROVE  i \notin Matched
<1>1. SUFFICES ASSUME i \in Matched PROVE FALSE
  OBVIOUS
<1>2. Len(MatchList) \in Nat /\ Total \in Nat
      /\ \A k \in 1 .. Len(MatchList) : Top(k) \in 0 .. Total /\ Bottom(k) \in Top(k) .. Total
  BY ListFacts
<1>3. PICK k \in 1 .. Len(MatchList) : i \in Top(k) + 1 .. Bottom(k)
  BY <1>1, ListFacts
<1>4. CASE k <= n
  <2>1. n \in 1 .. Len(MatchList) /\ n > 0
    BY <1>2, <1>4
  <2>2. Bottom(k) <= Bottom(n)
    BY <1>4, <2>1, Rising
  <2> QED BY <1>2, <1>3, <2>1, <2>2
<1>5. CASE ~(k <= n)
  <2>1. n + 1 \in 1 .. Len(MatchList) /\ n + 1 <= k /\ n < Len(MatchList)
    BY <1>2, <1>5
  <2>2. Top(n + 1) <= Top(k)
    BY <2>1, Rising
  <2> QED BY <1>2, <1>3, <2>1, <2>2
<1> QED BY <1>4, <1>5

\* Lines of no match are no line of a block ...
LEMMA FreeIs ==
    ASSUME Given, NEW v \in Int, NEW w \in 0 .. Total, \A i \in v + 1 .. w : i \notin Taken
    PROVE  FreeOf(MultiReference, v, w)
<1>1. Total \in Nat /\ (\A i \in Taken : i \in 1 .. Total) /\ (\A i \in AtEnd : i = Total + 1)
  BY TakenFacts
<1>2. MultiReference.chosen = Taken \cup AtEnd
  BY MultiFields
<1> SUFFICES ASSUME NEW j \in MultiReference.chosen, v < j, j <= w PROVE FALSE
  BY DEF FreeOf
<1>3. j \in Taken \/ j = Total + 1
  BY <1>1, <1>2
<1>4. j \in Taken
  BY <1>1, <1>3
<1> QED BY <1>1, <1>4

\* ... and the other way around.
LEMMA FreeLines ==
    ASSUME Given, NEW v \in Int, NEW w \in 0 .. Total, FreeOf(MultiReference, v, w)
    PROVE  \A i \in v + 1 .. w : i \notin Taken
<1>1. MultiReference.chosen = Taken \cup AtEnd
  BY MultiFields
<1> SUFFICES ASSUME NEW i \in v + 1 .. w, i \in Taken PROVE FALSE
  OBVIOUS
<1> QED BY <1>1 DEF FreeOf

\* Before a match a line of the context matches alone in no search with a limit.
LEMMA OverIs ==
    ASSUME Given, Placed, ~cfg.invert, NEW k \in 1 .. Len(MatchList), NEW i \in 1 .. Top(k), i \notin Matched, NEW c
    PROVE  i \in MultiReference.over <=> ExceededLimit(c) /\ Success(i)
<1>1. cfg.max # None => ~file.hit[i]
  BY NoHit
<1>2. MultiReference.over = Beyond
  BY MultiFields
<1>3. i \in 1 .. Total
  <2>1. Total \in Nat /\ Top(k) \in 0 .. Total
    BY ListFacts
  <2> QED BY <2>1
<1>4. file.hit[i] \in BOOLEAN
  BY <1>3, Facts
<1>5. Success(i) <=> file.hit[i]
  <2>1. cfg.invert = FALSE
    BY Facts DEF Config
  <2> QED BY <1>4, <2>1 DEF Success
<1>6. i \in Beyond => cfg.max # None /\ file.hit[i]
  BY DEF Beyond
<1> QED BY <1>1, <1>2, <1>5, <1>6 DEF ExceededLimit

\* When all matches were found, the limit decides on the context that is left.
LEMMA RestOver ==
    ASSUME Given, Unlimited, NEW c, c.count = Len(MatchList), NEW v \in Nat, FreeOf(MultiReference, v, Total)
    PROVE  \A i \in v + 1 .. Total : i \in MultiReference.over <=> ExceededLimit(c) /\ Success(i)
<1>1. MultiReference.over = Beyond
  BY MultiFields
<1>2. Total \in Nat /\ Total \in 0 .. Total /\ v \in Int
  BY TakenFacts
<1>3. \A i \in v + 1 .. Total : i \notin Taken
  BY <1>2, FreeLines
<1>4. \A i \in Taken : i \in 1 .. Total
  BY TakenFacts
<1>5. cfg.max # None => cfg.max \in Nat /\ cfg.max # 0 /\ ~cfg.invert
  BY Facts DEF Config, Unlimited
<1>6. cfg.max # None => Len(MatchList) <= cfg.max /\ Len(MatchList) \in Nat
  <2> SUFFICES ASSUME cfg.max # None PROVE Len(MatchList) <= cfg.max /\ Len(MatchList) \in Nat
    OBVIOUS
  <2>1. Len(MatchList) \in Nat /\ \A k \in 1 .. Len(MatchList) : k <= cfg.max
    BY ListFacts
  <2>2. Len(MatchList) = 0 \/ Len(MatchList) \in 1 .. Len(MatchList)
    BY <2>1
  <2> QED BY <1>5, <2>1, <2>2
<1>7. ExceededLimit(c) <=> cfg.max # None /\ Len(MatchList) = cfg.max
  BY <1>5, <1>6 DEF ExceededLimit
<1> TAKE i \in v + 1 .. Total
<1>8. i \in 1 .. Total /\ file.hit[i] \in BOOLEAN
  BY <1>2, Facts
<1>9. \A j \in Taken : j < i
  <2> TAKE j \in Taken
  <2>1. j \in 1 .. Total /\ j \notin v + 1 .. Total
    BY <1>3, <1>4
  <2> QED BY <1>2, <2>1
<1>10. i \in Beyond <=> cfg.max # None /\ Len(MatchList) = cfg.max /\ file.hit[i]
  BY <1>8, <1>9 DEF Beyond
<1>11. cfg.max # None => (Success(i) <=> file.hit[i])
  <2>1. cfg.max # None => cfg.invert = FALSE
    BY <1>5, Facts DEF Config
  <2> QED BY <1>8, <2>1 DEF Success
<1> QED BY <1>1, <1>7, <1>10, <1>11

\* The match held back is given, behind its context.
LEMMA HeldAdds ==
    ASSUME State, cfg.slice, NEW R, Reference(R), NEW c, Sound(c), c.go, NEW start \in 0 .. shown, NEW end \in start .. shown, start < end,
           c.visited <= start, OwedOf(R, c.visited, c), Whole(R, start, end), start + 1 \in R.chosen, FreeOf(R, c.visited, start),
           \A n \in c.visited + 1 .. start : n \in R.over <=> ExceededLimit(c) /\ Success(n)
    PROVE  LET d == SinkHeld(c, Lines(start, end))
           IN /\ d.go => OwedOf(R, end, d) /\ d.visited = end
              /\ ~d.go => EndedOf(R, d)
<1> DEFINE e == Context(c, start)
           d == SinkRange(e, Lines(start, end))
<1>1. SinkHeld(c, Lines(start, end)) = d
  BY DEF SinkHeld, Lines
<1>2. Sound(e) /\ e.visited <= start
  BY ContextsSound
<1>3. /\ e.go => /\ OwedOf(R, e.visited, e) /\ c.visited <= e.visited /\ e.visited <= start
                 /\ \A k \in e.visited + 1 .. start : k \notin R.due
      /\ ~e.go => EndedOf(R, e)
  BY ContextOwed
<1> HIDE DEF e
<1>4. CASE ~e.go
  <2>1. d = e
    BY <1>4 DEF SinkRange
  <2> QED BY <1>1, <1>3, <1>4, <2>1
<1>5. CASE e.go
  <2>1. /\ d.go => OwedOf(R, end, d) /\ d.visited = end
        /\ ~d.go => EndedOf(R, d)
    BY <1>2, <1>3, <1>5, RangeAdds
  <2> HIDE DEF d
  <2> QED BY <1>1, <2>1
<1> QED BY <1>4, <1>5
-----------------------------------------------------------------------------
\* What a multi line search has reported, and what it holds back.
HeldIs(h, c) ==
    /\ c.count > 0 /\ h.start <= Top(c.count) /\ h.end = Bottom(c.count)
    /\ h.start \notin Matched /\ \A i \in h.start + 1 .. h.end : i \in Matched
    /\ h.start = h.end => h.start = Total
    /\ FreeOf(MultiReference, c.visited, h.start)

Turning(p, h, c) ==
    /\ c.count \in 0 .. Len(MatchList)
    /\ p = FromAt(c.count) \/ (c.count = Len(MatchList) /\ (p = Size \/ ExceededLimit(c)))
    /\ OwedOf(MultiReference, c.visited, c)
    /\ ~cfg.invert /\ h = None => c.count = 0
    /\ h # None => HeldIs(h, c)
    /\ cfg.invert => FreeOf(MultiReference, c.visited, IF p = Size THEN Total ELSE p \div 2)

Ending(c) == PreOf(MultiReference, c) /\ (Quits \/ Shown(c) = ListedOf(MultiReference)[Total])

Standing(q, p, h, c, refused) ==
    /\ q = "begin" => c.calls = <<>> /\ c.count = 0 /\ c.afterLeft = 0 /\ ~c.hasSunk
    /\ q = "turn" => Turning(p, h, c)
    /\ q \in {"finish", "done"} /\ ~refused => Ending(c)

Reporting == (Unlimited /\ Placed) => Standing(pc, at, held, core, Refused)

\* The invariant after a step, in terms of the report before it.
LEMMA StandingPrimed ==
    ASSUME UNCHANGED <<file, cfg, stopAnswer>>, (Unlimited /\ Placed) => Standing(pc', at', held', core', Refused')
    PROVE  Reporting'
<1> DEFINE R == MultiReference
           L == ListedOf(MultiReference)
<1>1. /\ Total' = Total /\ Size' = Size /\ MatchList' = MatchList /\ Matched' = Matched
      /\ \A k : Top(k)' = Top(k) /\ Bottom(k)' = Bottom(k) /\ FromAt(k)' = FromAt(k)
      /\ MultiReference' = MultiReference
      /\ ListedOf(MultiReference)' = ListedOf(MultiReference)
      /\ Placed' = Placed /\ Unlimited' = Unlimited /\ Quits' = Quits
  BY MultiStays
<1>2. \A v, w : FreeOf(MultiReference, v, w)' <=> FreeOf(MultiReference, v, w)
  BY <1>1 DEF FreeOf
<1>3. \A v, n : AfterOf(MultiReference, v, n)' <=> AfterOf(MultiReference, v, n)
  BY <1>1 DEF AfterOf
<1>4. \A v, c : OwedOf(MultiReference, v, c)' <=> OwedOf(MultiReference, v, c)
  BY <1>1, <1>3 DEF OwedOf, Shown
<1>5. \A c : ExceededLimit(c)' <=> ExceededLimit(c)
  BY DEF ExceededLimit
<1>6. \A h, c : HeldIs(h, c)' <=> HeldIs(h, c)
  BY <1>1, <1>2 DEF HeldIs
<1>7. \A p, h, c : Turning(p, h, c)' <=> Turning(p, h, c)
  BY <1>1, <1>2, <1>4, <1>5, <1>6 DEF Turning
<1>8. \A c : Ending(c)' <=> Ending(c)
  BY <1>1 DEF Ending, PreOf, Shown
<1>9. \A q, p, h, c, refused : Standing(q, p, h, c, refused)' <=> Standing(q, p, h, c, refused)
  BY <1>7, <1>8 DEF Standing
<1> QED BY <1>1, <1>7, <1>8, <1>9 DEF Reporting, Standing

\* A search that was ended by binary data or by the sink has reported a part.
LEMMA EndingIs ==
    ASSUME MultiPlace, UNCHANGED constant, NEW c, c \in Cores, EndedOf(MultiReference, c), core' = c, pc' = "finish"
    PROVE  Standing(pc', at', held', core', Refused')
<1>1. stopAnswer' = stopAnswer /\ stopAnswer \in Nat
  BY MultiState, Facts DEF constant
<1>2. c.calls \in Seq(SinkCalls)
  BY CoreTypes
<1>3. Len(c.calls) \in Nat
  BY <1>2
<1>4. ~Refused' => Quits
  BY <1>1, <1>3 DEF EndedOf, Halted, Refused
<1> QED BY <1>4 DEF EndedOf, Standing, Ending

\* What a turn of the loop must show to keep the invariant.
LEMMA AnsweredStands ==
    ASSUME MultiPlace, UNCHANGED constant, NEW c, Answered(c), c \in Cores,
           c.go => Turning(at', held', c), ~c.go => EndedOf(MultiReference, c)
    PROVE  Standing(pc', at', held', core', Refused')
<1>1. core' = c /\ pc' = IF c.go THEN "turn" ELSE "finish"
  BY DEF Answered
<1>2. CASE c.go
  BY <1>1, <1>2 DEF Standing
<1>3. CASE ~c.go
  BY <1>1, <1>3, EndingIs
<1> QED BY <1>2, <1>3
-----------------------------------------------------------------------------
\* What the matcher finds is the next match of the reference.
LEMMA NextIs ==
    ASSUME Given, NEW p, NEW h, NEW c, Turning(p, h, c), p < Size, ~ExceededLimit(c), First(p) # None
    PROVE  /\ p = FromAt(c.count) /\ c.count \in Nat /\ c.count < Len(MatchList)
           /\ c.count + 1 \in 1 .. Len(MatchList) /\ MatchList[c.count + 1] = First(p)
<1> DEFINE n == c.count
           q == MatchList
<1>1. /\ q \in Seq(file.spans) /\ Len(q) \in Nat /\ Size \in Nat
      /\ \A k \in 1 .. Len(q) : q[k] = First(FromAt(k - 1))
  BY ListFacts
<1>2. n \in 0 .. Len(q)
  BY DEF Turning
<1>3. p = FromAt(n)
  BY <1>1 DEF Turning
<1>4. OverOf(q)
  BY MatchesEnd
<1>5. FromOf(q) = FromAt(Len(q))
  BY <1>1, FromBounds DEF FromAt
<1>6. n # Len(q)
  <2> SUFFICES ASSUME n = Len(q) PROVE FALSE
    OBVIOUS
  <2>1. FromOf(q) = p
    BY <1>3, <1>5
  <2>2. p \in 0 .. Size
    BY <1>2, <1>3, ListFacts
  <2>3. cfg.max # None /\ Len(q) = cfg.max
    BY <1>1, <1>4, <2>1, <2>2 DEF OverOf
  <2> QED BY <1>1, <2>3 DEF ExceededLimit
<1> HIDE DEF n, q
<1>7. PICK m \in 1 .. Len(q) : m = n + 1 /\ m - 1 = n
  BY <1>1, <1>2, <1>6
<1>8. q[m] = First(p)
  BY <1>1, <1>3, <1>7
<1>9. n \in Nat /\ n < Len(q)
  BY <1>1, <1>2, <1>6
<1> QED BY <1>3, <1>7, <1>8, <1>9 DEF n, q

\* When it finds none there is none.
LEMMA NoneLeft ==
    ASSUME Given, NEW p, NEW h, NEW c, Turning(p, h, c), p >= Size \/ ExceededLimit(c) \/ First(p) = None
    PROVE  c.count = Len(MatchList)
<1> DEFINE n == c.count
<1>1. /\ Len(MatchList) \in Nat /\ Size \in Nat
      /\ \A k \in 1 .. Len(MatchList) : FromAt(k - 1) < Size /\ First(FromAt(k - 1)) # None /\ (cfg.max # None => k <= cfg.max)
  BY ListFacts
<1>2. n \in 0 .. Len(MatchList) /\ (p = FromAt(n) \/ n = Len(MatchList))
  BY DEF Turning
<1> SUFFICES ASSUME n # Len(MatchList) PROVE FALSE
  OBVIOUS
<1>3. PICK m \in 1 .. Len(MatchList) : m = n + 1 /\ m - 1 = n
  BY <1>1, <1>2
<1>31. FromAt(n) \in 0 .. Size
  BY <1>2, ListFacts
<1>4. FromAt(n) < Size /\ First(FromAt(n)) # None /\ (cfg.max # None => m <= cfg.max)
  BY <1>1, <1>3
<1>5. ExceededLimit(c)
  BY <1>1, <1>2, <1>31, <1>4
<1>6. cfg.max # None /\ n >= cfg.max /\ cfg.max \in Nat
  BY <1>5, Facts DEF ExceededLimit, Config
<1> QED BY <1>1, <1>2, <1>3, <1>4, <1>6

\* Before the first call nothing is reported.
LEMMA NothingShown ==
    ASSUME Given, NEW c, c.calls = <<>>
    PROVE  Shown(c) = ListedOf(MultiReference)[0]
<1>1. <<>> \in Seq(SinkCalls) /\ Len(<<>>) = 0
  OBVIOUS
<1>2. LineCallsOf(<<>>) = <<>>
  <2>1. PICK f \in [0 .. Len(<<>>) -> Seq(Briefs)] : IsListing(f, <<>>) /\ LineCallsOf(<<>>) = f[Len(<<>>)]
    BY <1>1, Listing
  <2> QED BY <1>1, <2>1 DEF IsListing
<1>3. Reference(MultiReference)
  BY MultiIsReference
<1> QED BY <1>2, <1>3, ListedIsOf DEF Shown

\* Each action keeps Reporting; the first has nothing to report.
LEMMA MultiInitStands == MultiInit => Reporting
  BY DEF MultiInit, MultiFresh, Init, Fresh, Reporting, Standing

\* MultiLine.run up to its loop.
LEMMA MultiBeginStands ==
    ASSUME MultiInv, Unlimited, Standing(pc, at, held, core, Refused), MultiBegin
    PROVE  Standing(pc', at', held', core', Refused')
<1> DEFINE x == [kind |-> "begin", line |-> 0]
           begun == Tell(core, x)
           examined == IF Total < DetectLines THEN Total ELSE DetectLines
           d == DetectBinary(begun, 0, examined)
           R == MultiReference
<1>1. /\ pc = "begin" /\ MultiPlace /\ Sound(core) /\ core \in Cores /\ core.go
      /\ at = 0 /\ held = None /\ core.visited = 0
      /\ core.calls = <<>> /\ core.count = 0 /\ core.afterLeft = 0 /\ ~core.hasSunk
  BY DEF MultiInv, MultiBegin, MultiRunning, Standing, Sound
<1>2. State /\ Given /\ shown = Total /\ shown \in Nat /\ Total \in Nat /\ Size \in Nat /\ 2 * Total - 1 <= Size
  BY <1>1, MultiState, SizeFacts
<1>3. core' = d /\ pc' = (IF d.go THEN "turn" ELSE "finish") /\ UNCHANGED constant /\ at' = at /\ held' = held
  BY DEF MultiBegin
<1>4. x \in Marks /\ x.kind \in {"begin", "break"} /\ x \in SinkCalls /\ ~OfLines(x)
  BY DEF Marks, SinkCalls, OfLines, LineKinds
<1> HIDE DEF x
<1>5. Sound(begun) /\ Kept(core, begun)
  BY <1>1, <1>2, <1>4, MarkTold
<1>6. Told(core, begun, x) /\ Shown(begun) = Shown(core) /\ (~begun.go => Halted(begun))
  BY <1>1, <1>2, <1>4, TellShown
<1> HIDE DEF begun
<1>7. examined \in Nat /\ examined <= shown /\ 0 \in Nat
  BY <1>2, DetectAssumption
<1> HIDE DEF examined
<1>8. Sound(d) /\ Kept(begun, d) /\ (~begun.go => d = begun)
  BY <1>2, <1>5, <1>7, DetectSound
<1>9. Shown(d) = Shown(begun) /\ d.hasSunk = begun.hasSunk /\ (~d.go => Halted(d))
  <2>1. CASE begun.go
    BY <1>2, <1>5, <1>7, <2>1, DetectShown
  <2>2. CASE ~begun.go
    BY <1>6, <1>8, <2>2
  <2> QED BY <2>1, <2>2
<1> HIDE DEF d
<1>10. /\ Shown(d) = Shown(core) /\ d.hasSunk = core.hasSunk /\ d.visited = 0 /\ d.afterLeft = 0 /\ d.count = 0 /\ d \in Cores
  BY <1>1, <1>5, <1>6, <1>8, <1>9 DEF Told, Kept, Sound
<1>11. Reference(R) /\ (\A j \in R.due : j \in 1 .. Total) /\ (\A j \in R.chosen : j \in 1 .. Total + 1)
  <2>1. Reference(R)
    BY <1>2, MultiIsReference
  <2> QED BY <2>1 DEF Reference
<1> HIDE DEF R
<1>12. OwedOf(R, 0, d)
  <2>1. Shown(d) = ListedOf(R)[0]
    BY <1>1, <1>2, <1>10, NothingShown DEF R
  <2>2. ~\E j \in R.due : j <= 0
    BY <1>2, <1>11
  <2>3. AfterOf(R, 0, 0)
    BY <1>2, <1>11 DEF AfterOf
  <2>4. ~d.hasSunk
    BY <1>1, <1>10
  <2> QED BY <1>10, <2>1, <2>2, <2>3, <2>4 DEF OwedOf
<1>13. Turning(at', held', d)
  <2>1. FromAt(0) = 0 /\ 0 \in 0 .. Len(MatchList)
    BY <1>2, ListFacts
  <2>2. FreeOf(R, 0, IF 0 = Size THEN Total ELSE 0 \div 2)
    <3>1. 0 = Size => Total = 0
      BY <1>2
    <3>2. (IF 0 = Size THEN Total ELSE 0 \div 2) = 0
      BY <3>1
    <3>3. FreeOf(R, 0, 0)
      BY <1>2, <1>11 DEF FreeOf
    <3> QED BY <3>2, <3>3
  <2> QED BY <1>1, <1>3, <1>10, <1>12, <2>1, <2>2 DEF Turning, R
<1>14. EndedOf(R, d) \/ d.go
  <2>1. PreOf(R, d)
    <3>1. 0 \in 0 .. Total
      BY <1>2
    <3> QED BY <1>2, <1>11, <1>12, <3>1, OwedPreOf DEF OwedOf
  <2> QED BY <1>9, <2>1 DEF EndedOf
<1>15. Answered(d)
  BY <1>3 DEF Answered
<1> QED BY <1>1, <1>3, <1>10, <1>13, <1>14, <1>15, AnsweredStands DEF R

\* MultiLine.sink: the match held back is given, or joined by the next.
LEMMA NextMatchStands ==
    ASSUME MultiInv, Unlimited, Placed, Standing(pc, at, held, core, Refused), NextMatch
    PROVE  Standing(pc', at', held', core', Refused')
<1> DEFINE R == MultiReference
           n == core.count + 1
<1>1. /\ pc = "turn" /\ at < Size /\ ~cfg.invert /\ UNCHANGED constant
      /\ MultiPlace /\ MultiHeld /\ Sound(core) /\ core.go /\ core \in Cores /\ Turning(at, held, core)
  BY DEF MultiInv, NextMatch, MultiRunning, Standing, Sound
<1>2. State /\ Given /\ cfg.slice /\ shown = Total /\ shown \in Nat /\ base = 0 /\ at \in 0 .. Size /\ Size \in Nat /\ Total \in Nat
  BY <1>1, MultiState, SizeFacts
<1>3. CASE ExceededLimit(core) \/ First(at) = None
  <2>1. at' = Size /\ UNCHANGED <<pc, core, held>>
    BY <1>3 DEF NextMatch
  <2>2. core.count = Len(MatchList)
    BY <1>1, <1>2, <1>3, NoneLeft
  <2>3. Turning(Size, held, core)
    BY <1>1, <2>2 DEF Turning
  <2> QED BY <1>1, <2>1, <2>3 DEF Standing
<1>4. CASE ~(ExceededLimit(core) \/ First(at) = None)
  <2> DEFINE span == First(at)
             line == Locate(span)
             c == Counting(Unmoved(core))
             sunk == SinkHeld(c, held)
             next == After(span[1], span[2])
  <2>1. IF held = None
        THEN held' = line /\ Answered(c) /\ at' = next
        ELSE IF Joins(held, line)
        THEN held' = Lines(held.start, line.end) /\ Answered(c) /\ at' = next
        ELSE held' = line /\ Answered(sunk) /\ at' = Moved(sunk, next)
    BY <1>4 DEF NextMatch
  <2>2. /\ at = FromAt(core.count) /\ core.count \in Nat /\ core.count < Len(MatchList) /\ n \in 1 .. Len(MatchList)
        /\ MatchList[n] = span
    BY <1>1, <1>2, <1>4, NextIs
  <2>3. /\ Len(MatchList) \in Nat /\ line = Lines(Top(n), Bottom(n))
        /\ Top(n) \in 0 .. Total /\ Bottom(n) \in Top(n) .. Total
        /\ Top(n) = Bottom(n) => Top(n) = Total
        /\ FromAt(n) = ResumeOf(span)
    BY <1>2, <2>2, ListFacts
  <2>4. next = FromAt(n)
    BY <1>1, <2>3 DEF ResumeOf, Resume
  <2> HIDE DEF span, line, next
  <2>5. Sound(c) /\ c.pos = None /\ c.visited = core.visited /\ c.go /\ c.count = n /\ c \in Cores
    BY <1>1, UnmovedSound DEF Sound
  <2>6. OwedOf(R, c.visited, c)
    BY <1>1, <2>5, UnmovedOwed DEF Turning
  <2> HIDE DEF c
  <2>7. n \in 0 .. Len(MatchList) /\ n > 0 /\ core.count \in 0 .. Len(MatchList) /\ n \in Nat
    BY <2>2, <2>3
  <2>8. Reference(R) /\ Taken = Matched /\ (\A i \in Matched : i \in 1 .. Total)
    BY <1>1, <1>2, MultiIsReference, TakenFacts DEF Taken
  <2>9. c.visited \in Int /\ c.visited \in 0 .. shown
    BY <2>5 DEF Sound, Ranges
  <2> HIDE DEF R
  <2>10. CASE held = None
    <3>1. held' = line /\ Answered(c) /\ at' = next
      BY <2>1, <2>10
    <3>2. n = 1
      BY <1>1, <2>10 DEF Turning
    <3>3. \A i \in c.visited + 1 .. Top(n) : i \notin Matched
      <4> TAKE i \in c.visited + 1 .. Top(n)
      <4>1. i \in Int /\ 0 \in 0 .. Len(MatchList) /\ i <= Top(0 + 1)
        BY <2>3, <2>9, <3>2
      <4> QED BY <1>2, <4>1, Clear
    <3>4. Top(n) \notin Matched
      <4>1. Top(n) \in Int /\ 0 \in 0 .. Len(MatchList) /\ Top(n) <= Top(0 + 1)
        BY <2>3, <3>2
      <4> QED BY <1>2, <4>1, Clear
    <3>5. FreeOf(R, c.visited, Top(n))
      BY <1>2, <2>3, <2>8, <2>9, <3>3, FreeIs DEF R
    <3>6. \A i \in Top(n) + 1 .. Bottom(n) : i \in Matched
      BY <1>2, <2>2, ListFacts
    <3>7. line.start = Top(n) /\ line.end = Bottom(n) /\ line # None
      BY <1>2, <2>3, LinesNotNone DEF Lines
    <3>8. HeldIs(line, c)
      BY <2>3, <2>5, <2>7, <3>4, <3>5, <3>6, <3>7 DEF HeldIs, R
    <3>9. Turning(next, line, c)
      BY <1>1, <2>4, <2>5, <2>6, <2>7, <3>7, <3>8 DEF Turning, R
    <3> QED BY <1>1, <2>5, <3>1, <3>9, AnsweredStands
  <2>11. CASE held # None
    <3> DEFINE s == held.start
               t == held.end
               m == core.count
    <3>1. /\ held = Lines(s, t) /\ s \in 0 .. Total /\ t \in s .. Total /\ core.visited <= s
      BY <1>1, <1>2, <2>11 DEF MultiHeld
    <3>2. HeldIs(held, core)
      BY <1>1, <2>11 DEF Turning
    <3>3. /\ m > 0 /\ s <= Top(m) /\ t = Bottom(m) /\ s \notin Matched
          /\ (\A i \in s + 1 .. t : i \in Matched)
          /\ (s = t => s = Total) /\ FreeOf(R, c.visited, s)
      BY <2>5, <3>2 DEF HeldIs, R
    <3>4. m \in 1 .. Len(MatchList) /\ m <= n /\ m + 1 = n /\ m \in 0 .. Len(MatchList) /\ m \in Nat
      BY <2>2, <2>3, <3>3
    <3>5. Top(m) <= Top(n) /\ Bottom(m) <= Bottom(n) /\ Top(m) \in 0 .. Total /\ Bottom(m) \in Top(m) .. Total
      BY <1>2, <2>2, <3>4, Rising, ListFacts
    <3>51. \A i \in Top(n) + 1 .. Bottom(n) : i \in Matched
      BY <1>2, <2>2, ListFacts
    <3> HIDE DEF s, t, m
    <3>6. CASE Joins(held, line)
      <4>1. held' = Lines(s, line.end) /\ Answered(c) /\ at' = next
        BY <2>1, <2>11, <3>6 DEF s
      <4> DEFINE b == Bottom(n)
                 y == Top(n)
                 h == Lines(s, b)
      <4>2. line.start = y /\ line.end = b /\ t >= y
        BY <2>3, <3>6 DEF Lines, Joins, t
      <4>3. b \in 0 .. Total /\ h # None /\ h.start = s /\ h.end = b
        BY <1>2, <2>3, <3>1, LinesNotNone DEF Lines
      <4>4. \A i \in s + 1 .. b : i \in Matched
        <5> TAKE i \in s + 1 .. b
        <5>1. y \in Int /\ b \in Int /\ s \in Int /\ t \in Int
          BY <1>2, <2>3, <3>1
        <5>2. CASE i <= t
          BY <3>3, <5>1, <5>2
        <5>3. CASE ~(i <= t)
          <6>1. i \in y + 1 .. b
            BY <4>2, <5>1, <5>3
          <6> QED BY <3>51, <6>1
        <5> QED BY <5>2, <5>3
      <4>5. s = b => s = Total
        <5> SUFFICES ASSUME s = b PROVE y = b
          BY <2>3
        <5> QED BY <1>2, <2>3, <3>1, <3>3, <3>5
      <4>6. s <= y
        BY <1>2, <2>3, <3>1, <3>3, <3>5
      <4> HIDE DEF h, b, y
      <4>7. HeldIs(h, c)
        BY <2>5, <2>7, <3>3, <4>3, <4>4, <4>5, <4>6 DEF HeldIs, R, b, y
      <4>8. Turning(next, h, c)
        BY <1>1, <2>4, <2>5, <2>6, <2>7, <4>3, <4>7 DEF Turning, R
      <4>9. held' = h
        BY <4>1, <4>2 DEF h
      <4> QED BY <1>1, <2>5, <4>1, <4>8, <4>9, AnsweredStands
    <3>7. CASE ~Joins(held, line)
      <4>1. held' = line /\ Answered(sunk) /\ at' = Moved(sunk, next)
        BY <2>1, <2>11, <3>7
      <4>2. line.start = Top(n) /\ line.end = Bottom(n) /\ t < Top(n) /\ line # None
        <5>1. line.start = Top(n) /\ line.end = Bottom(n) /\ line # None
          BY <1>2, <2>3, LinesNotNone DEF Lines
        <5>2. ~(t >= Top(n))
          BY <3>7, <5>1 DEF Joins, t
        <5> QED BY <1>2, <2>3, <3>1, <5>1, <5>2
      <4>3. s < t /\ s \in 0 .. shown /\ t \in s .. shown /\ c.visited <= s /\ s \in Int /\ t \in Int
        BY <1>2, <2>3, <2>5, <3>1, <3>3, <4>2
      <4>4. \A i \in t + 1 .. Top(n) : i \notin Matched
        <5> TAKE i \in t + 1 .. Top(n)
        <5>1. i \in Int /\ Bottom(m) < i /\ i <= Top(m + 1)
          BY <2>3, <3>3, <3>4, <4>3
        <5> QED BY <1>2, <3>4, <5>1, Clear
      <4>5. t + 1 \notin Matched /\ Top(n) \notin Matched
        BY <1>2, <2>3, <4>2, <4>3, <4>4
      <4>6. Whole(R, s, t)
        BY <1>1, <1>2, <3>1, <3>3, <4>3, <4>5, BlockIsWhole DEF R
      <4>7. s + 1 \in R.chosen
        <5>1. s + 1 \in s + 1 .. t
          BY <4>3
        <5>2. s + 1 \in Taken
          BY <2>8, <3>3, <5>1
        <5> QED BY <5>2, MultiFields DEF R
      <4>8. \A i \in c.visited + 1 .. s : i \in R.over <=> ExceededLimit(c) /\ Success(i)
        <5> TAKE i \in c.visited + 1 .. s
        <5>1. i \notin Taken
          BY <1>2, <2>9, <3>1, <3>3, FreeLines DEF R
        <5>2. i \in 1 .. Top(n)
          BY <2>3, <2>9, <3>3, <3>5, <4>3
        <5> QED BY <1>1, <1>2, <2>2, <2>8, <5>1, <5>2, OverIs DEF R
      <4>9. sunk = SinkHeld(c, Lines(s, t))
        BY <3>1
      <4> HIDE DEF sunk
      <4>10. /\ Sound(sunk) /\ sunk.count = c.count
             /\ sunk.pos = c.pos \/ (ExceededLimit(c) /\ sunk.pos \in 1 .. s)
        BY <1>2, <2>5, <4>3, <4>9, HeldSound
      <4>11. /\ sunk.go => OwedOf(R, t, sunk) /\ sunk.visited = t
             /\ ~sunk.go => EndedOf(R, sunk)
        BY <1>2, <2>5, <2>6, <2>8, <3>3, <4>3, <4>6, <4>7, <4>8, <4>9, HeldAdds
      <4>12. at' = FromAt(n) \/ (n = Len(MatchList) /\ ExceededLimit(sunk))
        <5>1. CASE sunk.pos = None
          BY <2>4, <4>1, <5>1 DEF Moved
        <5>2. CASE sunk.pos # None
          <6>1. ExceededLimit(c)
            BY <2>5, <4>10, <5>2
          <6>2. ExceededLimit(sunk)
            BY <4>10, <6>1 DEF ExceededLimit
          <6>3. cfg.max # None /\ n >= cfg.max /\ cfg.max \in Nat
            BY <1>2, <2>5, <6>1, Facts DEF ExceededLimit, Config
          <6>4. Len(MatchList) \in 1 .. Len(MatchList)
            BY <2>2, <2>3
          <6>5. Len(MatchList) <= cfg.max
            BY <1>2, <6>3, <6>4, ListFacts
          <6>6. n = Len(MatchList)
            BY <2>2, <2>3, <6>3, <6>5
          <6> QED BY <6>2, <6>6
        <5> QED BY <5>1, <5>2
      <4>13. ASSUME sunk.go PROVE Turning(at', line, sunk)
        <5>1. FreeOf(R, t, Top(n))
          BY <1>2, <2>3, <2>8, <4>3, <4>4, FreeIs DEF R
        <5>2. \A i \in Top(n) + 1 .. Bottom(n) : i \in Matched
          BY <3>51
        <5>3. HeldIs(line, sunk)
          <6>1. sunk.visited = t /\ sunk.count = n
            BY <2>5, <4>10, <4>11, <4>13
          <6>2. Top(n) <= Top(n)
            BY <2>3
          <6> QED BY <2>3, <2>7, <4>2, <4>5, <5>1, <5>2, <6>1, <6>2 DEF HeldIs, R
        <5>4. OwedOf(R, sunk.visited, sunk) /\ sunk.count = n
          BY <2>5, <4>10, <4>11, <4>13
        <5> QED BY <1>1, <2>7, <4>2, <4>12, <5>3, <5>4 DEF Turning, R
      <4>14. sunk \in Cores
        BY <4>10 DEF Sound
      <4> QED BY <1>1, <4>1, <4>11, <4>13, <4>14, AnsweredStands DEF R
    <3> QED BY <3>6, <3>7
  <2> QED BY <2>10, <2>11
<1> QED BY <1>3, <1>4
-----------------------------------------------------------------------------
\* MultiLine.sink_matched_inverted: the lines between two matches are given.
LEMMA NextInvertedStands ==
    ASSUME MultiInv, Unlimited, Placed, Standing(pc, at, held, core, Refused), NextInverted
    PROVE  Standing(pc', at', held', core', Refused')
<1> DEFINE R == MultiReference
           n == core.count
           L == at \div 2
           span == First(at)
           line == Locate(span)
           found == ~ExceededLimit(core) /\ span # None
           upto == IF found THEN line.start ELSE Total
           next == IF found THEN After(AtLine(line.start), AtLine(line.end)) ELSE Size
           c == IF found THEN Counting(Unmoved(core)) ELSE Unmoved(core)
           context == Context(Checked(c, L, upto), L)
           sunk == IF L = upto THEN c ELSE ForLines(BlockLine, context, L, upto)
<1>1. /\ pc = "turn" /\ at < Size /\ cfg.invert /\ UNCHANGED <<constant, held>> /\ UNCHANGED constant /\ held' = None
      /\ MultiPlace /\ Sound(core) /\ core.go /\ held = None /\ cfg.max = None
      /\ at % 2 = 0 /\ core.visited <= L /\ Turning(at, held, core)
  <2>1. pc = "turn" /\ at < Size /\ cfg.invert /\ UNCHANGED <<constant, held>> /\ MultiPlace /\ MultiHeld /\ MultiInverted
        /\ Sound(core) /\ core.go /\ Turning(at, held, core)
    BY DEF MultiInv, NextInverted, MultiRunning, Standing
  <2>2. at # Size
    BY <2>1, SizeFacts, MultiState
  <2> QED BY <2>1, <2>2 DEF MultiHeld, MultiInverted, Unlimited
<1>2. State /\ Given /\ cfg.slice /\ shown = Total /\ shown \in Nat /\ base = 0 /\ at \in 0 .. Size /\ Size \in Nat
      /\ Total \in Nat /\ Size <= 2 * Total /\ 2 * Total - 1 <= Size /\ at # Size
  <2>1. at # Size
    BY <1>1, SizeFacts, MultiState
  <2> QED BY <1>1, <2>1, MultiState, SizeFacts
<1>3. at = 2 * L /\ L \in 0 .. Total
  BY <1>1, <1>2
<1>4. \A d : ~ExceededLimit(d)
  BY <1>1 DEF ExceededLimit
<1>5. Answered(sunk) /\ at' = Moved(sunk, next)
  BY DEF NextInverted, BlockLine
<1>6. /\ Len(MatchList) \in Nat /\ n \in 0 .. Len(MatchList) /\ at = FromAt(n)
      /\ OwedOf(R, core.visited, core) /\ FreeOf(R, core.visited, L)
  <2>1. at = FromAt(n) \/ at = Size
    BY <1>1, <1>4 DEF Turning
  <2> QED BY <1>1, <1>2, <2>1, ListFacts DEF Turning
<1>7. n > 0 => L = Bottom(n)
  <2> SUFFICES ASSUME n > 0 PROVE L = Bottom(n)
    OBVIOUS
  <2>1. n \in 1 .. Len(MatchList)
    BY <1>6
  <2>2. Bottom(n) \in 0 .. Total /\ FromAt(n) = ResumeOf(MatchList[n])
    <3>1. Top(n) \in 0 .. Total /\ Bottom(n) \in Top(n) .. Total /\ FromAt(n) = ResumeOf(MatchList[n])
      BY <1>2, <2>1, ListFacts
    <3> QED BY <1>2, <3>1
  <2>3. FromAt(n) = AtLine(Bottom(n))
    BY <1>1, <2>2 DEF ResumeOf, Resume, Bottom
  <2>4. AtLine(Bottom(n)) < Size => AtLine(Bottom(n)) = 2 * Bottom(n)
    BY <1>2, <2>2, LineBounds
  <2> QED BY <1>1, <1>3, <1>6, <2>2, <2>3, <2>4
<1>8. found => n < Len(MatchList) /\ n + 1 \in 1 .. Len(MatchList) /\ MatchList[n + 1] = span
  BY <1>1, <1>2, NextIs
<1>9. ~found => n = Len(MatchList)
  BY <1>1, <1>2, NoneLeft
<1> HIDE DEF span
<1>10. found => /\ line = Lines(Top(n + 1), Bottom(n + 1))
                /\ Top(n + 1) \in 0 .. Total /\ Bottom(n + 1) \in Top(n + 1) .. Total
                /\ Top(n + 1) = Bottom(n + 1) => Top(n + 1) = Total
                /\ FromAt(n + 1) = ResumeOf(span) /\ at <= 2 * Top(n + 1) + 1
  <2> SUFFICES ASSUME found
               PROVE  /\ line = Lines(Top(n + 1), Bottom(n + 1))
                      /\ Top(n + 1) \in 0 .. Total /\ Bottom(n + 1) \in Top(n + 1) .. Total
                      /\ Top(n + 1) = Bottom(n + 1) => Top(n + 1) = Total
                      /\ FromAt(n + 1) = ResumeOf(span) /\ at <= 2 * Top(n + 1) + 1
    OBVIOUS
  <2> PICK k \in 1 .. Len(MatchList) : k = n + 1 /\ k - 1 = n
    BY <1>6, <1>8
  <2>1. /\ Locate(MatchList[k]) = Lines(Top(k), Bottom(k)) /\ MatchList[k][1] \in Nat
        /\ Top(k) \in 0 .. Total /\ Bottom(k) \in Top(k) .. Total
        /\ Top(k) = Bottom(k) => Top(k) = Total
        /\ FromAt(k) = ResumeOf(MatchList[k]) /\ FromAt(k - 1) <= MatchList[k][1] /\ MatchList[k][1] <= 2 * Top(k) + 1
    BY <1>2, ListFacts
  <2>2. at <= 2 * Top(k) + 1
    <3>1. at = FromAt(k - 1)
      BY <1>6
    <3>2. FromAt(k - 1) <= MatchList[k][1] /\ MatchList[k][1] <= 2 * Top(k) + 1 /\ MatchList[k][1] \in Nat /\ Top(k) \in Nat
      BY <1>2, <2>1
    <3> QED BY <1>2, <3>1, <3>2
  <2> QED BY <1>8, <2>1, <2>2
<1>11. found => line.start = Top(n + 1) /\ line.end = Bottom(n + 1)
  BY <1>10 DEF Lines
<1>12. upto \in L .. Total /\ (found => upto = Top(n + 1))
  <2>1. CASE found
    BY <1>2, <1>3, <1>10, <1>11, <2>1
  <2>2. CASE ~found
    BY <1>2, <1>3, <2>2
  <2> QED BY <2>1, <2>2
<1>13. found => next = AtLine(Bottom(n + 1)) /\ next = FromAt(n + 1)
  <2> SUFFICES ASSUME found PROVE next = AtLine(Bottom(n + 1)) /\ next = FromAt(n + 1)
    OBVIOUS
  <2> DEFINE a == Top(n + 1)
             b == Bottom(n + 1)
             p == AtLine(a)
             q == AtLine(b)
  <2>1. next = After(p, q)
    BY <1>11
  <2>2. FromAt(n + 1) = q
    BY <1>1, <1>10, <1>11 DEF ResumeOf, Resume
  <2>3. a \in 0 .. Total /\ b \in a .. Total /\ (a = b => a = Total) /\ b \in 0 .. Total
    BY <1>2, <1>10
  <2> HIDE DEF a, b
  <2>4. /\ p \in 0 .. Size /\ (p = 2 * a \/ p = Size) /\ q \in 0 .. Size /\ (q = 2 * b \/ q = Size)
        /\ AtLine(Total) = Size
    BY <1>2, <2>3, LineBounds
  <2>41. a = b => q = Size
    BY <2>3, <2>4
  <2> HIDE DEF p, q, next
  <2>42. p = q => q = Size
    BY <1>2, <2>3, <2>4, <2>41
  <2>5. next = q
    BY <1>2, <2>1, <2>4, <2>42 DEF After
  <2> QED BY <2>2, <2>5 DEF q, b
<1>14. ~found => next = Size /\ upto = Total
  OBVIOUS
<1>15. /\ Sound(c) /\ c.pos = None /\ c.visited = core.visited /\ c.go /\ c.count = (IF found THEN n + 1 ELSE n)
       /\ OwedOf(R, c.visited, c)
  <2>1. CASE found
    BY <1>1, <1>6, <2>1, UnmovedSound, UnmovedOwed
  <2>2. CASE ~found
    BY <1>1, <1>6, <2>2, UnmovedSound, UnmovedOwed
  <2> QED BY <2>1, <2>2
<1>16. c.visited \in Int /\ c.visited \in 0 .. shown /\ core.visited \in Int
  BY <1>1, <1>15 DEF Sound, Ranges
<1>17. Reference(R)
  BY <1>2, MultiIsReference
<1> HIDE DEF found, line, upto, next, c, R
<1>18. \A i \in L + 1 .. upto : i \notin Matched
  <2> TAKE i \in L + 1 .. upto
  <2>1. i \in Int /\ (n > 0 => Bottom(n) < i)
    BY <1>3, <1>7, <1>12
  <2>2. n < Len(MatchList) => found
    BY <1>6, <1>9
  <2>3. n < Len(MatchList) => i <= Top(n + 1)
    BY <1>3, <1>12, <2>2
  <2> QED BY <1>2, <1>6, <2>1, <2>3, Clear
<1>19. /\ Sound(sunk) /\ sunk.pos = None /\ sunk.count = c.count
       /\ sunk.go => OwedOf(R, sunk.visited, sunk) /\ (sunk.visited = upto \/ (L = upto /\ sunk.visited = core.visited))
       /\ ~sunk.go => EndedOf(R, sunk)
  <2>1. CASE L = upto
    BY <1>15, <2>1
  <2>2. CASE L # upto
    <3>1. Checked(c, L, upto) = c
      BY <1>3, <1>12, CheckedSound
    <3>2. context = Context(c, L)
      BY <3>1
    <3>3. L \in 0 .. shown /\ upto \in L .. shown /\ L < upto /\ c.visited <= L /\ L + 1 \in L + 1 .. upto
      BY <1>1, <1>2, <1>3, <1>12, <1>15, <2>2
    <3>4. L + 1 \in R.chosen
      <4>1. L + 1 \in Taken
        BY <1>1, <1>2, <1>3, <1>12, <1>18, <3>3 DEF Taken
      <4> QED BY <4>1, MultiFields DEF R
    <3>5. \A i \in c.visited + 1 .. L : i \in R.over <=> ExceededLimit(c) /\ Success(i)
      <4>1. R.over = {}
        BY <1>1, MultiFields DEF R, Beyond
      <4> QED BY <1>4, <4>1
    <3>6. \A i \in L + 1 .. upto : Whole(R, i - 1, i)
      <4> TAKE i \in L + 1 .. upto
      <4>1. i \in 1 .. Total /\ i \notin Matched
        BY <1>2, <1>3, <1>12, <1>18
      <4> QED BY <1>1, <1>2, <4>1, LineIsWhole DEF R
    <3> HIDE DEF L, context
    <3>7. /\ Sound(context) /\ context.visited <= L /\ context.count = c.count /\ context.pos = None
      BY <1>2, <1>4, <1>15, <3>2, <3>3, ContextsSound
    <3>8. /\ context.go => /\ OwedOf(R, context.visited, context)
                           /\ \A k \in context.visited + 1 .. L : k \notin R.due
          /\ ~context.go => EndedOf(R, context)
      <4>1. FreeOf(R, c.visited, L)
        BY <1>6, <1>15
      <4> QED BY <1>2, <1>15, <1>17, <3>2, <3>3, <3>4, <3>5, <4>1, ContextOwed
    <3> DEFINE d == ForLines(BlockLine, context, L, upto)
    <3>9. Sound(d) /\ d.pos = context.pos /\ d.count = context.count
      BY <1>2, <3>3, <3>7, BlocksSound
    <3>10. /\ d.go => OwedOf(R, upto, d) /\ d.visited = upto
           /\ ~d.go => EndedOf(R, d)
      BY <1>2, <1>17, <3>3, <3>6, <3>7, <3>8, BlocksAdds
    <3> HIDE DEF d
    <3>11. sunk = d
      BY <2>2 DEF d
    <3> HIDE DEF sunk
    <3> QED BY <3>7, <3>9, <3>10, <3>11
  <2> QED BY <2>1, <2>2
<1> HIDE DEF sunk
<1>20. at' = next
  BY <1>5, <1>19 DEF Moved
<1> DEFINE e == IF next = Size THEN Total ELSE next \div 2
<1>21. ASSUME sunk.go PROVE FreeOf(R, sunk.visited, e)
  <2>1. e \in 0 .. Total /\ (found => e = Bottom(n + 1)) /\ (~found => e = Total)
    <3>1. CASE found
      <4> DEFINE b == Bottom(n + 1)
      <4>1. b \in 0 .. Total /\ next = AtLine(b)
        BY <1>2, <1>10, <1>13, <3>1
      <4> HIDE DEF b
      <4>2. next = 2 * b \/ next = Size
        BY <1>2, <4>1, LineBounds
      <4>3. next = Size => b = Total
        BY <1>2, <4>1 DEF AtLine
      <4>4. next # Size => next \div 2 = b
        BY <4>1, <4>2
      <4>5. e = b
        BY <4>3, <4>4
      <4> QED BY <3>1, <4>1, <4>5 DEF b
    <3>2. CASE ~found
      BY <1>2, <1>14, <3>2
    <3> QED BY <3>1, <3>2
  <2>2. \A i \in L + 1 .. e : upto < i => i \notin Taken
    <3> TAKE i \in L + 1 .. e
    <3> SUFFICES ASSUME upto < i PROVE i \notin Taken
      OBVIOUS
    <3>1. found /\ i \in Top(n + 1) + 1 .. Bottom(n + 1)
      BY <1>2, <1>3, <1>10, <1>12, <1>14, <2>1
    <3>2. i \in Matched
      BY <1>2, <1>8, <3>1, ListFacts
    <3> QED BY <1>1, <3>2 DEF Taken
  <2>3. sunk.visited \in Int
    BY <1>19, CoreTypes DEF Sound
  <2>4. \A i \in sunk.visited + 1 .. e : i \notin Taken
    <3> TAKE i \in sunk.visited + 1 .. e
    <3>1. CASE sunk.visited = upto
      BY <1>3, <1>12, <2>1, <2>2, <3>1
    <3>2. CASE L = upto /\ sunk.visited = core.visited
      <4>1. CASE i <= L
        BY <1>2, <1>3, <1>6, <1>16, <2>1, <3>2, <4>1, FreeLines DEF R
      <4>2. CASE ~(i <= L)
        BY <1>3, <2>1, <2>2, <2>3, <3>2, <4>2
      <4> QED BY <4>1, <4>2
    <3> QED BY <1>19, <1>21, <3>1, <3>2
  <2> QED BY <1>2, <2>1, <2>3, <2>4, FreeIs DEF R
<1> HIDE DEF e
<1>22. ASSUME sunk.go PROVE Turning(at', held', sunk)
  <2>1. CASE found
    <3>1. sunk.count = n + 1 /\ n + 1 \in 0 .. Len(MatchList) /\ at' = FromAt(n + 1)
      BY <1>6, <1>8, <1>13, <1>15, <1>19, <1>20, <2>1
    <3> QED BY <1>1, <1>19, <1>20, <1>21, <1>22, <3>1 DEF Turning, R, e
  <2>2. CASE ~found
    <3>1. sunk.count = n /\ n = Len(MatchList) /\ at' = Size
      BY <1>9, <1>14, <1>15, <1>19, <1>20, <2>2
    <3> QED BY <1>1, <1>6, <1>19, <1>20, <1>21, <1>22, <3>1 DEF Turning, R, e
  <2> QED BY <2>1, <2>2
<1>23. sunk \in Cores
  BY <1>19 DEF Sound
<1> QED BY <1>1, <1>5, <1>19, <1>22, <1>23, AnsweredStands DEF R
-----------------------------------------------------------------------------
\* The context that is left completes the report.
LEMMA RestStands ==
    ASSUME MultiPlace, Unlimited, UNCHANGED constant, pc' = "finish", NEW c, Sound(c), c.go,
           OwedOf(MultiReference, c.visited, c), c.count = Len(MatchList), FreeOf(MultiReference, c.visited, Total),
           Total + 1 \notin MultiReference.chosen \/ \A k \in c.visited + 1 .. Total : k \notin MultiReference.due,
           core' = RestContext(c)
    PROVE  Standing(pc', at', held', core', Refused')
<1> DEFINE R == MultiReference
           d == RestContext(c)
<1>1. State /\ Given /\ cfg.slice /\ shown = Total
  BY MultiState
<1>2. Reference(R) /\ c.visited \in Nat
  BY <1>1, MultiIsReference DEF Sound, Ranges, State
<1>3. \A n \in c.visited + 1 .. Total : n \in R.over <=> ExceededLimit(c) /\ Success(n)
  BY <1>1, <1>2, RestOver
<1>4. Sound(d)
  BY <1>1, RestSound
<1> HIDE DEF R
<1>5. /\ d.go => Shown(d) = ListedOf(R)[Total]
      /\ ~d.go => EndedOf(R, d)
  BY <1>1, <1>2, <1>3, RestAdds DEF R
<1> HIDE DEF d
<1>6. CASE d.go
  <2>1. Total \in 0 .. Total
    BY <1>1, TakenFacts
  <2>2. PreOf(R, d)
    BY <1>1, <1>2, <1>5, <1>6, <2>1, OwedPreOf
  <2> QED BY <1>5, <1>6, <2>2 DEF Standing, Ending, R, d
<1>7. CASE ~d.go
  <2>1. d \in Cores
    BY <1>4 DEF Sound
  <2> QED BY <1>5, <1>7, <2>1, EndingIs DEF R, d
<1> QED BY <1>6, <1>7

\* After the search was ended the context that is left adds nothing, or the sink
\* had refused a call.
LEMMA StoppedStands ==
    ASSUME MultiPlace, UNCHANGED constant, pc' = "finish", NEW c, Sound(c), EndedOf(MultiReference, c),
           core' = RestContext([c EXCEPT !.go = TRUE])
    PROVE  Standing(pc', at', held', core', Refused')
<1> DEFINE g == [c EXCEPT !.go = TRUE]
           d == RestContext(g)
<1>1. State /\ Given /\ cfg.slice /\ shown = Total /\ stopAnswer \in Nat /\ stopAnswer' = stopAnswer
  BY MultiState, Facts DEF constant
<1>2. Firm(g) /\ g.calls = c.calls /\ g.binaryAt = c.binaryAt
  <2>1. Firm(c) /\ TRUE \in BOOLEAN /\ c \in Cores
    BY SoundFirm DEF Sound
  <2>2. g.binaryAt = c.binaryAt
    BY <2>1 DEF Cores
  <2> QED BY <2>1, <2>2, FirmGoes
<1> HIDE DEF g
<1>3. Grown(g, d)
  BY <1>1, <1>2, RestGrown
<1>4. CASE stopAnswer > 0 /\ Len(c.calls) >= stopAnswer
  <2>1. c.calls \in Seq(SinkCalls) /\ d.calls \in Seq(SinkCalls)
    BY <1>3, CoreTypes DEF Sound, Grown, Firm
  <2>2. Len(c.calls) \in Nat /\ Len(d.calls) \in Nat /\ Len(c.calls) <= Len(d.calls)
    BY <1>2, <1>3, <2>1 DEF Grown
  <2> HIDE DEF d
  <2>3. core' = d
    BY DEF d, g
  <2>4. Refused'
    BY <1>1, <1>4, <2>2, <2>3 DEF Refused
  <2> QED BY <2>4 DEF Standing
<1>5. CASE Quits /\ c.binaryAt # None
  <2>1. d.calls = c.calls
    BY <1>1, <1>2, <1>5, QuitRest DEF Quits
  <2> HIDE DEF d
  <2>2. Ending(d)
    BY <1>5, <2>1 DEF Ending, EndedOf, PreOf, Shown
  <2> QED BY <2>2 DEF Standing, d, g
<1> QED BY <1>4, <1>5 DEF EndedOf, Halted

\* MultiLine.run after its loop: the match held back, the lines behind the last
\* match of an inverted search, and the context that is left.
LEMMA LastMatchStands ==
    ASSUME MultiInv, Unlimited, Placed, Standing(pc, at, held, core, Refused), LastMatch
    PROVE  Standing(pc', at', held', core', Refused')
<1> DEFINE R == MultiReference
           n == Len(MatchList)
           c == Unmoved(core)
           sunk == IF held = None THEN c ELSE SinkHeld(c, held)
           going == [sunk EXCEPT !.go = ~sunk.panicked]
<1>1. /\ pc = "turn" /\ at = Size /\ UNCHANGED constant /\ held' = None /\ pc' = "finish"
      /\ MultiPlace /\ MultiHeld /\ Sound(core) /\ core.go /\ Turning(at, held, core)
  <2>1. at >= Size /\ at \in 0 .. Size /\ Size \in Nat
    BY SizeFacts, MultiState DEF MultiInv, LastMatch
  <2>2. at = Size
    BY <2>1
  <2> QED BY <2>2 DEF MultiInv, LastMatch, MultiRunning, Standing
<1>2. State /\ Given /\ cfg.slice /\ shown = Total /\ shown \in Nat /\ base = 0 /\ Size \in Nat /\ Total \in Nat /\ Size <= 2 * Total
      /\ Total \in 0 .. Total
  BY <1>1, MultiState, SizeFacts
<1>3. core' = RestContext(going)
  BY DEF LastMatch, RestContext
<1>4. core.count = n /\ n \in Nat
  <2>1. at >= Size
    BY <1>1, <1>2
  <2> QED BY <1>1, <1>2, <2>1, NoneLeft, ListFacts
<1>5. Sound(c) /\ c.pos = None /\ c.visited = core.visited /\ c.go /\ c.count = n /\ OwedOf(R, c.visited, c)
  BY <1>1, <1>4, UnmovedSound, UnmovedOwed DEF Turning
<1>6. Reference(R) /\ c.visited \in 0 .. Total /\ c.visited \in Int /\ R.chosen = Taken \cup AtEnd /\ (\A i \in AtEnd : i = Total + 1)
      /\ (\A i \in Taken : i \in 1 .. Total)
  <2>1. c.visited \in 0 .. Total
    BY <1>2, <1>5 DEF Sound, Ranges
  <2> QED BY <1>2, <2>1, MultiIsReference, MultiFields, TakenFacts
<1> HIDE DEF c, R
<1>7. ASSUME NEW d, Sound(d) PROVE /\ [d EXCEPT !.go = ~d.panicked] = [d EXCEPT !.go = TRUE]
                                   /\ d.go => [d EXCEPT !.go = TRUE] = d
  <2>1. ~d.panicked /\ d \in Cores
    BY <1>7 DEF Sound, Ranges
  <2>2. d.panicked \in BOOLEAN /\ d.go \in BOOLEAN
    BY <2>1, CoreTypes
  <2>3. (~d.panicked) = TRUE
    BY <2>1
  <2>4. [d EXCEPT !.go = ~d.panicked] = [d EXCEPT !.go = TRUE]
    BY <2>3
  <2>5. d.go => [d EXCEPT !.go = TRUE] = d
    BY <2>1, <2>2 DEF Cores
  <2> QED BY <2>4, <2>5
<1>8. CASE held = None
  <2>1. sunk = c /\ going = c
    BY <1>5, <1>7, <1>8
  <2>2. (\A i \in c.visited + 1 .. Total : i \notin Taken) /\ AtEnd = {}
    <3>1. CASE cfg.invert
      <4>1. FreeOf(R, c.visited, Total)
        BY <1>1, <1>5, <3>1 DEF Turning, R
      <4> QED BY <1>2, <1>6, <3>1, <4>1, FreeLines, TakenFacts DEF R
    <3>2. CASE ~cfg.invert
      <4>1. n = 0
        BY <1>1, <1>4, <1>8, <3>2 DEF Turning
      <4>2. MatchList = <<>>
        <5>1. MatchList \in Seq(file.spans)
          BY <1>2, ListFacts
        <5> QED BY <4>1, <5>1
      <4>3. \A i : i \notin Matched
        BY <1>2, <4>1, ListFacts
      <4> QED BY <3>2, <4>2, <4>3 DEF Taken, AtEnd
    <3> QED BY <3>1, <3>2
  <2>3. FreeOf(R, c.visited, Total)
    BY <1>2, <1>6, <2>2, FreeIs DEF R
  <2>4. Total + 1 \notin R.chosen
    BY <1>2, <1>6, <2>2
  <2>5. core' = RestContext(c)
    BY <1>3, <2>1
  <2> QED BY <1>1, <1>5, <2>3, <2>4, <2>5, RestStands DEF R
<1>9. CASE held # None
  <2> DEFINE s == held.start
             t == held.end
  <2>1. /\ held = Lines(s, t) /\ s \in 0 .. Total /\ t \in s .. Total /\ c.visited <= s /\ ~cfg.invert
    BY <1>1, <1>2, <1>5, <1>9 DEF MultiHeld
  <2>2. HeldIs(held, core)
    BY <1>1, <1>9 DEF Turning
  <2>3. /\ n > 0 /\ s <= Top(n) /\ t = Bottom(n) /\ s \notin Matched
        /\ (\A i \in s + 1 .. t : i \in Matched)
        /\ (s = t => s = Total) /\ FreeOf(R, c.visited, s)
    BY <1>4, <1>5, <2>2 DEF HeldIs, R
  <2>4. n \in 1 .. Len(MatchList) /\ n \in 0 .. Len(MatchList)
    BY <1>4, <2>3
  <2>5. /\ Top(n) \in 0 .. Total /\ Bottom(n) \in Top(n) .. Total /\ MatchList[n] \in file.spans
        /\ 2 * Top(n) <= MatchList[n][1] /\ MatchList[n][1] <= 2 * Top(n) + 1 /\ MatchList[n][1] \in Nat
    BY <1>2, <2>4, ListFacts
  <2>6. Last(MatchList) = MatchList[n]
    BY DEF Last
  <2>7. Taken = Matched
    BY <2>1 DEF Taken
  <2>8. sunk = SinkHeld(c, Lines(s, t))
    BY <1>9, <2>1
  <2>9. \A i \in t + 1 .. Total : i \notin Taken
    <3> TAKE i \in t + 1 .. Total
    <3>1. i \in Int /\ Bottom(n) < i
      BY <1>2, <2>1, <2>3
    <3> QED BY <1>2, <2>4, <2>7, <3>1, Clear
  <2>10. \A i \in c.visited + 1 .. s : i \in R.over <=> ExceededLimit(c) /\ Success(i)
    <3> TAKE i \in c.visited + 1 .. s
    <3>1. i \notin Matched
      BY <1>2, <1>6, <2>1, <2>3, <2>7, FreeLines DEF R
    <3>2. i \in 1 .. Top(n)
      BY <1>6, <2>1, <2>3, <2>5
    <3> QED BY <1>2, <2>1, <2>4, <3>1, <3>2, OverIs DEF R
  <2>11. s \in 0 .. shown /\ t \in s .. shown /\ s \in Int /\ t \in Int
    BY <1>2, <2>1
  <2> HIDE DEF sunk, s, t
  <2>12. Sound(sunk) /\ sunk.count = n
    BY <1>2, <1>5, <2>1, <2>8, <2>11, HeldSound
  <2>13. going = [sunk EXCEPT !.go = TRUE] /\ (sunk.go => going = sunk)
    BY <1>7, <2>12
  <2>14. CASE ~sunk.go /\ EndedOf(R, sunk)
    <3>1. core' = RestContext([sunk EXCEPT !.go = TRUE])
      BY <1>3, <2>13
    <3> QED BY <1>1, <2>12, <2>14, <3>1, StoppedStands DEF R
  <2>15. CASE s < t
    <3>1. Whole(R, s, t) /\ s + 1 \in R.chosen
      <4>1. t + 1 \notin Matched
        <5>1. t + 1 \in Int /\ Bottom(n) < t + 1
          BY <2>3, <2>11
        <5> QED BY <1>2, <2>4, <5>1, Clear
      <4>2. s + 1 \in s + 1 .. t
        BY <2>11, <2>15
      <4>3. s + 1 \in Taken
        BY <2>3, <2>7, <4>2
      <4> QED BY <1>2, <1>6, <2>1, <2>3, <2>15, <4>1, <4>3, BlockIsWhole DEF R
    <3>2. /\ sunk.go => OwedOf(R, t, sunk) /\ sunk.visited = t
          /\ ~sunk.go => EndedOf(R, sunk)
      BY <1>2, <1>5, <1>6, <2>1, <2>3, <2>8, <2>10, <2>11, <2>15, <3>1, HeldAdds
    <3>3. CASE sunk.go
      <4>1. core' = RestContext(sunk) /\ sunk.visited = t /\ OwedOf(R, sunk.visited, sunk)
        BY <1>3, <2>13, <3>2, <3>3
      <4>2. FreeOf(R, t, Total)
        BY <1>2, <2>9, <2>11, FreeIs DEF R
      <4>3. Total + 1 \notin R.chosen \/ \A k \in t + 1 .. Total : k \notin R.due
        <5> SUFFICES ASSUME Total + 1 \in R.chosen PROVE \A k \in t + 1 .. Total : k \notin R.due
          OBVIOUS
        <5>1. Total + 1 \notin Taken
          BY <1>2, <1>6
        <5>2. AtEnd # {}
          BY <1>6, <5>1
        <5>3. MatchList[n][1] = 2 * Total
          BY <2>6, <5>2 DEF AtEnd
        <5>4. t = Total
          BY <1>2, <2>3, <2>5, <5>3
        <5> QED BY <1>2, <5>4
      <4> QED BY <1>1, <2>12, <3>3, <4>1, <4>2, <4>3, RestStands DEF R
    <3> QED BY <2>14, <3>2, <3>3
  <2>16. CASE ~(s < t)
    <3> DEFINE e == Context(c, Total)
    <3>1. s = Total /\ t = Total /\ Top(n) = Total
      BY <1>2, <2>1, <2>3, <2>5, <2>11, <2>16
    <3>2. Total + 1 \in R.chosen
      <4>1. MatchList[n][1] <= Size
        BY <1>2, <2>5, SizeFacts
      <4>2. MatchList[n][1] = 2 * Total
        BY <1>2, <2>5, <3>1, <4>1
      <4>3. MatchList # <<>>
        BY <2>4
      <4>4. Total + 1 \in AtEnd
        BY <2>1, <2>6, <4>2, <4>3 DEF AtEnd
      <4> QED BY <1>6, <4>4
    <3>3. Total \in 0 .. shown /\ c.visited <= Total /\ FreeOf(R, c.visited, Total)
          /\ \A i \in c.visited + 1 .. Total : i \in R.over <=> ExceededLimit(c) /\ Success(i)
      BY <1>2, <2>1, <2>3, <2>10, <2>11, <3>1
    <3>4. Sound(e) /\ e.visited <= Total /\ e.count = n
      BY <1>2, <1>5, <3>3, ContextsSound
    <3>5. /\ e.go => /\ OwedOf(R, e.visited, e) /\ c.visited <= e.visited
                     /\ \A k \in e.visited + 1 .. Total : k \notin R.due
          /\ ~e.go => EndedOf(R, e)
      BY <1>2, <1>5, <1>6, <3>2, <3>3, ContextOwed
    <3> HIDE DEF e
    <3>6. sunk = IF ~e.go THEN e ELSE [e EXCEPT !.go = FALSE]
      BY <2>8, <3>1 DEF SinkHeld, SinkRange, Lines, e
    <3>7. CASE ~e.go
      <4>1. sunk = e
        BY <3>6, <3>7
      <4> QED BY <2>14, <3>5, <3>7, <4>1
    <3>8. CASE e.go
      <4>1. e \in Cores /\ e.go = TRUE /\ e.visited \in Int
        <5>1. e \in Cores
          BY <3>4 DEF Sound
        <5> QED BY <3>8, <5>1, CoreTypes
      <4>2. going = [[e EXCEPT !.go = FALSE] EXCEPT !.go = TRUE]
        BY <2>13, <3>6, <3>8
      <4>3. going = e
        BY <4>1, <4>2 DEF Cores
      <4>4. FreeOf(R, e.visited, Total)
        <5>1. \A i \in e.visited + 1 .. Total : i \notin Taken
          BY <1>2, <1>6, <3>3, <3>5, <3>8, <4>1, FreeLines DEF R
        <5> QED BY <1>2, <4>1, <5>1, FreeIs DEF R
      <4>5. core' = RestContext(e)
        BY <1>3, <4>3
      <4> QED BY <1>1, <3>4, <3>5, <3>8, <4>4, <4>5, RestStands DEF R
    <3> QED BY <3>7, <3>8
  <2> QED BY <2>15, <2>16
<1> QED BY <1>8, <1>9

\* Core.finish.
LEMMA MultiFinishStands ==
    ASSUME MultiInv, Unlimited, Standing(pc, at, held, core, Refused), MultiFinish
    PROVE  Standing(pc', at', held', core', Refused')
<1> DEFINE x == [kind |-> "finish", line |-> MultiCount]
           s == Append(core.calls, x)
<1>1. /\ pc = "finish" /\ pc' = "done" /\ UNCHANGED <<constant, at, held>>
      /\ MultiPlace /\ MultiOver /\ Firm(core)
  BY DEF MultiInv, MultiFinish, MultiOver
<1>2. State /\ Given /\ at \in 0 .. Size /\ Size \in Nat /\ stopAnswer' = stopAnswer /\ stopAnswer \in Nat
  BY <1>1, MultiState, SizeFacts, Facts DEF constant
<1>3. core' = [core EXCEPT !.calls = s] /\ core \in Cores
  BY <1>1 DEF MultiFinish, Firm, Ranges
<1>4. x \in SinkCalls /\ ~OfLines(x)
  <2>1. MultiCount \in Int
    BY <1>2, <1>3, CoreTypes DEF MultiCount
  <2> QED BY <2>1 DEF SinkCalls, Marks, LineKinds, OfLines
<1> HIDE DEF x
<1>5. core.calls \in Seq(SinkCalls) /\ Len(core.calls) \in Nat
  BY <1>3, CoreTypes
<1>6. LineCallsOf(s) = LineCallsOf(core.calls) /\ Len(s) = Len(core.calls) + 1
  BY <1>4, <1>5, ListingAppended, AppendOne
<1>7. s \in Seq(SinkCalls)
  BY <1>4, <1>5, AppendOne
<1> HIDE DEF s
<1>8. core'.calls = s
  BY <1>3, <1>7 DEF Cores
<1>9. Refused' = Refused
  BY <1>1, <1>2, <1>5, <1>6, <1>8 DEF Refused
<1>10. \A c, d : LineCallsOf(d.calls) = LineCallsOf(c.calls) /\ Ending(c) => Ending(d)
  BY DEF Ending, PreOf, Shown
<1>11. ~Refused => Ending(core)
  BY <1>1 DEF Standing
<1>12. ~Refused' => Ending(core')
  BY <1>6, <1>8, <1>9, <1>10, <1>11
<1> QED BY <1>1, <1>12 DEF Standing

\* All actions together.
LEMMA MultiNextStands == MultiInv /\ Reporting /\ [MultiNext]_multiVars => Reporting'
<1> SUFFICES ASSUME MultiInv, Reporting, [MultiNext]_multiVars PROVE Reporting'
  OBVIOUS
<1>1. UNCHANGED <<file, cfg, stopAnswer>>
  BY DEF MultiNext, MultiBegin, NextMatch, NextInverted, LastMatch, MultiFinish, constant, multiVars
<1>2. ASSUME Unlimited, Placed PROVE Standing(pc', at', held', core', Refused')
  <2>1. Standing(pc, at, held, core, Refused)
    BY <1>2 DEF Reporting
  <2>2. CASE MultiBegin
    BY <1>2, <2>1, <2>2, MultiBeginStands
  <2>3. CASE NextMatch
    BY <1>2, <2>1, <2>3, NextMatchStands
  <2>4. CASE NextInverted
    BY <1>2, <2>1, <2>4, NextInvertedStands
  <2>5. CASE LastMatch
    BY <1>2, <2>1, <2>5, LastMatchStands
  <2>6. CASE MultiFinish
    BY <1>2, <2>1, <2>6, MultiFinishStands
  <2>7. CASE UNCHANGED multiVars
    <3>1. UNCHANGED <<pc, at, held, core, stopAnswer>>
      BY <2>7 DEF multiVars
    <3>2. Refused' = Refused
      BY <3>1 DEF Refused
    <3> QED BY <2>1, <3>1, <3>2
  <2> QED BY <2>2, <2>3, <2>4, <2>5, <2>6, <2>7 DEF MultiNext
<1> QED BY <1>1, <1>2, StandingPrimed

\* What a multi line search reports are the lines of the matches, of their context
\* and, when asked for, all others, each once, in order, of its kind and with its
\* breaks, those of matches that touch or adjoin in one call: a part of it until
\* the search is done, all of it then unless binary data or the sink stopped it.
\* This holds although each match is held back until the next is known, and the
\* context before the next is then given behind it (MultiLine.run, sink).
THEOREM MultiReportsExact == MultiSpec => [](Unlimited /\ Placed => MultiReports)
<1>1. MultiInit => Reporting
  BY MultiInitStands
<1>2. MultiInv /\ Reporting /\ [MultiNext]_multiVars => Reporting'
  BY MultiNextStands
<1>3. MultiInv /\ Reporting /\ (Unlimited => MultiNumbered) => (Unlimited /\ Placed => MultiReports)
  <2> SUFFICES ASSUME MultiInv, Reporting, MultiNumbered, Unlimited, Placed, ~Refused
               PROVE  /\ IsPrefix(Reported, MultiExpected)
                      /\ (pc = "done" /\ ~Quit) => Reported = MultiExpected
    BY DEF MultiReports
  <2>1. Standing(pc, at, held, core, Refused)
    BY DEF Reporting
  <2>2. MultiPlace /\ pc \in {"begin", "turn", "finish", "done"} /\ MultiRunning
    BY DEF MultiInv
  <2>3. Given /\ Reference(MultiReference) /\ shown = Total /\ Total \in Nat
    BY <2>2, MultiState, MultiIsReference, TakenFacts
  <2>4. Reported = Shown(core) /\ MultiExpected = ListedOf(MultiReference)[Total] /\ Quit = Quits
    BY ExpectedIs DEF Reported, Shown, Quit, Quits
  <2>5. PreOf(MultiReference, core)
    <3>1. CASE pc = "begin"
      <4>1. Shown(core) = ListedOf(MultiReference)[0] /\ 0 \in 0 .. Total
        BY <2>1, <2>3, <3>1, NothingShown DEF Standing
      <4> QED BY <2>3, <4>1, OwedPreOf
    <3>2. CASE pc = "turn"
      <4>1. OwedOf(MultiReference, core.visited, core)
        BY <2>1, <3>2 DEF Standing, Turning
      <4>2. core.visited \in 0 .. Total
        BY <2>2, <2>3, <3>2 DEF MultiRunning, Sound, Ranges
      <4> QED BY <2>3, <4>1, <4>2, OwedPreOf DEF OwedOf
    <3>3. CASE pc \in {"finish", "done"}
      BY <2>1, <3>3 DEF Standing, Ending
    <3> QED BY <2>2, <3>1, <3>2, <3>3
  <2>6. pc = "done" /\ ~Quits => Shown(core) = ListedOf(MultiReference)[Total]
    BY <2>1 DEF Standing, Ending
  <2> QED BY <2>4, <2>5, <2>6 DEF PreOf
<1>4. MultiSpec => []Reporting
  BY <1>1, <1>2, MultiInvariant, PTL DEF MultiSpec
<1> QED BY <1>3, <1>4, MultiInvariant, MultiNumbers, PTL
=============================================================================
