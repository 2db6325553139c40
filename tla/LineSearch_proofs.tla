------------------------- MODULE LineSearch_proofs -------------------------
(***************************************************************************)
(* Proofs about the line oriented search: ranges never run backwards,      *)
(* every line that is reported comes once, in order, with its own number   *)
(* and offset, binary data is announced before it, a sink that refuses is  *)
(* obeyed, and every fill makes progress, for all files, matches,          *)
(* configurations, sinks and buffers; and, for the configurations of       *)
(* Orderly, the calls are those of the reference in LineOutput.            *)
(*                                                                         *)
(* Sound says what every method of the core keeps of the core it works on; *)
(* a lemma for each method shows that it does, for a loop over lines by    *)
(* induction (RunExists and Along). The inductive invariant, IInv, adds    *)
(* where the core stands at each place of the code; RInv adds what was     *)
(* reported by then.                                                       *)
(***************************************************************************)
EXTENDS LineOutput, SequenceTheorems, NaturalsInduction, WellFoundedInduction, FiniteSetTheorems, TLAPS

-----------------------------------------------------------------------------
(***************************************************************************)
(* Induction and recursion over an interval of the integers, for functions *)
(* that model a loop of the code: the induction is stated with a set, or   *)
(* with a family of sets, and no operator, so that it can be cited.        *)
(***************************************************************************)

\* Induction, with the set of the numbers that have the property.
LEMMA SetInduction ==
    ASSUME NEW S, 0 \in S, \A n \in Nat : n \in S => n + 1 \in S
    PROVE  Nat \subseteq S
<1> DEFINE T == Nat \ S
<1> SUFFICES ASSUME T # {} PROVE FALSE
  OBVIOUS
<1>1. OpToRel(<, Nat) = {p \in Nat \X Nat : p[1] < p[2]}
  BY Zenon DEF OpToRel
<1>2. PICK x \in T : \A y \in T : ~(<<y, x>> \in OpToRel(<, Nat))
  BY NatLessThanWellFounded, WFMin, T \subseteq Nat, Zenon
<1>3. \A y \in T : ~(y < x)
  BY <1>2, <1>1
<1>4. x # 0 /\ x - 1 \in Nat /\ x - 1 \notin T
  BY <1>3
<1> QED
  BY <1>4

\* What holds before a loop and is kept by each turn holds after every turn.
LEMMA Along ==
    ASSUME NEW a \in Int, NEW b \in Int, a <= b,
           NEW f, NEW X, f[a] \in X[a],
           \A i \in a + 1 .. b : f[i - 1] \in X[i - 1] => f[i] \in X[i]
    PROVE  \A i \in a .. b : f[i] \in X[i]
<1> DEFINE S == {n \in Nat : a + n <= b => f[a + n] \in X[a + n]}
<1>1. 0 \in S
  BY a + 0 = a
<1>2. ASSUME NEW n \in Nat, n \in S PROVE n + 1 \in S
  <2> SUFFICES ASSUME a + (n + 1) <= b PROVE f[a + (n + 1)] \in X[a + (n + 1)]
    OBVIOUS
  <2> DEFINE i == a + (n + 1)
  <2>1. i \in a + 1 .. b /\ i - 1 = a + n /\ a + n <= b
    OBVIOUS
  <2> HIDE DEF i
  <2>2. f[i - 1] \in X[i - 1]
    BY <1>2, <2>1
  <2>3. f[i] \in X[i]
    BY <2>1, <2>2
  <2> QED BY <2>3 DEF i
<1> HIDE DEF S
<1>3. Nat \subseteq S
  BY <1>1, <1>2, SetInduction
<1>4. ASSUME NEW i \in a .. b PROVE f[i] \in X[i]
  <2>1. i - a \in Nat /\ a + (i - a) = i
    OBVIOUS
  <2>2. i - a \in S
    BY <1>3, <2>1
  <2> QED BY <2>1, <2>2 DEF S
<1> QED
  BY <1>4

\* g[i] is what turn i of a loop over a + 1 .. b makes of g[i - 1].
IsLoop(g, a, b, D, c, F) ==
    g \in [a .. b -> D] /\ g[a] = c /\ \A i \in a + 1 .. b : g[i] = F[<<i, g[i - 1]>>]

\* A loop has a result: the recursive function that models it is defined.
LEMMA Recursion ==
    ASSUME NEW a \in Int, NEW b \in Int, a <= b,
           NEW D, NEW c \in D, NEW F, \A i \in a + 1 .. b, d \in D : F[<<i, d>>] \in D
    PROVE  \E g : IsLoop(g, a, b, D, c, F)
<1> DEFINE Good(m, g) == g[a] = c /\ \A i \in a + 1 .. a + m : g[i] = F[<<i, g[i - 1]>>]
           S == {m \in Nat : a + m <= b => \E g \in [a .. a + m -> D] : Good(m, g)}
<1>1. 0 \in S
  <2> DEFINE g == [i \in a .. a + 0 |-> c]
  <2>1. g \in [a .. a + 0 -> D] /\ Good(0, g)
    OBVIOUS
  <2> QED BY <2>1
<1>2. ASSUME NEW m \in Nat, m \in S PROVE m + 1 \in S
  <2> SUFFICES ASSUME a + (m + 1) <= b PROVE \E g \in [a .. a + (m + 1) -> D] : Good(m + 1, g)
    OBVIOUS
  <2>1. PICK g \in [a .. a + m -> D] : Good(m, g)
    BY <1>2
  <2> DEFINE h == [i \in a .. a + (m + 1) |-> IF i = a + (m + 1) THEN F[<<i, g[i - 1]>>] ELSE g[i]]
  <2>2. h \in [a .. a + (m + 1) -> D] /\ h[a] = c
    BY <2>1
  <2>3. \A i \in a + 1 .. a + (m + 1) : h[i] = F[<<i, h[i - 1]>>]
    BY <2>1
  <2> HIDE DEF h
  <2> QED BY <2>2, <2>3
<1> HIDE DEF S, Good
<1>3. PICK m \in Nat : m \in S /\ a + m = b /\ m = b - a
  <2>1. b - a \in Nat /\ a + (b - a) = b
    OBVIOUS
  <2>2. b - a \in S
    BY <1>1, <1>2, <2>1, SetInduction
  <2> QED BY <2>1, <2>2
<1>4. \E g \in [a .. a + m -> D] : Good(m, g)
  <2>1. a + m <= b
    BY <1>3
  <2> QED BY <2>1, <1>3 DEF S
<1>5. PICK g \in [a .. b -> D] : Good(m, g)
  BY <1>3, <1>4
<1>6. IsLoop(g, a, b, D, c, F)
  BY <1>3, <1>5 DEF IsLoop, Good
<1> QED
  BY <1>6

\* A loop whose turns lead from each member of a family of sets to the next has
\* a result, even if what a turn makes of anything else is unknown.
IsRun(g, a, b, X, c, F) ==
    /\ g = [i \in a .. b |-> g[i]] /\ g[a] = c
    /\ \A i \in a + 1 .. b : g[i - 1] \in X[i - 1] /\ g[i] = F[<<i, g[i - 1]>>]

LEMMA RunExists ==
    ASSUME NEW a \in Int, NEW b \in Int, a <= b, NEW U, NEW X, \A i \in a .. b : X[i] \subseteq U,
           NEW c \in X[a], NEW F, \A i \in a + 1 .. b : \A d \in X[i - 1] : F[<<i, d>>] \in X[i]
    PROVE  \E g : IsRun(g, a, b, X, c, F)
<1> DEFINE G == [p \in (a + 1 .. b) \X U |-> IF p[2] \in X[p[1] - 1] THEN F[<<p[1], p[2]>>] ELSE c]
<1>1. c \in U
  BY a \in a .. b
<1>2. \A i \in a + 1 .. b, d \in U : G[<<i, d>>] = IF d \in X[i - 1] THEN F[<<i, d>>] ELSE c
  OBVIOUS
<1>3. \A i \in a + 1 .. b : i \in a .. b /\ i - 1 \in a .. b
  OBVIOUS
<1> HIDE DEF G
<1>4. \A i \in a + 1 .. b, d \in U : G[<<i, d>>] \in U
  <2> TAKE i \in a + 1 .. b, d \in U
  <2>1. CASE d \in X[i - 1]
    BY <1>2, <1>3, <2>1
  <2>2. CASE d \notin X[i - 1]
    BY <1>1, <1>2, <2>2
  <2> QED BY <2>1, <2>2
<1>5. PICK g : IsLoop(g, a, b, U, c, G)
  BY <1>1, <1>4, Recursion
<1>6. g[a] \in X[a] /\ g[a] = c
  BY <1>5 DEF IsLoop
<1>7. ASSUME NEW i \in a + 1 .. b, g[i - 1] \in X[i - 1] PROVE g[i] \in X[i] /\ g[i] = F[<<i, g[i - 1]>>]
  <2>1. g[i] = G[<<i, g[i - 1]>>] /\ g[i - 1] \in U
    BY <1>3, <1>5, <1>7 DEF IsLoop
  <2> QED BY <1>2, <1>7, <2>1
<1>8. \A i \in a .. b : g[i] \in X[i]
  BY <1>6, <1>7, Along
<1>9. g = [i \in a .. b |-> g[i]]
  BY <1>5 DEF IsLoop
<1> QED BY <1>3, <1>6, <1>7, <1>8, <1>9 DEF IsRun

\* A sequence with one more element.
LEMMA AppendOne ==
    ASSUME NEW S, NEW s \in Seq(S), NEW u \in S
    PROVE  /\ Append(s, u) \in Seq(S) /\ Len(Append(s, u)) = Len(s) + 1
           /\ Append(s, u)[Len(s) + 1] = u /\ \A i \in 1 .. Len(s) : Append(s, u)[i] = s[i]
  OBVIOUS
-----------------------------------------------------------------------------
\* The calls of a sink, and the core.
Marks == [kind : {"begin", "binary", "break", "finish"}, line : Int]
LineCalls == [kind : LineKinds, line : Int, offset : Int, number : Int]
BlockCalls == [kind : {"match"}, line : Int, upto : Int, offset : Int, number : Int]
SinkCalls == Marks \cup LineCalls \cup BlockCalls

Cores == [pos : Int \cup {None}, offset : Int, binaryAt : Int \cup {None}, lineNumber : Int, counted : Int,
          visited : Int, afterLeft : Int, hasSunk : BOOLEAN, hasMatched : BOOLEAN,
          count : Int, go : BOOLEAN, panicked : BOOLEAN, calls : Seq(SinkCalls)]

\* What Numbered and BinaryAnnounced say of a sequence of calls.
NumbersMatch(s) ==
    \A k \in DOMAIN s :
        s[k].kind \in LineKinds =>
            /\ s[k].offset = s[k].line - 1 /\ s[k].number = s[k].line
            /\ \A j \in 1 .. k - 1 : s[j].kind \in LineKinds => s[j].line < s[k].line

Concerned(line) == line \in file.binary \/ (~cfg.slice /\ \E b \in file.binary : b <= line)

BinaryMarked(s) ==
    \A k \in DOMAIN s :
        LET announced == \E j \in 1 .. k - 1 : s[j].kind = "binary"
        IN /\ s[k].kind = "binary" =>
                /\ ~announced /\ s[k].line \in file.binary
                /\ ~cfg.slice => \A b \in file.binary : s[k].line <= b
           /\ s[k].kind \in LineKinds =>
                /\ Concerned(s[k].line) => announced
                /\ announced => cfg.binary = "convert"

Announced(s) == \E j \in DOMAIN s : s[j].kind = "binary"
-----------------------------------------------------------------------------
\* What every method of the core keeps.  The core is steady unless a sink
\* refused a call: a line that was refused was counted, but not visited.
Steady(c) == c.go \/ stopAnswer = 0 \/ Len(c.calls) < stopAnswer

Ranges(c) ==
    /\ c.visited \in 0 .. shown /\ c.counted \in 0 .. shown
    /\ c.afterLeft \in 0 .. cfg.after
    /\ c.binaryAt \in 1 .. Total \cup {None}
    /\ ~c.panicked

Refusal(c) ==
    (Obeyed /\ stopAnswer > 0) => Len(c.calls) <= stopAnswer /\ (c.go => Len(c.calls) < stopAnswer)

Numbers(c) ==
    Obeyed =>
        /\ c.offset = base /\ c.lineNumber = base + c.counted + 1
        /\ NumbersMatch(c.calls)
        /\ Steady(c) => c.counted <= c.visited
        /\ Steady(c) => \A k \in DOMAIN c.calls : c.calls[k].kind \in LineKinds => c.calls[k].line <= base + c.visited

Announces(c) ==
    cfg.binary # "none" =>
        /\ BinaryMarked(c.calls)
        /\ Announced(c.calls) <=> c.binaryAt # None
        /\ ~cfg.slice /\ c.binaryAt = None => \A b \in file.binary : b > base + shown
        /\ ~cfg.slice /\ c.binaryAt # None => cfg.binary = "convert"

Sound(c) == c \in Cores /\ Ranges(c) /\ Refusal(c) /\ Numbers(c) /\ Announces(c)
-----------------------------------------------------------------------------
\* The inductive invariant.
Given == file \in Files /\ cfg \in Configs /\ stopAnswer \in StopAnswers

Window ==
    /\ base \in Nat /\ shown \in Nat /\ base + shown <= Total
    /\ cfg.slice => base = 0 /\ pc # "fill"

Loop == pc \in {"begin", "fill", "slow", "fast", "fastEnd"}

Running ==
    Loop =>
        /\ Sound(core)
        /\ core.pos \in 0 .. shown
        /\ core.go \/ pc = "fastEnd"
        /\ Obeyed => core.go \/ stopAnswer = 0
        /\ pc = "begin" => core.pos = 0 /\ core.visited = 0 /\ core.calls = <<>> /\ shown = IF cfg.slice THEN Total ELSE 0
        /\ pc = "fill" => core.pos = shown
        /\ pc \in {"slow", "fast"} => core.visited <= core.pos
        /\ pc \in {"fast", "fastEnd"} => cfg.fast

Over ==
    ~Loop =>
        /\ pc \in {"finish", "done", "failed"}
        /\ core \in Cores /\ core.pos \in Int /\ ~core.panicked
        /\ core.counted \in 0 .. Total /\ core.afterLeft \in 0 .. cfg.after
        /\ core.binaryAt \in 1 .. Total \cup {None}
        /\ pc = "failed" => core.pos \in 0 .. shown /\ core.visited \in 0 .. shown
        /\ Obeyed => NumbersMatch(core.calls)
        /\ cfg.binary # "none" => BinaryMarked(core.calls)
        /\ (Obeyed /\ stopAnswer > 0) =>
                /\ pc # "done" => Len(core.calls) <= stopAnswer
                /\ Len(core.calls) > stopAnswer =>
                        Len(core.calls) = stopAnswer + 1 /\ core.calls[stopAnswer + 1].kind = "finish"

IInv == Given /\ Window /\ Running /\ Over
-----------------------------------------------------------------------------
\* What a configuration and a file are.
State ==
    /\ Given
    /\ base \in Nat /\ shown \in Nat /\ base + shown <= Total
    /\ cfg.slice => base = 0

LEMMA Facts ==
    ASSUME Given
    PROVE  /\ cfg \in Config /\ stopAnswer \in Nat
           /\ Total \in Nat /\ file.hit \in Seq(BOOLEAN) /\ file.binary \subseteq 1 .. Total
           /\ \A i \in 1 .. Total : file.hit[i] \in BOOLEAN
           /\ None \notin Int
<1>1. file.hit \in Seq(BOOLEAN) /\ file.binary \subseteq 1 .. Len(file.hit)
  BY FilesAssumption DEF Given
<1>2. cfg \in Config /\ stopAnswer \in Nat
  BY ConfigsAssumption, StopAssumption DEF Given
<1>3. Total \in Nat /\ \A i \in 1 .. Total : file.hit[i] \in BOOLEAN
  BY <1>1 DEF Total
<1> QED BY <1>1, <1>2, <1>3, NoneAssumption DEF Total

\* A call that reports no line changes nothing that is said of lines.
LEMMA MarkAppended ==
    ASSUME NEW s \in Seq(SinkCalls), NEW x \in SinkCalls, x.kind \notin LineKinds
    PROVE  /\ NumbersMatch(s) => NumbersMatch(Append(s, x))
           /\ \A b \in Int : (\A k \in DOMAIN s : s[k].kind \in LineKinds => s[k].line <= b) =>
                  (\A k \in DOMAIN Append(s, x) : Append(s, x)[k].kind \in LineKinds => Append(s, x)[k].line <= b)
           /\ x.kind # "binary" => (BinaryMarked(s) => BinaryMarked(Append(s, x)))
           /\ x.kind # "binary" => (Announced(Append(s, x)) <=> Announced(s))
<1> DEFINE t == Append(s, x)
<1>1. t \in Seq(SinkCalls) /\ Len(t) = Len(s) + 1 /\ t[Len(s) + 1] = x /\ \A i \in 1 .. Len(s) : t[i] = s[i]
  BY AppendOne
<1>2. Len(s) \in Nat /\ DOMAIN s = 1 .. Len(s) /\ DOMAIN t = 1 .. Len(s) + 1
  BY <1>1
<1> HIDE DEF t
<1>3. NumbersMatch(s) => NumbersMatch(t)
  BY <1>1, <1>2 DEF NumbersMatch
<1>4. ASSUME NEW b \in Int, \A k \in DOMAIN s : s[k].kind \in LineKinds => s[k].line <= b
      PROVE  \A k \in DOMAIN t : t[k].kind \in LineKinds => t[k].line <= b
  BY <1>1, <1>2, <1>4
<1>5. x.kind # "binary" => (BinaryMarked(s) => BinaryMarked(t))
  BY <1>1, <1>2 DEF BinaryMarked
<1>6. x.kind # "binary" => (Announced(t) <=> Announced(s))
  BY <1>1, <1>2 DEF Announced
<1> QED BY <1>3, <1>4, <1>5, <1>6 DEF t

\* The first announcement of binary data.
LEMMA BinaryAppended ==
    ASSUME NEW s \in Seq(SinkCalls), NEW x \in SinkCalls, x.kind = "binary", BinaryMarked(s), ~Announced(s),
           x.line \in file.binary, ~cfg.slice => \A b \in file.binary : x.line <= b
    PROVE  BinaryMarked(Append(s, x)) /\ Announced(Append(s, x))
<1> DEFINE t == Append(s, x)
<1>1. t \in Seq(SinkCalls) /\ Len(t) = Len(s) + 1 /\ t[Len(s) + 1] = x /\ \A i \in 1 .. Len(s) : t[i] = s[i]
  BY AppendOne
<1>2. Len(s) \in Nat /\ DOMAIN s = 1 .. Len(s) /\ DOMAIN t = 1 .. Len(s) + 1
  BY <1>1
<1> HIDE DEF t
<1>3. Announced(t)
  BY <1>1, <1>2 DEF Announced
<1>4. \A j \in 1 .. Len(s) : s[j].kind # "binary"
  BY <1>2 DEF Announced
<1>5. x.kind \notin LineKinds
  BY DEF LineKinds
<1>6. BinaryMarked(t)
  BY <1>1, <1>2, <1>4, <1>5 DEF BinaryMarked
<1> QED BY <1>3, <1>6 DEF t

\* A line, or a block of lines, is reported behind the ones before.
LEMMA LineAppended ==
    ASSUME NEW s \in Seq(SinkCalls), NEW x \in SinkCalls, x.kind \in LineKinds
    PROVE  /\ (NumbersMatch(s) /\ x.offset = x.line - 1 /\ x.number = x.line
                /\ \A k \in DOMAIN s : s[k].kind \in LineKinds => s[k].line < x.line) => NumbersMatch(Append(s, x))
           /\ \A b \in Int : (x.line <= b /\ \A k \in DOMAIN s : s[k].kind \in LineKinds => s[k].line < x.line) =>
                  (\A k \in DOMAIN Append(s, x) : Append(s, x)[k].kind \in LineKinds => Append(s, x)[k].line <= b)
           /\ (BinaryMarked(s) /\ (Concerned(x.line) => Announced(s)) /\ (Announced(s) => cfg.binary = "convert")) =>
                  BinaryMarked(Append(s, x))
           /\ Announced(Append(s, x)) <=> Announced(s)
<1> DEFINE t == Append(s, x)
<1>1. t \in Seq(SinkCalls) /\ Len(t) = Len(s) + 1 /\ t[Len(s) + 1] = x /\ \A i \in 1 .. Len(s) : t[i] = s[i]
  BY AppendOne
<1>2. Len(s) \in Nat /\ DOMAIN s = 1 .. Len(s) /\ DOMAIN t = 1 .. Len(s) + 1
  BY <1>1
<1>3. x.kind # "binary" /\ x.line \in Int /\ \A k \in DOMAIN s : s[k].line \in Int
  <2>1. \A y \in SinkCalls : y.line \in Int
    BY DEF SinkCalls, Marks, LineCalls, BlockCalls
  <2>2. \A k \in DOMAIN s : s[k] \in SinkCalls
    BY <1>2
  <2> QED BY <2>1, <2>2 DEF LineKinds
<1> HIDE DEF t
<1>4. ASSUME NumbersMatch(s), x.offset = x.line - 1, x.number = x.line,
             \A k \in DOMAIN s : s[k].kind \in LineKinds => s[k].line < x.line
      PROVE  NumbersMatch(t)
  BY <1>1, <1>2, <1>4 DEF NumbersMatch
<1>5. ASSUME NEW b \in Int, x.line <= b, \A k \in DOMAIN s : s[k].kind \in LineKinds => s[k].line < x.line
      PROVE  \A k \in DOMAIN t : t[k].kind \in LineKinds => t[k].line <= b
  BY <1>1, <1>2, <1>3, <1>5
<1>6. ASSUME BinaryMarked(s), Concerned(x.line) => Announced(s), Announced(s) => cfg.binary = "convert"
      PROVE  BinaryMarked(t)
  BY SMTT(30), <1>1, <1>2, <1>3, <1>6 DEF BinaryMarked, Announced
<1>7. Announced(t) <=> Announced(s)
  BY <1>1, <1>2, <1>3 DEF Announced
<1> QED BY <1>4, <1>5, <1>6, <1>7 DEF t
-----------------------------------------------------------------------------
\* The calls of the sink.
LEMMA CoreTypes ==
    ASSUME NEW c \in Cores
    PROVE  /\ c.pos \in Int \cup {None} /\ c.offset \in Int /\ c.binaryAt \in Int \cup {None}
           /\ c.lineNumber \in Int /\ c.counted \in Int /\ c.visited \in Int /\ c.afterLeft \in Int
           /\ c.hasSunk \in BOOLEAN /\ c.hasMatched \in BOOLEAN /\ c.count \in Int
           /\ c.go \in BOOLEAN /\ c.panicked \in BOOLEAN /\ c.calls \in Seq(SinkCalls)
  BY DEF Cores

\* Told(c, d, x): d is c after the sink was given x.
Told(c, d, x) ==
    /\ d \in Cores
    /\ d.pos = c.pos /\ d.offset = c.offset /\ d.binaryAt = c.binaryAt /\ d.lineNumber = c.lineNumber
    /\ d.counted = c.counted /\ d.visited = c.visited /\ d.afterLeft = c.afterLeft /\ d.hasSunk = c.hasSunk
    /\ d.hasMatched = c.hasMatched /\ d.count = c.count /\ d.panicked = c.panicked
    /\ d.calls = Append(c.calls, x)
    /\ d.go = (Len(c.calls) + 1 # stopAnswer)

LEMMA TellTold ==
    ASSUME NEW c \in Cores, NEW x \in SinkCalls
    PROVE  Told(c, Tell(c, x), x)
<1>1. Append(c.calls, x) \in Seq(SinkCalls)
  BY CoreTypes, AppendOne
<1> DEFINE s == Append(c.calls, x)
           g == Len(c.calls) + 1 # stopAnswer
<1>2. Tell(c, x) = [c EXCEPT !.calls = s, !.go = g]
  BY DEF Tell, Cores
<1>3. g \in BOOLEAN
  OBVIOUS
<1> HIDE DEF s, g
<1>4. s \in Seq(SinkCalls)
  BY <1>1 DEF s
<1>5. [c EXCEPT !.calls = s, !.go = g] \in Cores
  BY <1>3, <1>4 DEF Cores
<1> QED BY <1>2, <1>5 DEF Told, Cores, s, g

\* What the calls that report no line leave alone.
Kept(c, d) ==
    /\ d.pos = c.pos /\ d.count = c.count /\ d.visited = c.visited /\ d.afterLeft = c.afterLeft
    /\ d.hasMatched = c.hasMatched

LEMMA MarkTold ==
    ASSUME State, NEW c, Sound(c), c.go, NEW x \in Marks, x.kind \in {"begin", "break"}
    PROVE  Sound(Tell(c, x)) /\ Kept(c, Tell(c, x)) /\ Tell(c, x).binaryAt = c.binaryAt
<1> DEFINE d == Tell(c, x)
<1>1. Told(c, d, x)
  BY TellTold DEF Sound, SinkCalls
<1>2. c \in Cores /\ c.calls \in Seq(SinkCalls) /\ x \in SinkCalls /\ x.kind \notin LineKinds /\ x.kind # "binary"
  BY CoreTypes DEF Sound, SinkCalls, LineKinds
<1> HIDE DEF d
<1>3. Len(d.calls) = Len(c.calls) + 1 /\ Len(c.calls) \in Nat
  BY <1>1, <1>2, AppendOne DEF Told
<1>4. Ranges(d)
  BY <1>1 DEF Told, Ranges, Sound
<1>5. Refusal(d)
  <2> SUFFICES ASSUME Obeyed, stopAnswer > 0 PROVE Len(d.calls) <= stopAnswer /\ (d.go => Len(d.calls) < stopAnswer)
    BY DEF Refusal
  <2>1. Len(c.calls) < stopAnswer /\ stopAnswer \in Nat
    BY Facts DEF Refusal, Sound, State
  <2>2. d.go => Len(c.calls) + 1 # stopAnswer
    BY <1>1 DEF Told
  <2> QED BY <1>3, <2>1, <2>2
<1>6. Numbers(d)
  <2> SUFFICES ASSUME Obeyed PROVE Numbers(d)
    BY DEF Numbers
  <2>1. Numbers(c) /\ Steady(c) /\ c.visited \in Int
    BY <1>2, CoreTypes DEF Sound, Steady
  <2>2. NumbersMatch(d.calls)
    BY <1>1, <1>2, <2>1, MarkAppended DEF Told, Numbers
  <2>3. base + c.visited \in Int
    BY <2>1 DEF State
  <2>4. \A k \in DOMAIN d.calls : d.calls[k].kind \in LineKinds => d.calls[k].line <= base + c.visited
    BY <1>1, <1>2, <2>1, <2>3, MarkAppended DEF Told, Numbers
  <2> QED BY <1>1, <2>1, <2>2, <2>4 DEF Told, Numbers
<1>7. Announces(d)
  BY <1>1, <1>2, MarkAppended DEF Told, Announces, Sound
<1> QED BY <1>1, <1>4, <1>5, <1>6, <1>7 DEF Told, Sound, Kept, d

LEMMA BreakSound ==
    ASSUME State, NEW c, Sound(c), NEW start \in Int
    PROVE  LET d == BreakContext(c, start)
           IN /\ Sound(d) /\ Kept(c, d) /\ d.binaryAt = c.binaryAt
              /\ d.go => c.go
              /\ ~c.go => d = c
<1>1. CASE c.go /\ cfg.before + cfg.after > 0 /\ c.hasSunk /\ c.visited < start
  <2> DEFINE x == [kind |-> "break", line |-> base + start]
  <2>1. x \in Marks /\ x.kind \in {"begin", "break"}
    BY DEF Marks, State
  <2>2. BreakContext(c, start) = Tell(c, x)
    BY <1>1 DEF BreakContext
  <2> HIDE DEF x
  <2> QED BY <1>1, <2>1, <2>2, MarkTold
<1>2. CASE ~(c.go /\ cfg.before + cfg.after > 0 /\ c.hasSunk /\ c.visited < start)
  BY <1>2 DEF BreakContext, Kept
<1> QED BY <1>1, <1>2
\* A set of natural numbers has a least one.
LEMMA LeastNat ==
    ASSUME NEW S \in SUBSET Nat, S # {}
    PROVE  \E i \in S : \A j \in S : i <= j
<1>1. PICK i \in S : \A j \in S : ~(<<j, i>> \in OpToRel(<, Nat))
  BY NatLessThanWellFounded, WFMin, Zenon
<1>2. \A j \in S : ~(j < i)
  BY <1>1 DEF OpToRel
<1> QED BY <1>2

\* Binary data among lines from + 1 .. to is announced, if it is the first, and
\* ends the search under quit.
LEMMA DetectSound ==
    ASSUME State, NEW c, Sound(c), NEW from \in Nat, NEW to \in Nat, to <= shown
    PROVE  LET d == DetectBinary(c, from, to)
           IN /\ Sound(d) /\ Kept(c, d)
              /\ d.go => c.go
              /\ ~c.go => d = c
              /\ (d.go /\ cfg.slice /\ cfg.binary # "none") =>
                    /\ BinaryIn(from, to) # {} => Announced(d.calls)
                    /\ Announced(d.calls) => cfg.binary = "convert"
<1> DEFINE d == DetectBinary(c, from, to)
<1>0. c \in Cores /\ cfg.binary \in {"none", "quit", "convert"} /\ stopAnswer \in Nat /\ Total \in Nat /\ file.binary \subseteq 1 .. Total
  BY Facts DEF State, Sound, Config
<1>1. CASE ~c.go \/ ~cfg.slice \/ cfg.binary = "none"
  BY <1>1 DEF DetectBinary, Kept
<1>2. CASE c.go /\ cfg.slice /\ cfg.binary # "none" /\ c.binaryAt # None
  <2> DEFINE g == cfg.binary # "quit"
  <2>1. d = [c EXCEPT !.go = g] /\ g \in BOOLEAN
    BY <1>2 DEF DetectBinary
  <2>2. Announced(c.calls)
    BY <1>2 DEF Sound, Announces
  <2> HIDE DEF d
  <2>3. d \in Cores /\ d.go = g /\ d.pos = c.pos /\ d.offset = c.offset /\ d.binaryAt = c.binaryAt /\ d.lineNumber = c.lineNumber
        /\ d.counted = c.counted /\ d.visited = c.visited /\ d.afterLeft = c.afterLeft
        /\ d.hasMatched = c.hasMatched /\ d.count = c.count /\ d.panicked = c.panicked /\ d.calls = c.calls
    BY <1>0, <2>1 DEF Cores
  <2>4. Ranges(d) /\ Refusal(d)
    BY <1>2, <2>3 DEF Sound, Ranges, Refusal
  <2>5. Numbers(d) /\ Announces(d)
    BY <1>2, <2>3 DEF Sound, Numbers, Announces, Steady
  <2>6. d.go => cfg.binary = "convert"
    BY <1>0, <1>2, <2>3
  <2> QED BY <1>2, <2>2, <2>3, <2>4, <2>5, <2>6 DEF Sound, Kept, d
<1>3. CASE c.go /\ cfg.slice /\ cfg.binary # "none" /\ c.binaryAt = None /\ BinaryIn(from, to) = {}
  <2>1. d = c /\ ~Announced(c.calls)
    BY <1>3 DEF DetectBinary, Sound, Announces
  <2> QED BY <1>3, <2>1 DEF Kept
<1>4. CASE c.go /\ cfg.slice /\ cfg.binary # "none" /\ c.binaryAt = None /\ BinaryIn(from, to) # {}
  <2> DEFINE first == CHOOSE i \in BinaryIn(from, to) : \A j \in BinaryIn(from, to) : i <= j
             x == [kind |-> "binary", line |-> first]
             t == Tell(c, x)
             g == t.go /\ cfg.binary # "quit"
  <2>1. first \in BinaryIn(from, to)
    <3>1. BinaryIn(from, to) \subseteq Nat
      BY DEF BinaryIn
    <3>2. \E i \in BinaryIn(from, to) : \A j \in BinaryIn(from, to) : i <= j
      BY <1>4, <3>1, LeastNat
    <3> QED BY <3>2, Zenon
  <2> HIDE DEF first
  <2>2. base = 0 /\ first \in file.binary /\ first \in 1 .. Total
    BY <1>0, <1>4, <2>1 DEF State, BinaryIn
  <2>3. x \in Marks /\ x.kind = "binary" /\ x.line = first /\ x \in SinkCalls /\ x.kind \notin LineKinds
    BY <2>2 DEF Marks, SinkCalls, LineKinds
  <2>4. d = [t EXCEPT !.binaryAt = first, !.go = @ /\ cfg.binary # "quit"]
    BY <1>4 DEF DetectBinary, first
  <2> HIDE DEF x, d
  <2>5. Told(c, t, x)
    BY <1>0, <2>3, TellTold
  <2> HIDE DEF t
  <2>6. d = [t EXCEPT !.binaryAt = first, !.go = g] /\ g \in BOOLEAN
    BY <2>4, <2>5 DEF Told, Cores
  <2>7. (g => t.go) /\ (g => cfg.binary = "convert")
    BY <1>0, <1>4
  <2> HIDE DEF g
  <2>8. d \in Cores /\ d.go = g /\ d.pos = t.pos /\ d.offset = t.offset /\ d.binaryAt = first /\ d.lineNumber = t.lineNumber
        /\ d.counted = t.counted /\ d.visited = t.visited /\ d.afterLeft = t.afterLeft
        /\ d.hasMatched = t.hasMatched /\ d.count = t.count /\ d.panicked = t.panicked /\ d.calls = t.calls
    <3>1. first \in Int /\ g \in BOOLEAN /\ t \in Cores
      BY <1>0, <2>2, <2>5, <2>6 DEF Told
    <3> QED BY <2>6, <3>1 DEF Cores
  <2>9. Len(t.calls) = Len(c.calls) + 1 /\ Len(c.calls) \in Nat /\ c.calls \in Seq(SinkCalls)
    BY <1>0, <2>3, <2>5, CoreTypes, AppendOne DEF Told
  <2>10. Ranges(d)
    BY <2>2, <2>5, <2>8 DEF Told, Sound, Ranges
  <2>11. Refusal(d)
    <3> SUFFICES ASSUME Obeyed, stopAnswer > 0 PROVE Len(d.calls) <= stopAnswer /\ (d.go => Len(d.calls) < stopAnswer)
      BY DEF Refusal
    <3>1. Len(c.calls) < stopAnswer
      BY <1>4 DEF Refusal, Sound
    <3>2. d.go => Len(c.calls) + 1 # stopAnswer
      BY <2>5, <2>7, <2>8 DEF Told
    <3> QED BY <1>0, <2>8, <2>9, <3>1, <3>2
  <2>12. Numbers(d)
    <3> SUFFICES ASSUME Obeyed PROVE Numbers(d)
      BY DEF Numbers
    <3>1. Numbers(c) /\ Steady(c) /\ base + c.visited \in Int
      BY <1>0, <1>4, CoreTypes DEF Sound, Steady, State
    <3>2. NumbersMatch(d.calls)
      BY <2>3, <2>5, <2>8, <2>9, <3>1, MarkAppended DEF Told, Numbers
    <3>3. \A k \in DOMAIN d.calls : d.calls[k].kind \in LineKinds => d.calls[k].line <= base + c.visited
      BY <2>3, <2>5, <2>8, <2>9, <3>1, MarkAppended DEF Told, Numbers
    <3> QED BY <2>5, <2>8, <3>1, <3>2, <3>3 DEF Told, Numbers
  <2>13. BinaryMarked(d.calls) /\ Announced(d.calls)
    BY <1>4, <2>2, <2>3, <2>5, <2>8, <2>9, BinaryAppended DEF Told, Sound, Announces
  <2>14. Announces(d)
    BY <1>4, <2>2, <2>8, <2>13, Facts DEF Announces, State
  <2> QED BY <1>4, <2>5, <2>7, <2>8, <2>10, <2>11, <2>12, <2>13, <2>14 DEF Told, Sound, Kept, d
<1> QED BY <1>0, <1>1, <1>2, <1>3, <1>4, CoreTypes DEF d
\* Lines are counted up to line n, which is not behind the last one visited.
LEMMA CountSound ==
    ASSUME State, NEW c, Sound(c), NEW n \in 0 .. shown
    PROVE  LET d == CountLines(c, n)
           IN /\ d \in Cores /\ Ranges(d) /\ Refusal(d) /\ Announces(d) /\ Kept(c, d)
              /\ d.calls = c.calls /\ d.go = c.go /\ d.binaryAt = c.binaryAt /\ d.offset = c.offset
              /\ d.hasSunk = c.hasSunk /\ d.panicked = c.panicked
              /\ c.counted <= n => d.counted = n
              /\ Obeyed => d.lineNumber = base + d.counted + 1
<1> DEFINE d == CountLines(c, n)
<1>0. c \in Cores /\ c.counted \in Int /\ c.lineNumber \in Int /\ n \in Int /\ base \in Int /\ shown \in Int
  BY CoreTypes DEF Sound, State
<1>1. CASE c.counted >= n
  <2>1. d = c
    BY <1>1 DEF CountLines
  <2> QED BY <1>0, <1>1, <2>1 DEF Sound, Kept, Numbers
<1>2. CASE c.counted < n
  <2> DEFINE m == c.lineNumber + (n - c.counted)
  <2>1. d = [c EXCEPT !.lineNumber = m, !.counted = n] /\ m \in Int
    BY <1>0, <1>2 DEF CountLines, Cores
  <2>2. Obeyed => m = base + n + 1
    BY <1>0 DEF Sound, Numbers
  <2> HIDE DEF m, d
  <2>3. d \in Cores /\ d.lineNumber = m /\ d.counted = n
        /\ d.pos = c.pos /\ d.offset = c.offset /\ d.binaryAt = c.binaryAt /\ d.visited = c.visited
        /\ d.afterLeft = c.afterLeft /\ d.hasSunk = c.hasSunk /\ d.hasMatched = c.hasMatched
        /\ d.count = c.count /\ d.go = c.go /\ d.panicked = c.panicked /\ d.calls = c.calls
    BY <1>0, <2>1 DEF Cores
  <2>4. Ranges(d) /\ Refusal(d) /\ Announces(d)
    BY <2>3 DEF Sound, Ranges, Refusal, Announces
  <2> QED BY <2>2, <2>3, <2>4 DEF Kept, d
<1> QED BY <1>0, <1>1, <1>2

\* Visiting(t, e, n): e is t that visited the lines up to n.
Visiting(t, e, n) ==
    /\ e \in Cores /\ e.visited = n /\ e.afterLeft \in 0 .. cfg.after
    /\ e.offset = t.offset /\ e.binaryAt = t.binaryAt /\ e.lineNumber = t.lineNumber
    /\ e.counted = t.counted /\ e.go = t.go /\ e.panicked = t.panicked /\ e.calls = t.calls

\* Lines from i on are given to the sink, the first with its offset and number.
LEMMA LineTold ==
    ASSUME State, NEW c, Sound(c), c.go, NEW i \in 1 .. shown, NEW n \in i .. shown, c.visited < i,
           NEW x \in LineCalls \cup BlockCalls, x.line = base + i,
           Obeyed => x.offset = base + i - 1, x.number = CountLines(c, i - 1).lineNumber,
           cfg.binary # "none" => (Concerned(base + i) => Announced(c.calls)) /\ (Announced(c.calls) => cfg.binary = "convert")
    PROVE  LET t == Tell(CountLines(c, i - 1), x)
           IN /\ t \in Cores /\ Kept(c, t)
              /\ ~t.go => Sound(t)
              /\ t.go => \A e : Visiting(t, e, n) => Sound(e)
<1> DEFINE d == CountLines(c, i - 1)
           t == Tell(d, x)
<1>0. i - 1 \in 0 .. shown /\ shown \in Nat /\ base \in Nat /\ x \in SinkCalls /\ stopAnswer \in Nat /\ c \in Cores
  BY Facts DEF State, Sound, SinkCalls
<1>1. /\ d \in Cores /\ Ranges(d) /\ Refusal(d) /\ Announces(d) /\ Kept(c, d)
      /\ d.calls = c.calls /\ d.go = c.go /\ d.binaryAt = c.binaryAt /\ d.offset = c.offset /\ d.panicked = c.panicked
      /\ c.counted <= i - 1 => d.counted = i - 1
      /\ Obeyed => d.lineNumber = base + d.counted + 1
  BY <1>0, CountSound
<1> HIDE DEF d
<1>2. Told(d, t, x)
  BY <1>0, <1>1, TellTold
<1> HIDE DEF t
<1>3. Len(t.calls) = Len(c.calls) + 1 /\ Len(c.calls) \in Nat /\ c.calls \in Seq(SinkCalls) /\ x.kind \in LineKinds
      /\ c.visited \in Int /\ c.counted \in Int
  <2>1. c.calls \in Seq(SinkCalls) /\ c.visited \in Int /\ c.counted \in Int
    BY <1>0, CoreTypes
  <2>2. t.calls = Append(c.calls, x)
    BY <1>1, <1>2 DEF Told
  <2>3. Len(t.calls) = Len(c.calls) + 1
    BY <1>0, <2>1, <2>2, AppendOne
  <2>4. x.kind \in LineKinds
    BY DEF LineCalls, BlockCalls, LineKinds
  <2> QED BY <2>1, <2>3, <2>4
<1>4. Kept(c, t) /\ t \in Cores
  BY <1>1, <1>2 DEF Told, Kept
<1>5. Ranges(t)
  BY <1>1, <1>2 DEF Told, Ranges
<1>6. Refusal(t)
  <2> SUFFICES ASSUME Obeyed, stopAnswer > 0 PROVE Len(t.calls) <= stopAnswer /\ (t.go => Len(t.calls) < stopAnswer)
    BY DEF Refusal
  <2>1. Len(c.calls) < stopAnswer
    BY DEF Refusal, Sound
  <2>2. t.go => Len(c.calls) + 1 # stopAnswer
    BY <1>1, <1>2 DEF Told
  <2> QED BY <1>0, <1>3, <2>1, <2>2
<1>7. Announces(t)
  <2> SUFFICES ASSUME cfg.binary # "none" PROVE Announces(t)
    BY DEF Announces
  <2>1. BinaryMarked(t.calls) /\ (Announced(t.calls) <=> Announced(c.calls))
    BY <1>1, <1>2, <1>3, <1>0, LineAppended DEF Told, Sound, Announces
  <2> QED BY <1>1, <1>2, <2>1 DEF Told, Announces
<1>8. ASSUME Obeyed PROVE /\ NumbersMatch(t.calls) /\ t.offset = base /\ t.lineNumber = base + t.counted + 1 /\ t.counted = i - 1
                          /\ \A k \in DOMAIN t.calls : t.calls[k].kind \in LineKinds => t.calls[k].line <= base + n
  <2>1. Numbers(c) /\ Steady(c) /\ base + c.visited \in Int
    BY <1>3, <1>0 DEF Sound, Steady
  <2>2. c.counted <= i - 1 /\ \A k \in DOMAIN c.calls : c.calls[k].kind \in LineKinds => c.calls[k].line <= base + c.visited
    BY <1>8, <1>3, <2>1 DEF Numbers
  <2>3. t.counted = i - 1 /\ t.offset = base /\ t.lineNumber = base + i
    BY <1>0, <1>1, <1>2, <1>8, <2>1, <2>2 DEF Told, Numbers
  <2>4. x.number = x.line /\ x.offset = x.line - 1 /\ x.line <= base + n /\ base + n \in Int
    BY <1>0, <1>1, <1>2, <1>8, <2>3 DEF Told, d
  <2>5. \A k \in DOMAIN c.calls : c.calls[k].kind \in LineKinds => c.calls[k].line < x.line
    <3> SUFFICES ASSUME NEW k \in DOMAIN c.calls, c.calls[k].kind \in LineKinds PROVE c.calls[k].line < x.line
      OBVIOUS
    <3>1. c.calls[k] \in SinkCalls
      BY <1>3
    <3>2. c.calls[k].line \in Int
      BY <3>1 DEF SinkCalls, Marks, LineCalls, BlockCalls
    <3> QED BY SMTT(30), <1>0, <1>3, <2>2, <3>2
  <2>6. NumbersMatch(t.calls)
    BY <1>0, <1>1, <1>2, <1>3, <1>8, <2>1, <2>4, <2>5, LineAppended DEF Told, Numbers
  <2>7. \A k \in DOMAIN t.calls : t.calls[k].kind \in LineKinds => t.calls[k].line <= base + n
    BY <1>0, <1>1, <1>2, <1>3, <2>4, <2>5, LineAppended DEF Told
  <2> QED BY <1>0, <2>3, <2>6, <2>7
<1>9. ~t.go => Sound(t)
  <2> SUFFICES ASSUME ~t.go PROVE Numbers(t)
    BY <1>4, <1>5, <1>6, <1>7 DEF Sound
  <2>1. ~Steady(t)
    <3>1. t.go = (Len(c.calls) + 1 # stopAnswer)
      BY <1>1, <1>2 DEF Told
    <3>2. Len(c.calls) + 1 = stopAnswer
      BY <3>1
    <3>3. stopAnswer # 0 /\ Len(t.calls) = stopAnswer
      BY <1>3, <3>2
    <3> QED BY <1>0, <3>3 DEF Steady
  <2> QED BY <1>8, <2>1 DEF Numbers
<1>10. ASSUME NEW e, Visiting(t, e, n), t.go PROVE Sound(e)
  <2>1. Ranges(e)
    BY <1>0, <1>5, <1>10 DEF Ranges, Visiting
  <2>2. Refusal(e) /\ Announces(e)
    BY <1>6, <1>7, <1>10 DEF Refusal, Announces, Visiting
  <2>3. Numbers(e)
    BY <1>0, <1>8, <1>10 DEF Numbers, Visiting
  <2> QED BY <1>10, <2>1, <2>2, <2>3 DEF Sound, Visiting
<1> QED BY <1>4, <1>9, <1>10 DEF t, d
\* After detect_binary a line, or a block that begins with it, may be reported.
LEMMA Examined ==
    ASSUME State, NEW c, Sound(c), NEW i \in 1 .. shown, NEW n \in i .. shown,
           NEW b, Sound(b), b.go, b.binaryAt = DetectBinary(c, i - 1, n).binaryAt, DetectBinary(c, i - 1, n).go,
           cfg.binary # "none"
    PROVE  (Concerned(base + i) => Announced(b.calls)) /\ (Announced(b.calls) => cfg.binary = "convert")
<1> DEFINE d == DetectBinary(c, i - 1, n)
<1>0. i - 1 \in Nat /\ n \in Nat /\ n <= shown /\ shown \in Nat /\ base \in Nat /\ file.binary \subseteq Nat /\ i \in Nat /\ cfg.slice \in BOOLEAN
  BY Facts DEF State, Config
<1>1. Sound(d) /\ ((d.go /\ cfg.slice /\ cfg.binary # "none") =>
                    /\ BinaryIn(i - 1, n) # {} => Announced(d.calls)
                    /\ Announced(d.calls) => cfg.binary = "convert")
  BY <1>0, DetectSound
<1> HIDE DEF d
<1>2. Announced(b.calls) <=> Announced(d.calls)
  BY <1>1 DEF Sound, Announces, d
<1>3. CASE cfg.slice
  <2>1. Concerned(base + i) => i \in BinaryIn(i - 1, n)
    BY <1>0, <1>3 DEF Concerned, BinaryIn
  <2> QED BY <1>1, <1>2, <1>3, <2>1 DEF d
<1>4. CASE ~cfg.slice
  <2>1. Concerned(base + i) => \E l \in file.binary : l <= base + i
    BY <1>0 DEF Concerned
  <2>2. Announces(b) /\ (Announced(b.calls) <=> b.binaryAt # None)
    BY DEF Sound, Announces
  <2>3. ASSUME Concerned(base + i), b.binaryAt = None PROVE FALSE
    <3>1. PICK l \in file.binary : l <= base + i
      BY <2>1, <2>3
    <3>2. l > base + shown
      BY <1>4, <2>2, <2>3, <3>1 DEF Announces
    <3> QED BY <1>0, <3>1, <3>2
  <2> QED BY <1>4, <2>2, <2>3 DEF Announces
<1> QED BY <1>3, <1>4

\* sink_matched.
LEMMA MatchedSound ==
    ASSUME State, NEW c, Sound(c), NEW i \in 1 .. shown, c.visited < i
    PROVE  LET d == SinkMatched(c, i)
           IN /\ Sound(d) /\ d.pos = c.pos /\ d.count = c.count /\ d.hasMatched = c.hasMatched
              /\ d.go => c.go /\ d.visited = i
              /\ ~d.go => d.visited = c.visited
<1> DEFINE e == DetectBinary(c, i - 1, i)
           b == BreakContext(e, i - 1)
           m == CountLines(b, i - 1)
           x == [kind |-> "match", line |-> base + i, offset |-> m.offset + i - 1, number |-> m.lineNumber]
           t == Tell(m, x)
           a == cfg.after
           d == SinkMatched(c, i)
<1>0. i - 1 \in Nat /\ i \in Nat /\ i <= shown /\ i \in i .. shown /\ i - 1 \in Int /\ base \in Nat /\ shown \in Nat /\ i - 1 \in 0 .. shown
      /\ a \in Nat
  BY Facts DEF State, Config
<1>1. Sound(e) /\ Kept(c, e) /\ (e.go => c.go) /\ (~c.go => e = c)
  BY <1>0, DetectSound
<1> HIDE DEF e
<1>2. Sound(b) /\ Kept(e, b) /\ b.binaryAt = e.binaryAt /\ (b.go => e.go) /\ (~e.go => b = e)
  BY <1>0, <1>1, BreakSound
<1>3. SinkMatched(c, i) = LET r == IF ~b.go THEN b ELSE t
                          IN IF r.go THEN [r EXCEPT !.visited = i, !.afterLeft = a, !.hasSunk = TRUE] ELSE r
  BY DEF SinkMatched, Report, e
<1> HIDE DEF b, d
<1>4. CASE ~b.go
  BY <1>1, <1>2, <1>3, <1>4 DEF Kept, d
<1>5. CASE b.go
  <2>1. m \in Cores /\ m.offset = b.offset /\ m.lineNumber \in Int /\ m.offset \in Int
    BY <1>0, <1>2, CountSound, CoreTypes
  <2> HIDE DEF m
  <2>2. x \in LineCalls
    BY <1>0, <2>1 DEF LineCalls, LineKinds
  <2>3. x.line = base + i /\ (Obeyed => x.offset = base + i - 1) /\ x.number = m.lineNumber
    BY <1>0, <1>2, <2>1 DEF Sound, Numbers
  <2>4. cfg.binary # "none" => (Concerned(base + i) => Announced(b.calls)) /\ (Announced(b.calls) => cfg.binary = "convert")
    BY <1>0, <1>2, <1>5, Examined DEF e
  <2>5. b.visited < i
    BY <1>1, <1>2 DEF Kept
  <2> HIDE DEF x
  <2>6. t \in Cores /\ Kept(b, t) /\ (~t.go => Sound(t)) /\ (t.go => \A f : Visiting(t, f, i) => Sound(f))
    BY <1>0, <1>2, <1>5, <2>2, <2>3, <2>4, <2>5, LineTold DEF m
  <2> HIDE DEF t
  <2>7. CASE ~t.go
    BY <1>1, <1>2, <1>3, <1>5, <2>6, <2>7 DEF Kept, d
  <2>8. CASE t.go
    <3>1. d = [t EXCEPT !.visited = i, !.afterLeft = a, !.hasSunk = TRUE]
      BY <1>3, <1>5, <2>8 DEF d
    <3> HIDE DEF a
    <3>2. d \in Cores /\ d.visited = i /\ d.afterLeft = a /\ d.go = t.go /\ d.pos = t.pos /\ d.count = t.count /\ d.hasMatched = t.hasMatched
          /\ d.offset = t.offset /\ d.binaryAt = t.binaryAt /\ d.lineNumber = t.lineNumber
          /\ d.counted = t.counted /\ d.panicked = t.panicked /\ d.calls = t.calls
      <4>1. a \in Int /\ i \in Int
        BY <1>0 DEF a
      <4>2. t \in Cores
        BY <2>6
      <4> QED BY <3>1, <4>1, <4>2 DEF Cores
    <3>3. Visiting(t, d, i)
      BY <1>0, <3>2 DEF Visiting, a
    <3> QED BY <1>1, <1>2, <1>5, <2>6, <2>8, <3>2, <3>3 DEF Kept, d
  <2> QED BY <2>7, <2>8
<1> QED BY <1>4, <1>5 DEF d

\* sink_before_context, sink_after_context and sink_other_context.
LEMMA ContextSound ==
    ASSUME State, NEW c, Sound(c), NEW i \in 1 .. shown, c.visited < i,
           NEW kind \in {"before", "after", "other"}, kind = "after" => c.afterLeft >= 1
    PROVE  LET d == SinkContext(c, i, kind)
           IN /\ Sound(d) /\ d.pos = c.pos /\ d.count = c.count /\ d.hasMatched = c.hasMatched
              /\ d.go => c.go /\ d.visited = i
              /\ ~d.go => d.visited = c.visited
<1> DEFINE b == DetectBinary(c, i - 1, i)
           m == CountLines(b, i - 1)
           x == [kind |-> kind, line |-> base + i, offset |-> m.offset + i - 1, number |-> m.lineNumber]
           t == Tell(m, x)
           d == SinkContext(c, i, kind)
<1>0. i - 1 \in Nat /\ i \in Nat /\ i <= shown /\ i \in i .. shown /\ i - 1 \in Int /\ base \in Nat /\ shown \in Nat /\ i - 1 \in 0 .. shown
      /\ cfg.after \in Nat
  BY Facts DEF State, Config
<1>1. Sound(b) /\ Kept(c, b) /\ (b.go => c.go) /\ (~c.go => b = c)
  BY <1>0, DetectSound
<1>3. SinkContext(c, i, kind) = LET r == IF ~b.go THEN b ELSE t
                                IN IF r.go
                                   THEN [r EXCEPT !.visited = i, !.hasSunk = TRUE, !.afterLeft = IF kind = "after" THEN @ - 1 ELSE @]
                                   ELSE r
  BY DEF SinkContext, Report
<1> HIDE DEF d, b
<1>4. CASE ~b.go
  BY <1>1, <1>3, <1>4 DEF Kept, d
<1>5. CASE b.go
  <2>1. m \in Cores /\ m.offset = b.offset /\ m.lineNumber \in Int /\ m.offset \in Int
    BY <1>0, <1>1, CountSound, CoreTypes
  <2> HIDE DEF m
  <2>2. x \in LineCalls
    BY <1>0, <2>1 DEF LineCalls, LineKinds
  <2>3. x.line = base + i /\ (Obeyed => x.offset = base + i - 1) /\ x.number = m.lineNumber
    BY <1>0, <1>1, <2>1 DEF Sound, Numbers
  <2>4. cfg.binary # "none" => (Concerned(base + i) => Announced(b.calls)) /\ (Announced(b.calls) => cfg.binary = "convert")
    BY <1>0, <1>1, <1>5, Examined DEF b
  <2>5. b.visited < i
    BY <1>1 DEF Kept
  <2> HIDE DEF x
  <2>6. t \in Cores /\ Kept(b, t) /\ (~t.go => Sound(t)) /\ (t.go => \A f : Visiting(t, f, i) => Sound(f))
    BY <1>0, <1>1, <1>5, <2>2, <2>3, <2>4, <2>5, LineTold DEF m
  <2> HIDE DEF t
  <2>7. CASE ~t.go
    BY <1>1, <1>3, <1>5, <2>6, <2>7 DEF Kept, d
  <2>8. CASE t.go
    <3> DEFINE a == IF kind = "after" THEN t.afterLeft - 1 ELSE t.afterLeft
    <3>1. d = [t EXCEPT !.visited = i, !.hasSunk = TRUE, !.afterLeft = a]
      BY <1>3, <1>5, <2>6, <2>8 DEF d, Cores
    <3>0. a \in 0 .. cfg.after
      BY <1>0, <1>1, <2>6 DEF Kept, Sound, Ranges
    <3> HIDE DEF a
    <3>2. d \in Cores /\ d.visited = i /\ d.afterLeft = a /\ d.go = t.go /\ d.pos = t.pos /\ d.count = t.count /\ d.hasMatched = t.hasMatched
          /\ d.offset = t.offset /\ d.binaryAt = t.binaryAt /\ d.lineNumber = t.lineNumber
          /\ d.counted = t.counted /\ d.panicked = t.panicked /\ d.calls = t.calls
      <4>1. a \in Int /\ i \in Int
        BY <1>0, <3>0
      <4>2. t \in Cores
        BY <2>6
      <4> QED BY <3>1, <4>1, <4>2 DEF Cores
    <3>3. Visiting(t, d, i)
      BY <3>0, <3>2 DEF Visiting
    <3> QED BY <1>1, <1>5, <2>6, <2>8, <3>2, <3>3 DEF Kept, d
  <2> QED BY <2>7, <2>8
<1> QED BY <1>4, <1>5 DEF d
-----------------------------------------------------------------------------
\* The loops of the core over lines.

\* d is the core after some loop began with c: what the callers rely on.
Onward(c, d) == d.count = c.count /\ d.hasMatched = c.hasMatched /\ (d.go => c.go)

LEMMA CheckedSound ==
    ASSUME NEW c, NEW from \in Int, NEW upto \in Int, from <= upto
    PROVE  Checked(c, from, upto) = c
  BY DEF Checked

\* before_context_by_line.
LEMMA BeforeSound ==
    ASSUME State, NEW c, Sound(c), NEW upto \in 0 .. shown, c.visited <= upto
    PROVE  LET d == BeforeContext(c, upto)
           IN Sound(d) /\ Onward(c, d) /\ d.pos = c.pos /\ d.visited <= upto
<1> DEFINE start == IF upto - cfg.before > c.visited THEN upto - cfg.before ELSE c.visited
           Sink(d, i) == SinkContext(BreakContext(d, i - 1), i, "before")
           P(d, i) == Sound(d) /\ Onward(c, d) /\ d.pos = c.pos /\ d.visited <= i
<1>0. c \in Cores /\ c.visited \in 0 .. shown /\ shown \in Nat /\ cfg.before \in Nat
  BY Facts DEF Sound, State, Config, Ranges
<1>1. CASE ~c.go \/ cfg.before = 0
  BY <1>1 DEF BeforeContext, Onward
<1>2. CASE c.go /\ cfg.before # 0
  <2>1. start \in c.visited .. upto
    BY <1>0
  <2>2. BeforeContext(c, upto) = ForLines(Sink, Checked(c, start, upto), start, upto)
    BY <1>2 DEF BeforeContext
  <2> HIDE DEF start
  <2>3. PICK a \in 0 .. shown : a = start /\ c.visited <= a /\ a <= upto
    BY <1>0, <2>1
  <2>4. Checked(c, a, upto) = c
    BY <1>0, <2>3, CheckedSound
  <2> DEFINE Turns(f) == [i \in a .. upto |-> IF i = a THEN c ELSE Sink(f[i - 1], i)]
             rec == CHOOSE f : f = Turns(f)
             X == [i \in a .. upto |-> {d \in Cores : P(d, i)}]
             F == [p \in (a + 1 .. upto) \X Cores |-> Sink(p[2], p[1])]
  <2>5. BeforeContext(c, upto) = rec[upto]
    BY <2>2, <2>3, <2>4 DEF ForLines
  <2>6. ASSUME NEW i \in a + 1 .. upto, NEW d, P(d, i - 1) PROVE P(Sink(d, i), i)
    <3>0. i \in 1 .. shown /\ i - 1 \in Int /\ d.visited \in Int /\ d.visited < i
      BY <1>0, <2>3, <2>6, CoreTypes DEF Sound
    <3>1. Sound(BreakContext(d, i - 1)) /\ Kept(d, BreakContext(d, i - 1)) /\ (BreakContext(d, i - 1).go => d.go)
      BY <2>6, <3>0, BreakSound
    <3> DEFINE b == BreakContext(d, i - 1)
    <3> HIDE DEF b
    <3>2. Sound(b) /\ Kept(d, b) /\ (b.go => d.go) /\ Sink(d, i) = SinkContext(b, i, "before")
      BY <3>1 DEF b
    <3> DEFINE e == SinkContext(b, i, "before")
    <3>3. /\ Sound(e) /\ e.pos = b.pos /\ e.count = b.count /\ e.hasMatched = b.hasMatched
          /\ e.go => b.go /\ e.visited = i
          /\ ~e.go => e.visited = b.visited
      BY <3>0, <3>2, ContextSound DEF Kept
    <3> HIDE DEF e
    <3>4. P(e, i)
      BY <2>6, <3>0, <3>2, <3>3 DEF Kept, Onward
    <3> QED BY <3>2, <3>4 DEF e
  <2> HIDE DEF P, Sink
  <2>7. \A i \in a .. upto : X[i] = {d \in Cores : P(d, i)}
    OBVIOUS
  <2>8. \A d, i : P(d, i) => d \in Cores
    BY DEF P, Sound
  <2>9. a \in Int /\ upto \in Int /\ a <= upto /\ a \in a .. upto /\ upto \in a .. upto /\ \A i \in a + 1 .. upto : i \in a .. upto /\ i - 1 \in a .. upto
    BY <2>3
  <2>10. \A i \in a + 1 .. upto : \A d \in Cores : F[<<i, d>>] = Sink(d, i)
    OBVIOUS
  <2> HIDE DEF X, F
  <2>11. c \in X[a]
    BY <1>0, <2>3, <2>7, <2>9 DEF P, Onward
  <2>12. \A i \in a + 1 .. upto : \A d \in X[i - 1] : Sink(d, i) \in X[i]
    BY <2>6, <2>7, <2>8, <2>9
  <2>13. \A i \in a .. upto : X[i] \subseteq Cores
    BY <2>7
  <2>14. \A i \in a + 1 .. upto : \A d \in X[i - 1] : F[<<i, d>>] \in X[i]
    BY <2>9, <2>10, <2>12, <2>13
  <2>15. PICK g : IsRun(g, a, upto, X, c, F)
    BY <2>9, <2>11, <2>13, <2>14, RunExists
  <2>16. g = Turns(g)
    <3>1. \A i \in a + 1 .. upto : g[i] = Sink(g[i - 1], i)
      BY <2>9, <2>10, <2>13, <2>15 DEF IsRun
    <3>2. \A i \in a .. upto : g[i] = IF i = a THEN c ELSE Sink(g[i - 1], i)
      <4> TAKE i \in a .. upto
      <4>1. g[a] = c
        BY <2>15 DEF IsRun
      <4>2. i # a => i \in a + 1 .. upto
        BY <2>9
      <4> QED BY <3>1, <4>1, <4>2
    <3>3. g = [i \in a .. upto |-> g[i]]
      BY <2>15 DEF IsRun
    <3> QED BY <3>2, <3>3
  <2>17. rec = Turns(rec)
    BY <2>16, Zenon
  <2> HIDE DEF rec
  <2>18. rec[a] \in X[a] /\ \A i \in a + 1 .. upto : rec[i] = Sink(rec[i - 1], i)
    BY <2>9, <2>11, <2>17
  <2>19. \A i \in a + 1 .. upto : rec[i - 1] \in X[i - 1] => rec[i] \in X[i]
    BY <2>12, <2>18
  <2>20. \A i \in a .. upto : rec[i] \in X[i]
    BY <2>9, <2>18, <2>19, Along
  <2>21. P(rec[upto], upto)
    BY <2>7, <2>9, <2>20
  <2> QED BY <2>5, <2>21 DEF P
<1> QED BY <1>0, <1>1, <1>2, CoreTypes
\* Position and counters of matches are nothing that Sound speaks of.
Alike(c, e) ==
    /\ e \in Cores /\ e.visited = c.visited /\ e.counted = c.counted /\ e.afterLeft = c.afterLeft
    /\ e.binaryAt = c.binaryAt /\ e.panicked = c.panicked /\ e.calls = c.calls /\ e.go = c.go
    /\ e.offset = c.offset /\ e.lineNumber = c.lineNumber

LEMMA AlikeSound ==
    ASSUME NEW c, Sound(c), NEW e, Alike(c, e)
    PROVE  Sound(e)
<1>1. Ranges(e) /\ Refusal(e)
  BY DEF Sound, Alike, Ranges, Refusal
<1>2. Numbers(e) /\ Announces(e)
  BY DEF Sound, Alike, Numbers, Announces, Steady
<1> QED BY <1>1, <1>2 DEF Sound, Alike

LEMMA PosAlike ==
    ASSUME NEW c \in Cores, NEW p \in Int \cup {None}
    PROVE  LET e == [c EXCEPT !.pos = p]
           IN Alike(c, e) /\ e.pos = p /\ e.count = c.count /\ e.hasMatched = c.hasMatched /\ e.hasSunk = c.hasSunk
  BY DEF Alike, Cores

LEMMA LeftSound ==
    ASSUME NEW c, Sound(c), NEW a \in 0 .. cfg.after, State
    PROVE  LET e == [c EXCEPT !.afterLeft = a]
           IN Sound(e) /\ e.pos = c.pos /\ e.count = c.count /\ e.hasMatched = c.hasMatched /\ e.go = c.go /\ e.visited = c.visited
<1> DEFINE e == [c EXCEPT !.afterLeft = a]
<1>1. a \in Int /\ c \in Cores
  BY Facts DEF Sound, State, Config
<1>2. /\ e \in Cores /\ e.visited = c.visited /\ e.counted = c.counted /\ e.afterLeft = a
      /\ e.binaryAt = c.binaryAt /\ e.panicked = c.panicked /\ e.calls = c.calls /\ e.go = c.go
      /\ e.offset = c.offset /\ e.lineNumber = c.lineNumber
      /\ e.pos = c.pos /\ e.count = c.count /\ e.hasMatched = c.hasMatched
  BY <1>1 DEF Cores
<1> HIDE DEF e
<1>3. Ranges(e) /\ Refusal(e)
  BY <1>2 DEF Sound, Ranges, Refusal
<1>4. Numbers(e) /\ Announces(e)
  BY <1>2 DEF Sound, Numbers, Announces, Steady
<1> QED BY <1>2, <1>3, <1>4 DEF Sound, e

\* One line after a match: as context, or as a match beyond the limit.
AfterLine(c, d, i) ==
    IF ~d.go \/ d.afterLeft = 0 THEN d
    ELSE IF ExceededLimit(c) /\ Hit(i) # cfg.invert
    THEN LET e == SinkMatched([d EXCEPT !.pos = i], i)
         IN IF e.go THEN [e EXCEPT !.afterLeft = d.afterLeft - 1] ELSE e
    ELSE SinkContext(d, i, "after")

LEMMA AfterLineSound ==
    ASSUME State, NEW c, NEW d, Sound(d), NEW i \in 1 .. shown, d.visited < i
    PROVE  LET e == AfterLine(c, d, i)
           IN /\ Sound(e) /\ Onward(d, e) /\ e.visited <= i
              /\ e.pos = d.pos \/ (ExceededLimit(c) /\ e.pos = i)
<1> DEFINE r == AfterLine(c, d, i)
<1>0. d \in Cores /\ i \in Int /\ i \in Int \cup {None} /\ d.visited \in Int /\ d.afterLeft \in 0 .. cfg.after /\ cfg.after \in Nat
  BY CoreTypes, Facts DEF Sound, State, Ranges, Config
<1>1. CASE ~d.go \/ d.afterLeft = 0
  BY <1>0, <1>1 DEF AfterLine, Onward
<1>2. CASE d.go /\ d.afterLeft # 0 /\ ExceededLimit(c) /\ Hit(i) # cfg.invert
  <2> DEFINE m == [d EXCEPT !.pos = i]
  <2>1. Alike(d, m) /\ m.pos = i /\ m.count = d.count /\ m.hasMatched = d.hasMatched
    BY <1>0, PosAlike
  <2> HIDE DEF m
  <2>2. Sound(m) /\ m.visited < i /\ m.go = d.go
    BY <2>1, AlikeSound DEF Alike
  <2> DEFINE e == SinkMatched(m, i)
  <2>3. Sound(e) /\ e.pos = m.pos /\ e.count = m.count /\ e.hasMatched = m.hasMatched /\ (e.go => m.go /\ e.visited = i)
        /\ (~e.go => e.visited = m.visited)
    BY <2>2, MatchedSound
  <2>4. r = IF e.go THEN [e EXCEPT !.afterLeft = d.afterLeft - 1] ELSE e
    BY <1>2 DEF AfterLine, m
  <2> HIDE DEF e, r
  <2>5. CASE e.go
    <3> DEFINE a == d.afterLeft - 1
    <3>1. a \in 0 .. cfg.after
      BY <1>0, <1>2
    <3>2. r = [e EXCEPT !.afterLeft = a]
      BY <2>4, <2>5
    <3> HIDE DEF a
    <3>3. Sound(r) /\ r.pos = e.pos /\ r.count = e.count /\ r.hasMatched = e.hasMatched /\ r.go = e.go /\ r.visited = e.visited
      BY <2>3, <3>1, <3>2, LeftSound
    <3>4. r.visited = i /\ r.pos = i /\ Onward(d, r)
      BY <1>2, <2>1, <2>3, <2>5, <3>3 DEF Onward
    <3> QED BY <1>0, <1>2, <3>3, <3>4 DEF r
  <2>6. CASE ~e.go
    <3>1. r = e /\ r.visited = d.visited /\ r.pos = i /\ Onward(d, r)
      BY <1>2, <2>1, <2>3, <2>4, <2>6 DEF Onward, Alike
    <3> QED BY <1>0, <1>2, <2>3, <3>1 DEF r
  <2> QED BY <2>5, <2>6
<1>3. CASE d.go /\ d.afterLeft # 0 /\ ~(ExceededLimit(c) /\ Hit(i) # cfg.invert)
  <2>1. r = SinkContext(d, i, "after") /\ d.afterLeft >= 1
    BY <1>0, <1>3 DEF AfterLine
  <2> HIDE DEF r
  <2>2. /\ Sound(r) /\ r.pos = d.pos /\ r.count = d.count /\ r.hasMatched = d.hasMatched
        /\ r.go => d.go /\ r.visited = i
        /\ ~r.go => r.visited = d.visited
    BY <2>1, ContextSound
  <2> QED BY <1>0, <2>2 DEF Onward, r
<1> QED BY <1>1, <1>2, <1>3

\* after_context_by_line.
LEMMA AfterSound ==
    ASSUME State, NEW c, Sound(c), NEW upto \in 0 .. shown, c.afterLeft > 0 => c.visited <= upto
    PROVE  LET d == AfterContext(c, upto)
           IN /\ Sound(d) /\ Onward(c, d)
              /\ d.visited <= upto \/ d = c
              /\ d.pos = c.pos \/ (ExceededLimit(c) /\ d.pos \in 1 .. upto)
<1> DEFINE P(d, i) == /\ Sound(d) /\ Onward(c, d) /\ d.visited <= i
                      /\ d.pos = c.pos \/ (ExceededLimit(c) /\ d.pos \in 1 .. upto)
           Sink(d, i) == AfterLine(c, d, i)
<1>0. c \in Cores /\ c.visited \in 0 .. shown /\ shown \in Nat /\ c.afterLeft \in Nat
  BY Facts DEF Sound, State, Config, Ranges
<1>1. CASE ~c.go \/ c.afterLeft = 0
  BY <1>1 DEF AfterContext, Onward
<1>2. CASE c.go /\ c.afterLeft # 0
  <2>3. PICK a \in 0 .. shown : a = c.visited /\ a <= upto
    BY <1>0, <1>2
  <2>4. Checked(c, a, upto) = c
    BY <1>0, <2>3, CheckedSound
  <2> DEFINE Turns(f) == [i \in a .. upto |-> IF i = a THEN c ELSE Sink(f[i - 1], i)]
             rec == CHOOSE f : f = Turns(f)
             X == [i \in a .. upto |-> {d \in Cores : P(d, i)}]
             F == [p \in (a + 1 .. upto) \X Cores |-> Sink(p[2], p[1])]
  <2>5. AfterContext(c, upto) = rec[upto]
    BY <1>2, <2>3, <2>4 DEF ForLines, AfterContext, AfterLine
  <2>6. ASSUME NEW i \in a + 1 .. upto, NEW d, P(d, i - 1) PROVE P(Sink(d, i), i)
    <3>0. i \in 1 .. shown /\ i \in 1 .. upto /\ d.visited \in Int /\ d.visited < i
      BY <1>0, <2>3, <2>6, CoreTypes DEF Sound
    <3> DEFINE e == AfterLine(c, d, i)
    <3>1. /\ Sound(e) /\ Onward(d, e) /\ e.visited <= i
          /\ e.pos = d.pos \/ (ExceededLimit(c) /\ e.pos = i)
      BY <2>6, <3>0, AfterLineSound
    <3> HIDE DEF e
    <3>2. P(e, i)
      BY <2>6, <3>0, <3>1 DEF Onward
    <3> QED BY <3>2 DEF e
  <2> HIDE DEF P, Sink
  <2>7. \A i \in a .. upto : X[i] = {d \in Cores : P(d, i)}
    OBVIOUS
  <2>8. \A d, i : P(d, i) => d \in Cores
    BY DEF P, Sound
  <2>9. a \in Int /\ upto \in Int /\ a <= upto /\ a \in a .. upto /\ upto \in a .. upto /\ \A i \in a + 1 .. upto : i \in a .. upto /\ i - 1 \in a .. upto
    BY <2>3
  <2>10. \A i \in a + 1 .. upto : \A d \in Cores : F[<<i, d>>] = Sink(d, i)
    OBVIOUS
  <2> HIDE DEF X, F
  <2>11. c \in X[a]
    BY <1>0, <2>3, <2>7, <2>9 DEF P, Onward
  <2>12. \A i \in a + 1 .. upto : \A d \in X[i - 1] : Sink(d, i) \in X[i]
    BY <2>6, <2>7, <2>8, <2>9
  <2>13. \A i \in a .. upto : X[i] \subseteq Cores
    BY <2>7
  <2>14. \A i \in a + 1 .. upto : \A d \in X[i - 1] : F[<<i, d>>] \in X[i]
    BY <2>9, <2>10, <2>12, <2>13
  <2>15. PICK g : IsRun(g, a, upto, X, c, F)
    BY <2>9, <2>11, <2>13, <2>14, RunExists
  <2>16. g = Turns(g)
    <3>1. \A i \in a + 1 .. upto : g[i] = Sink(g[i - 1], i)
      BY <2>9, <2>10, <2>13, <2>15 DEF IsRun
    <3>2. \A i \in a .. upto : g[i] = IF i = a THEN c ELSE Sink(g[i - 1], i)
      <4> TAKE i \in a .. upto
      <4>1. g[a] = c
        BY <2>15 DEF IsRun
      <4>2. i # a => i \in a + 1 .. upto
        BY <2>9
      <4> QED BY <3>1, <4>1, <4>2
    <3>3. g = [i \in a .. upto |-> g[i]]
      BY <2>15 DEF IsRun
    <3> QED BY <3>2, <3>3
  <2>17. rec = Turns(rec)
    BY <2>16, Zenon
  <2> HIDE DEF rec
  <2>18. rec[a] \in X[a] /\ \A i \in a + 1 .. upto : rec[i] = Sink(rec[i - 1], i)
    BY <2>9, <2>11, <2>17
  <2>19. \A i \in a + 1 .. upto : rec[i - 1] \in X[i - 1] => rec[i] \in X[i]
    BY <2>12, <2>18
  <2>20. \A i \in a .. upto : rec[i] \in X[i]
    BY <2>9, <2>18, <2>19, Along
  <2>21. P(rec[upto], upto)
    BY <2>7, <2>9, <2>20
  <2> QED BY <2>5, <2>21 DEF P
<1> QED BY <1>0, <1>1, <1>2, CoreTypes
\* A loop or a search is ended, or goes on although its loop was ended.
LEMMA GoSound ==
    ASSUME NEW c, Sound(c), NEW g \in BOOLEAN, (Obeyed /\ g) => Steady(c)
    PROVE  LET e == [c EXCEPT !.go = g]
           IN Sound(e) /\ e.pos = c.pos /\ e.count = c.count /\ e.hasMatched = c.hasMatched /\ e.go = g
              /\ e.visited = c.visited /\ e.afterLeft = c.afterLeft /\ e.calls = c.calls /\ e.panicked = c.panicked
<1> DEFINE e == [c EXCEPT !.go = g]
<1>1. c \in Cores
  BY DEF Sound
<1>2. /\ e \in Cores /\ e.visited = c.visited /\ e.counted = c.counted /\ e.afterLeft = c.afterLeft
      /\ e.binaryAt = c.binaryAt /\ e.panicked = c.panicked /\ e.calls = c.calls /\ e.go = g
      /\ e.offset = c.offset /\ e.lineNumber = c.lineNumber
      /\ e.pos = c.pos /\ e.count = c.count /\ e.hasMatched = c.hasMatched
  BY <1>1 DEF Cores
<1> HIDE DEF e
<1>3. Ranges(e) /\ Refusal(e)
  BY <1>2 DEF Sound, Ranges, Refusal, Steady
<1>4. Numbers(e) /\ Announces(e)
  BY <1>2 DEF Sound, Numbers, Announces, Steady
<1> QED BY <1>2, <1>3, <1>4 DEF Sound, e

LEMMA CountingAlike ==
    ASSUME NEW c \in Cores
    PROVE  /\ LET e == [c EXCEPT !.count = @ + 1]
              IN Alike(c, e) /\ e.pos = c.pos /\ e.count = c.count + 1 /\ e.hasMatched = c.hasMatched
           /\ LET e == [c EXCEPT !.hasMatched = TRUE]
              IN Alike(c, e) /\ e.pos = c.pos /\ e.count = c.count /\ e.hasMatched = TRUE
<1> DEFINE n == c.count + 1
<1>1. [c EXCEPT !.count = @ + 1] = [c EXCEPT !.count = n] /\ n \in Int
  BY DEF Cores
<1>2. LET e == [c EXCEPT !.hasMatched = TRUE]
      IN Alike(c, e) /\ e.pos = c.pos /\ e.count = c.count /\ e.hasMatched = TRUE
  BY DEF Alike, Cores
<1> HIDE DEF n
<1>3. LET e == [c EXCEPT !.count = n]
      IN Alike(c, e) /\ e.pos = c.pos /\ e.count = n /\ e.hasMatched = c.hasMatched
  BY <1>1 DEF Alike, Cores
<1> QED BY <1>1, <1>2, <1>3 DEF n

\* A line of an inverted search that is given as a match.
InvertedLine(d, i) ==
    IF ~d.go THEN d
    ELSE LET e == SinkMatched([d EXCEPT !.count = @ + 1], i)
         IN [e EXCEPT !.go = @ /\ ~ExceededLimit(e)]

LEMMA InvertedLineSound ==
    ASSUME State, NEW d, Sound(d), NEW i \in 1 .. shown, d.visited < i
    PROVE  LET r == InvertedLine(d, i)
           IN /\ Sound(r) /\ r.visited <= i /\ r.pos = d.pos /\ r.count >= d.count
              /\ r.go => d.go /\ ~ExceededLimit(r)
<1> DEFINE r == InvertedLine(d, i)
<1>0. d \in Cores /\ d.count \in Int /\ d.visited \in Int /\ i \in Int
  BY CoreTypes DEF Sound
<1>1. CASE ~d.go
  BY <1>0, <1>1 DEF InvertedLine
<1>2. CASE d.go
  <2> DEFINE m == [d EXCEPT !.count = @ + 1]
             e == SinkMatched(m, i)
             g == e.go /\ ~ExceededLimit(e)
  <2>1. Alike(d, m) /\ m.pos = d.pos /\ m.count = d.count + 1
    BY <1>0, CountingAlike
  <2> HIDE DEF m
  <2>2. Sound(m) /\ m.visited = d.visited
    BY <2>1, AlikeSound DEF Alike
  <2>3. Sound(e) /\ e.pos = m.pos /\ e.count = m.count /\ (e.go => e.visited = i) /\ (~e.go => e.visited = m.visited)
    BY <2>2, MatchedSound
  <2>4. r = [e EXCEPT !.go = @ /\ ~ExceededLimit(e)]
    BY <1>2 DEF InvertedLine, m
  <2> HIDE DEF e, r
  <2>5. r = [e EXCEPT !.go = g] /\ g \in BOOLEAN
    BY <2>3, <2>4 DEF Sound, Cores
  <2>6. g => e.go /\ ~ExceededLimit(e)
    OBVIOUS
  <2> HIDE DEF g
  <2>7. Sound(r) /\ r.pos = e.pos /\ r.count = e.count /\ r.go = g /\ r.visited = e.visited
    BY <2>3, <2>5, <2>6, GoSound DEF Steady
  <2>8. r.visited <= i /\ r.pos = d.pos /\ r.count >= d.count
    BY <1>0, <2>1, <2>2, <2>3, <2>7
  <2>9. r.go => ~ExceededLimit(r)
    BY <2>6, <2>7 DEF ExceededLimit
  <2> QED BY <1>2, <2>7, <2>8, <2>9 DEF r
<1> QED BY <1>1, <1>2

\* match_by_line_fast_invert, the lines before the next match.
LEMMA InvertedSound ==
    ASSUME State, NEW c, Sound(c), NEW start \in 0 .. shown, NEW end \in start + 1 .. shown, c.visited <= start
    PROVE  LET d == SinkInverted(c, start, end)
           IN /\ Sound(d) /\ d.visited <= end
              /\ d.pos = c.pos \/ d.pos \in 1 .. start
              /\ d.go => c.go /\ d.pos = c.pos
<1> DEFINE counting == [c EXCEPT !.hasMatched = TRUE]
           after == AfterContext(counting, start)
           context == BeforeContext(after, start)
           Sink(d, i) == InvertedLine(d, i)
<1>0. c \in Cores /\ c.visited \in 0 .. shown /\ shown \in Nat /\ c.count \in Int /\ start \in Int /\ end \in Int /\ start < end
  BY CoreTypes DEF Sound, State, Ranges
<1>1. Alike(c, counting) /\ counting.pos = c.pos /\ counting.count = c.count
  BY <1>0, CountingAlike
<1>2. SinkInverted(c, start, end) = IF ~context.go THEN context ELSE ForLines(Sink, Checked(context, start, end), start, end)
  BY DEF SinkInverted, InvertedLine
<1> HIDE DEF counting
<1>3. Sound(counting) /\ counting.visited <= start /\ counting.go = c.go
  BY <1>1, AlikeSound DEF Alike
<1>4. /\ Sound(after) /\ Onward(counting, after) /\ (after.visited <= start \/ after = counting)
      /\ after.pos = counting.pos \/ (ExceededLimit(counting) /\ after.pos \in 1 .. start)
  BY <1>3, AfterSound
<1> HIDE DEF after
<1>5. Sound(context) /\ Onward(after, context) /\ context.pos = after.pos /\ context.visited <= start
  <2>1. after.visited <= start
    BY <1>3, <1>4
  <2> QED BY <1>4, <2>1, BeforeSound
<1> HIDE DEF context
<1>6. /\ context.pos = c.pos \/ (ExceededLimit(c) /\ context.pos \in 1 .. start)
      /\ context.count = c.count /\ (context.go => c.go) /\ context.visited <= end /\ context \in Cores
  <2>1. context.pos = c.pos \/ (ExceededLimit(c) /\ context.pos \in 1 .. start)
    BY <1>1, <1>4, <1>5 DEF ExceededLimit
  <2>2. context \in Cores /\ context.visited \in Int
    BY <1>5, CoreTypes DEF Sound
  <2> QED BY <1>0, <1>1, <1>3, <1>4, <1>5, <2>1, <2>2 DEF Onward
<1>7. CASE ~context.go
  BY <1>2, <1>5, <1>6, <1>7
<1>8. CASE context.go
  <2> DEFINE P(d, i) == /\ Sound(d) /\ d.visited <= i /\ d.pos = context.pos /\ d.count >= c.count
                        /\ d.go /\ i > start => ~ExceededLimit(d)
             Turns(f) == [i \in start .. end |-> IF i = start THEN context ELSE Sink(f[i - 1], i)]
             rec == CHOOSE f : f = Turns(f)
             X == [i \in start .. end |-> {d \in Cores : P(d, i)}]
             F == [p \in (start + 1 .. end) \X Cores |-> Sink(p[2], p[1])]
  <2>4. Checked(context, start, end) = context
    BY <1>0, CheckedSound
  <2>5. SinkInverted(c, start, end) = rec[end]
    BY <1>0, <1>2, <1>8, <2>4 DEF ForLines
  <2>6. ASSUME NEW i \in start + 1 .. end, NEW d, P(d, i - 1) PROVE P(Sink(d, i), i)
    <3>0. i \in 1 .. shown /\ d.visited \in Int /\ d.visited < i /\ d.count \in Int
      BY <1>0, <2>6, CoreTypes DEF Sound
    <3> DEFINE e == InvertedLine(d, i)
    <3>1. /\ Sound(e) /\ e.visited <= i /\ e.pos = d.pos /\ e.count >= d.count
          /\ e.go => d.go /\ ~ExceededLimit(e)
      BY <2>6, <3>0, InvertedLineSound
    <3> HIDE DEF e
    <3>3. e.count \in Int
      BY <3>1, CoreTypes DEF Sound
    <3>2. P(e, i)
      BY <1>0, <2>6, <3>0, <3>1, <3>3
    <3> QED BY <3>2 DEF e
  <2>22. P(context, start)
    BY <1>0, <1>5, <1>6
  <2>23. \A d : P(d, end) => /\ Sound(d) /\ d.visited <= end /\ d.pos = context.pos
                             /\ d.go => ~ExceededLimit(c)
    <3> SUFFICES ASSUME NEW d, P(d, end), d.go, ExceededLimit(c) PROVE FALSE
      OBVIOUS
    <3>1. d.count \in Int /\ d.count >= c.count /\ ~ExceededLimit(d) /\ (cfg.max = None \/ cfg.max \in Int)
      BY <1>0, CoreTypes, Facts DEF Sound, State, Config
    <3> QED BY <1>0, <3>1 DEF ExceededLimit
  <2> HIDE DEF P, Sink
  <2>7. \A i \in start .. end : X[i] = {d \in Cores : P(d, i)}
    OBVIOUS
  <2>8. \A d, i : P(d, i) => d \in Cores
    BY DEF P, Sound
  <2>9. start <= end /\ start \in start .. end /\ end \in start .. end /\ \A i \in start + 1 .. end : i \in start .. end /\ i - 1 \in start .. end
    BY <1>0
  <2>10. \A i \in start + 1 .. end : \A d \in Cores : F[<<i, d>>] = Sink(d, i)
    OBVIOUS
  <2> HIDE DEF X, F
  <2>11. context \in X[start]
    BY <1>6, <2>7, <2>9, <2>22
  <2>12. \A i \in start + 1 .. end : \A d \in X[i - 1] : Sink(d, i) \in X[i]
    BY <2>6, <2>7, <2>8, <2>9
  <2>13. \A i \in start .. end : X[i] \subseteq Cores
    BY <2>7
  <2>14. \A i \in start + 1 .. end : \A d \in X[i - 1] : F[<<i, d>>] \in X[i]
    BY <2>9, <2>10, <2>12, <2>13
  <2>15. PICK g : IsRun(g, start, end, X, context, F)
    BY <1>0, <2>9, <2>11, <2>13, <2>14, RunExists
  <2>16. g = Turns(g)
    <3>1. \A i \in start + 1 .. end : g[i] = Sink(g[i - 1], i)
      BY <2>9, <2>10, <2>13, <2>15 DEF IsRun
    <3>2. \A i \in start .. end : g[i] = IF i = start THEN context ELSE Sink(g[i - 1], i)
      <4> TAKE i \in start .. end
      <4>1. g[start] = context
        BY <2>15 DEF IsRun
      <4>2. i # start => i \in start + 1 .. end
        BY <1>0
      <4> QED BY <3>1, <4>1, <4>2
    <3>3. g = [i \in start .. end |-> g[i]]
      BY <2>15 DEF IsRun
    <3> QED BY <3>2, <3>3
  <2>17. rec = Turns(rec)
    BY <2>16, Zenon
  <2> HIDE DEF rec
  <2>18. rec[start] \in X[start] /\ \A i \in start + 1 .. end : rec[i] = Sink(rec[i - 1], i)
    BY <1>0, <2>9, <2>11, <2>17
  <2>19. \A i \in start + 1 .. end : rec[i - 1] \in X[i - 1] => rec[i] \in X[i]
    BY <2>12, <2>18
  <2>20. \A i \in start .. end : rec[i] \in X[i]
    BY <1>0, <2>9, <2>18, <2>19, Along
  <2>21. P(rec[end], end)
    BY <2>7, <2>9, <2>20
  <2> DEFINE d == rec[end]
  <2>24. Sound(d) /\ d.visited <= end /\ d.pos = context.pos /\ (d.go => ~ExceededLimit(c))
    BY <2>21, <2>23
  <2> HIDE DEF d
  <2>25. /\ Sound(d) /\ d.visited <= end /\ (d.pos = c.pos \/ d.pos \in 1 .. start)
         /\ d.go => c.go /\ d.pos = c.pos
    BY <1>6, <1>8, <2>24
  <2> QED BY <2>5, <2>25 DEF d
<1> QED BY <1>7, <1>8
-----------------------------------------------------------------------------
\* The steps.
LEMMA StateOf == ASSUME Given, Window PROVE State
  BY DEF Window, State

LEMMA StatePrimed ==
    ASSUME State, UNCHANGED <<file, cfg, stopAnswer, base, shown>>
    PROVE  State' /\ Given'
  BY DEF State, Given, Total

\* Sound(core') speaks of the new core in the buffer as it is now.
LEMMA SoundPrimed ==
    ASSUME Sound(core'), UNCHANGED <<file, cfg, stopAnswer, base, shown>>
    PROVE  Sound(core)'
<1>1. Ranges(core)' /\ Refusal(core)'
  BY DEF Sound, Ranges, Refusal, Total, Obeyed
<1>2. Numbers(core)'
  BY DEF Sound, Numbers, Obeyed, Steady
<1>3. BinaryMarked(core.calls)' <=> BinaryMarked(core'.calls)
  BY DEF BinaryMarked, Concerned
<1>4. Announces(core)'
  BY <1>3 DEF Sound, Announces
<1> QED BY <1>1, <1>2, <1>4 DEF Sound

\* What the end of a search needs of the core it leaves.
Closed(c) ==
    /\ c \in Cores /\ ~c.panicked
    /\ c.counted \in 0 .. Total /\ c.afterLeft \in 0 .. cfg.after
    /\ c.binaryAt \in 1 .. Total \cup {None}
    /\ Obeyed => NumbersMatch(c.calls)
    /\ cfg.binary # "none" => BinaryMarked(c.calls)
    /\ (Obeyed /\ stopAnswer > 0) => Len(c.calls) <= stopAnswer

LEMMA SoundCloses == ASSUME State, NEW c, Sound(c) PROVE Closed(c)
<1>1. Total \in Nat
  BY Facts DEF State
<1> QED BY <1>1 DEF State, Sound, Ranges, Refusal, Numbers, Announces, Closed

LEMMA ClosedOver ==
    ASSUME Given, Closed(core'), core'.pos \in Int, UNCHANGED <<file, cfg, stopAnswer>>, pc' \in {"finish", "failed"},
           pc' = "failed" => core'.pos \in 0 .. shown' /\ core'.visited \in 0 .. shown'
    PROVE  Given' /\ Over' /\ Running'
<1>1. Given'
  BY DEF Given
<1>2. Running'
  BY DEF Running, Loop
<1>3. BinaryMarked(core.calls)' <=> BinaryMarked(core'.calls)
  BY DEF BinaryMarked, Concerned
<1>5. Len(core'.calls) \in Nat /\ stopAnswer \in Nat
  <2>1. core'.calls \in Seq(SinkCalls)
    BY DEF Closed, Cores
  <2> QED BY <2>1, Facts
<1>4. Over'
  BY <1>3, <1>5 DEF Over, Loop, Closed, Total, Obeyed
<1> QED BY <1>1, <1>2, <1>4

\* The search is over: what was searched is consumed, for a reader.
Stops ==
    /\ pc' = "finish"
    /\ IF cfg.slice THEN UNCHANGED <<base, shown>> ELSE base' = base + core'.pos /\ shown' = shown - core'.pos

LEMMA StopStep ==
    ASSUME Given, Window, Closed(core'), core'.pos \in 0 .. shown, UNCHANGED <<file, cfg, stopAnswer>>, Stops
    PROVE  IInv'
<1>1. Given' /\ Over' /\ Running'
  BY ClosedOver DEF Stops
<1>2. Window'
  BY DEF Window, Stops, Total
<1> QED BY <1>1, <1>2 DEF IInv

\* The search goes on at place `next`, or is over.
LEMMA GoStep ==
    ASSUME Given, Window, Sound(core'), core'.pos \in 0 .. shown, UNCHANGED <<file, cfg, stopAnswer>>,
           NEW next \in {"fill", "slow", "fast", "fastEnd", "finish"},
           (core'.go /\ pc' = next /\ UNCHANGED <<base, shown>>) \/ (~core'.go /\ Stops),
           next = "fill" => ~cfg.slice /\ core'.pos = shown,
           next \in {"slow", "fast"} /\ core'.go => core'.visited <= core'.pos,
           next \in {"fast", "fastEnd"} => cfg.fast
    PROVE  IInv'
<1>0. State /\ Closed(core')
  BY StateOf, SoundCloses
<1>1. CASE ~core'.go /\ Stops
  BY <1>0, <1>1, StopStep
<1>2. CASE core'.go /\ pc' = next /\ UNCHANGED <<base, shown>> /\ next = "finish"
  <2>1. Given' /\ Over' /\ Running'
    BY <1>0, <1>2, ClosedOver
  <2>2. Window'
    BY <1>2 DEF Window, Total
  <2> QED BY <2>1, <2>2 DEF IInv
<1>3. CASE core'.go /\ pc' = next /\ UNCHANGED <<base, shown>> /\ next # "finish"
  <2>1. Sound(core)' /\ Given'
    BY <1>0, <1>3, SoundPrimed, StatePrimed
  <2>2. Window'
    BY <1>3 DEF Window, Total
  <2>3. Running'
    BY <1>3, <2>1 DEF Running, Loop, Obeyed
  <2>4. Over'
    BY <1>3 DEF Over, Loop
  <2> QED BY <2>1, <2>2, <2>3, <2>4 DEF IInv
<1> QED BY <1>1, <1>2, <1>3

LEMMA ContinueGoes ==
    ASSUME NEW c, NEW next, Continue(c, next)
    PROVE  core' = c /\ ((core'.go /\ pc' = next /\ UNCHANGED <<base, shown>>) \/ (~core'.go /\ Stops))
  BY DEF Continue, Stop, Stops
LEMMA InitInv == Init => IInv
<1> SUFFICES ASSUME Init PROVE IInv
  OBVIOUS
<1>1. Given
  BY DEF Init, Given
<1>2. Total \in Nat /\ file.binary \subseteq 1 .. Total /\ cfg.slice \in BOOLEAN /\ cfg.after \in Nat /\ stopAnswer \in Nat
  BY <1>1, Facts DEF Config
<1>3. pc = "begin" /\ base = 0 /\ shown = (IF cfg.slice THEN Total ELSE 0)
  BY DEF Init, Fresh, Total
<1>4. <<>> \in Seq(SinkCalls) /\ DOMAIN <<>> = {} /\ Len(<<>>) = 0
  OBVIOUS
<1>5. /\ core.pos = 0 /\ core.offset = 0 /\ core.binaryAt = None /\ core.lineNumber = 1 /\ core.counted = 0
      /\ core.visited = 0 /\ core.afterLeft = 0 /\ core.count = 0 /\ core.go = TRUE /\ core.panicked = FALSE
      /\ core.calls = <<>>
  BY DEF Init, Fresh
<1>6. core \in Cores
  BY <1>4 DEF Init, Fresh, Cores
<1>7. Window
  BY <1>2, <1>3 DEF Window
<1>8. Ranges(core) /\ Refusal(core)
  BY <1>2, <1>3, <1>4, <1>5 DEF Ranges, Refusal
<1>9. Numbers(core)
  BY <1>3, <1>4, <1>5 DEF Numbers, NumbersMatch
<1>10. ~Announced(core.calls) /\ BinaryMarked(core.calls)
  BY <1>4, <1>5 DEF Announced, BinaryMarked
<1>11. Announces(core)
  BY <1>2, <1>3, <1>5, <1>10 DEF Announces
<1>12. Running
  BY <1>2, <1>3, <1>5, <1>6, <1>8, <1>9, <1>11 DEF Running, Sound, Loop
<1> QED BY <1>1, <1>3, <1>7, <1>12 DEF IInv, Over, Loop

LEMMA BeginStep == ASSUME IInv, Begin PROVE IInv'
<1> DEFINE x == [kind |-> "begin", line |-> 0]
           begun == Tell(core, x)
           examined == IF shown < DetectLines THEN shown ELSE DetectLines
           d == DetectBinary(begun, 0, examined)
<1>1. Given /\ Window /\ State /\ pc = "begin" /\ Sound(core) /\ core.pos = core.pos /\ core.pos \in 0 .. shown /\ core.go
  BY StateOf DEF IInv, Begin, Running, Loop
<1>2. x \in Marks /\ x.kind \in {"begin", "break"}
  BY DEF Marks
<1>3. core' = d /\ pc' = (IF ~d.go \/ (cfg.slice /\ shown = 0) THEN "finish" ELSE IF cfg.slice THEN MatchByLine(d) ELSE "fill")
      /\ UNCHANGED <<file, cfg, stopAnswer, base, shown>>
  BY DEF Begin
<1> HIDE DEF x
<1>4. Sound(begun) /\ Kept(core, begun)
  BY <1>1, <1>2, MarkTold
<1> HIDE DEF begun
<1>5. examined \in Nat /\ examined <= shown /\ 0 \in Nat
  BY <1>1, DetectAssumption DEF State
<1> HIDE DEF examined
<1>6. Sound(d) /\ Kept(begun, d)
  BY <1>1, <1>4, <1>5, DetectSound
<1> HIDE DEF d
<1>7. Sound(core') /\ Kept(core, core') /\ Closed(core')
  BY <1>1, <1>3, <1>4, <1>6, SoundCloses DEF Kept
<1>8. CASE ~d.go \/ (cfg.slice /\ shown = 0)
  <2>1. Given' /\ Over' /\ Running'
    BY <1>1, <1>3, <1>7, <1>8, ClosedOver DEF Kept
  <2>2. Window'
    BY <1>1, <1>3, <1>8 DEF Window, Total
  <2> QED BY <2>1, <2>2 DEF IInv
<1>9. CASE ~(~d.go \/ (cfg.slice /\ shown = 0))
  <2>1. pc' \in {"fill", "slow", "fast"} /\ core'.go /\ (pc' = "fill" => ~cfg.slice) /\ (pc' = "fast" => cfg.fast)
    BY <1>3, <1>9 DEF MatchByLine, IsFast
  <2>2. core.visited = 0 /\ core.pos = 0 /\ (~cfg.slice => shown = 0)
    BY <1>1 DEF IInv, Running, Loop
  <2> QED BY <1>1, <1>3, <1>7, <2>1, <2>2, GoStep DEF Kept
<1> QED BY <1>8, <1>9

LEMMA SlowEndStep == ASSUME IInv, SlowEnd PROVE IInv'
<1>1. Given /\ Window /\ State /\ pc = "slow" /\ Sound(core) /\ core.pos = shown /\ core.pos \in 0 .. shown /\ core.go
  BY StateOf DEF IInv, SlowEnd, Running, Loop
<1>2. core' = core /\ pc' \in {"finish", "fill"} /\ (pc' = "fill" => ~cfg.slice) /\ UNCHANGED <<file, cfg, stopAnswer, base, shown>>
  BY DEF SlowEnd, NextBuffer
<1> QED BY <1>1, <1>2, GoStep

LEMMA FastMoveStep == ASSUME IInv, FastToSlow \/ FastLoopEnds PROVE IInv'
<1>1. Given /\ Window /\ State /\ pc = "fast" /\ Sound(core) /\ core.pos \in 0 .. shown /\ core.go /\ core.visited <= core.pos /\ cfg.fast
  BY StateOf DEF IInv, FastToSlow, FastLoopEnds, Running, Loop
<1>2. core' = core /\ pc' \in {"slow", "fastEnd"} /\ UNCHANGED <<file, cfg, stopAnswer, base, shown>>
  BY DEF FastToSlow, FastLoopEnds
<1> QED BY <1>1, <1>2, GoStep

\* A success: the lines before it as context, then itself.
LEMMA SuccessSound ==
    ASSUME State, NEW c, Sound(c), NEW i \in 1 .. shown, c.visited < i
    PROVE  LET d == SinkMatched(BeforeContext(c, i - 1), i)
           IN Sound(d) /\ d.pos = c.pos /\ d.visited <= i /\ (d.go => c.go /\ d.visited = i)
<1> DEFINE b == BeforeContext(c, i - 1)
           d == SinkMatched(b, i)
<1>1. i - 1 \in 0 .. shown /\ c.visited <= i - 1 /\ i \in Int
  BY CoreTypes DEF Sound, State
<1>2. Sound(b) /\ Onward(c, b) /\ b.pos = c.pos /\ b.visited <= i - 1
  BY <1>1, BeforeSound
<1>3. b.visited < i /\ b.visited \in Int
  BY <1>1, <1>2, CoreTypes DEF Sound
<1> HIDE DEF b
<1>4. Sound(d) /\ d.pos = b.pos /\ (d.go => b.go /\ d.visited = i) /\ (~d.go => d.visited = b.visited)
  BY <1>2, <1>3, MatchedSound
<1> HIDE DEF d
<1>5. Sound(d) /\ d.pos = c.pos /\ d.visited <= i /\ (d.go => c.go /\ d.visited = i)
  BY <1>1, <1>2, <1>3, <1>4 DEF Onward
<1> QED BY <1>5 DEF b, d

LEMMA SlowLineStep == ASSUME IInv, SlowLine PROVE IInv'
<1> DEFINE i == core.pos + 1
           success == (~ExceededLimit(core) /\ Hit(i)) # cfg.invert
           at1 == [core EXCEPT !.pos = i]
           counted == [at1 EXCEPT !.hasMatched = TRUE, !.count = @ + 1]
           d == IF success THEN SinkMatched(BeforeContext(counted, i - 1), i)
                ELSE IF core.afterLeft >= 1 THEN SinkContext(at1, i, "after")
                ELSE IF cfg.passthru THEN SinkContext(at1, i, "other")
                ELSE at1
           nonmatch == cfg.stopOnNonmatch /\ ~success /\ d.hasMatched
           g == d.go /\ ~nonmatch
           e == [d EXCEPT !.go = g]
<1>1. Given /\ Window /\ State /\ pc = "slow" /\ Sound(core) /\ core.pos \in 0 .. shown /\ core.go /\ core.visited <= core.pos /\ core.pos < shown
  BY StateOf DEF IInv, SlowLine, Running, Loop
<1>2. i \in 1 .. shown /\ i \in Int \cup {None} /\ core \in Cores /\ core.visited \in Int /\ core.visited < i /\ i \in 0 .. shown /\ core.count \in Int
  BY <1>1, CoreTypes DEF Sound, State
<1>3. UNCHANGED <<file, cfg, stopAnswer>>
      /\ (Stop(core) \/ Continue([d EXCEPT !.go = @ /\ ~nonmatch], "slow"))
  BY DEF SlowLine
<1> HIDE DEF i
<1>4. CASE Stop(core)
  <2>1. core' = core /\ Stops
    BY <1>4 DEF Stop, Stops
  <2> QED BY <1>1, <1>3, <2>1, StopStep, SoundCloses
<1>5. CASE Continue([d EXCEPT !.go = @ /\ ~nonmatch], "slow")
  <2>1. Alike(core, at1) /\ at1.pos = i /\ at1.count = core.count
    BY <1>2, PosAlike
  <2>2. Alike(at1, counted) /\ counted.pos = i
    <3> HIDE DEF at1
    <3> DEFINE n == at1.count + 1
    <3>1. counted = [at1 EXCEPT !.hasMatched = TRUE, !.count = n] /\ n \in Int /\ at1 \in Cores
      BY <2>1, CoreTypes DEF Alike, Cores
    <3> HIDE DEF n, counted
    <3> QED BY <2>1, <3>1 DEF Alike, Cores
  <2> HIDE DEF at1
  <2>3. Sound(at1) /\ at1.visited < i /\ at1.visited = core.visited /\ at1.afterLeft = core.afterLeft /\ at1.go
    BY <1>1, <1>2, <2>1, AlikeSound DEF Alike
  <2> HIDE DEF counted, success
  <2>4. Sound(counted) /\ counted.visited < i
    BY <2>2, <2>3, AlikeSound DEF Alike
  <2>5. Sound(d) /\ d.pos = i /\ d.visited <= i
    <3>1. CASE success
      <4>1. d = SinkMatched(BeforeContext(counted, i - 1), i)
        BY <3>1
      <4> HIDE DEF d
      <4> QED BY <1>1, <1>2, <2>2, <2>4, <4>1, SuccessSound
    <3>2. CASE ~success /\ core.afterLeft >= 1
      <4>1. d = SinkContext(at1, i, "after") /\ at1.afterLeft >= 1
        BY <2>3, <3>2
      <4> HIDE DEF d
      <4>2. Sound(d) /\ d.pos = at1.pos /\ (d.go => d.visited = i) /\ (~d.go => d.visited = at1.visited)
        BY <1>1, <1>2, <2>3, <4>1, ContextSound
      <4> QED BY <1>2, <2>1, <2>3, <4>2
    <3>3. CASE ~success /\ ~(core.afterLeft >= 1) /\ cfg.passthru
      <4>1. d = SinkContext(at1, i, "other")
        BY <3>3
      <4> HIDE DEF d
      <4>2. Sound(d) /\ d.pos = at1.pos /\ (d.go => d.visited = i) /\ (~d.go => d.visited = at1.visited)
        BY <1>1, <1>2, <2>3, <4>1, ContextSound
      <4> QED BY <1>2, <2>1, <2>3, <4>2
    <3>4. CASE ~success /\ ~(core.afterLeft >= 1) /\ ~cfg.passthru
      <4>1. d = at1
        BY <3>4
      <4> QED BY <1>2, <2>1, <2>3, <4>1
    <3> QED BY <3>1, <3>2, <3>3, <3>4
  <2> HIDE DEF d
  <2>6. g \in BOOLEAN /\ (g => d.go) /\ [d EXCEPT !.go = @ /\ ~nonmatch] = e
    BY <2>5 DEF Sound, Cores
  <2> HIDE DEF g
  <2>7. Sound(e) /\ e.pos = i /\ e.visited <= i
    BY <2>5, <2>6, GoSound DEF Steady
  <2>8. Continue(e, "slow")
    BY <1>5, <2>6
  <2> HIDE DEF e
  <2>9. core' = e /\ ((core'.go /\ pc' = "slow" /\ UNCHANGED <<base, shown>>) \/ (~core'.go /\ Stops))
    BY <2>8, ContinueGoes
  <2> QED BY <1>1, <1>2, <1>3, <2>7, <2>9, GoStep
<1> QED BY <1>3, <1>4, <1>5
LEMMA FoundFirst ==
    ASSUME State, NEW c, c.pos \in 0 .. shown, Found(c) # None
    PROVE  Found(c) \in c.pos + 1 .. shown
<1> DEFINE matching == {i \in c.pos + 1 .. shown : Hit(i)}
<1>1. Found(c) = (CHOOSE i \in matching : \A j \in matching : i <= j) /\ matching # {}
  BY DEF Found
<1>2. matching \in SUBSET Nat /\ matching \subseteq c.pos + 1 .. shown
  BY DEF State
<1> HIDE DEF matching
<1>3. \E i \in matching : \A j \in matching : i <= j
  BY <1>1, <1>2, LeastNat
<1>4. (CHOOSE i \in matching : \A j \in matching : i <= j) \in matching
  BY <1>3, Zenon
<1> QED BY <1>1, <1>2, <1>4

LEMMA FastMatchStep == ASSUME IInv, FastMatch PROVE IInv'
<1> DEFINE i == Found(core)
           counted == [core EXCEPT !.hasMatched = TRUE, !.count = @ + 1]
           after == AfterContext(counted, i - 1)
           context == BeforeContext(after, i - 1)
           at1 == IF context.go THEN [context EXCEPT !.pos = i] ELSE context
           d == SinkMatched(at1, i)
<1>1. Given /\ Window /\ State /\ pc = "fast" /\ Sound(core) /\ core.pos \in 0 .. shown /\ core.go /\ core.visited <= core.pos /\ cfg.fast
  BY StateOf DEF IInv, FastMatch, Running, Loop
<1>2. CASE i = None
  <2>1. core' = core /\ pc' = "fastEnd" /\ UNCHANGED <<file, cfg, stopAnswer, base, shown>>
    BY <1>2 DEF FastMatch
  <2> QED BY <1>1, <2>1, GoStep
<1>3. CASE i # None
  <2>1. i \in core.pos + 1 .. shown
    BY <1>1, <1>3, FoundFirst
  <2>2. Continue(d, "fast") /\ UNCHANGED <<file, cfg, stopAnswer>>
    BY <1>3 DEF FastMatch
  <2>3. Alike(core, counted) /\ counted.pos = core.pos
    <3> DEFINE n == core.count + 1
    <3>1. counted = [core EXCEPT !.hasMatched = TRUE, !.count = n] /\ n \in Int /\ core \in Cores
      BY <1>1, CoreTypes DEF Sound, Cores
    <3> HIDE DEF n, counted
    <3> QED BY <3>1 DEF Alike, Cores
  <2> HIDE DEF i, counted
  <2>4. Sound(counted) /\ counted.visited <= core.pos
    BY <1>1, <2>3, AlikeSound DEF Alike
  <2>5. i - 1 \in 0 .. shown /\ i \in 1 .. shown /\ i \in Int /\ counted.visited \in Int /\ counted.visited <= i - 1 /\ core.pos < i
    BY <1>1, <2>1, <2>4, CoreTypes DEF Sound, State
  <2>6. Sound(after) /\ (after.visited <= i - 1 \/ after = counted) /\ (after.pos = core.pos \/ after.pos \in 1 .. i - 1)
    BY <1>1, <2>3, <2>4, <2>5, AfterSound
  <2> HIDE DEF after
  <2>7. Sound(context) /\ context.pos = after.pos /\ context.visited <= i - 1
    <3>1. after.visited <= i - 1
      BY <2>5, <2>6
    <3> QED BY <1>1, <2>5, <2>6, <3>1, BeforeSound
  <2> HIDE DEF context
  <2>8. Sound(at1) /\ at1.visited < i /\ at1.pos \in 0 .. shown /\ (at1.go => at1.pos = i)
    <3>0. context \in Cores /\ context.visited \in Int /\ i \in Int \cup {None} /\ context.go \in BOOLEAN
      BY <2>5, <2>7, CoreTypes DEF Sound
    <3>1. CASE context.go
      <4>1. at1 = [context EXCEPT !.pos = i]
        BY <3>1
      <4> HIDE DEF at1
      <4>2. Alike(context, at1) /\ at1.pos = i
        BY <3>0, <4>1, PosAlike
      <4> QED BY <2>5, <2>7, <3>0, <4>2, AlikeSound DEF Alike
    <3>2. CASE ~context.go
      <4>1. at1 = context
        BY <3>2
      <4> HIDE DEF at1
      <4>2. at1.pos \in 0 .. shown
        BY <1>1, <2>5, <2>6, <2>7, <4>1 DEF Window
      <4>3. at1.visited < i
        BY <2>5, <2>7, <3>0, <4>1
      <4> QED BY <2>7, <3>2, <4>1, <4>2, <4>3
    <3> QED BY <3>1, <3>2
  <2> HIDE DEF at1
  <2>9. Sound(d) /\ d.pos = at1.pos /\ (d.go => at1.go /\ d.visited = i)
    BY <1>1, <2>5, <2>8, MatchedSound
  <2> HIDE DEF d
  <2>10. core' = d /\ ((core'.go /\ pc' = "fast" /\ UNCHANGED <<base, shown>>) \/ (~core'.go /\ Stops))
    BY <2>2, ContinueGoes
  <2> QED BY <1>1, <2>2, <2>5, <2>8, <2>9, <2>10, GoStep
<1> QED BY <1>2, <1>3

\* The inverted fast path leads to the end of its loop when a sink refuses.
LEMMA LoopStep ==
    ASSUME Given, Window, Sound(core'), core'.pos \in 0 .. shown, UNCHANGED <<file, cfg, stopAnswer, base, shown>>,
           pc' = IF core'.go THEN "fast" ELSE "fastEnd",
           core'.go => core'.visited <= core'.pos,
           Obeyed => core'.go \/ stopAnswer = 0, cfg.fast
    PROVE  IInv'
<1>1. State
  BY StateOf
<1>2. Sound(core)' /\ Given'
  BY <1>1, SoundPrimed, StatePrimed
<1>3. Window'
  BY DEF Window, Total
<1>4. Running'
  BY <1>2 DEF Running, Loop, Obeyed
<1>5. Over'
  BY DEF Over, Loop
<1> QED BY <1>2, <1>3, <1>4, <1>5 DEF IInv

LEMMA FastInvertStep == ASSUME IInv, FastInvert PROVE IInv'
<1> DEFINE i == Found(core)
           end == IF i = None THEN shown ELSE i - 1
           p == IF i = None THEN shown ELSE i
           at1 == [core EXCEPT !.pos = p]
           d == IF core.pos = end THEN at1 ELSE SinkInverted(at1, core.pos, end)
<1>1. Given /\ Window /\ State /\ pc = "fast" /\ Sound(core) /\ core.pos \in 0 .. shown /\ core.go /\ core.visited <= core.pos
      /\ core.pos < shown /\ cfg.invert
  BY StateOf DEF IInv, FastInvert, Running, Loop
<1>2. core' = d /\ pc' = (IF d.go THEN "fast" ELSE "fastEnd") /\ UNCHANGED <<file, cfg, stopAnswer, base, shown>>
  BY DEF FastInvert
<1>3. end \in core.pos .. shown /\ p \in core.pos + 1 .. shown
  <2>1. i # None => i \in core.pos + 1 .. shown
    BY <1>1, FoundFirst
  <2> HIDE DEF i
  <2> QED BY <1>1, <2>1 DEF State
<1> HIDE DEF i, end, p
<1>4. p \in Int \cup {None} /\ core \in Cores /\ core.visited \in Int /\ shown \in Nat /\ end \in Int /\ p \in Int /\ core.pos \in Int
  BY <1>1, <1>3, CoreTypes DEF Sound, State
<1>5. Alike(core, at1) /\ at1.pos = p
  BY <1>4, PosAlike
<1> HIDE DEF at1
<1>6. Sound(at1) /\ at1.visited <= core.pos /\ at1.go = core.go
  BY <1>1, <1>5, AlikeSound DEF Alike
<1>7. Sound(d) /\ d.pos \in 0 .. shown /\ (d.go => d.visited <= d.pos)
  <2>1. CASE core.pos = end
    <3>1. d = at1
      BY <2>1
    <3> HIDE DEF d
    <3> QED BY <1>1, <1>3, <1>4, <1>5, <1>6, <3>1, CoreTypes DEF Sound
  <2>2. CASE core.pos # end
    <3>1. d = SinkInverted(at1, core.pos, end) /\ end \in core.pos + 1 .. shown
      BY <1>1, <1>3, <1>4, <2>2
    <3> HIDE DEF d
    <3>2. /\ Sound(d) /\ d.visited <= end
          /\ d.pos = at1.pos \/ d.pos \in 1 .. core.pos
          /\ d.go => d.pos = at1.pos
      BY <1>1, <1>6, <3>1, InvertedSound
    <3>3. end <= p /\ d.visited \in Int
      BY <3>2, <1>3, <1>4, CoreTypes DEF Sound, end, p
    <3> QED BY <1>1, <1>3, <1>4, <1>5, <3>2, <3>3
  <2> QED BY <2>1, <2>2
<1> HIDE DEF d
<1>8. cfg.fast
  BY <1>1 DEF IInv, Running, Loop
<1>9. Obeyed => stopAnswer = 0
  BY <1>1, <1>8 DEF Obeyed
<1> QED BY <1>1, <1>2, <1>7, <1>8, <1>9, LoopStep
LEMMA FastEndStep == ASSUME IInv, FastEnd PROVE IInv'
<1> DEFINE g == ~core.panicked
           c == [core EXCEPT !.go = g]
           d == AfterContext(c, shown)
           over == d.go /\ ExceededLimit(d) /\ d.afterLeft = 0
           e == IF d.go THEN [d EXCEPT !.pos = shown] ELSE d
           next == NextBuffer
<1>1. Given /\ Window /\ State /\ Sound(core) /\ core.pos \in 0 .. shown /\ (Obeyed => core.go \/ stopAnswer = 0)
  BY StateOf DEF IInv, FastEnd, Running, Loop
<1>2. UNCHANGED <<file, cfg, stopAnswer>> /\ (IF over THEN Stop(d) ELSE Continue(e, next))
  BY DEF FastEnd
<1>3. g \in BOOLEAN /\ shown \in 0 .. shown /\ shown \in Int /\ shown \in Int \cup {None} /\ core.visited <= shown
  BY <1>1 DEF Sound, Ranges, Cores, State
<1> HIDE DEF g
<1>4. Sound(c) /\ c.pos = core.pos /\ c.visited = core.visited
  BY <1>1, <1>3, GoSound DEF Steady
<1> HIDE DEF c
<1>5. Sound(d) /\ (d.pos = c.pos \/ d.pos \in 1 .. shown)
  BY <1>1, <1>3, <1>4, AfterSound
<1> HIDE DEF d
<1>6. d.pos \in 0 .. shown /\ d \in Cores
  BY <1>1, <1>4, <1>5 DEF Sound
<1>7. CASE over
  <2>1. core' = d /\ Stops
    BY <1>2, <1>7 DEF Stop, Stops
  <2> QED BY <1>1, <1>2, <1>5, <1>6, <2>1, StopStep, SoundCloses
<1>8. CASE ~over
  <2>1. Continue(e, next) /\ next \in {"finish", "fill"} /\ (next = "fill" => ~cfg.slice)
    BY <1>2, <1>8 DEF NextBuffer
  <2> HIDE DEF next
  <2>2. Sound(e) /\ e.pos \in 0 .. shown /\ (e.go => e.pos = shown)
    <3>1. CASE d.go
      <4>1. e = [d EXCEPT !.pos = shown]
        BY <3>1
      <4> HIDE DEF e
      <4>2. Alike(d, e) /\ e.pos = shown
        BY <1>3, <1>6, <4>1, PosAlike
      <4> QED BY <1>3, <1>5, <4>2, AlikeSound
    <3>2. CASE ~d.go
      <4>1. e = d
        BY <3>2
      <4> HIDE DEF e
      <4> QED BY <1>5, <1>6, <3>2, <4>1
    <3> QED BY <3>1, <3>2
  <2> HIDE DEF e
  <2>3. core' = e /\ ((core'.go /\ pc' = next /\ UNCHANGED <<base, shown>>) \/ (~core'.go /\ Stops))
    BY <2>1, ContinueGoes
  <2>4. CASE ~core'.go /\ Stops
    BY <1>1, <1>2, <2>2, <2>3, <2>4, StopStep, SoundCloses
  <2>5. CASE core'.go /\ pc' = next /\ UNCHANGED <<base, shown>>
    BY <1>1, <1>2, <2>1, <2>2, <2>3, <2>5, GoStep
  <2> QED BY <2>3, <2>4, <2>5
<1> QED BY <1>7, <1>8

LEMMA FinishStep == ASSUME IInv, Finish PROVE IInv'
<1> DEFINE x == [kind |-> "finish", line |-> ByteCount]
           s == Append(core.calls, x)
<1>1. Given /\ Window /\ Over /\ State /\ pc = "finish" /\ core \in Cores /\ ~core.panicked /\ ~Loop
  BY StateOf DEF IInv, Over, Finish, Loop
<1>2. core' = [core EXCEPT !.calls = s] /\ pc' = "done" /\ UNCHANGED <<file, cfg, stopAnswer, base, shown>>
  BY <1>1 DEF Finish
<1>3. x \in SinkCalls /\ x.kind = "finish" /\ x.kind \notin LineKinds
  <2>1. ByteCount \in Int
    BY <1>1, Facts DEF ByteCount, Over, State
  <2> QED BY <2>1 DEF SinkCalls, Marks, LineKinds
<1> HIDE DEF x
<1>4. /\ NumbersMatch(core.calls) => NumbersMatch(s)
      /\ BinaryMarked(core.calls) => BinaryMarked(s)
      /\ s \in Seq(SinkCalls) /\ Len(s) = Len(core.calls) + 1 /\ s[Len(core.calls) + 1] = x
  <2>1. core.calls \in Seq(SinkCalls)
    BY <1>1, CoreTypes
  <2>2. x.kind # "binary"
    BY <1>3
  <2> QED BY <1>3, <2>1, <2>2, MarkAppended, AppendOne
<1>5. Len(core.calls) \in Nat /\ stopAnswer \in Nat
  BY <1>1, CoreTypes, Facts
<1> HIDE DEF s
<1>6. /\ core' \in Cores /\ core'.calls = s /\ core'.pos = core.pos /\ core'.panicked = core.panicked
      /\ core'.counted = core.counted /\ core'.afterLeft = core.afterLeft /\ core'.binaryAt = core.binaryAt
  BY <1>1, <1>2, <1>4 DEF Cores
<1>7. BinaryMarked(core.calls)' <=> BinaryMarked(core'.calls)
  BY <1>2 DEF BinaryMarked, Concerned
<1>8. (Obeyed /\ stopAnswer > 0) =>
        (Len(s) > stopAnswer => Len(s) = stopAnswer + 1 /\ s[stopAnswer + 1].kind = "finish")
  <2> SUFFICES ASSUME Obeyed, stopAnswer > 0, Len(s) > stopAnswer
               PROVE  Len(s) = stopAnswer + 1 /\ s[stopAnswer + 1].kind = "finish"
    OBVIOUS
  <2>1. Len(core.calls) <= stopAnswer
    BY <1>1 DEF Over
  <2>2. Len(core.calls) = stopAnswer
    BY <1>4, <1>5, <2>1
  <2> QED BY <1>3, <1>4, <2>2
<1>9. Over'
  BY <1>1, <1>2, <1>4, <1>6, <1>7, <1>8 DEF Over, Loop, Obeyed, Total
<1>10. Given' /\ Window' /\ Running'
  BY <1>1, <1>2 DEF Given, Window, Running, Loop, Total
<1> QED BY <1>9, <1>10 DEF IInv
-----------------------------------------------------------------------------
\* A fill.
LEMMA RolledBounds ==
    ASSUME State, NEW c, Sound(c)
    PROVE  Rolled(c) \in c.visited .. shown
<1>1. shown \in Nat /\ c.visited \in 0 .. shown /\ cfg.before \in Nat
  BY Facts DEF State, Sound, Ranges, Config
<1> QED BY <1>1 DEF Rolled

\* What roll leaves, in the buffer that begins with the lines kept.
LEMMA RollFields ==
    ASSUME State, NEW c, Sound(c), c.go, NEW n \in c.visited .. shown
    PROVE  LET r == Roll(c, n)
           IN /\ r \in Cores /\ r.offset = c.offset + n /\ r.counted = 0 /\ r.visited = 0 /\ r.pos = shown - n
              /\ r.calls = c.calls /\ r.go = c.go /\ r.binaryAt = c.binaryAt /\ r.afterLeft = c.afterLeft
              /\ r.panicked = c.panicked
              /\ Obeyed => r.lineNumber = base + n + 1
<1> DEFINE d == CountLines(c, n)
           r == Roll(c, n)
           o == d.offset + n
           p == shown - n
<1>0. n \in 0 .. shown /\ shown \in Nat /\ c.visited \in Int /\ c.counted \in Int /\ n \in Int /\ p \in Int
  BY CoreTypes DEF State, Sound, Ranges
<1>1. /\ d \in Cores /\ Kept(c, d)
      /\ d.calls = c.calls /\ d.go = c.go /\ d.binaryAt = c.binaryAt /\ d.offset = c.offset /\ d.panicked = c.panicked
      /\ c.counted <= n => d.counted = n
      /\ Obeyed => d.lineNumber = base + d.counted + 1
  BY <1>0, CountSound
<1>2. Obeyed => c.counted <= n
  BY <1>0 DEF Sound, Numbers, Steady
<1>3. r = [d EXCEPT !.offset = @ + n, !.counted = 0, !.visited = 0, !.pos = shown - n]
  BY DEF Roll
<1> HIDE DEF d, r
<1>4. o \in Int
  BY <1>0, <1>1, CoreTypes
<1>5. r = [d EXCEPT !.offset = o, !.counted = 0, !.visited = 0, !.pos = p]
  BY <1>1, <1>3 DEF Cores
<1> HIDE DEF p
<1>6. /\ o = c.offset + n
      /\ Obeyed => d.lineNumber = base + n + 1
  BY <1>1, <1>2
<1> HIDE DEF o
<1>7. /\ r \in Cores /\ r.offset = o /\ r.counted = 0 /\ r.visited = 0 /\ r.pos = p
      /\ r.calls = d.calls /\ r.go = d.go /\ r.binaryAt = d.binaryAt /\ r.afterLeft = d.afterLeft
      /\ r.panicked = d.panicked /\ r.lineNumber = d.lineNumber
  <2> DEFINE e == [d EXCEPT !.offset = o, !.counted = 0]
  <2>0. d \in Cores
    BY <1>1
  <2>3. e \in Cores
    <3> DEFINE f == [d EXCEPT !.offset = o]
    <3>1. f \in Cores
      BY <1>4, <2>0 DEF Cores
    <3>2. e = [f EXCEPT !.counted = 0]
      BY <2>0 DEF Cores
    <3> HIDE DEF f, e
    <3> QED BY SMTT(30), <3>1, <3>2 DEF Cores
  <2>1. e \in Cores /\ e.offset = o /\ e.counted = 0 /\ e.calls = d.calls /\ e.go = d.go /\ e.binaryAt = d.binaryAt
        /\ e.afterLeft = d.afterLeft /\ e.panicked = d.panicked /\ e.lineNumber = d.lineNumber
    BY <2>0, <2>3 DEF Cores
  <2>2. r = [e EXCEPT !.visited = 0, !.pos = p]
    BY <1>5
  <2> HIDE DEF e
  <2> QED BY <1>0, <2>1, <2>2 DEF Cores
<1> QED BY <1>1, <1>6, <1>7 DEF r, p, Kept

LEMMA FillFailsStep == ASSUME IInv, FillFails PROVE IInv'
<1> DEFINE n == Rolled(core)
           r == Roll(core, n)
<1>1. Given /\ Window /\ State /\ Sound(core) /\ core.go /\ pc = "fill"
  BY StateOf DEF IInv, FillFails, Running, Loop
<1>2. n \in core.visited .. shown
  BY <1>1, RolledBounds
<1>3. core' = r /\ base' = base + n /\ shown' = shown - n /\ pc' = "failed" /\ UNCHANGED <<file, cfg, stopAnswer>>
  BY DEF FillFails
<1> HIDE DEF n
<1>4. /\ r \in Cores /\ r.counted = 0 /\ r.visited = 0 /\ r.pos = shown - n
      /\ r.calls = core.calls /\ r.go = core.go /\ r.binaryAt = core.binaryAt /\ r.afterLeft = core.afterLeft
      /\ r.panicked = core.panicked
  BY <1>1, <1>2, RollFields
<1> HIDE DEF r
<1>5. Closed(core) /\ Total \in Nat /\ shown \in Nat /\ core.visited \in Nat /\ n \in Int
  BY <1>1, <1>2, SoundCloses, Facts DEF State, Sound, Ranges
<1>6. Closed(core')
  BY <1>3, <1>4, <1>5 DEF Closed
<1>7. core'.pos \in 0 .. shown' /\ core'.visited \in 0 .. shown' /\ core'.pos \in Int
  BY <1>2, <1>3, <1>4, <1>5
<1>8. Given' /\ Over' /\ Running'
  BY <1>1, <1>3, <1>6, <1>7, ClosedOver
<1>9. Window'
  BY <1>1, <1>2, <1>3, <1>5 DEF Window, Total
<1> QED BY <1>8, <1>9 DEF IInv
\* The lines a fill can show are lines of the file.
LEMMA ReadableBound == ASSUME Given PROVE Readable \in 0 .. Total
<1>1. Total \in Nat /\ file.binary \in SUBSET Nat /\ file.binary \subseteq 1 .. Total
  BY Facts
<1>2. CASE cfg.binary = "quit" /\ file.binary # {}
  <2>1. \E i \in file.binary : \A j \in file.binary : i <= j
    BY <1>1, <1>2, LeastNat
  <2>2. (CHOOSE i \in file.binary : \A j \in file.binary : i <= j) \in file.binary
    BY <2>1, Zenon
  <2> QED BY <1>1, <1>2, <2>2 DEF Readable
<1>3. CASE ~(cfg.binary = "quit" /\ file.binary # {})
  BY <1>1, <1>3 DEF Readable
<1> QED BY <1>2, <1>3

\* The core after roll and the announcement of binary data in what was read.
Filled(n, more) ==
    LET newBinary == {i \in file.binary : i > base + shown /\ i <= base + shown + more}
        found == ReaderBinary /\ core.binaryAt = None /\ newBinary # {}
        offset == CHOOSE i \in newBinary : \A j \in newBinary : i <= j
    IN core' = IF found
               THEN Tell([Roll(core, n) EXCEPT !.binaryAt = offset], [kind |-> "binary", line |-> offset])
               ELSE Roll(core, n)

LEMMA FilledSound ==
    ASSUME Given, Window, Sound(core), core.go, ~cfg.slice, UNCHANGED <<file, cfg, stopAnswer>>,
           NEW more \in Nat, base + shown + more <= Total, NEW n \in core.visited .. shown,
           Filled(n, more)
    PROVE  /\ core'.pos = shown - n /\ core'.visited = 0 /\ Closed(core')
           /\ (/\ base' = base + n /\ shown' = shown - n + more
               /\ core'.go /\ ~(core'.binaryAt # None /\ cfg.binary = "quit")) => Sound(core)'
<1> DEFINE newBinary == {i \in file.binary : i > base + shown /\ i <= base + shown + more}
           found == ReaderBinary /\ core.binaryAt = None /\ newBinary # {}
           first == CHOOSE i \in newBinary : \A j \in newBinary : i <= j
           r == Roll(core, n)
           x == [kind |-> "binary", line |-> first]
           b == [r EXCEPT !.binaryAt = first]
<1>1. State /\ Total \in Nat /\ shown \in Nat /\ base \in Nat /\ n \in Nat /\ core \in Cores /\ n <= shown /\ core.visited \in Nat
      /\ core.visited <= n
      /\ file.binary \subseteq 1 .. Total /\ stopAnswer \in Nat /\ cfg.after \in Nat /\ core.calls \in Seq(SinkCalls)
      /\ cfg.binary \in {"none", "quit", "convert"} /\ None \notin Int
  <2>1. State /\ base \in Nat /\ shown \in Nat
    BY StateOf DEF Window
  <2>2. Total \in Nat /\ file.binary \subseteq 1 .. Total /\ None \notin Int /\ stopAnswer \in Nat /\ cfg \in Config
    BY Facts
  <2>3. cfg.after \in Nat /\ cfg.binary \in {"none", "quit", "convert"}
    BY <2>2 DEF Config
  <2>4. core \in Cores /\ core.visited \in 0 .. shown
    BY DEF Sound, Ranges
  <2>5. core.calls \in Seq(SinkCalls)
    BY <2>4, CoreTypes
  <2>6. n \in core.visited .. shown
    OBVIOUS
  <2> HIDE DEF Sound, Cores
  <2>7. n \in Nat /\ n <= shown /\ core.visited \in Nat /\ core.visited <= n
    BY <2>1, <2>4, <2>6
  <2> QED BY <2>1, <2>2, <2>3, <2>4, <2>5, <2>7
<1>2. /\ r \in Cores /\ r.offset = core.offset + n /\ r.counted = 0 /\ r.visited = 0 /\ r.pos = shown - n
      /\ r.calls = core.calls /\ r.go = core.go /\ r.binaryAt = core.binaryAt /\ r.afterLeft = core.afterLeft
      /\ r.panicked = core.panicked
      /\ Obeyed => r.lineNumber = base + n + 1
  BY <1>1, RollFields
<1>3. core' = IF found THEN Tell(b, x) ELSE r
  BY DEF Filled
<1>4. Obeyed => /\ NumbersMatch(core.calls) /\ core.offset = base
                /\ \A k \in DOMAIN core.calls : core.calls[k].kind \in LineKinds => core.calls[k].line <= base + n
  <2> SUFFICES ASSUME Obeyed PROVE \A k \in DOMAIN core.calls : core.calls[k].kind \in LineKinds => core.calls[k].line <= base + n
    BY DEF Sound, Numbers
  <2> TAKE k \in DOMAIN core.calls
  <2>1. core.calls[k].kind \in LineKinds => core.calls[k].line <= base + core.visited
    BY DEF Sound, Numbers, Steady
  <2>2. core.calls[k] \in SinkCalls
    BY <1>1
  <2>3. core.calls[k].line \in Int
    BY <2>2 DEF SinkCalls, Marks, LineCalls, BlockCalls
  <2> QED BY SMTT(30), <1>1, <2>1, <2>3
<1> HIDE DEF r
<1>5. Closed(core)
  BY <1>1, SoundCloses
<1>6. CASE ~found
  <2>1. core' = r
    BY <1>3, <1>6
  <2>2. Closed(core')
    <3>1. core' \in Cores /\ ~core'.panicked /\ core'.counted \in 0 .. Total /\ core'.afterLeft \in 0 .. cfg.after
          /\ core'.binaryAt \in 1 .. Total \cup {None}
      BY <1>1, <1>2, <1>5, <2>1 DEF Closed
    <3>2. core'.calls = core.calls
      BY <1>2, <2>1
    <3> QED BY <1>5, <3>1, <3>2 DEF Closed
  <2>3. ASSUME base' = base + n, shown' = shown - n + more, ~(core'.binaryAt # None /\ cfg.binary = "quit")
        PROVE  Sound(core)'
    <3>0. /\ core'.visited = 0 /\ core'.counted = 0 /\ core'.afterLeft = core.afterLeft /\ core'.binaryAt = core.binaryAt
          /\ core'.panicked = core.panicked /\ core'.calls = core.calls /\ core'.go = core.go
      BY <1>2, <2>1
    <3>1. Ranges(core)'
      <4>1. Ranges(core) /\ shown' \in Nat /\ cfg' = cfg /\ Total' = Total
        BY <1>1, <2>3 DEF Sound, Total
      <4> QED BY <3>0, <4>1 DEF Ranges
    <3>6. Refusal(core)'
      <4>1. Refusal(core) /\ cfg' = cfg /\ stopAnswer' = stopAnswer
        BY DEF Sound
      <4> QED BY <3>0, <4>1 DEF Refusal, Obeyed
    <3>2. Numbers(core)'
      <4> HIDE DEF found, newBinary
      <4>1. Obeyed => core'.offset = base + n /\ core'.lineNumber = base + n + 1
        BY <1>1, <1>2, <1>4, <2>1
      <4> QED BY <1>1, <1>4, <2>3, <3>0, <4>1 DEF Numbers, Obeyed
    <3>3. BinaryMarked(core.calls)' <=> BinaryMarked(core'.calls)
      BY DEF BinaryMarked, Concerned
    <3>4. ASSUME cfg.binary # "none", core.binaryAt = None PROVE \A l \in file.binary : l > base' + shown'
      <4>1. newBinary = {}
        BY <1>6, <3>4 DEF ReaderBinary
      <4>2. \A l \in file.binary : l > base + shown
        BY <3>4 DEF Sound, Announces
      <4>3. base' + shown' = base + shown + more
        BY <1>1, <2>3
      <4> HIDE DEF found
      <4> QED BY <1>1, <4>1, <4>2, <4>3
    <3>5. Announces(core)'
      BY <1>1, <1>2, <2>1, <2>3, <3>3, <3>4 DEF Sound, Announces
    <3> QED BY <1>2, <2>1, <3>1, <3>2, <3>5, <3>6 DEF Sound
  <2> QED BY <1>2, <2>1, <2>2, <2>3
<1>7. CASE found
  <2>1. newBinary \in SUBSET Nat /\ newBinary # {} /\ newBinary \subseteq file.binary /\ core.binaryAt = None /\ cfg.binary # "none"
    BY <1>1, <1>7 DEF ReaderBinary
  <2>2. first \in newBinary /\ \A j \in newBinary : first <= j
    <3> HIDE DEF newBinary
    <3>1. \E i \in newBinary : \A j \in newBinary : i <= j
      BY <2>1, LeastNat
    <3> QED BY <3>1, Zenon
  <2>3. first \in file.binary /\ first \in 1 .. Total /\ first \in Int
    BY <1>1, <2>1, <2>2
  <2>4. \A l \in file.binary : first <= l
    <3> SUFFICES ASSUME NEW l \in file.binary PROVE first <= l
      OBVIOUS
    <3>1. l > base + shown
      BY <2>1 DEF Sound, Announces
    <3>2. l <= base + shown + more => l \in newBinary
      BY <3>1
    <3> HIDE DEF first
    <3>3. first <= base + shown + more /\ l \in Int
      BY <1>1, <2>2
    <3> HIDE DEF newBinary
    <3> QED BY <1>1, <2>2, <2>3, <3>2, <3>3
  <2> HIDE DEF first, newBinary, found
  <2>5. x \in SinkCalls /\ x.kind = "binary" /\ x.kind \notin LineKinds /\ x.line = first
    BY <2>3 DEF SinkCalls, Marks, LineKinds
  <2>6. /\ b \in Cores /\ b.offset = r.offset /\ b.counted = 0 /\ b.visited = 0 /\ b.pos = shown - n
        /\ b.calls = core.calls /\ b.go = core.go /\ b.binaryAt = first /\ b.afterLeft = core.afterLeft
        /\ b.panicked = core.panicked /\ b.lineNumber = r.lineNumber
    BY <1>2, <2>3 DEF Cores
  <2> HIDE DEF x, b
  <2>7. Told(b, core', x)
    BY <1>3, <1>7, <2>5, <2>6, TellTold
  <2>8. Len(core'.calls) = Len(core.calls) + 1 /\ Len(core.calls) \in Nat
    BY <1>1, <2>5, <2>6, <2>7, AppendOne DEF Told
  <2>9. BinaryMarked(core'.calls) /\ Announced(core'.calls)
    BY <1>1, <2>1, <2>3, <2>4, <2>5, <2>6, <2>7, BinaryAppended DEF Told, Sound, Announces
  <2>10. Obeyed => /\ NumbersMatch(core'.calls)
                   /\ \A k \in DOMAIN core'.calls : core'.calls[k].kind \in LineKinds => core'.calls[k].line <= base + n
    <3>1. base + n \in Int
      BY <1>1
    <3> QED BY <1>1, <1>4, <2>5, <2>6, <2>7, <3>1, MarkAppended DEF Told
  <2>11. (Obeyed /\ stopAnswer > 0) => Len(core'.calls) <= stopAnswer /\ (core'.go => Len(core'.calls) < stopAnswer)
    <3> SUFFICES ASSUME Obeyed, stopAnswer > 0 PROVE Len(core'.calls) <= stopAnswer /\ (core'.go => Len(core'.calls) < stopAnswer)
      OBVIOUS
    <3>1. Len(core.calls) < stopAnswer
      BY DEF Refusal, Sound
    <3>2. core'.go => Len(core.calls) + 1 # stopAnswer
      BY <2>6, <2>7 DEF Told
    <3> QED BY <1>1, <2>8, <3>1, <3>2
  <2>12. Closed(core')
    BY <1>1, <1>5, <2>3, <2>6, <2>7, <2>9, <2>10, <2>11 DEF Closed, Told
  <2>13. ASSUME base' = base + n, shown' = shown - n + more, ~(core'.binaryAt # None /\ cfg.binary = "quit")
         PROVE  Sound(core)'
    <3>1. Ranges(core)'
      BY <1>1, <2>3, <2>6, <2>7, <2>13 DEF Sound, Ranges, Total, Told
    <3>2. Refusal(core)'
      BY <2>11 DEF Refusal, Obeyed
    <3>3. Numbers(core)'
      BY SMTT(30), <1>1, <1>2, <1>4, <2>6, <2>7, <2>13, <2>10 DEF Numbers, Obeyed, Steady, Told
    <3>4. BinaryMarked(core.calls)' <=> BinaryMarked(core'.calls)
      BY DEF BinaryMarked, Concerned
    <3>5. core'.binaryAt = first /\ first # None
      BY <1>1, <2>3, <2>6, <2>7 DEF Told
    <3>6. Announces(core)'
      BY <1>1, <2>1, <2>9, <2>13, <3>4, <3>5 DEF Announces
    <3> QED BY <2>7, <3>1, <3>2, <3>3, <3>6 DEF Sound, Told
  <2> QED BY <2>6, <2>7, <2>12, <2>13 DEF Told
<1> QED BY <1>6, <1>7

LEMMA FillStep == ASSUME IInv, NEW more \in 0 .. Total, Fill(more) PROVE IInv'
<1> DEFINE n == Rolled(core)
           left == shown - n
           exhausted == \/ left + more = 0
                        \/ core'.binaryAt # None /\ cfg.binary = "quit"
                        \/ ~core'.go
           leftover == ~exhausted /\ Leftover(n, more)
<1>1. Given /\ Window /\ State /\ Sound(core) /\ core.go /\ pc = "fill" /\ ~cfg.slice
  BY StateOf DEF IInv, Fill, Running, Loop, Window
<1>2. n \in core.visited .. shown /\ Total \in Nat /\ Readable \in 0 .. Total /\ shown \in Nat /\ base \in Nat /\ core.visited \in Nat /\ more \in Nat
  BY <1>1, RolledBounds, ReadableBound, Facts DEF Sound, Ranges, State
<1>3. /\ base + shown + more <= Readable
      /\ base' = base + n + (IF leftover THEN left ELSE 0)
      /\ shown' = left + more - (IF leftover THEN left ELSE 0)
      /\ pc' = IF exhausted \/ leftover THEN "finish" ELSE MatchByLine(core')
      /\ UNCHANGED <<file, cfg, stopAnswer>>
  BY DEF Fill
<1>4. Filled(n, more)
  BY DEF Fill, Filled
<1> HIDE DEF n, left
<1>5. left \in Nat /\ left = shown - n /\ n \in Nat
  BY <1>2 DEF left
<1>6. core'.pos = left /\ core'.visited = 0 /\ Closed(core')
  BY <1>1, <1>2, <1>3, <1>4, <1>5, FilledSound
<1>7. CASE exhausted \/ leftover
  <2>1. Given' /\ Over' /\ Running'
    BY <1>1, <1>3, <1>5, <1>6, <1>7, ClosedOver
  <2>2. base' + shown' = base + shown + more /\ base' \in Nat /\ shown' \in Nat
    <3> HIDE DEF exhausted, leftover
    <3>1. CASE leftover
      BY <1>1, <1>2, <1>3, <1>5, <3>1
    <3>2. CASE ~leftover
      BY <1>1, <1>2, <1>3, <1>5, <3>2
    <3> QED BY <3>1, <3>2
  <2>3. Window'
    BY <1>1, <1>2, <1>3, <1>7, <2>2 DEF Window, Total
  <2> QED BY <2>1, <2>3 DEF IInv
<1>8. CASE ~(exhausted \/ leftover)
  <2>1. base' = base + n /\ shown' = shown - n + more /\ pc' = MatchByLine(core') /\ core'.go
        /\ ~(core'.binaryAt # None /\ cfg.binary = "quit")
    BY <1>1, <1>2, <1>3, <1>5, <1>8
  <2>2. base + shown + more <= Total /\ base + shown + more = base' + shown' /\ base' \in Nat /\ shown' \in Nat /\ left \in 0 .. shown'
    BY <1>1, <1>2, <1>3, <1>5, <2>1
  <2>3. Sound(core)'
    BY <1>1, <1>2, <1>3, <1>4, <2>1, <2>2, FilledSound
  <2>4. pc' \in {"fast", "slow"} /\ (pc' = "fast" => cfg.fast)
    BY <2>1 DEF MatchByLine, IsFast
  <2>5. Given' /\ Window'
    BY <1>1, <1>3, <2>2, <2>4 DEF Given, Window, Total
  <2>6. Running'
    BY <1>3, <1>6, <2>1, <2>2, <2>3, <2>4 DEF Running, Loop
  <2>7. Over'
    BY <2>4 DEF Over, Loop
  <2> QED BY <2>5, <2>6, <2>7 DEF IInv
<1> QED BY <1>7, <1>8
-----------------------------------------------------------------------------
LEMMA NextInv == IInv /\ [Next]_vars => IInv'
<1> SUFFICES ASSUME IInv, [Next]_vars PROVE IInv'
  OBVIOUS
<1>1. CASE Begin
  BY <1>1, BeginStep
<1>2. ASSUME NEW more \in 0 .. Total, Fill(more) PROVE IInv'
  BY <1>2, FillStep
<1>3. CASE FillFails
  BY <1>3, FillFailsStep
<1>4. CASE SlowLine
  BY <1>4, SlowLineStep
<1>5. CASE SlowEnd
  BY <1>5, SlowEndStep
<1>6. CASE FastToSlow \/ FastLoopEnds
  BY <1>6, FastMoveStep
<1>7. CASE FastMatch
  BY <1>7, FastMatchStep
<1>8. CASE FastInvert
  BY <1>8, FastInvertStep
<1>9. CASE FastEnd
  BY <1>9, FastEndStep
<1>10. CASE Finish
  BY <1>10, FinishStep
<1>11. CASE UNCHANGED vars
  <2>1. UNCHANGED <<file, cfg, stopAnswer, pc, base, shown, core>>
    BY <1>11 DEF vars
  <2>2. Given' /\ Window' /\ Loop' = Loop
    BY <2>1 DEF IInv, Given, Window, Total, Loop
  <2>3. CASE Loop
    <3>1. Sound(core)'
      BY <2>1, <2>3, SoundPrimed DEF IInv, Running
    <3>2. Running'
      BY <2>1, <2>2, <2>3, <3>1 DEF IInv, Running, Obeyed, Total
    <3> QED BY <2>2, <2>3, <3>2 DEF IInv, Over
  <2>4. CASE ~Loop
    <3>1. BinaryMarked(core.calls)' <=> BinaryMarked(core.calls)
      BY <2>1 DEF BinaryMarked, Concerned
    <3>2. Over'
      BY <2>1, <2>2, <2>4, <3>1 DEF IInv, Over, Obeyed, Total, Loop
    <3> QED BY <2>2, <2>4, <3>2 DEF IInv, Running
  <2> QED BY <2>3, <2>4
<1> QED BY <1>1, <1>2, <1>3, <1>4, <1>5, <1>6, <1>7, <1>8, <1>9, <1>10, <1>11 DEF Next

\* The core stands where IInv says at every point of a search.
THEOREM LineInvariant == Spec => []IInv
<1>1. Init => IInv
  BY InitInv
<1>2. IInv /\ [Next]_vars => IInv'
  BY NextInv
<1> QED BY <1>1, <1>2, PTL DEF Spec

\* No range of the core runs backwards: Match.new never panics; and a reader is
\* filled only when everything shown was searched (SearchCore, ReadByLine.fill).
THEOREM LineTypeOK == Spec => []TypeOK
<1>1. IInv => TypeOK
  <2> SUFFICES ASSUME IInv PROVE TypeOK
    OBVIOUS
  <2>1. Given /\ Window /\ base \in Nat /\ shown \in Nat /\ base + shown <= Total /\ Total \in Nat
    BY Facts DEF IInv, Window
  <2>2. base \in 0 .. Total /\ shown \in 0 .. Total - base
    BY <2>1
  <2>3. CASE Loop
    BY <2>1, <2>2, <2>3 DEF IInv, Given, Running, Loop, TypeOK, Sound, Ranges
  <2>4. CASE ~Loop
    BY <2>1, <2>2, <2>4 DEF IInv, Given, Over, Loop, TypeOK
  <2> QED BY <2>3, <2>4
<1> QED BY <1>1, LineInvariant, PTL

\* Every line that is reported has its own offset and number, and is behind
\* the lines reported before it (count_lines, roll, sink_matched).
THEOREM LineNumbered == Spec => []Numbered
<1>1. IInv => Numbered
  <2> SUFFICES ASSUME IInv, Obeyed PROVE NumbersMatch(core.calls)
    BY DEF Numbered, NumbersMatch
  <2>1. CASE Loop
    BY <2>1 DEF IInv, Running, Sound, Numbers
  <2>2. CASE ~Loop
    BY <2>2 DEF IInv, Over
  <2> QED BY <2>1, <2>2
<1> QED BY <1>1, LineInvariant, PTL

\* After the sink answered false to a call, it is given finish and nothing
\* else, from whichever depth of the loops of match_by_line it was called.
THEOREM LineStops == Spec => []StopsAtOnce
<1>1. IInv => StopsAtOnce
  <2> SUFFICES ASSUME IInv, Obeyed, stopAnswer > 0, Len(core.calls) > stopAnswer
               PROVE  Len(core.calls) = stopAnswer + 1 /\ core.calls[stopAnswer + 1].kind = "finish"
    BY DEF StopsAtOnce
  <2>1. stopAnswer \in Nat /\ Len(core.calls) \in Nat
    <3>1. core.calls \in Seq(SinkCalls)
      BY CoreTypes DEF IInv, Running, Over, Sound
    <3> QED BY <3>1, Facts DEF IInv
  <2>2. CASE Loop
    BY <2>1, <2>2 DEF IInv, Running, Sound, Refusal
  <2>3. CASE ~Loop
    BY <2>3 DEF IInv, Over
  <2> QED BY <2>2, <2>3
<1> QED BY <1>1, LineInvariant, PTL

\* Binary data is announced once, before any line it concerns is reported, and
\* under quit no line comes after it (detect_binary, ReadByLine.fill).
THEOREM LineBinary == Spec => []BinaryAnnounced
<1>1. IInv => BinaryAnnounced
  <2> SUFFICES ASSUME IInv, cfg.binary # "none" PROVE BinaryMarked(core.calls)
    BY DEF BinaryAnnounced, BinaryMarked, Concerned
  <2>1. CASE Loop
    BY <2>1 DEF IInv, Running, Sound, Announces
  <2>2. CASE ~Loop
    BY <2>2 DEF IInv, Over
  <2> QED BY <2>1, <2>2
<1> QED BY <1>1, LineInvariant, PTL

\* A fill after which the search goes on has read a line or dropped one, so
\* there is no fill for ever, although roll may keep every line of the buffer
\* for context (ReadByLine.fill).
THEOREM LineFillAdvances == Spec => FillAdvances
<1> DEFINE Advance == (pc = "fill" /\ pc' \in {"fast", "slow"}) => base' > base \/ base' + shown' > base + shown
<1>1. IInv /\ [Next]_vars => [Advance]_vars
  <2> SUFFICES ASSUME IInv, Next, pc = "fill", pc' \in {"fast", "slow"}
               PROVE  base' > base \/ base' + shown' > base + shown
    OBVIOUS
  <2>1. PICK more \in 0 .. Total : Fill(more)
    BY DEF Next, Begin, FillFails, SlowLine, SlowEnd, FastToSlow, FastMatch, FastInvert, FastLoopEnds, FastEnd, Finish
  <2> DEFINE n == Rolled(core)
  <2>2. Given /\ Window /\ State /\ Sound(core)
    BY StateOf DEF IInv, Running, Loop
  <2>3. n \in core.visited .. shown /\ Total \in Nat /\ shown \in Nat /\ base \in Nat /\ core.visited \in Nat /\ more \in Nat
    BY <2>1, <2>2, RolledBounds, Facts DEF Sound, Ranges, State
  <2>4. base' = base + n /\ shown' = shown - n + more /\ ~(n = 0 /\ more = 0)
    <3>1. ~(n = 0 /\ more = 0)
      BY <2>1 DEF Fill, Leftover
    <3>2. base' = base + n + 0 /\ shown' = shown - n + more - 0
      BY <2>1 DEF Fill
    <3> QED BY <2>3, <3>1, <3>2
  <2> HIDE DEF n
  <2> QED BY <2>3, <2>4
<1>2. [][Advance]_vars => FillAdvances
  BY DEF FillAdvances
<1> QED BY <1>1, <1>2, LineInvariant, PTL DEF Spec
-----------------------------------------------------------------------------
\* What was reported, and what is to be.
Briefs == [kind : LineKinds \cup {"break"}, line : Int, upto : Int]
OfLines(x) == x.kind \in LineKinds \cup {"break"}
Brief(x) == [kind |-> x.kind, line |-> x.line, upto |-> UpTo(x)]

IsListing(f, s) ==
    /\ f = [n \in 0 .. Len(s) |-> f[n]] /\ f[0] = <<>>
    /\ \A n \in 1 .. Len(s) : f[n] = IF OfLines(s[n]) THEN Append(f[n - 1], Brief(s[n])) ELSE f[n - 1]

\* The recursive function of LineCallsOf is defined.
LEMMA Listing ==
    ASSUME NEW s \in Seq(SinkCalls)
    PROVE  \E f \in [0 .. Len(s) -> Seq(Briefs)] : IsListing(f, s) /\ LineCallsOf(s) = f[Len(s)]
<1> DEFINE N == Len(s)
           F == [p \in (1 .. N) \X Seq(Briefs) |-> IF OfLines(s[p[1]]) THEN Append(p[2], Brief(s[p[1]])) ELSE p[2]]
           Turns(f) == [n \in 0 .. N |-> IF n = 0 THEN <<>>
                                         ELSE IF s[n].kind \in LineKinds \cup {"break"}
                                         THEN Append(f[n - 1], [kind |-> s[n].kind, line |-> s[n].line, upto |-> UpTo(s[n])])
                                         ELSE f[n - 1]]
           rec == CHOOSE f : f = Turns(f)
<1>0. PICK z \in Int : z = 0
  OBVIOUS
<1>1. N \in Nat /\ N \in Int /\ z <= N /\ \A n \in 1 .. N : s[n] \in SinkCalls
  BY <1>0
<1>2. \A n \in 1 .. N : OfLines(s[n]) => Brief(s[n]) \in Briefs
  <2> TAKE n \in 1 .. N
  <2>1. s[n].line \in Int /\ UpTo(s[n]) \in Int
    <3>1. s[n] \in SinkCalls
      BY <1>1
    <3> QED BY <3>1 DEF SinkCalls, Marks, LineCalls, BlockCalls, UpTo
  <2> QED BY <2>1 DEF OfLines, Brief, Briefs
<1>3. <<>> \in Seq(Briefs)
  OBVIOUS
<1>4. LineCallsOf(s) = rec[N]
  BY DEF LineCallsOf
<1> HIDE DEF N
<1>5. \A n \in z + 1 .. N, d \in Seq(Briefs) : F[<<n, d>>] = IF OfLines(s[n]) THEN Append(d, Brief(s[n])) ELSE d
  BY <1>0
<1> HIDE DEF F
<1>6. \A n \in z + 1 .. N, d \in Seq(Briefs) : F[<<n, d>>] \in Seq(Briefs)
  <2> TAKE n \in z + 1 .. N, d \in Seq(Briefs)
  <2>1. CASE OfLines(s[n])
    <3>1. Brief(s[n]) \in Briefs
      BY <1>0, <1>1, <1>2, <2>1
    <3>2. Append(d, Brief(s[n])) \in Seq(Briefs)
      BY <3>1, AppendOne
    <3> QED BY <1>5, <2>1, <3>2
  <2>2. CASE ~OfLines(s[n])
    BY <1>5, <2>2
  <2> QED BY <2>1, <2>2
<1>7. PICK g : IsLoop(g, z, N, Seq(Briefs), <<>>, F)
  BY <1>1, <1>3, <1>6, Recursion
<1>8. /\ g \in [0 .. N -> Seq(Briefs)] /\ g[0] = <<>>
      /\ \A n \in 1 .. N : g[n] = IF OfLines(s[n]) THEN Append(g[n - 1], Brief(s[n])) ELSE g[n - 1]
  <2>1. \A n \in 1 .. N : n - 1 \in 0 .. N /\ n \in z + 1 .. N
    BY <1>0, <1>1
  <2>2. g \in [0 .. N -> Seq(Briefs)] /\ g[0] = <<>> /\ \A n \in z + 1 .. N : g[n] = F[<<n, g[n - 1]>>]
    BY <1>0, <1>7 DEF IsLoop
  <2> QED BY <1>5, <2>1, <2>2
<1>9. g = Turns(g)
  <2>1. \A n \in 1 .. N : n # 0 /\ n \in 0 .. N
    BY <1>1
  <2>2. Turns(g)[0] = g[0]
    BY <1>1, <1>8
  <2>3. \A n \in 1 .. N : Turns(g)[n] = g[n]
    BY <1>8, <2>1 DEF OfLines, Brief
  <2>4. \A n \in 0 .. N : n = 0 \/ n \in 1 .. N
    BY <1>1
  <2>5. \A n \in 0 .. N : Turns(g)[n] = g[n]
    BY <2>2, <2>3, <2>4
  <2>6. DOMAIN Turns(g) = 0 .. N /\ Turns(g) = [n \in 0 .. N |-> Turns(g)[n]]
    OBVIOUS
  <2> HIDE DEF Turns
  <2> QED BY <1>8, <2>5, <2>6
<1>10. rec = Turns(rec)
  BY <1>9, Zenon
<1> HIDE DEF rec
<1>11. /\ rec = [n \in 0 .. N |-> rec[n]] /\ rec[0] = <<>>
       /\ \A n \in 1 .. N : rec[n] = IF OfLines(s[n]) THEN Append(rec[n - 1], Brief(s[n])) ELSE rec[n - 1]
  <2>1. DOMAIN rec = 0 .. N /\ rec = [n \in 0 .. N |-> rec[n]]
    BY <1>10
  <2>2. rec[0] = <<>>
    BY <1>1, <1>10
  <2>3. \A n \in 1 .. N : n \in 0 .. N /\ n # 0
    BY <1>1
  <2> QED BY <1>10, <2>1, <2>2, <2>3 DEF OfLines, Brief
<1> DEFINE X == [n \in 0 .. N |-> Seq(Briefs)]
<1>12. \A n \in 0 .. N : rec[n] \in X[n]
  <2>1. rec[z] \in X[z]
    BY <1>0, <1>1, <1>3, <1>11
  <2>2. \A n \in z + 1 .. N : rec[n - 1] \in X[n - 1] => rec[n] \in X[n]
    <3> SUFFICES ASSUME NEW n \in z + 1 .. N, rec[n - 1] \in X[n - 1] PROVE rec[n] \in X[n]
      OBVIOUS
    <3>1. n \in 1 .. N /\ n - 1 \in 0 .. N /\ n \in 0 .. N
      BY <1>0, <1>1
    <3>2. rec[n - 1] \in Seq(Briefs)
      BY <3>1
    <3>3. OfLines(s[n]) => Append(rec[n - 1], Brief(s[n])) \in Seq(Briefs)
      BY <1>2, <3>1, <3>2, AppendOne
    <3>4. rec[n] \in Seq(Briefs)
      BY <1>11, <3>1, <3>2, <3>3
    <3> QED BY <3>1, <3>4
  <2> HIDE DEF X
  <2>3. \A n \in z .. N : rec[n] \in X[n]
    BY <1>1, <2>1, <2>2, Along
  <2> QED BY <1>0, <2>3
<1>13. rec \in [0 .. N -> Seq(Briefs)]
  BY <1>11, <1>12
<1>14. IsListing(rec, s)
  BY <1>11 DEF IsListing, N
<1> QED BY <1>4, <1>13, <1>14 DEF N

\* A call that is no line and no break changes nothing, another is added.
LEMMA ListingAppended ==
    ASSUME NEW s \in Seq(SinkCalls), NEW x \in SinkCalls
    PROVE  /\ LineCallsOf(s) \in Seq(Briefs)
           /\ OfLines(x) => LineCallsOf(Append(s, x)) = Append(LineCallsOf(s), Brief(x))
           /\ ~OfLines(x) => LineCallsOf(Append(s, x)) = LineCallsOf(s)
<1> DEFINE t == Append(s, x)
<1>0. PICK z \in Int : z = 0
  OBVIOUS
<1>1. /\ t \in Seq(SinkCalls) /\ Len(t) = Len(s) + 1 /\ t[Len(s) + 1] = x /\ \A i \in 1 .. Len(s) : t[i] = s[i]
      /\ Len(s) \in Nat /\ Len(s) \in Int /\ z <= Len(s)
  BY <1>0, AppendOne
<1>2. PICK f \in [0 .. Len(s) -> Seq(Briefs)] : IsListing(f, s) /\ LineCallsOf(s) = f[Len(s)]
  BY Listing
<1> HIDE DEF t
<1>3. PICK g \in [0 .. Len(t) -> Seq(Briefs)] : IsListing(g, t) /\ LineCallsOf(t) = g[Len(t)]
  BY <1>1, Listing
<1> DEFINE X == [n \in 0 .. Len(s) |-> {f[n]}]
<1>4. \A n \in 0 .. Len(s) : g[n] \in X[n]
  <2>1. g[z] \in X[z]
    BY <1>0, <1>1, <1>2, <1>3 DEF IsListing
  <2>2. \A n \in z + 1 .. Len(s) : g[n - 1] \in X[n - 1] => g[n] \in X[n]
    <3> SUFFICES ASSUME NEW n \in z + 1 .. Len(s), g[n - 1] \in X[n - 1] PROVE g[n] \in X[n]
      OBVIOUS
    <3>1. n \in 1 .. Len(s) /\ n \in 1 .. Len(t) /\ n - 1 \in 0 .. Len(s) /\ n \in 0 .. Len(s) /\ t[n] = s[n]
      BY <1>0, <1>1
    <3>2. g[n - 1] = f[n - 1]
      BY <3>1
    <3>3. g[n] = f[n]
      BY <1>2, <1>3, <3>1, <3>2 DEF IsListing
    <3> QED BY <3>1, <3>3
  <2> HIDE DEF X
  <2>3. \A n \in z .. Len(s) : g[n] \in X[n]
    BY <1>1, <2>1, <2>2, Along
  <2> QED BY <1>0, <2>3
<1>5. g[Len(s)] = f[Len(s)] /\ Len(t) \in 1 .. Len(t) /\ Len(t) - 1 = Len(s)
  BY <1>1, <1>4
<1>6. g[Len(t)] = IF OfLines(x) THEN Append(f[Len(s)], Brief(x)) ELSE f[Len(s)]
  <2>1. g[Len(t)] = IF OfLines(t[Len(t)]) THEN Append(g[Len(t) - 1], Brief(t[Len(t)])) ELSE g[Len(t) - 1]
    BY <1>3, <1>5 DEF IsListing
  <2>2. t[Len(t)] = x
    BY <1>1
  <2> QED BY <1>5, <2>1, <2>2
<1>7. f[Len(s)] \in Seq(Briefs)
  BY <1>1, <1>2
<1>8. LineCallsOf(t) = g[Len(t)] /\ LineCallsOf(s) = f[Len(s)]
  BY <1>2, <1>3
<1> HIDE DEF X
<1> QED BY <1>6, <1>7, <1>8 DEF t
-----------------------------------------------------------------------------
\* The lemmas that follow hold for a search whatever it must report: a record R
\* says which lines are chosen as matches, which are due, at which of them a
\* call starts, its kind, the line it goes up to, and which lines of the context
\* after a match are given as matches.  LineReference is that of a search by
\* lines, MultiReference that of a multi line search, in which a match at the
\* very end is on the line behind the last.
CallsOf(R, i) == Calls(R.due, R.kind[i], i, R.upto[i])
ListedOf(R) == Reports(Total, R.starts, [i \in R.starts |-> CallsOf(R, i)])

Follows(R, i) == \E j \in R.chosen : j < i /\ i <= j + cfg.after
Precedes(R, i) == \E j \in R.chosen : i < j /\ j <= i + cfg.before
Single(R, i, kind) == i \in R.starts /\ R.kind[i] = kind /\ R.upto[i] = i

Reference(R) ==
    /\ R.chosen \in SUBSET (1 .. Total + 1) /\ R.due \in SUBSET (1 .. Total) /\ R.starts \in SUBSET R.due
    /\ \A i \in R.starts : R.kind[i] \in LineKinds /\ R.upto[i] \in Int
    /\ \A i \in 1 .. Total :
           i \notin R.chosen =>
               /\ Follows(R, i) => Single(R, i, IF i \in R.over THEN "match" ELSE "after")
               /\ ~Follows(R, i) /\ Precedes(R, i) => Single(R, i, "before")
               /\ ~Follows(R, i) /\ ~Precedes(R, i) /\ cfg.passthru => Single(R, i, "other")
               /\ ~Follows(R, i) /\ ~Precedes(R, i) /\ ~cfg.passthru => i \notin R.due

LEMMA ReferenceFacts ==
    ASSUME Given, NEW R, Reference(R)
    PROVE  /\ R.chosen \in SUBSET (1 .. Total + 1)
           /\ cfg.before \in Nat /\ cfg.after \in Nat /\ cfg.passthru \in BOOLEAN
           /\ cfg.passthru => cfg.before = 0 /\ cfg.after = 0
           /\ Total \in Nat
           /\ \A i \in R.chosen : i \in Nat
           /\ \A i \in R.due : i \in Nat /\ i \in 1 .. Total
           /\ \A i \in R.starts : i \in R.due /\ i \in Nat /\ i \in 1 .. Total
<1>1. cfg \in Config /\ Total \in Nat
  BY Facts
<1>2. cfg.passthru => cfg.before = 0 /\ cfg.after = 0
  BY PassthruAssumption DEF Given
<1>3. cfg.before \in Nat /\ cfg.after \in Nat /\ cfg.passthru \in BOOLEAN
  BY <1>1 DEF Config
<1>4. R.chosen \in SUBSET (1 .. Total + 1) /\ R.due \in SUBSET (1 .. Total) /\ R.starts \in SUBSET R.due
  BY DEF Reference
<1>5. (\A i \in R.chosen : i \in Nat) /\ (\A i \in R.due : i \in Nat /\ i \in 1 .. Total) /\ (\A i \in R.starts : i \in R.due)
  BY <1>1, <1>4
<1> QED BY <1>1, <1>2, <1>3, <1>4, <1>5

\* AfterOf(R, v, n): n lines behind line v follow a match up to it closely enough.
AfterOf(R, v, n) == \A i \in v + 1 .. Total : (\E j \in R.chosen : j <= v /\ i <= j + cfg.after) <=> i <= v + n

\* FreeOf(R, v, w): no line behind v and up to w is a match within the limit.
FreeOf(R, v, w) == \A j \in R.chosen : ~(v < j /\ j <= w)

\* The last line of a match opens the context after it.
LEMMA AfterMatchedOf ==
    ASSUME Given, NEW R, Reference(R), NEW i \in R.chosen
    PROVE  AfterOf(R, i, cfg.after)
<1>0. R.chosen \in SUBSET (1 .. Total + 1) /\ Total \in Nat /\ cfg.after \in Nat
  BY ReferenceFacts
<1>1. \A j \in R.chosen : j \in Int
  BY <1>0
<1> QED BY <1>0, <1>1 DEF AfterOf

\* A line of that context leaves one less.
LEMMA AfterNextOf ==
    ASSUME Given, NEW R, Reference(R), NEW v \in Nat, NEW n \in Nat, n > 0, AfterOf(R, v, n), v + 1 \notin R.chosen
    PROVE  AfterOf(R, v + 1, n - 1)
<1>0. R.chosen \in SUBSET (1 .. Total + 1) /\ Total \in Nat /\ cfg.after \in Nat
  BY ReferenceFacts
<1> SUFFICES ASSUME NEW i \in (v + 1) + 1 .. Total
             PROVE  (\E j \in R.chosen : j <= v + 1 /\ i <= j + cfg.after) <=> i <= (v + 1) + (n - 1)
  BY DEF AfterOf
<1>1. i \in v + 1 .. Total /\ (v + 1) + (n - 1) = v + n
  OBVIOUS
<1>2. (\E j \in R.chosen : j <= v /\ i <= j + cfg.after) <=> i <= v + n
  BY <1>1 DEF AfterOf
<1>3. \A j \in R.chosen : j <= v + 1 <=> j <= v
  BY <1>0
<1> QED BY <1>1, <1>2, <1>3

\* Lines that are no matches leave it closed.
LEMMA AfterNoneOf ==
    ASSUME Given, NEW R, Reference(R), NEW v \in Nat, NEW w \in Nat, v <= w, AfterOf(R, v, 0), FreeOf(R, v, w)
    PROVE  AfterOf(R, w, 0)
<1>0. R.chosen \in SUBSET (1 .. Total + 1) /\ Total \in Nat /\ cfg.after \in Nat
  BY ReferenceFacts
<1> SUFFICES ASSUME NEW i \in w + 1 .. Total
             PROVE  (\E j \in R.chosen : j <= w /\ i <= j + cfg.after) <=> i <= w + 0
  BY DEF AfterOf
<1>1. i \in v + 1 .. Total /\ ~(i <= w + 0) /\ ~(i <= v + 0)
  OBVIOUS
<1>2. ~\E j \in R.chosen : j <= v /\ i <= j + cfg.after
  BY <1>1 DEF AfterOf
<1>3. \A j \in R.chosen : j <= w <=> j <= v
  BY <1>0 DEF FreeOf
<1> QED BY <1>1, <1>2, <1>3

\* Of which kind a line is, from what the core knows of it.
LEMMA AfterKindOf ==
    ASSUME Given, NEW R, Reference(R), NEW v \in Nat, NEW n \in Nat, n > 0, AfterOf(R, v, n), v + 1 \notin R.chosen, v + 1 <= Total
    PROVE  Single(R, v + 1, IF v + 1 \in R.over THEN "match" ELSE "after")
<1>0. R.chosen \in SUBSET (1 .. Total + 1) /\ Total \in Nat /\ cfg.after \in Nat
  BY ReferenceFacts
<1>1. v + 1 \in v + 1 .. Total /\ v + 1 <= v + n /\ v + 1 \in 1 .. Total
  BY <1>0
<1>2. PICK j \in R.chosen : j <= v /\ v + 1 <= j + cfg.after
  BY <1>1 DEF AfterOf
<1>3. Follows(R, v + 1)
  <2>1. j < v + 1
    BY <1>0, <1>2
  <2> QED BY <1>2, <2>1 DEF Follows
<1> QED BY <1>1, <1>3 DEF Reference

\* Behind the context after a match and before the next match.
LEMMA NotAfterOf ==
    ASSUME Given, NEW R, Reference(R), NEW v \in Nat, AfterOf(R, v, 0), NEW k \in Nat, v < k, k <= Total, FreeOf(R, v, k)
    PROVE  k \notin R.chosen /\ ~Follows(R, k)
<1>0. R.chosen \in SUBSET (1 .. Total + 1) /\ Total \in Nat /\ cfg.after \in Nat
  BY ReferenceFacts
<1>1. k \notin R.chosen
  BY DEF FreeOf
<1>2. k \in v + 1 .. Total /\ ~(k <= v + 0)
  BY <1>0
<1>3. ~\E j \in R.chosen : j <= v /\ k <= j + cfg.after
  BY <1>2 DEF AfterOf
<1>4. \A j \in R.chosen : j < k => j <= v
  <2> TAKE j \in R.chosen
  <2>1. j \in Int /\ ~(v < j /\ j <= k)
    BY <1>0 DEF FreeOf
  <2> QED BY <2>1
<1> QED BY <1>1, <1>3, <1>4 DEF Follows

LEMMA BeforeKindOf ==
    ASSUME Given, NEW R, Reference(R), NEW v \in Nat, AfterOf(R, v, 0), NEW k \in Nat, v < k, k <= Total, FreeOf(R, v, k),
           NEW j \in R.chosen, k < j, j <= k + cfg.before
    PROVE  Single(R, k, "before")
<1>1. k \notin R.chosen /\ ~Follows(R, k)
  BY NotAfterOf
<1>2. Precedes(R, k) /\ k \in 1 .. Total
  BY ReferenceFacts DEF Precedes
<1> QED BY <1>1, <1>2 DEF Reference

LEMMA OtherKindOf ==
    ASSUME Given, NEW R, Reference(R), cfg.passthru, NEW k \in 1 .. Total, k \notin R.chosen
    PROVE  Single(R, k, "other")
<1>0. R.chosen \in SUBSET (1 .. Total + 1) /\ cfg.after = 0 /\ cfg.before = 0 /\ Total \in Nat
  BY ReferenceFacts
<1>1. \A j \in R.chosen : j \in Int
  BY <1>0
<1>2. ~Follows(R, k) /\ ~Precedes(R, k)
  BY <1>0, <1>1 DEF Follows, Precedes
<1> QED BY <1>2 DEF Reference

\* A line too far from the matches on both sides is not due.
LEMMA NotDueOf ==
    ASSUME Given, NEW R, Reference(R), ~cfg.passthru, NEW v \in Nat, AfterOf(R, v, 0), NEW k \in Nat, v < k, FreeOf(R, v, k),
           \A j \in R.chosen : k < j => k + cfg.before < j
    PROVE  k \notin R.due
<1>0. R.chosen \in SUBSET (1 .. Total + 1) /\ (\A j \in R.due : j \in 1 .. Total) /\ cfg.before \in Nat /\ Total \in Nat
  BY ReferenceFacts
<1> SUFFICES ASSUME k <= Total PROVE k \notin R.due
  BY <1>0
<1>1. k \notin R.chosen /\ ~Follows(R, k)
  BY NotAfterOf
<1>2. \A j \in R.chosen : j \in Int
  BY <1>0
<1>3. ~Precedes(R, k) /\ k \in 1 .. Total
  BY <1>0, <1>2 DEF Precedes
<1> QED BY <1>1, <1>3 DEF Reference
-----------------------------------------------------------------------------
Quits == cfg.binary = "quit" /\ file.binary # {}

\* What is told of a line or a block, and of lines that were left out.
Entry(R, i) == [kind |-> R.kind[i], line |-> i, upto |-> R.upto[i]]
Skip(n) == [kind |-> "break", line |-> n, upto |-> n]

LEMMA Joined ==
    ASSUME NEW S, NEW s \in Seq(S), NEW t \in Seq(S)
    PROVE  /\ s \o t \in Seq(S) /\ Len(s \o t) = Len(s) + Len(t)
           /\ \A i \in 1 .. Len(s) : (s \o t)[i] = s[i]
           /\ \A i \in 1 .. Len(t) : (s \o t)[Len(s) + i] = t[i]
  OBVIOUS

LEMMA TwoAdded ==
    ASSUME NEW S, NEW L \in Seq(S), NEW x \in S, NEW y \in S
    PROVE  /\ <<y>> \o <<x>> \in Seq(S) /\ L \o (<<y>> \o <<x>>) = Append(Append(L, y), x)
           /\ <<>> \o <<x>> \in Seq(S) /\ L \o (<<>> \o <<x>>) = Append(L, x)
<1> DEFINE a == <<y>> \o <<x>>
           l == L \o a
           r == Append(Append(L, y), x)
<1>1. Len(L) \in Nat /\ DOMAIN L = 1 .. Len(L) /\ \A i \in 1 .. Len(L) : L[i] \in S
  OBVIOUS
<1>2. a \in Seq(S) /\ Len(a) = 2 /\ a[1] = y /\ a[2] = x
  <2>1. <<y>> \in Seq(S) /\ <<x>> \in Seq(S) /\ Len(<<y>>) = 1 /\ Len(<<x>>) = 1
    OBVIOUS
  <2> QED BY <2>1
<1> HIDE DEF a
<1>3. l \in Seq(S) /\ Len(l) = Len(L) + 2 /\ l[Len(L) + 1] = y /\ l[Len(L) + 2] = x /\ \A i \in 1 .. Len(L) : l[i] = L[i]
  <2>0. a \in Seq(S)
    BY <1>2
  <2>1. l \in Seq(S) /\ Len(l) = Len(L) + Len(a) /\ \A i \in 1 .. Len(L) : l[i] = L[i]
    BY <2>0, Joined
  <2>2. \A i \in 1 .. Len(a) : l[Len(L) + i] = a[i]
    BY <2>0, Joined
  <2> HIDE DEF l
  <2>3. l[Len(L) + 1] = a[1] /\ l[Len(L) + 2] = a[2]
    BY <1>2, <2>2
  <2> QED BY <1>2, <2>1, <2>3
<1>4. r \in Seq(S) /\ Len(r) = Len(L) + 2 /\ r[Len(L) + 1] = y /\ r[Len(L) + 2] = x /\ \A i \in 1 .. Len(L) : r[i] = L[i]
  <2> DEFINE m == Append(L, y)
  <2>1. m \in Seq(S) /\ Len(m) = Len(L) + 1 /\ m[Len(L) + 1] = y /\ \A i \in 1 .. Len(L) : m[i] = L[i]
    BY AppendOne
  <2> HIDE DEF m
  <2>2. r \in Seq(S) /\ Len(r) = Len(m) + 1 /\ r[Len(m) + 1] = x /\ \A i \in 1 .. Len(m) : r[i] = m[i]
    BY <2>1, AppendOne DEF m
  <2> HIDE DEF r
  <2> QED BY <1>1, <2>1, <2>2
<1> HIDE DEF l, r
<1>5. l = r
  <2>1. \A i \in 1 .. Len(L) + 2 : i \in 1 .. Len(L) \/ i = Len(L) + 1 \/ i = Len(L) + 2
    BY <1>1
  <2>2. \A i \in 1 .. Len(L) + 2 : l[i] = r[i]
    BY <1>3, <1>4, <2>1
  <2> QED BY <1>3, <1>4, <2>2
<1>6. <<>> \o <<x>> = <<x>> /\ L \o <<x>> = Append(L, x)
  OBVIOUS
<1> QED BY <1>2, <1>5, <1>6 DEF l, r, a

\* The calls for a line or a block, and a break before it if there is a gap.
LEMMA CallsTypedOf ==
    ASSUME Given, NEW R, Reference(R), NEW i \in R.starts
    PROVE  /\ CallsOf(R, i) \in Seq(Briefs)
           /\ i \in Int /\ R.kind[i] \in LineKinds /\ R.upto[i] \in Int
           /\ \A L \in Seq(Briefs) :
                  L \o CallsOf(R, i) = IF Gap(R.due, i)
                                          THEN Append(Append(L, Skip(i - 1)), Entry(R, i))
                                          ELSE Append(L, Entry(R, i))
<1>1. i \in Int /\ i - 1 \in Int
  BY ReferenceFacts
<1>2. R.kind[i] \in LineKinds /\ R.upto[i] \in Int
  BY DEF Reference
<1>3. Entry(R, i) \in Briefs /\ Skip(i - 1) \in Briefs
  BY <1>1, <1>2 DEF Briefs, Entry, Skip
<1> DEFINE x == Entry(R, i)
           y == Skip(i - 1)
           t == CallsOf(R, i)
<1>4. t = IF Gap(R.due, i) THEN <<y>> \o <<x>> ELSE <<>> \o <<x>>
  BY DEF CallsOf, Calls, Entry, Skip
<1>5. x \in Briefs /\ y \in Briefs
  BY <1>3
<1>6. \A L \in Seq(Briefs) :
          /\ <<y>> \o <<x>> \in Seq(Briefs) /\ L \o (<<y>> \o <<x>>) = Append(Append(L, y), x)
          /\ <<>> \o <<x>> \in Seq(Briefs) /\ L \o (<<>> \o <<x>>) = Append(L, x)
  <2> HIDE DEF x, y
  <2> QED BY <1>5, TwoAdded
<1> HIDE DEF x, y, t
<1>7. <<>> \in Seq(Briefs)
  OBVIOUS
<1>8. t \in Seq(Briefs) /\ \A L \in Seq(Briefs) : L \o t = IF Gap(R.due, i) THEN Append(Append(L, y), x) ELSE Append(L, x)
  <2>1. CASE Gap(R.due, i)
    <3>1. t = <<y>> \o <<x>>
      BY <1>4, <2>1
    <3> QED BY <1>6, <1>7, <2>1, <3>1, Zenon
  <2>2. CASE ~Gap(R.due, i)
    <3>1. t = <<>> \o <<x>>
      BY <1>4, <2>2
    <3> QED BY <1>6, <1>7, <2>2, <3>1, Zenon
  <2> QED BY <2>1, <2>2
<1> QED BY <1>1, <1>2, <1>8 DEF x, y, t

\* The recursive function of Reports is defined.
LEMMA ListedIsOf ==
    ASSUME Given, NEW R, Reference(R)
    PROVE  /\ ListedOf(R) \in [0 .. Total -> Seq(Briefs)] /\ ListedOf(R)[0] = <<>>
           /\ \A n \in 1 .. Total : ListedOf(R)[n] = IF n \in R.starts THEN ListedOf(R)[n - 1] \o CallsOf(R, n) ELSE ListedOf(R)[n - 1]
<1> DEFINE N == Total
           D == R.starts
           K == [i \in D |-> CallsOf(R, i)]
           F == [p \in (1 .. N) \X Seq(Briefs) |-> IF p[1] \in D THEN p[2] \o K[p[1]] ELSE p[2]]
           Turns(f) == [n \in 0 .. N |-> IF n = 0 THEN <<>>
                                         ELSE IF n \in D THEN f[n - 1] \o K[n]
                                         ELSE f[n - 1]]
           rec == CHOOSE f : f = Turns(f)
<1>0. PICK z \in Int : z = 0
  OBVIOUS
<1>1. N \in Nat /\ N \in Int /\ z <= N
  BY <1>0, Facts
<1>2. \A n \in D : K[n] \in Seq(Briefs) /\ K[n] = CallsOf(R, n)
  BY CallsTypedOf
<1>3. <<>> \in Seq(Briefs)
  OBVIOUS
<1>4. ListedOf(R) = rec
  BY DEF ListedOf, Reports
<1> HIDE DEF N, D, K
<1>5. \A n \in z + 1 .. N, d \in Seq(Briefs) : F[<<n, d>>] = IF n \in D THEN d \o K[n] ELSE d
  BY <1>0
<1> HIDE DEF F
<1>6. \A n \in z + 1 .. N, d \in Seq(Briefs) : F[<<n, d>>] \in Seq(Briefs)
  <2> TAKE n \in z + 1 .. N, d \in Seq(Briefs)
  <2>1. n \in D => d \o K[n] \in Seq(Briefs)
    <3> SUFFICES ASSUME n \in D PROVE d \o K[n] \in Seq(Briefs)
      OBVIOUS
    <3> DEFINE e == K[n]
    <3>1. e \in Seq(Briefs)
      BY <1>2
    <3> HIDE DEF e
    <3>2. d \o e \in Seq(Briefs)
      BY <3>1
    <3> QED BY <3>2 DEF e
  <2> QED BY <1>5, <2>1
<1>7. PICK g : IsLoop(g, z, N, Seq(Briefs), <<>>, F)
  BY <1>1, <1>3, <1>6, Recursion
<1>8. /\ g \in [0 .. N -> Seq(Briefs)] /\ g[0] = <<>>
      /\ \A n \in 1 .. N : g[n] = IF n \in D THEN g[n - 1] \o K[n] ELSE g[n - 1]
  <2>1. \A n \in 1 .. N : n - 1 \in 0 .. N /\ n \in z + 1 .. N
    BY <1>0, <1>1
  <2>2. g \in [0 .. N -> Seq(Briefs)] /\ g[0] = <<>> /\ \A n \in z + 1 .. N : g[n] = F[<<n, g[n - 1]>>]
    BY <1>0, <1>7 DEF IsLoop
  <2> QED BY <1>5, <2>1, <2>2
<1>9. g = Turns(g)
  <2>1. \A n \in 1 .. N : n # 0 /\ n \in 0 .. N
    BY <1>1
  <2>2. Turns(g)[0] = g[0]
    BY <1>1, <1>8
  <2>3. \A n \in 1 .. N : Turns(g)[n] = g[n]
    BY <1>8, <2>1
  <2>4. \A n \in 0 .. N : n = 0 \/ n \in 1 .. N
    BY <1>1
  <2>5. \A n \in 0 .. N : Turns(g)[n] = g[n]
    BY <2>2, <2>3, <2>4
  <2>6. Turns(g) = [n \in 0 .. N |-> Turns(g)[n]]
    OBVIOUS
  <2> HIDE DEF Turns
  <2> QED BY <1>8, <2>5, <2>6
<1>10. rec = Turns(rec)
  BY <1>9, Zenon
<1> HIDE DEF rec
<1>11. /\ rec = [n \in 0 .. N |-> rec[n]] /\ rec[0] = <<>>
       /\ \A n \in 1 .. N : rec[n] = IF n \in D THEN rec[n - 1] \o K[n] ELSE rec[n - 1]
  <2>1. rec = [n \in 0 .. N |-> rec[n]]
    BY <1>10
  <2>2. rec[0] = <<>>
    BY <1>1, <1>10
  <2>3. \A n \in 1 .. N : n \in 0 .. N /\ n # 0
    BY <1>1
  <2> QED BY <1>10, <2>1, <2>2, <2>3
<1> DEFINE X == [n \in 0 .. N |-> {g[n]}]
<1>12. \A n \in 0 .. N : rec[n] = g[n]
  <2>1. rec[z] \in X[z]
    BY <1>0, <1>1, <1>8, <1>11
  <2>2. \A n \in z + 1 .. N : rec[n - 1] \in X[n - 1] => rec[n] \in X[n]
    <3> SUFFICES ASSUME NEW n \in z + 1 .. N, rec[n - 1] \in X[n - 1] PROVE rec[n] \in X[n]
      OBVIOUS
    <3>1. n \in 1 .. N /\ n - 1 \in 0 .. N /\ n \in 0 .. N
      BY <1>0, <1>1
    <3>2. rec[n - 1] = g[n - 1]
      BY <3>1
    <3>3. rec[n] = g[n]
      BY <1>8, <1>11, <3>1, <3>2
    <3> QED BY <3>1, <3>3
  <2>3. \A n \in 0 .. N : X[n] = {g[n]}
    OBVIOUS
  <2> HIDE DEF X
  <2>4. \A n \in z .. N : rec[n] \in X[n]
    BY <1>1, <2>1, <2>2, Along
  <2> QED BY <1>0, <2>3, <2>4
<1>13. rec \in [0 .. N -> Seq(Briefs)]
  BY <1>8, <1>11, <1>12
<1> QED BY <1>2, <1>4, <1>11, <1>13 DEF N, D

\* Nothing is reported of lines that are not due.
LEMMA QuietOf ==
    ASSUME Given, NEW R, Reference(R), NEW m \in Nat, NEW n \in Nat, m <= n, n <= Total, \A k \in m + 1 .. n : k \notin R.starts
    PROVE  ListedOf(R)[n] = ListedOf(R)[m]
<1> DEFINE X == [k \in 0 .. Total |-> {ListedOf(R)[m]}]
<1>0. Total \in Nat
  BY Facts
<1>1. ListedOf(R)[m] \in X[m]
  BY <1>0
<1>2. \A k \in m + 1 .. n : ListedOf(R)[k - 1] \in X[k - 1] => ListedOf(R)[k] \in X[k]
  <2> SUFFICES ASSUME NEW k \in m + 1 .. n, ListedOf(R)[k - 1] \in X[k - 1] PROVE ListedOf(R)[k] \in X[k]
    OBVIOUS
  <2>1. k \in 1 .. Total /\ k - 1 \in 0 .. Total /\ k \in 0 .. Total
    BY <1>0
  <2>2. ListedOf(R)[k] = ListedOf(R)[k - 1]
    BY <2>1, ListedIsOf
  <2> QED BY <2>1, <2>2
<1>3. \A k \in 0 .. Total : X[k] = {ListedOf(R)[m]}
  OBVIOUS
<1> HIDE DEF X
<1>4. \A k \in m .. n : ListedOf(R)[k] \in X[k]
  BY <1>1, <1>2, Along
<1>5. n \in m .. n /\ n \in 0 .. Total
  BY <1>0
<1> QED BY <1>3, <1>4, <1>5
-----------------------------------------------------------------------------
\* Prefixes.
LEMMA PrefixIs ==
    ASSUME NEW S, NEW s \in Seq(S), NEW t \in Seq(S)
    PROVE  IsPrefix(s, t) <=> Len(s) <= Len(t) /\ \A i \in 1 .. Len(s) : s[i] = t[i]
<1>1. Len(s) \in Nat /\ Len(t) \in Nat
  OBVIOUS
<1>2. CASE Len(s) <= Len(t)
  <2> DEFINE a == SubSeq(s, 1, Len(s))
             b == SubSeq(t, 1, Len(s))
  <2>1. a \in Seq(S) /\ Len(a) = Len(s) /\ \A i \in 1 .. Len(s) : a[i] = s[i]
    BY <1>1
  <2>2. b \in Seq(S) /\ Len(b) = Len(s) /\ \A i \in 1 .. Len(s) : b[i] = t[i]
    BY <1>1, <1>2
  <2>3. IsPrefix(s, t) <=> a = b
    BY <1>2 DEF IsPrefix
  <2> HIDE DEF a, b
  <2>4. a = b <=> \A i \in 1 .. Len(s) : a[i] = b[i]
    BY <1>1, <2>1, <2>2
  <2> QED BY <1>2, <2>1, <2>2, <2>3, <2>4
<1>3. CASE ~(Len(s) <= Len(t))
  BY <1>3 DEF IsPrefix
<1> QED BY <1>2, <1>3

LEMMA PrefixOn ==
    ASSUME NEW S, NEW s \in Seq(S), NEW t \in Seq(S), NEW u \in Seq(S), IsPrefix(s, t)
    PROVE  IsPrefix(s, t \o u)
<1>1. Len(s) \in Nat /\ Len(t) \in Nat /\ Len(u) \in Nat /\ t \o u \in Seq(S) /\ Len(t \o u) = Len(t) + Len(u)
  OBVIOUS
<1>2. Len(s) <= Len(t) /\ \A i \in 1 .. Len(s) : s[i] = t[i]
  BY PrefixIs
<1>3. \A i \in 1 .. Len(s) : s[i] = (t \o u)[i]
  BY <1>1, <1>2
<1>4. Len(s) <= Len(t \o u)
  BY <1>1, <1>2
<1> QED BY <1>1, <1>3, <1>4, PrefixIs

\* What is a prefix of a part of the report is one of the whole.
LEMMA PrefixAllOf ==
    ASSUME Given, NEW R, Reference(R), NEW s \in Seq(Briefs), NEW n \in 0 .. Total, IsPrefix(s, ListedOf(R)[n])
    PROVE  IsPrefix(s, ListedOf(R)[Total])
<1> DEFINE X == [k \in 0 .. Total |-> {t \in Seq(Briefs) : IsPrefix(s, t)}]
<1>0. Total \in Nat /\ n \in Int /\ Total \in Int /\ n <= Total
  BY Facts
<1>1. ListedOf(R)[n] \in X[n]
  BY ListedIsOf
<1>2. \A k \in n + 1 .. Total : ListedOf(R)[k - 1] \in X[k - 1] => ListedOf(R)[k] \in X[k]
  <2> SUFFICES ASSUME NEW k \in n + 1 .. Total, ListedOf(R)[k - 1] \in X[k - 1] PROVE ListedOf(R)[k] \in X[k]
    OBVIOUS
  <2>1. k \in 1 .. Total /\ k - 1 \in 0 .. Total /\ k \in 0 .. Total
    BY <1>0
  <2>2. ListedOf(R)[k - 1] \in Seq(Briefs) /\ IsPrefix(s, ListedOf(R)[k - 1])
    BY <2>1
  <2>3. CASE k \in R.starts
    <3>1. CallsOf(R, k) \in Seq(Briefs)
      BY <2>3, CallsTypedOf
    <3>2. IsPrefix(s, ListedOf(R)[k - 1] \o CallsOf(R, k))
      BY <2>2, <3>1, PrefixOn
    <3>3. ListedOf(R)[k] = ListedOf(R)[k - 1] \o CallsOf(R, k) /\ ListedOf(R)[k] \in Seq(Briefs)
      BY <2>1, <2>3, ListedIsOf
    <3> QED BY <2>1, <3>2, <3>3
  <2>4. CASE k \notin R.starts
    <3>1. ListedOf(R)[k] = ListedOf(R)[k - 1]
      BY <2>1, <2>4, ListedIsOf
    <3> QED BY <2>1, <2>2, <3>1
  <2> QED BY <2>3, <2>4
<1>3. \A k \in 0 .. Total : X[k] = {t \in Seq(Briefs) : IsPrefix(s, t)}
  OBVIOUS
<1> HIDE DEF X
<1>4. \A k \in n .. Total : ListedOf(R)[k] \in X[k]
  BY <1>0, <1>1, <1>2, Along
<1>5. Total \in n .. Total /\ Total \in 0 .. Total
  BY <1>0
<1> QED BY <1>3, <1>4, <1>5, ListedIsOf
-----------------------------------------------------------------------------
\* Stopped: by the sink, or by binary data.
Halted(c) == (Quits /\ c.binaryAt # None) \/ (stopAnswer > 0 /\ Len(c.calls) >= stopAnswer)
Shown(c) == LineCallsOf(c.calls)
PreOf(R, c) == IsPrefix(Shown(c), ListedOf(R)[Total])
EndedOf(R, c) == PreOf(R, c) /\ Halted(c)

\* Everything up to line v of the file was reported.
OwedOf(R, v, c) ==
    /\ Shown(c) = ListedOf(R)[v]
    /\ c.hasSunk <=> \E j \in R.due : j <= v
    /\ (cfg.before + cfg.after > 0 /\ c.hasSunk) => v \in R.due \/ v + 1 \notin R.due
    /\ AfterOf(R, v, c.afterLeft)

\* What is reported before line n, which is due.
ReadyOf(R, n, c) == Shown(c) = IF Gap(R.due, n) THEN Append(ListedOf(R)[n - 1], Skip(n - 1)) ELSE ListedOf(R)[n - 1]

\* A call adds what it says of a line.
LEMMA TellShown ==
    ASSUME Given, NEW c \in Cores, NEW x \in SinkCalls
    PROVE  LET d == Tell(c, x)
           IN /\ Told(c, d, x)
              /\ Shown(c) \in Seq(Briefs)
              /\ OfLines(x) => Shown(d) = Append(Shown(c), Brief(x))
              /\ ~OfLines(x) => Shown(d) = Shown(c)
              /\ ~d.go => Halted(d)
              /\ Len(d.calls) = Len(c.calls) + 1
<1> DEFINE d == Tell(c, x)
<1>1. Told(c, d, x)
  BY TellTold
<1> HIDE DEF d
<1>2. c.calls \in Seq(SinkCalls) /\ d.calls = Append(c.calls, x) /\ d.go = (Len(c.calls) + 1 # stopAnswer)
  BY <1>1, CoreTypes DEF Told
<1>3. Len(d.calls) = Len(c.calls) + 1 /\ Len(c.calls) \in Nat /\ stopAnswer \in Nat
  BY <1>2, AppendOne, Facts
<1>4. ~d.go => Halted(d)
  <2>1. ~d.go => Len(d.calls) = stopAnswer
    BY <1>2, <1>3
  <2>2. Len(d.calls) \in Nat /\ Len(d.calls) > 0
    BY <1>3
  <2> QED BY <2>1, <2>2 DEF Halted
<1>5. /\ Shown(c) \in Seq(Briefs)
      /\ OfLines(x) => Shown(d) = Append(Shown(c), Brief(x))
      /\ ~OfLines(x) => Shown(d) = Shown(c)
  BY <1>2, ListingAppended DEF Shown
<1> QED BY <1>1, <1>3, <1>4, <1>5 DEF d

\* detect_binary adds nothing to it.
LEMMA DetectShown ==
    ASSUME State, NEW c, Sound(c), c.go, NEW from \in Nat, NEW to \in Nat, to <= shown
    PROVE  LET d == DetectBinary(c, from, to)
           IN Shown(d) = Shown(c) /\ d.hasSunk = c.hasSunk /\ (~d.go => Halted(d))
<1> DEFINE d == DetectBinary(c, from, to)
<1>0. c \in Cores /\ cfg.binary \in {"none", "quit", "convert"} /\ Given /\ file.binary \subseteq 1 .. Total /\ Total \in Nat
  BY Facts DEF State, Sound, Config
<1>1. CASE ~cfg.slice \/ cfg.binary = "none"
  BY <1>1 DEF DetectBinary
<1>2. CASE cfg.slice /\ cfg.binary # "none" /\ c.binaryAt # None
  <2> DEFINE g == cfg.binary # "quit"
  <2>1. d = [c EXCEPT !.go = g] /\ g \in BOOLEAN
    BY <1>2 DEF DetectBinary
  <2>2. Announced(c.calls) /\ BinaryMarked(c.calls)
    BY <1>2 DEF Sound, Announces
  <2>3. file.binary # {}
    BY <2>2 DEF Announced, BinaryMarked
  <2> HIDE DEF d
  <2>4. d.go = g /\ d.calls = c.calls /\ d.hasSunk = c.hasSunk
    BY <1>0, <2>1 DEF Cores
  <2>41. d.binaryAt # None
    BY <1>0, <1>2, <2>1 DEF Cores
  <2>5. ~d.go => Halted(d)
    BY <1>2, <2>3, <2>4, <2>41 DEF Halted, Quits
  <2> QED BY <2>4, <2>5 DEF Shown, d
<1>3. CASE cfg.slice /\ cfg.binary # "none" /\ c.binaryAt = None /\ BinaryIn(from, to) = {}
  BY <1>3 DEF DetectBinary
<1>4. CASE cfg.slice /\ cfg.binary # "none" /\ c.binaryAt = None /\ BinaryIn(from, to) # {}
  <2> DEFINE first == CHOOSE i \in BinaryIn(from, to) : \A j \in BinaryIn(from, to) : i <= j
             x == [kind |-> "binary", line |-> first]
             t == Tell(c, x)
             g == t.go /\ cfg.binary # "quit"
  <2>1. first \in BinaryIn(from, to)
    <3>1. BinaryIn(from, to) \subseteq Nat
      BY DEF BinaryIn
    <3>2. \E i \in BinaryIn(from, to) : \A j \in BinaryIn(from, to) : i <= j
      BY <1>4, <3>1, LeastNat
    <3> QED BY <3>2, Zenon
  <2> HIDE DEF first
  <2>2. file.binary # {} /\ first \in Int
    BY <1>0, <1>4, <2>1 DEF BinaryIn
  <2>3. x \in SinkCalls /\ ~OfLines(x)
    BY <2>2 DEF Marks, SinkCalls, LineKinds, OfLines
  <2>4. d = [t EXCEPT !.binaryAt = first, !.go = @ /\ cfg.binary # "quit"]
    BY <1>4 DEF DetectBinary, first
  <2> HIDE DEF x, d
  <2>5. Told(c, t, x) /\ Shown(t) = Shown(c) /\ (~t.go => Halted(t))
    BY <1>0, <2>3, TellShown
  <2> HIDE DEF t
  <2>6. d = [t EXCEPT !.binaryAt = first, !.go = g] /\ g \in BOOLEAN
    BY <2>4, <2>5 DEF Told, Cores
  <2>7. ~g => ~t.go \/ cfg.binary = "quit"
    OBVIOUS
  <2> HIDE DEF g
  <2>8. d.go = g /\ d.calls = t.calls /\ d.hasSunk = t.hasSunk /\ d.binaryAt = first
    <3>1. t \in Cores
      BY <2>5 DEF Told
    <3> QED BY <2>6, <3>1 DEF Cores
  <2>9. ~d.go => Halted(d)
    <3>1. d.binaryAt # None
      BY <1>0, <2>2, <2>8, Facts
    <3>2. ~t.go => Halted(d)
      BY <2>5, <2>8, <3>1 DEF Halted
    <3>3. cfg.binary = "quit" => Halted(d)
      BY <2>2, <3>1 DEF Halted, Quits
    <3> QED BY <2>7, <2>8, <3>2, <3>3
  <2> QED BY <2>5, <2>8, <2>9 DEF Told, Shown, d
<1> QED BY <1>1, <1>2, <1>3, <1>4

\* A break is reported before line i when lines were left out.
LEMMA BreakAdds ==
    ASSUME State, NEW R, Reference(R), NEW c, Sound(c), c.go, NEW i \in 1 .. shown, c.visited < i, OwedOf(R, base + c.visited, c),
           base + i \in R.starts, \A k \in (base + c.visited) + 1 .. (base + i) - 1 : k \notin R.due
    PROVE  LET d == BreakContext(c, i - 1)
           IN ReadyOf(R, base + i, d) /\ d.hasSunk = c.hasSunk /\ (~d.go => Halted(d))
<1> DEFINE d == BreakContext(c, i - 1)
<1>0. /\ c \in Cores /\ c.visited \in 0 .. shown /\ base \in Nat /\ shown \in Nat /\ base + shown <= Total /\ Total \in Nat /\ Given
      /\ base + c.visited \in Nat /\ base + i \in Nat /\ R.due \subseteq Nat
  <2>1. c \in Cores /\ c.visited \in 0 .. shown
    BY DEF Sound, Ranges
  <2>2. base \in Nat /\ shown \in Nat /\ base + shown <= Total /\ Given
    BY DEF State
  <2>3. Total \in Nat /\ R.due \subseteq Nat
    BY <2>2, ReferenceFacts
  <2>4. base + c.visited \in Nat /\ base + i \in Nat
    BY <2>1, <2>2
  <2> QED BY <2>1, <2>2, <2>3, <2>4
<1>1. PICK v \in Nat : v = base + c.visited
  BY <1>0
<1>2. PICK n \in Nat : n = base + i
  BY <1>0
<1>3. v <= n - 1 /\ n <= Total /\ n - 1 \in Nat /\ n \in R.starts /\ n \in R.due /\ \A k \in v + 1 .. n - 1 : k \notin R.due
  BY <1>0, <1>1, <1>2, ReferenceFacts
<1>4. ListedOf(R)[n - 1] = ListedOf(R)[v]
  BY <1>0, <1>3, ReferenceFacts, QuietOf
<1>5. c.hasSunk <=> \E j \in R.due : j < n
  <2>1. \A j \in R.due : j < n <=> j <= v
    BY <1>0, <1>3
  <2> QED BY <1>1, <2>1 DEF OwedOf
<1>6. Gap(R.due, n) <=> cfg.before + cfg.after > 0 /\ c.hasSunk /\ c.visited < i - 1
  <2>1. CASE v = n - 1
    <3>1. ~(c.visited < i - 1) /\ v + 1 = n
      BY <1>0, <1>1, <1>2, <2>1
    <3>2. (cfg.before + cfg.after > 0 /\ c.hasSunk) => v \in R.due
      BY <1>1, <1>3, <3>1 DEF OwedOf
    <3> QED BY <1>5, <2>1, <3>1, <3>2 DEF Gap
  <2>2. CASE v < n - 1
    <3>1. n - 1 \notin R.due /\ c.visited < i - 1
      BY <1>0, <1>1, <1>2, <1>3, <2>2
    <3> QED BY <1>5, <3>1 DEF Gap
  <2> QED BY <1>3, <2>1, <2>2
<1>7. CASE Gap(R.due, n)
  <2> DEFINE x == [kind |-> "break", line |-> base + (i - 1)]
             y == Skip(n - 1)
  <2>1. x \in SinkCalls /\ OfLines(x) /\ Brief(x) = y
    <3>1. base + (i - 1) = n - 1 /\ n - 1 \in Int
      BY <1>0, <1>2
    <3> QED BY <3>1 DEF Marks, SinkCalls, OfLines, Brief, UpTo, Skip
  <2>2. d = Tell(c, x)
    BY <1>6, <1>7 DEF BreakContext
  <2> HIDE DEF x, y, d
  <2>3. Shown(d) = Append(Shown(c), y) /\ Told(c, d, x) /\ (~d.go => Halted(d))
    BY <1>0, <2>1, <2>2, TellShown
  <2>4. Shown(d) = Append(ListedOf(R)[n - 1], y)
    BY <1>1, <1>4, <2>3 DEF OwedOf
  <2> QED BY <1>2, <1>7, <2>3, <2>4 DEF ReadyOf, Told, y, d
<1>8. CASE ~Gap(R.due, n)
  <2>1. d = c
    BY <1>6, <1>8 DEF BreakContext
  <2>2. Shown(c) = ListedOf(R)[n - 1]
    BY <1>1, <1>4 DEF OwedOf
  <2> QED BY <1>2, <1>8, <2>1, <2>2 DEF ReadyOf
<1> QED BY <1>7, <1>8

\* Without one nothing is to be told before the next line.
LEMMA NextReadyOf ==
    ASSUME State, NEW R, Reference(R), NEW v \in Nat, NEW c, OwedOf(R, v, c), v + 1 \in R.due
    PROVE  ReadyOf(R, v + 1, c)
<1>1. \A j \in R.due : j < v + 1 <=> j <= v
  BY ReferenceFacts DEF State
<1>2. (v + 1) - 1 = v
  OBVIOUS
<1>3. ~Gap(R.due, v + 1)
  BY <1>1, <1>2 DEF Gap, OwedOf
<1> QED BY <1>2, <1>3 DEF ReadyOf, OwedOf

LEMMA PrefixSelf ==
    ASSUME NEW s \in Seq(Briefs)
    PROVE  IsPrefix(s, s)
  BY PrefixIs

\* What may be told when line n is to come is a part of the report.
LEMMA ReadyPreOf ==
    ASSUME Given, NEW R, Reference(R), NEW n \in R.starts, n \in 1 .. Total, NEW c, ReadyOf(R, n, c)
    PROVE  PreOf(R, c)
<1>0. n - 1 \in 0 .. Total /\ n \in 0 .. Total /\ ListedOf(R)[n - 1] \in Seq(Briefs) /\ ListedOf(R)[n] \in Seq(Briefs) /\ n - 1 \in Int
  BY ListedIsOf, Facts
<1> DEFINE l == ListedOf(R)[n - 1]
           y == Skip(n - 1)
           z == Entry(R, n)
<1>1. CASE ~Gap(R.due, n)
  <2>1. Shown(c) = ListedOf(R)[n - 1] /\ IsPrefix(Shown(c), ListedOf(R)[n - 1])
    BY <1>0, <1>1, PrefixSelf DEF ReadyOf
  <2> QED BY <1>0, <2>1, PrefixAllOf DEF PreOf
<1>2. CASE Gap(R.due, n)
  <2>1. Shown(c) = Append(l, y)
    BY <1>2 DEF ReadyOf
  <2>2. ListedOf(R)[n] = l \o CallsOf(R, n)
    BY ListedIsOf
  <2>3. /\ \A L \in Seq(Briefs) : L \o CallsOf(R, n) = IF Gap(R.due, n) THEN Append(Append(L, y), z) ELSE Append(L, z)
        /\ R.kind[n] \in LineKinds /\ n \in Int /\ R.upto[n] \in Int
    BY CallsTypedOf
  <2>4. y \in Briefs /\ z \in Briefs
    BY <1>0, <2>3 DEF Briefs, Entry, Skip
  <2> HIDE DEF y, z
  <2>5. ListedOf(R)[n] = Append(Append(l, y), z) /\ l \in Seq(Briefs)
    BY <1>0, <1>2, <2>2, <2>3
  <2> HIDE DEF l
  <2> DEFINE m == Append(l, y)
  <2>6. m \in Seq(Briefs) /\ Len(m) \in Nat
    BY <2>4, <2>5, AppendOne
  <2> HIDE DEF m
  <2> DEFINE w == Append(m, z)
  <2>7. w \in Seq(Briefs) /\ Len(w) = Len(m) + 1 /\ \A i \in 1 .. Len(m) : w[i] = m[i]
    BY <2>4, <2>6, AppendOne
  <2> HIDE DEF w
  <2>8. IsPrefix(m, w)
    <3>1. Len(m) <= Len(w) /\ \A i \in 1 .. Len(m) : m[i] = w[i]
      BY <2>6, <2>7
    <3> QED BY <2>6, <2>7, <3>1, PrefixIs
  <2>9. IsPrefix(m, ListedOf(R)[n])
    BY <2>5, <2>8 DEF m, w
  <2>10. IsPrefix(m, ListedOf(R)[Total])
    BY <1>0, <2>6, <2>9, PrefixAllOf
  <2> QED BY <2>1, <2>10 DEF PreOf, m
<1> QED BY <1>1, <1>2

LEMMA OwedPreOf ==
    ASSUME Given, NEW R, Reference(R), NEW v \in 0 .. Total, NEW c, Shown(c) = ListedOf(R)[v]
    PROVE  PreOf(R, c)
<1>1. ListedOf(R)[v] \in Seq(Briefs)
  BY ListedIsOf
<1> QED BY <1>1, PrefixSelf, PrefixAllOf DEF PreOf

\* A line is reported.
LEMMA ReportAdds ==
    ASSUME State, NEW R, Reference(R), NEW c, Sound(c), c.go, NEW i \in 1 .. shown, NEW kind, Single(R, base + i, kind),
           ReadyOf(R, base + i, c)
    PROVE  LET d == Report(c, i, kind)
           IN /\ d \in Cores /\ Shown(d) = ListedOf(R)[base + i] /\ (~d.go => Halted(d))
              /\ d.afterLeft = c.afterLeft
<1> DEFINE m == CountLines(c, i - 1)
           x == [kind |-> kind, line |-> base + i, offset |-> m.offset + i - 1, number |-> m.lineNumber]
           d == Tell(m, x)
<1>0. i - 1 \in 0 .. shown /\ base \in Nat /\ shown \in Nat /\ base + shown <= Total /\ Total \in Nat /\ Given
  BY Facts DEF State
<1>1. m \in Cores /\ m.calls = c.calls /\ m.lineNumber \in Int /\ m.offset \in Int /\ Kept(c, m)
  BY <1>0, CountSound, CoreTypes
<1>2. Report(c, i, kind) = d
  BY DEF Report
<1> HIDE DEF m
<1>3. PICK n \in Nat : n = base + i
  BY <1>0
<1>4. n \in R.starts /\ R.kind[n] = kind /\ R.upto[n] = n /\ n \in 1 .. Total /\ n - 1 \in 0 .. Total /\ n - 1 \in Int /\ n \in Int
  BY <1>0, <1>3 DEF Single
<1>5. kind \in LineKinds
  BY CallsTypedOf, <1>0, <1>3, <1>4
<1>6. x \in SinkCalls /\ OfLines(x) /\ Brief(x) = Entry(R, n)
  <2>1. m.offset + i - 1 \in Int /\ base + i \in Int
    BY <1>0, <1>1
  <2> QED BY <1>1, <1>3, <1>4, <1>5, <2>1 DEF SinkCalls, LineCalls, OfLines, Brief, UpTo, Entry
<1> HIDE DEF x
<1>7. Told(m, d, x) /\ Shown(d) = Append(Shown(m), Brief(x)) /\ (~d.go => Halted(d))
  BY <1>0, <1>1, <1>6, TellShown
<1> HIDE DEF d
<1>8. Shown(m) = Shown(c)
  BY <1>1 DEF Shown
<1> DEFINE l == ListedOf(R)[n - 1]
           y == Skip(n - 1)
           z == Entry(R, n)
<1>9. Shown(d) = Append(Shown(c), z)
  BY <1>6, <1>7, <1>8
<1>10. Shown(c) = IF Gap(R.due, n) THEN Append(l, y) ELSE l
  BY <1>3 DEF ReadyOf
<1>11. l \in Seq(Briefs) /\ ListedOf(R)[n] = l \o CallsOf(R, n)
  BY <1>0, <1>4, ListedIsOf
<1>12. \A L \in Seq(Briefs) : L \o CallsOf(R, n) = IF Gap(R.due, n) THEN Append(Append(L, y), z) ELSE Append(L, z)
  BY <1>0, <1>3, <1>4, CallsTypedOf
<1> HIDE DEF l, y, z
<1>13. Shown(d) = ListedOf(R)[n]
  BY <1>9, <1>10, <1>11, <1>12
<1> QED BY <1>1, <1>2, <1>3, <1>7, <1>13 DEF Told, Kept
-----------------------------------------------------------------------------
\* OwedOf speaks of the calls, of hasSunk and of afterLeft.
LEMMA OwedAlikeOf ==
    ASSUME NEW R, NEW v, NEW c, NEW d, OwedOf(R, v, c), Shown(d) = Shown(c), d.hasSunk = c.hasSunk, d.afterLeft = c.afterLeft
    PROVE  OwedOf(R, v, d)
  BY DEF OwedOf

LEMMA OwedNowOf ==
    ASSUME Given, NEW R, Reference(R), NEW v \in R.due, NEW d, Shown(d) = ListedOf(R)[v], d.hasSunk = TRUE, AfterOf(R, v, d.afterLeft)
    PROVE  OwedOf(R, v, d)
<1>1. v <= v
  BY ReferenceFacts
<1> QED BY <1>1 DEF OwedOf

\* sink_matched.
LEMMA MatchedAdds ==
    ASSUME State, NEW R, Reference(R), NEW c, Sound(c), c.go, NEW i \in 1 .. shown, c.visited < i, OwedOf(R, base + c.visited, c),
           Single(R, base + i, "match"),
           \A k \in (base + c.visited) + 1 .. (base + i) - 1 : k \notin R.due
    PROVE  LET d == SinkMatched(c, i)
           IN /\ d.go => Shown(d) = ListedOf(R)[base + i] /\ d.hasSunk = TRUE /\ d.afterLeft = cfg.after
              /\ ~d.go => EndedOf(R, d)
<1> DEFINE e == DetectBinary(c, i - 1, i)
           b == BreakContext(e, i - 1)
           r == Report(b, i, "match")
           a == cfg.after
           d == SinkMatched(c, i)
<1>0. /\ i - 1 \in Nat /\ i \in Nat /\ i <= shown /\ i - 1 \in Int /\ base \in Nat /\ shown \in Nat /\ a \in Nat
      /\ base + shown <= Total /\ Total \in Nat /\ Given /\ c.visited \in 0 .. shown
  <2>1. base \in Nat /\ shown \in Nat /\ base + shown <= Total /\ Given
    BY DEF State
  <2>2. Total \in Nat /\ a \in Nat
    BY <2>1, Facts DEF Config
  <2>3. c.visited \in 0 .. shown
    BY DEF Sound, Ranges
  <2>4. i - 1 \in Nat /\ i \in Nat /\ i <= shown /\ i - 1 \in Int
    BY <2>1
  <2> QED BY <2>1, <2>2, <2>3, <2>4
<1>1. Sound(e) /\ Kept(c, e) /\ Shown(e) = Shown(c) /\ e.hasSunk = c.hasSunk /\ (~e.go => Halted(e))
  BY <1>0, DetectSound, DetectShown
<1>2. d = IF r.go THEN [r EXCEPT !.visited = i, !.afterLeft = a, !.hasSunk = TRUE] ELSE r
  BY DEF SinkMatched
<1> HIDE DEF e, d
<1>3. base + c.visited \in 0 .. Total /\ base + i \in 0 .. Total /\ base + i \in 1 .. Total
  BY <1>0
<1>4. CASE ~e.go
  <2>1. b = e
    BY <1>4 DEF BreakContext
  <2>2. r = e
    BY <1>4, <2>1 DEF Report
  <2>3. d = e /\ PreOf(R, e)
    BY <1>0, <1>1, <1>2, <1>3, <1>4, <2>2, OwedPreOf DEF OwedOf
  <2> QED BY <1>1, <1>4, <2>3 DEF EndedOf, d
<1>5. CASE e.go
  <2>1. OwedOf(R, base + e.visited, e) /\ e.visited = c.visited /\ e.visited < i
    BY <1>1, OwedAlikeOf DEF Kept
  <2>2. ReadyOf(R, base + i, b) /\ b.hasSunk = e.hasSunk /\ (~b.go => Halted(b))
    BY <1>1, <1>5, <2>1, BreakAdds DEF Single
  <2>3. Sound(b)
    BY <1>0, <1>1, BreakSound
  <2> HIDE DEF b
  <2>4. CASE ~b.go
    <3>1. r = b
      BY <2>4 DEF Report
    <3>2. d = b /\ PreOf(R, b)
      BY <1>0, <1>2, <1>3, <2>2, <2>4, <3>1, ReadyPreOf DEF Single
    <3> QED BY <2>2, <2>4, <3>2 DEF EndedOf, d
  <2>5. CASE b.go
    <3>1. r \in Cores /\ Shown(r) = ListedOf(R)[base + i] /\ (~r.go => Halted(r))
      BY <2>2, <2>3, <2>5, ReportAdds
    <3> HIDE DEF r
    <3>2. CASE ~r.go
      <4>1. d = r /\ PreOf(R, r)
        BY <1>0, <1>2, <1>3, <3>1, <3>2, OwedPreOf
      <4> QED BY <3>1, <3>2, <4>1 DEF EndedOf, d
    <3>3. CASE r.go
      <4>1. d = [r EXCEPT !.visited = i, !.afterLeft = a, !.hasSunk = TRUE]
        BY <1>2, <3>3
      <4> HIDE DEF a
      <4>2. d.calls = r.calls /\ d.hasSunk = TRUE /\ d.afterLeft = a /\ d.go = r.go
        BY <3>1, <4>1 DEF Cores
      <4> QED BY <3>1, <3>3, <4>2 DEF Shown, d, a
    <3> QED BY <3>2, <3>3
  <2> QED BY <2>4, <2>5
<1> QED BY <1>4, <1>5

\* sink_before_context, sink_after_context and sink_other_context.
LEMMA ContextAdds ==
    ASSUME State, NEW R, Reference(R), NEW c, Sound(c), c.go, NEW i \in 1 .. shown, ReadyOf(R, base + i, c),
           NEW kind \in {"before", "after", "other"}, Single(R, base + i, kind)
    PROVE  LET d == SinkContext(c, i, kind)
           IN /\ d.go => /\ Shown(d) = ListedOf(R)[base + i] /\ d.hasSunk = TRUE
                         /\ d.afterLeft = IF kind = "after" THEN c.afterLeft - 1 ELSE c.afterLeft
              /\ ~d.go => EndedOf(R, d)
<1> DEFINE e == DetectBinary(c, i - 1, i)
           r == Report(e, i, kind)
           d == SinkContext(c, i, kind)
<1>0. /\ i - 1 \in Nat /\ i \in Nat /\ i <= shown /\ i - 1 \in Int /\ base \in Nat /\ shown \in Nat
      /\ base + shown <= Total /\ Total \in Nat /\ Given
  BY Facts DEF State
<1>1. Sound(e) /\ Kept(c, e) /\ Shown(e) = Shown(c) /\ e.hasSunk = c.hasSunk /\ (~e.go => Halted(e))
  BY <1>0, DetectSound, DetectShown
<1>2. d = IF r.go THEN [r EXCEPT !.visited = i, !.hasSunk = TRUE, !.afterLeft = IF kind = "after" THEN @ - 1 ELSE @] ELSE r
  BY DEF SinkContext
<1> HIDE DEF e, d
<1>3. base + i \in 0 .. Total /\ base + i \in 1 .. Total /\ ReadyOf(R, base + i, e)
  BY <1>0, <1>1 DEF ReadyOf
<1>4. CASE ~e.go
  <2>1. r = e
    BY <1>4 DEF Report
  <2>2. d = e /\ PreOf(R, e)
    BY <1>0, <1>2, <1>3, <1>4, <2>1, ReadyPreOf DEF Single
  <2> QED BY <1>1, <1>4, <2>2 DEF EndedOf, d
<1>5. CASE e.go
  <2>1. r \in Cores /\ Shown(r) = ListedOf(R)[base + i] /\ (~r.go => Halted(r)) /\ r.afterLeft = e.afterLeft
    BY <1>1, <1>3, <1>5, ReportAdds
  <2> HIDE DEF r
  <2>2. CASE ~r.go
    <3>1. d = r /\ PreOf(R, r)
      BY <1>0, <1>2, <1>3, <2>1, <2>2, OwedPreOf
    <3> QED BY <2>1, <2>2, <3>1 DEF EndedOf, d
  <2>3. CASE r.go
    <3> DEFINE a == IF kind = "after" THEN r.afterLeft - 1 ELSE r.afterLeft
    <3>1. d = [r EXCEPT !.visited = i, !.hasSunk = TRUE, !.afterLeft = a]
      BY <1>2, <2>1, <2>3 DEF Cores
    <3>2. a = IF kind = "after" THEN c.afterLeft - 1 ELSE c.afterLeft
      BY <1>1, <2>1 DEF Kept
    <3> HIDE DEF a
    <3>3. d.calls = r.calls /\ d.hasSunk = TRUE /\ d.afterLeft = a /\ d.go = r.go
      BY <2>1, <3>1 DEF Cores
    <3> QED BY <2>1, <2>3, <3>2, <3>3 DEF Shown, d
  <2> QED BY <2>2, <2>3
<1> QED BY <1>4, <1>5

\* before_context_by_line, before a match in line upto + 1.
LEMMA BeforeAdds ==
    ASSUME State, NEW R, Reference(R), NEW c, Sound(c), c.go, NEW upto \in 0 .. shown, c.visited <= upto, OwedOf(R, base + c.visited, c),
           (base + upto) + 1 \in R.chosen, FreeOf(R, base + c.visited, base + upto),
           c.visited = upto \/ (c.afterLeft = 0 /\ ~cfg.passthru)
    PROVE  LET d == BeforeContext(c, upto)
           IN /\ d.go => /\ OwedOf(R, base + d.visited, d) /\ c.visited <= d.visited
                         /\ \A k \in (base + d.visited) + 1 .. base + upto : k \notin R.due
              /\ ~d.go => EndedOf(R, d)
<1> DEFINE start == IF upto - cfg.before > c.visited THEN upto - cfg.before ELSE c.visited
           Sink(d, i) == SinkContext(BreakContext(d, i - 1), i, "before")
           P(d, i) == /\ Sound(d) /\ d.visited <= i
                      /\ d.go => OwedOf(R, base + d.visited, d) /\ \A k \in (base + d.visited) + 1 .. base + i : k \notin R.due
                      /\ d.go => c.visited <= d.visited
                      /\ d.go /\ c.visited # upto => d.afterLeft = 0
                      /\ ~d.go => EndedOf(R, d)
<1>0. /\ c \in Cores /\ c.visited \in 0 .. shown /\ shown \in Nat /\ cfg.before \in Nat /\ Given /\ base \in Nat
      /\ base + shown <= Total /\ Total \in Nat
      /\ base + c.visited \in Nat
  <2>1. /\ c \in Cores /\ c.visited \in 0 .. shown /\ shown \in Nat /\ Given /\ base \in Nat
        /\ base + shown <= Total
    BY Facts DEF Sound, State, Ranges
  <2>2. cfg.before \in Nat /\ Total \in Nat
    BY <2>1, ReferenceFacts
  <2> QED BY <2>1, <2>2
\* Lines behind the last one visited that are too far from the match.
<1>9. ASSUME NEW k \in (base + c.visited) + 1 .. base + upto, k + cfg.before <= base + upto PROVE k \notin R.due
  <2>1. k \in Nat /\ base + c.visited < k /\ c.visited # upto /\ k <= base + upto
    BY <1>0, <1>9
  <2>2. AfterOf(R, base + c.visited, 0) /\ ~cfg.passthru
    BY <2>1 DEF OwedOf
  <2>3. R.chosen \in SUBSET (1 .. Total + 1)
    BY <1>0, ReferenceFacts
  <2>4. FreeOf(R, base + c.visited, k)
    BY <1>0, <2>1, <2>3 DEF FreeOf
  <2>5. \A j \in R.chosen : k < j => k + cfg.before < j
    <3> TAKE j \in R.chosen
    <3>1. j \in Int /\ ~(base + c.visited < j /\ j <= base + upto)
      BY <2>3 DEF FreeOf
    <3> QED BY <1>0, <1>9, <2>1, <3>1
  <2> QED BY <1>0, <2>1, <2>2, <2>4, <2>5, NotDueOf
<1>1. CASE cfg.before = 0
  <2>1. BeforeContext(c, upto) = c
    BY <1>1 DEF BeforeContext
  <2>2. \A k \in (base + c.visited) + 1 .. base + upto : k + cfg.before <= base + upto
    BY <1>0, <1>1
  <2> QED BY <1>0, <1>9, <2>1, <2>2
<1>2. CASE cfg.before # 0
  <2>1. start \in c.visited .. upto /\ (start # c.visited => start = upto - cfg.before) /\ upto - cfg.before <= start
    BY <1>0
  <2>2. BeforeContext(c, upto) = ForLines(Sink, Checked(c, start, upto), start, upto)
    BY <1>2 DEF BeforeContext
  <2> HIDE DEF start
  <2>3. PICK a \in 0 .. shown : /\ a = start /\ c.visited <= a /\ a <= upto
                                /\ a # c.visited => a = upto - cfg.before
                                /\ upto - cfg.before <= a
    BY <1>0, <2>1
  <2>4. Checked(c, a, upto) = c
    BY <1>0, <2>3, CheckedSound
  <2>31. P(c, a)
    <3>1. \A k \in (base + c.visited) + 1 .. base + a : k \in (base + c.visited) + 1 .. base + upto /\ k + cfg.before <= base + upto
      BY <1>0, <2>3
    <3> QED BY <1>0, <1>9, <2>3, <3>1
  <2> DEFINE Turns(f) == [i \in a .. upto |-> IF i = a THEN c ELSE Sink(f[i - 1], i)]
             rec == CHOOSE f : f = Turns(f)
             X == [i \in a .. upto |-> {d \in Cores : P(d, i)}]
             F == [p \in (a + 1 .. upto) \X Cores |-> Sink(p[2], p[1])]
  <2>5. BeforeContext(c, upto) = rec[upto]
    BY <2>2, <2>3, <2>4 DEF ForLines
  <2>6. ASSUME NEW i \in a + 1 .. upto, NEW d, P(d, i - 1) PROVE P(Sink(d, i), i)
    <3>0. i \in 1 .. shown /\ i - 1 \in Int /\ d.visited \in 0 .. shown /\ d.visited < i /\ a <= i - 1 /\ i <= upto
      BY <1>0, <2>3, <2>6 DEF Sound, Ranges
    <3> DEFINE b == BreakContext(d, i - 1)
               e == SinkContext(b, i, "before")
    <3>1. Sound(b) /\ Kept(d, b) /\ (b.go => d.go) /\ (~d.go => b = d)
      BY <2>6, <3>0, BreakSound
    <3>2. /\ Sound(e) /\ e.go => b.go /\ e.visited = i
          /\ ~e.go => e.visited = b.visited
          /\ Sound(e)
      <4>1. b.visited < i
        BY <3>0, <3>1 DEF Kept
      <4> HIDE DEF b
      <4> QED BY <3>0, <3>1, <4>1, ContextSound
    <3>3. Sound(e) /\ e.visited <= i
      <4>1. b.visited < i /\ b.visited \in Int /\ i \in Int
        BY <3>0, <3>1 DEF Kept
      <4> HIDE DEF b, e
      <4> QED BY <3>2, <4>1
    <3>9. b = BreakContext(d, i - 1) /\ e = SinkContext(b, i, "before") /\ Sink(d, i) = e
      OBVIOUS
    <3> HIDE DEF b, e, Sink
    <3>4. ASSUME ~d.go PROVE P(e, i)
      <4>1. b = d
        BY <3>1, <3>4
      <4>2. DetectBinary(d, i - 1, i) = d
        BY <3>4 DEF DetectBinary
      <4>3. e = d
        BY <3>4, <3>9, <4>1, <4>2 DEF SinkContext, Report
      <4> QED BY <2>6, <3>3, <3>4, <4>3
    <3>5. ASSUME d.go PROVE P(e, i)
      <4>0. PICK n \in Nat : n = base + i /\ n <= Total /\ base + c.visited < n /\ n - 1 = base + (i - 1)
                             /\ n <= base + upto /\ base + upto < n + cfg.before /\ n \in 1 .. Total
        BY <1>0, <2>3, <3>0
      <4>1. c.visited # upto /\ AfterOf(R, base + c.visited, 0) /\ ~cfg.passthru
        <5>1. c.visited # upto
          BY <1>0, <2>3, <3>0
        <5> QED BY <5>1 DEF OwedOf
      <4>2. R.chosen \in SUBSET (1 .. Total + 1)
        BY <1>0, ReferenceFacts
      <4>3. FreeOf(R, base + c.visited, n)
        <5> SUFFICES ASSUME NEW j \in R.chosen, base + c.visited < j, j <= n PROVE FALSE
          BY DEF FreeOf
        <5>1. j \in Int /\ ~(base + c.visited < j /\ j <= base + upto)
          BY <4>2 DEF FreeOf
        <5> QED BY <1>0, <4>0, <5>1
      <4>4. Single(R, n, "before") /\ n \in R.due /\ n \in R.starts
        <5> DEFINE j == (base + upto) + 1
        <5>1. j \in R.chosen /\ n < j /\ j <= n + cfg.before
          BY <1>0, <4>0
        <5> HIDE DEF j
        <5>2. Single(R, n, "before")
          BY <1>0, <4>0, <4>1, <4>3, <5>1, BeforeKindOf
        <5> QED BY <1>0, <5>2, ReferenceFacts DEF Single
      <4>5. OwedOf(R, base + d.visited, d) /\ \A k \in (base + d.visited) + 1 .. (base + i) - 1 : k \notin R.due
        BY <1>0, <2>6, <3>0, <3>5, <4>0
      <4>6. ReadyOf(R, base + i, b) /\ (~b.go => Halted(b))
        BY <2>6, <3>0, <3>5, <3>9, <4>0, <4>4, <4>5, BreakAdds
      <4>7. CASE ~b.go
        <5>1. DetectBinary(b, i - 1, i) = b
          BY <4>7 DEF DetectBinary
        <5>2. e = b
          BY <3>9, <4>7, <5>1 DEF SinkContext, Report
        <5>3. PreOf(R, b)
          BY <1>0, <4>0, <4>4, <4>6, ReadyPreOf
        <5> QED BY <3>3, <4>6, <4>7, <5>2, <5>3 DEF EndedOf
      <4>8. CASE b.go
        <5>0. Single(R, base + i, "before") /\ State /\ Reference(R)
          BY <4>0, <4>4
        <5>1. /\ e.go => /\ Shown(e) = ListedOf(R)[base + i] /\ e.hasSunk = TRUE
                         /\ e.afterLeft = b.afterLeft
              /\ ~e.go => EndedOf(R, e)
          <6>1. LET r == SinkContext(b, i, "before")
                IN /\ r.go => /\ Shown(r) = ListedOf(R)[base + i] /\ r.hasSunk = TRUE
                              /\ r.afterLeft = IF "before" = "after" THEN b.afterLeft - 1 ELSE b.afterLeft
                   /\ ~r.go => EndedOf(R, r)
            BY <3>0, <3>1, <4>6, <4>8, <5>0, ContextAdds
          <6> QED BY <3>9, <6>1
        <5>2. e.go => e.afterLeft = 0
          <6>1. b.afterLeft = d.afterLeft
            BY <3>1 DEF Kept
          <6> QED BY <2>6, <3>5, <4>1, <5>1, <6>1
        <5>3. AfterOf(R, n, 0)
          BY <1>0, <4>0, <4>1, <4>3, AfterNoneOf
        <5>4. ASSUME e.go PROVE OwedOf(R, base + e.visited, e) /\ \A k \in (base + e.visited) + 1 .. base + i : k \notin R.due
          <6>1. OwedOf(R, n, e)
            BY <1>0, <4>0, <4>4, <5>1, <5>2, <5>3, <5>4, OwedNowOf
          <6>2. base + e.visited = n /\ \A k \in n + 1 .. base + i : FALSE
            BY <3>2, <4>0, <5>4
          <6> QED BY <6>1, <6>2
        <5>5. e.go => c.visited <= e.visited
          BY <1>0, <2>3, <3>0, <3>2
        <5> QED BY <3>3, <5>1, <5>2, <5>4, <5>5
      <4> QED BY <4>7, <4>8
    <3>6. P(e, i)
      BY <3>1, <3>4, <3>5
    <3> HIDE DEF P
    <3> QED BY <3>6, <3>9
  <2> HIDE DEF P, Sink
  <2>7. \A i \in a .. upto : X[i] = {d \in Cores : P(d, i)}
    OBVIOUS
  <2>8. \A d, i : P(d, i) => d \in Cores
    BY DEF P, Sound
  <2>9. a \in Int /\ upto \in Int /\ a <= upto /\ a \in a .. upto /\ upto \in a .. upto /\ \A i \in a + 1 .. upto : i \in a .. upto /\ i - 1 \in a .. upto
    BY <2>3
  <2>10. \A i \in a + 1 .. upto : \A d \in Cores : F[<<i, d>>] = Sink(d, i)
    OBVIOUS
  <2> HIDE DEF X, F
  <2>11. c \in X[a]
    BY <1>0, <2>3, <2>7, <2>9, <2>31
  <2>12. \A i \in a + 1 .. upto : \A d \in X[i - 1] : Sink(d, i) \in X[i]
    BY <2>6, <2>7, <2>8, <2>9
  <2>13. \A i \in a .. upto : X[i] \subseteq Cores
    BY <2>7
  <2>14. \A i \in a + 1 .. upto : \A d \in X[i - 1] : F[<<i, d>>] \in X[i]
    BY <2>9, <2>10, <2>12, <2>13
  <2>15. PICK g : IsRun(g, a, upto, X, c, F)
    BY <2>9, <2>11, <2>13, <2>14, RunExists
  <2>16. g = Turns(g)
    <3>1. \A i \in a + 1 .. upto : g[i] = Sink(g[i - 1], i)
      BY <2>9, <2>10, <2>13, <2>15 DEF IsRun
    <3>2. \A i \in a .. upto : g[i] = IF i = a THEN c ELSE Sink(g[i - 1], i)
      <4> TAKE i \in a .. upto
      <4>1. g[a] = c
        BY <2>15 DEF IsRun
      <4>2. i # a => i \in a + 1 .. upto
        BY <2>9
      <4> QED BY <3>1, <4>1, <4>2
    <3>3. g = [i \in a .. upto |-> g[i]]
      BY <2>15 DEF IsRun
    <3> QED BY <3>2, <3>3
  <2>17. rec = Turns(rec)
    BY <2>16, Zenon
  <2> HIDE DEF rec
  <2>18. rec[a] \in X[a] /\ \A i \in a + 1 .. upto : rec[i] = Sink(rec[i - 1], i)
    BY <2>9, <2>11, <2>17
  <2>19. \A i \in a + 1 .. upto : rec[i - 1] \in X[i - 1] => rec[i] \in X[i]
    BY <2>12, <2>18
  <2>20. \A i \in a .. upto : rec[i] \in X[i]
    BY <2>9, <2>18, <2>19, Along
  <2>21. P(rec[upto], upto)
    BY <2>7, <2>9, <2>20
  <2> QED BY <2>5, <2>21 DEF P
<1> QED BY <1>1, <1>2

\* MatchedAdds, with its last condition named.
Unowed(R, v, n) == \A k \in v + 1 .. n - 1 : k \notin R.due

LEMMA MatchedAddsNamed ==
    ASSUME State, NEW R, Reference(R), NEW c, Sound(c), c.go, NEW i \in 1 .. shown, c.visited < i, OwedOf(R, base + c.visited, c),
           Single(R, base + i, "match"), Unowed(R, base + c.visited, base + i)
    PROVE  /\ SinkMatched(c, i).go => Shown(SinkMatched(c, i)) = ListedOf(R)[base + i] /\ SinkMatched(c, i).hasSunk = TRUE
           /\ ~SinkMatched(c, i).go => EndedOf(R, SinkMatched(c, i))
<1>1. \A k \in (base + c.visited) + 1 .. (base + i) - 1 : k \notin R.due
  BY DEF Unowed
<1> QED BY <1>1, MatchedAdds

\* after_context_by_line.
LEMMA AfterLineAdds ==
    ASSUME State, NEW R, Reference(R), NEW c, NEW d, Sound(d), d.go, NEW i \in 1 .. shown, d.visited = i - 1, d.afterLeft > 0,
           OwedOf(R, base + d.visited, d), base + i \notin R.chosen,
           base + i \in R.over <=> ExceededLimit(c) /\ Success(base + i)
    PROVE  LET e == AfterLine(c, d, i)
           IN /\ e.go => OwedOf(R, base + i, e) /\ e.visited = i
              /\ ~e.go => EndedOf(R, e)
<1> DEFINE r == AfterLine(c, d, i)
<1>0. /\ d \in Cores /\ i \in Int /\ i \in Int \cup {None} /\ d.visited \in Int /\ d.afterLeft \in 0 .. cfg.after /\ cfg.after \in Nat
      /\ base \in Nat /\ shown \in Nat /\ base + shown <= Total /\ Total \in Nat /\ Given /\ i - 1 \in Nat
  BY CoreTypes, Facts DEF Sound, State, Ranges, Config
<1>1. PICK v \in Nat : v = base + d.visited /\ v + 1 = base + i /\ v + 1 <= Total /\ v + 1 \in Nat
  BY <1>0
<1>2. PICK n \in Nat : n = d.afterLeft /\ n > 0
  BY <1>0
<1>3. AfterOf(R, v, n) /\ v + 1 \notin R.chosen /\ OwedOf(R, v, d)
  BY <1>1, <1>2 DEF OwedOf
<1>4. Single(R, v + 1, IF v + 1 \in R.over THEN "match" ELSE "after")
  BY <1>0, <1>1, <1>2, <1>3, AfterKindOf
<1>5. AfterOf(R, v + 1, n - 1)
  BY <1>0, <1>2, <1>3, AfterNextOf
<1>6. /\ Single(R, base + i, IF base + i \in R.over THEN "match" ELSE "after")
      /\ v + 1 \in R.due /\ base + i \in R.due
  BY <1>0, <1>1, <1>4, ReferenceFacts DEF Single
<1>7. ReadyOf(R, base + i, d)
  <2>1. ReadyOf(R, v + 1, d)
    BY <1>3, <1>6, NextReadyOf
  <2> QED BY <1>1, <2>1
<1>8. Hit(i) # cfg.invert <=> Success(base + i)
  BY DEF Hit, Success
<1>9. \A e : (Shown(e) = ListedOf(R)[base + i] /\ e.hasSunk = TRUE /\ e.afterLeft = n - 1) => OwedOf(R, base + i, e)
  BY <1>0, <1>1, <1>5, <1>6, OwedNowOf
<1>10. CASE ExceededLimit(c) /\ Hit(i) # cfg.invert
  <2> DEFINE m == [d EXCEPT !.pos = i]
             e == SinkMatched(m, i)
  <2>1. Alike(d, m) /\ m.hasSunk = d.hasSunk
    BY <1>0, PosAlike
  <2>2. r = IF e.go THEN [e EXCEPT !.afterLeft = d.afterLeft - 1] ELSE e
    BY <1>0, <1>10 DEF AfterLine
  <2> HIDE DEF m, r
  <2>3. Sound(m) /\ m.visited < i /\ m.go /\ m.visited = d.visited /\ Shown(m) = Shown(d) /\ m.afterLeft = d.afterLeft
    <3>1. m.visited = d.visited /\ m.go = d.go /\ m.calls = d.calls /\ m.afterLeft = d.afterLeft
      BY <2>1 DEF Alike
    <3>2. Sound(m)
      BY <2>1, AlikeSound
    <3>3. m.visited < i
      BY <1>0, <3>1
    <3> QED BY <3>1, <3>2, <3>3 DEF Shown
  <2>4. OwedOf(R, base + m.visited, m)
    BY <2>1, <2>3, OwedAlikeOf
  <2>5. Single(R, base + i, "match")
    BY <1>6, <1>8, <1>10
  <2>6. \A k \in (base + m.visited) + 1 .. (base + i) - 1 : k \notin R.due
    BY <1>0, <2>3
  <2>7. /\ e.go => Shown(e) = ListedOf(R)[base + i] /\ e.hasSunk = TRUE
        /\ ~e.go => EndedOf(R, e)
    <3> HIDE DEF e
    <3>1. PICK x : x = m
      OBVIOUS
    <3>2. Sound(x) /\ x.go /\ x.visited < i /\ OwedOf(R, base + x.visited, x) /\ Single(R, base + i, "match")
          /\ Unowed(R, base + x.visited, base + i)
      BY <2>3, <2>4, <2>5, <2>6, <3>1 DEF Unowed
    <3>3. /\ SinkMatched(x, i).go => Shown(SinkMatched(x, i)) = ListedOf(R)[base + i] /\ SinkMatched(x, i).hasSunk = TRUE
          /\ ~SinkMatched(x, i).go => EndedOf(R, SinkMatched(x, i))
      BY <3>2, MatchedAddsNamed
    <3> QED BY <3>1, <3>3 DEF e
  <2>8. Sound(e) /\ (e.go => e.visited = i)
    BY <2>3, MatchedSound
  <2> HIDE DEF e
  <2>9. CASE ~e.go
    BY <2>2, <2>7, <2>9 DEF r
  <2>10. CASE e.go
    <3>1. r = [e EXCEPT !.afterLeft = n - 1] /\ e \in Cores
      BY <1>2, <2>2, <2>8, <2>10 DEF Sound
    <3>2. r.calls = e.calls /\ r.hasSunk = e.hasSunk /\ r.afterLeft = n - 1 /\ r.visited = e.visited /\ r.go = e.go
      BY <3>1 DEF Cores
    <3>3. Shown(r) = ListedOf(R)[base + i] /\ r.hasSunk = TRUE
      BY <2>7, <2>10, <3>2 DEF Shown
    <3> QED BY <1>9, <2>8, <2>10, <3>2, <3>3 DEF r
  <2> QED BY <2>9, <2>10
<1>11. CASE ~(ExceededLimit(c) /\ Hit(i) # cfg.invert)
  <2> DEFINE e == SinkContext(d, i, "after")
  <2>1. r = e
    BY <1>0, <1>11 DEF AfterLine
  <2>2. Single(R, base + i, "after")
    BY <1>6, <1>8, <1>11
  <2>3. LET x == SinkContext(d, i, "after")
        IN /\ x.go => /\ Shown(x) = ListedOf(R)[base + i] /\ x.hasSunk = TRUE
                      /\ x.afterLeft = IF "after" = "after" THEN d.afterLeft - 1 ELSE d.afterLeft
           /\ ~x.go => EndedOf(R, x)
    BY <1>6, <1>7, <2>2, ContextAdds
  <2>4. e.go => e.visited = i
    BY <1>0, ContextSound
  <2>5. /\ e.go => Shown(e) = ListedOf(R)[base + i] /\ e.hasSunk = TRUE /\ e.afterLeft = n - 1
        /\ ~e.go => EndedOf(R, e)
    BY <1>2, <2>3
  <2> HIDE DEF e
  <2> QED BY <1>9, <2>1, <2>4, <2>5
<1> QED BY <1>10, <1>11

\* All of the context after a match, or what is left of it before line upto + 1.
LEMMA AfterAdds ==
    ASSUME State, NEW R, Reference(R), NEW c, Sound(c), c.go, NEW upto \in 0 .. shown, OwedOf(R, base + c.visited, c),
           c.afterLeft > 0 =>
                /\ c.visited <= upto /\ FreeOf(R, base + c.visited, base + upto)
                /\ \A n \in (base + c.visited) + 1 .. base + upto : n \in R.over <=> ExceededLimit(c) /\ Success(n)
    PROVE  LET d == AfterContext(c, upto)
           IN /\ d.go => /\ OwedOf(R, base + d.visited, d)
                         /\ c.visited <= d.visited
                         /\ d.afterLeft > 0 => d.visited = upto
              /\ ~d.go => EndedOf(R, d)
<1> DEFINE Sink(d, i) == AfterLine(c, d, i)
           P(d, i) == /\ Sound(d) /\ d.visited <= i
                      /\ d.go => /\ OwedOf(R, base + d.visited, d)
                                 /\ c.visited <= d.visited
                                 /\ d.afterLeft > 0 => d.visited = i
                      /\ ~d.go => EndedOf(R, d)
<1>0. /\ c \in Cores /\ c.visited \in 0 .. shown /\ shown \in Nat /\ Given /\ base \in Nat
      /\ base + shown <= Total /\ Total \in Nat /\ c.afterLeft \in Nat
  BY Facts DEF Sound, State, Config, Ranges
<1>1. CASE c.afterLeft = 0
  <2>1. AfterContext(c, upto) = c
    BY <1>1 DEF AfterContext
  <2> QED BY <1>0, <1>1, <2>1
<1>2. CASE c.afterLeft # 0
  <2>3. PICK a \in 0 .. shown : a = c.visited /\ a <= upto
    BY <1>0, <1>2
  <2>4. Checked(c, a, upto) = c
    BY <1>0, <2>3, CheckedSound
  <2>31. P(c, a)
    BY <1>0, <2>3
  <2> DEFINE Turns(f) == [i \in a .. upto |-> IF i = a THEN c ELSE Sink(f[i - 1], i)]
             rec == CHOOSE f : f = Turns(f)
             X == [i \in a .. upto |-> {d \in Cores : P(d, i)}]
             F == [p \in (a + 1 .. upto) \X Cores |-> Sink(p[2], p[1])]
  <2>5. AfterContext(c, upto) = rec[upto]
    BY <1>2, <2>3, <2>4 DEF ForLines, AfterContext, AfterLine
  <2>6. ASSUME NEW i \in a + 1 .. upto, NEW d, P(d, i - 1) PROVE P(Sink(d, i), i)
    <3>0. i \in 1 .. shown /\ d.visited \in 0 .. shown /\ d.visited < i /\ a <= i - 1 /\ i <= upto
      BY <1>0, <2>3, <2>6 DEF Sound, Ranges
    <3> DEFINE e == AfterLine(c, d, i)
    <3>1. Sound(e) /\ e.visited <= i
      BY <2>6, <3>0, AfterLineSound
    <3>2. Sink(d, i) = e
      OBVIOUS
    <3> HIDE DEF Sink
    <3>3. CASE ~d.go
      <4>1. e = d
        BY <3>3 DEF AfterLine
      <4> HIDE DEF e
      <4>2. P(e, i)
        BY <2>6, <3>1, <3>3, <4>1
      <4> QED BY <3>2, <4>2
    <3>4. CASE d.go /\ ~(d.afterLeft > 0)
      <4>1. e = d
        <5>1. d.afterLeft = 0
          BY <2>6, <3>4, Facts DEF Sound, Ranges, State, Config
        <5> QED BY <5>1 DEF AfterLine
      <4> HIDE DEF e
      <4>2. P(e, i)
        BY <2>6, <3>1, <3>4, <4>1
      <4> QED BY <3>2, <4>2
    <3>5. CASE d.go /\ d.afterLeft > 0
      <4>1. d.visited = i - 1 /\ OwedOf(R, base + d.visited, d) /\ c.visited <= d.visited
        BY <2>6, <3>5
      <4>2. PICK n \in Nat : n = base + i /\ n \in (base + c.visited) + 1 .. base + upto /\ base + c.visited < n /\ n <= base + upto
        BY <1>0, <2>3, <3>0
      <4>3. n \notin R.chosen /\ (n \in R.over <=> ExceededLimit(c) /\ Success(n))
        BY <1>0, <1>2, <4>2 DEF FreeOf
      <4>4. /\ e.go => OwedOf(R, base + i, e) /\ e.visited = i
            /\ ~e.go => EndedOf(R, e)
        BY <2>6, <3>0, <3>5, <4>1, <4>2, <4>3, AfterLineAdds
      <4> HIDE DEF e
      <4>5. e.go => c.visited <= e.visited
        BY <1>0, <2>3, <3>0, <4>4
      <4>6. P(e, i)
        BY <3>1, <4>4, <4>5
      <4> QED BY <3>2, <4>6
    <3> QED BY <3>3, <3>4, <3>5
  <2> HIDE DEF P, Sink
  <2>7. \A i \in a .. upto : X[i] = {d \in Cores : P(d, i)}
    OBVIOUS
  <2>8. \A d, i : P(d, i) => d \in Cores
    BY DEF P, Sound
  <2>9. a \in Int /\ upto \in Int /\ a <= upto /\ a \in a .. upto /\ upto \in a .. upto /\ \A i \in a + 1 .. upto : i \in a .. upto /\ i - 1 \in a .. upto
    BY <2>3
  <2>10. \A i \in a + 1 .. upto : \A d \in Cores : F[<<i, d>>] = Sink(d, i)
    OBVIOUS
  <2> HIDE DEF X, F
  <2>11. c \in X[a]
    BY <1>0, <2>3, <2>7, <2>9, <2>31
  <2>12. \A i \in a + 1 .. upto : \A d \in X[i - 1] : Sink(d, i) \in X[i]
    BY <2>6, <2>7, <2>8, <2>9
  <2>13. \A i \in a .. upto : X[i] \subseteq Cores
    BY <2>7
  <2>14. \A i \in a + 1 .. upto : \A d \in X[i - 1] : F[<<i, d>>] \in X[i]
    BY <2>9, <2>10, <2>12, <2>13
  <2>15. PICK g : IsRun(g, a, upto, X, c, F)
    BY <2>9, <2>11, <2>13, <2>14, RunExists
  <2>16. g = Turns(g)
    <3>1. \A i \in a + 1 .. upto : g[i] = Sink(g[i - 1], i)
      BY <2>9, <2>10, <2>13, <2>15 DEF IsRun
    <3>2. \A i \in a .. upto : g[i] = IF i = a THEN c ELSE Sink(g[i - 1], i)
      <4> TAKE i \in a .. upto
      <4>1. g[a] = c
        BY <2>15 DEF IsRun
      <4>2. i # a => i \in a + 1 .. upto
        BY <2>9
      <4> QED BY <3>1, <4>1, <4>2
    <3>3. g = [i \in a .. upto |-> g[i]]
      BY <2>15 DEF IsRun
    <3> QED BY <3>2, <3>3
  <2>17. rec = Turns(rec)
    BY <2>16, Zenon
  <2> HIDE DEF rec
  <2>18. rec[a] \in X[a] /\ \A i \in a + 1 .. upto : rec[i] = Sink(rec[i - 1], i)
    BY <2>9, <2>11, <2>17
  <2>19. \A i \in a + 1 .. upto : rec[i - 1] \in X[i - 1] => rec[i] \in X[i]
    BY <2>12, <2>18
  <2>20. \A i \in a .. upto : rec[i] \in X[i]
    BY <2>9, <2>18, <2>19, Along
  <2>21. P(rec[upto], upto)
    BY <2>7, <2>9, <2>20
  <2> QED BY <2>5, <2>21 DEF P
<1> QED BY <1>1, <1>2
-----------------------------------------------------------------------------
\* Searches of which ReportsExpected is proved: --stop-on-nonmatch is left out,
\* and a limit to inverted matches (see LimitBounds); an inverted search by the
\* fast path does not obey a sink, so it is given one that is content.
Orderly ==
    /\ ~cfg.stopOnNonmatch
    /\ cfg.invert => cfg.max = None
    /\ cfg.invert /\ cfg.fast => stopAnswer = 0 /\ ~Quits

\* A set of lines that is not empty has a last one.
LEMMA Greatest ==
    ASSUME NEW N \in Nat, NEW S \in SUBSET (1 .. N), S # {}
    PROVE  LastLine(S) \in S /\ \A j \in S : j <= LastLine(S)
<1> DEFINE T == {N - j : j \in S}
<1>1. PICK i \in T : \A j \in T : i <= j
  <2>1. T \in SUBSET Nat /\ T # {}
    <3>1. \A j \in S : N - j \in Nat
      OBVIOUS
    <3>2. PICK j \in S : TRUE
      OBVIOUS
    <3>3. N - j \in T
      OBVIOUS
    <3> QED BY <3>1, <3>3
  <2> HIDE DEF T
  <2> QED BY <2>1, LeastNat
<1>2. PICK g \in S : i = N - g
  BY <1>1
<1>3. \A j \in S : j <= g
  <2> TAKE j \in S
  <2>1. N - j \in T
    OBVIOUS
  <2>2. N - g <= N - j
    BY <1>1, <1>2, <2>1
  <2>3. N \in Int /\ g \in Int /\ j \in Int
    OBVIOUS
  <2> HIDE DEF T
  <2> QED BY <2>2, <2>3
<1> HIDE DEF T
<1>4. \E k \in S : \A j \in S : j <= k
  BY <1>2, <1>3
<1> QED BY <1>4, Zenon DEF LastLine

\* Without --stop-on-nonmatch the matches are those within the limit.
LEMMA ChosenFacts ==
    ASSUME Given, Orderly
    PROVE  /\ Horizon = Total /\ Chosen = Limited /\ Chosen \in SUBSET (1 .. Total)
           /\ \A i \in Chosen : Success(i)
           /\ cfg.max = None => Chosen = {i \in 1 .. Total : Success(i)}
           /\ cfg.before \in Nat /\ cfg.after \in Nat /\ cfg.fast \in BOOLEAN /\ cfg.passthru \in BOOLEAN /\ cfg.invert \in BOOLEAN
           /\ cfg.max \in (Nat \ {0}) \cup {None} /\ None \notin Int
           /\ cfg.passthru => cfg.before = 0 /\ cfg.after = 0
           /\ cfg.slice \in BOOLEAN /\ cfg.binary \in {"none", "quit", "convert"}
           /\ Total \in Nat
<1>1. cfg \in Config /\ Total \in Nat /\ None \notin Int
  BY Facts
<1>2. Horizon = Total
  BY DEF Horizon, Orderly
<1>3. Limited \in SUBSET (1 .. Total) /\ \A i \in Limited : Success(i)
  BY DEF Limited
<1>4. Chosen = Limited
  <2>1. \A i \in 1 .. Total : i <= Total
    BY <1>1
  <2> QED BY <1>2, <1>3, <2>1 DEF Chosen
<1>5. cfg.max = None => Limited = {i \in 1 .. Total : Success(i)}
  BY DEF Limited
<1>6. cfg.passthru => cfg.before = 0 /\ cfg.after = 0
  BY PassthruAssumption DEF Given
<1>7. /\ cfg.before \in Nat /\ cfg.after \in Nat /\ cfg.fast \in BOOLEAN /\ cfg.passthru \in BOOLEAN /\ cfg.invert \in BOOLEAN
      /\ cfg.max \in (Nat \ {0}) \cup {None} /\ cfg.slice \in BOOLEAN /\ cfg.binary \in {"none", "quit", "convert"}
  BY <1>1 DEF Config
<1> QED BY <1>1, <1>2, <1>3, <1>4, <1>5, <1>6, <1>7

\* When the limit is reached there is a last match.
LEMMA LimitFacts ==
    ASSUME Given, Orderly, LimitReached
    PROVE  LastLine(Chosen) \in Chosen /\ \A j \in Chosen : j <= LastLine(Chosen)
<1>1. Chosen # {}
  <2>1. cfg.max \in Nat \ {0}
    BY ChosenFacts DEF LimitReached
  <2>2. Cardinality({}) = 0
    BY FS_EmptySet
  <2> QED BY <2>1, <2>2 DEF LimitReached
<1> QED BY <1>1, ChosenFacts, Greatest

\* No line behind the last one reported is of a kind that is.
LEMMA DueIs ==
    ASSUME Given, Orderly
    PROVE  Due = {k \in 1 .. Total : KindOf(k) # "nothing"}
<1>0. /\ Horizon = Total /\ Chosen \in SUBSET (1 .. Total) /\ Total \in Nat /\ cfg.after \in Nat /\ cfg.before \in Nat
  BY ChosenFacts
<1>1. CASE ~(LimitReached /\ ~cfg.passthru)
  BY <1>0, <1>1 DEF Due, LastReported
<1>2. CASE LimitReached /\ ~cfg.passthru
  <2> DEFINE g == LastLine(Chosen)
  <2>1. g \in Chosen /\ \A j \in Chosen : j <= g
    BY <1>2, LimitFacts
  <2> HIDE DEF g
  <2>2. g \in 1 .. Total
    BY <1>0, <2>1
  <2>3. LastReported = AtMost(Total, g + cfg.after)
    BY <1>0, <1>2 DEF LastReported, g
  <2>4. ASSUME NEW k \in 1 .. Total, k > g + cfg.after PROVE KindOf(k) = "nothing"
    <3>1. \A j \in Chosen : j \in Int /\ j <= g
      BY <1>0, <2>1
    <3>2. k \notin Chosen
      BY <1>0, <2>2, <2>4, <3>1
    <3>3. ~InAfter(k)
      BY <1>0, <2>2, <2>4, <3>1 DEF InAfter
    <3>4. ~InBefore(k)
      BY <1>0, <2>2, <2>4, <3>1 DEF InBefore
    <3> QED BY <1>2, <3>2, <3>3, <3>4 DEF KindOf
  <2>5. \A k \in 1 .. Total : k \in 1 .. LastReported <=> k <= g + cfg.after
    BY <1>0, <2>2, <2>3 DEF AtMost
  <2>6. \A k \in 1 .. LastReported : k \in 1 .. Total
    BY <1>0, <2>2, <2>3 DEF AtMost
  <2>7. \A k \in 1 .. Total : ~(k <= g + cfg.after) => k > g + cfg.after
    BY <1>0, <2>2
  <2> QED BY <2>4, <2>5, <2>6, <2>7 DEF Due
<1> QED BY <1>1, <1>2
-----------------------------------------------------------------------------
\* AfterIs(v, n): n lines behind line v follow a match up to it closely enough.
AfterIs(v, n) == \A i \in v + 1 .. Total : (\E j \in Chosen : j <= v /\ i <= j + cfg.after) <=> i <= v + n

\* Free(v, w): no line behind v and up to w is a match within the limit.
Free(v, w) == \A j \in Chosen : ~(v < j /\ j <= w)

\* What is to be reported of the first lines.
Listed == Reports(Total, Due, [i \in Due |-> CallsFor(Due, i)])

\* A search is hindered when it may have been stopped: by the sink, or by
\* binary data.
Hindered(c) == Quits \/ (stopAnswer > 0 /\ Len(c.calls) >= stopAnswer)
Pre(c) == IsPrefix(Shown(c), Expected)
Ended(c) == Pre(c) /\ Hindered(c)

LEMMA HaltedHinders == \A c : Halted(c) => Hindered(c)
  BY DEF Halted, Hindered

\* Everything up to line v of the file was reported.
Owed(v, c) ==
    /\ Shown(c) = Listed[v]
    /\ c.hasSunk <=> \E j \in Due : j <= v
    /\ (cfg.before + cfg.after > 0 /\ c.hasSunk) => v \in Due \/ v + 1 \notin Due
    /\ AfterIs(v, c.afterLeft)

\* What is reported before line n, which is due.
Ready(n, c) == Shown(c) = IF Gap(Due, n) THEN Append(Listed[n - 1], Skip(n - 1)) ELSE Listed[n - 1]

\* The reference of LineOutput.
LineReference ==
    [ chosen |-> Chosen, over |-> {i \in 1 .. Total : MatchInContext(i)}, due |-> Due, starts |-> Due,
      kind |-> [i \in 1 .. Total |-> KindOf(i)], upto |-> [i \in 1 .. Total |-> i] ]

LEMMA LineFields ==
    /\ LineReference.chosen = Chosen /\ LineReference.due = Due /\ LineReference.starts = Due
    /\ LineReference.over = {i \in 1 .. Total : MatchInContext(i)}
    /\ \A i \in 1 .. Total : LineReference.kind[i] = KindOf(i) /\ LineReference.upto[i] = i
  BY DEF LineReference

LEMMA LineIsReference ==
    ASSUME Given, Orderly
    PROVE  Reference(LineReference)
<1> DEFINE R == LineReference
<1>0. /\ R.chosen = Chosen /\ R.due = Due /\ R.starts = Due
      /\ \A i \in 1 .. Total : R.over = {k \in 1 .. Total : MatchInContext(k)} /\ R.kind[i] = KindOf(i) /\ R.upto[i] = i
  BY LineFields
<1> HIDE DEF R
<1>1. /\ Chosen \in SUBSET (1 .. Total) /\ Total \in Nat /\ cfg.before \in Nat /\ cfg.after \in Nat
      /\ cfg.passthru \in BOOLEAN /\ cfg.passthru => cfg.before = 0 /\ cfg.after = 0
      /\ Due = {k \in 1 .. Total : KindOf(k) # "nothing"}
  BY ChosenFacts, DueIs
<1>2. Chosen \in SUBSET (1 .. Total + 1) /\ Due \in SUBSET (1 .. Total)
  BY <1>1
<1>3. \A i \in Due : KindOf(i) \in LineKinds /\ i \in Int /\ i \in 1 .. Total
  <2> TAKE i \in Due
  <2>1. i \in 1 .. Total /\ KindOf(i) # "nothing"
    BY <1>1
  <2> QED BY <2>1 DEF KindOf, LineKinds
<1>4. ASSUME NEW i \in 1 .. Total, i \notin Chosen
      PROVE  /\ InAfter(i) => i \in Due /\ KindOf(i) = IF MatchInContext(i) THEN "match" ELSE "after"
             /\ ~InAfter(i) /\ InBefore(i) => i \in Due /\ KindOf(i) = "before"
             /\ ~InAfter(i) /\ ~InBefore(i) /\ cfg.passthru => i \in Due /\ KindOf(i) = "other"
             /\ ~InAfter(i) /\ ~InBefore(i) /\ ~cfg.passthru => i \notin Due
  BY <1>1, <1>4 DEF KindOf
<1>5. \A i \in 1 .. Total : (Follows(R, i) <=> InAfter(i)) /\ (Precedes(R, i) <=> InBefore(i))
  BY <1>0 DEF Follows, Precedes, InAfter, InBefore
<1>6. ASSUME NEW i \in 1 .. Total, i \notin R.chosen
      PROVE  /\ Follows(R, i) => Single(R, i, IF i \in R.over THEN "match" ELSE "after")
             /\ ~Follows(R, i) /\ Precedes(R, i) => Single(R, i, "before")
             /\ ~Follows(R, i) /\ ~Precedes(R, i) /\ cfg.passthru => Single(R, i, "other")
             /\ ~Follows(R, i) /\ ~Precedes(R, i) /\ ~cfg.passthru => i \notin R.due
  <2>1. /\ R.kind[i] = KindOf(i) /\ R.upto[i] = i /\ i \notin Chosen
        /\ i \in R.over <=> MatchInContext(i)
        /\ Follows(R, i) <=> InAfter(i)
        /\ Precedes(R, i) <=> InBefore(i)
    BY <1>0, <1>5, <1>6
  <2> QED BY <1>0, <1>4, <2>1 DEF Single
<1>7. \A i \in R.starts : R.kind[i] \in LineKinds /\ R.upto[i] \in Int
  BY <1>0, <1>3
<1> QED BY <1>0, <1>2, <1>6, <1>7 DEF Reference, R

\* What is owed of it is what is owed of the reference.
LEMMA LineSame ==
    ASSUME Given, Orderly
    PROVE  /\ Listed = ListedOf(LineReference) /\ Expected = Listed[Total]
           /\ \A v, w : Free(v, w) <=> FreeOf(LineReference, v, w)
           /\ \A v, n : AfterIs(v, n) <=> AfterOf(LineReference, v, n)
           /\ \A v, c : Owed(v, c) <=> OwedOf(LineReference, v, c)
           /\ \A n, c : Ready(n, c) <=> ReadyOf(LineReference, n, c)
           /\ \A c : Pre(c) <=> PreOf(LineReference, c)
           /\ \A c : EndedOf(LineReference, c) => Ended(c)
<1> DEFINE R == LineReference
<1>0. /\ R.chosen = Chosen /\ R.due = Due /\ R.starts = Due
      /\ \A i \in 1 .. Total : R.kind[i] = KindOf(i) /\ R.upto[i] = i
  BY LineFields
<1> HIDE DEF R
<1>1. Listed = ListedOf(R)
  <2> DEFINE K == [i \in Due |-> CallsFor(Due, i)]
             M == [i \in Due |-> CallsOf(R, i)]
  <2>1. \A i \in Due : i \in 1 .. Total
    BY DueIs
  <2>2. \A i \in Due : CallsFor(Due, i) = CallsOf(R, i)
    BY <1>0, <2>1 DEF CallsFor, CallsOf
  <2>3. K = M
    BY <2>2
  <2>4. Listed = Reports(Total, Due, K) /\ ListedOf(R) = Reports(Total, Due, M)
    BY <1>0 DEF Listed, ListedOf
  <2> HIDE DEF K, M
  <2> QED BY <2>3, <2>4
<1>2. Expected = Listed[Total]
  BY DEF Expected, Listed
<1>3. \A v, w : Free(v, w) <=> FreeOf(R, v, w)
  BY <1>0 DEF Free, FreeOf
<1>4. \A v, n : AfterIs(v, n) <=> AfterOf(R, v, n)
  BY <1>0 DEF AfterIs, AfterOf
<1>5. \A v, c : Owed(v, c) <=> OwedOf(R, v, c)
  BY <1>0, <1>1, <1>4 DEF Owed, OwedOf
<1>6. \A n, c : Ready(n, c) <=> ReadyOf(R, n, c)
  BY <1>0, <1>1 DEF Ready, ReadyOf
<1>7. \A c : Pre(c) <=> PreOf(R, c)
  BY <1>1, <1>2 DEF Pre, PreOf
<1>8. \A c : EndedOf(R, c) => Ended(c)
  BY <1>7 DEF Ended, EndedOf, Hindered, Halted
<1> QED BY <1>1, <1>2, <1>3, <1>4, <1>5, <1>6, <1>7, <1>8 DEF R

LEMMA LineSingle ==
    ASSUME Given, Orderly, NEW i \in Due
    PROVE  Single(LineReference, i, KindOf(i))
<1>1. i \in 1 .. Total
  BY DueIs
<1> QED BY <1>1, LineFields DEF Single

LEMMA AfterMatched ==
    ASSUME Given, Orderly, NEW i \in Chosen
    PROVE  AfterIs(i, cfg.after)
  BY LineIsReference, LineSame, LineFields, AfterMatchedOf

LEMMA AfterNext ==
    ASSUME Given, Orderly, NEW v \in Nat, NEW n \in Nat, n > 0, AfterIs(v, n), v + 1 \notin Chosen
    PROVE  AfterIs(v + 1, n - 1)
  BY LineIsReference, LineSame, LineFields, AfterNextOf

LEMMA AfterNone ==
    ASSUME Given, Orderly, NEW v \in Nat, NEW w \in Nat, v <= w, AfterIs(v, 0), Free(v, w)
    PROVE  AfterIs(w, 0)
  BY LineIsReference, LineSame, LineFields, AfterNoneOf

\* Of which kind a line is, from what the core knows of it.
LEMMA ChosenKind ==
    ASSUME Given, Orderly, NEW i \in Chosen
    PROVE  i \in Due /\ KindOf(i) = "match"
<1>1. KindOf(i) = "match" /\ i \in 1 .. Total
  BY ChosenFacts DEF KindOf
<1> QED BY <1>1, DueIs

LEMMA AfterKind ==
    ASSUME Given, Orderly, NEW v \in Nat, NEW n \in Nat, n > 0, AfterIs(v, n), v + 1 \notin Chosen, v + 1 <= Total
    PROVE  v + 1 \in Due /\ KindOf(v + 1) = IF MatchInContext(v + 1) THEN "match" ELSE "after"
<1>0. v + 1 \in 1 .. Total /\ Total \in Nat
  BY ChosenFacts
<1> DEFINE R == LineReference
<1>1. Single(R, v + 1, IF v + 1 \in R.over THEN "match" ELSE "after")
  BY LineIsReference, LineSame, LineFields, AfterKindOf
<1>2. R.kind[v + 1] = KindOf(v + 1) /\ R.starts = Due /\ (v + 1 \in R.over <=> MatchInContext(v + 1))
  BY <1>0, LineFields
<1> QED BY <1>1, <1>2 DEF Single

LEMMA OtherKind ==
    ASSUME Given, Orderly, cfg.passthru, NEW k \in 1 .. Total, k \notin Chosen
    PROVE  k \in Due /\ KindOf(k) = "other"
<1> DEFINE R == LineReference
<1>1. Single(R, k, "other")
  BY LineIsReference, LineFields, OtherKindOf
<1>2. R.kind[k] = KindOf(k) /\ R.starts = Due
  BY LineFields
<1> QED BY <1>1, <1>2 DEF Single

LEMMA NotDue ==
    ASSUME Given, Orderly, ~cfg.passthru, NEW v \in Nat, AfterIs(v, 0), NEW k \in Nat, v < k, Free(v, k),
           \A j \in Chosen : k < j => k + cfg.before < j
    PROVE  k \notin Due
  BY LineIsReference, LineSame, LineFields, NotDueOf

-----------------------------------------------------------------------------
\* The count of matches.
Successes(p) == {j \in 1 .. Total : Success(j) /\ j <= p}
Counted(p, n) ==
    cfg.max # None => n = IF Cardinality(Successes(p)) < cfg.max THEN Cardinality(Successes(p)) ELSE cfg.max

\* One line more.
LEMMA SuccessesNext ==
    ASSUME Given, Orderly, NEW p \in Nat, p + 1 <= Total
    PROVE  /\ Cardinality(Successes(p)) \in Nat
           /\ ~Success(p + 1) => Successes(p + 1) = Successes(p)
           /\ Success(p + 1) => Cardinality(Successes(p + 1)) = Cardinality(Successes(p)) + 1
<1>0. Total \in Nat /\ p + 1 \in 1 .. Total
  BY ChosenFacts
<1>1. IsFiniteSet(Successes(p)) /\ Cardinality(Successes(p)) \in Nat
  <2>1. Successes(p) \subseteq 1 .. Total
    BY DEF Successes
  <2>2. IsFiniteSet(1 .. Total)
    BY <1>0, 1 \in Int, FS_Interval
  <2>3. IsFiniteSet(Successes(p))
    BY <2>1, <2>2, FS_Subset
  <2> QED BY <2>3, FS_CardinalityType
<1>2. ~Success(p + 1) => Successes(p + 1) = Successes(p)
  <2>1. \A j \in 1 .. Total : j <= p + 1 <=> j <= p \/ j = p + 1
    BY <1>0
  <2> QED BY <2>1 DEF Successes
<1>3. Success(p + 1) => Successes(p + 1) = Successes(p) \cup {p + 1} /\ p + 1 \notin Successes(p)
  <2>1. \A j \in 1 .. Total : j <= p + 1 <=> j <= p \/ j = p + 1
    BY <1>0
  <2> QED BY <1>0, <2>1 DEF Successes
<1> QED BY <1>1, <1>2, <1>3, FS_AddElement

LEMMA SuccessesSize ==
    ASSUME Given, Orderly, NEW p \in Nat
    PROVE  IsFiniteSet(Successes(p)) /\ Cardinality(Successes(p)) \in Nat
<1>0. Total \in Nat
  BY ChosenFacts
<1>1. Successes(p) \subseteq 1 .. Total
  BY DEF Successes
<1>2. IsFiniteSet(1 .. Total)
  BY <1>0, 1 \in Int, FS_Interval
<1>3. IsFiniteSet(Successes(p))
  BY <1>1, <1>2, FS_Subset
<1> QED BY <1>3, FS_CardinalityType

LEMMA SuccessesGrow ==
    ASSUME Given, Orderly, NEW p \in Nat, NEW q \in Nat, p <= q
    PROVE  /\ Cardinality(Successes(p)) <= Cardinality(Successes(q))
           /\ (\A j \in 1 .. Total : p < j /\ j <= q => ~Success(j)) => Successes(q) = Successes(p)
<1>0. Total \in Nat /\ \A j \in 1 .. Total : j \in Int
  BY ChosenFacts
<1>1. Successes(p) \subseteq Successes(q)
  BY <1>0 DEF Successes
<1>2. Cardinality(Successes(p)) <= Cardinality(Successes(q))
  BY <1>1, SuccessesSize, FS_Subset
<1>3. (\A j \in 1 .. Total : p < j /\ j <= q => ~Success(j)) => Successes(q) = Successes(p)
  BY <1>0 DEF Successes
<1> QED BY <1>2, <1>3

\* A success is a match within the limit if it is found before the limit is reached.
LEMMA ChosenWithin ==
    ASSUME Given, Orderly, NEW p \in Nat, p + 1 <= Total, NEW n, Counted(p, n)
    PROVE  /\ p + 1 \in Chosen <=> Success(p + 1) /\ (cfg.max = None \/ n < cfg.max)
           /\ ~Success(p + 1) => Counted(p + 1, n)
           /\ Success(p + 1) /\ (cfg.max = None \/ n < cfg.max) => Counted(p + 1, n + 1)
           /\ Success(p + 1) /\ ~(cfg.max = None \/ n < cfg.max) => Counted(p + 1, n)
<1>0. Total \in Nat /\ p + 1 \in 1 .. Total /\ Chosen = Limited /\ (cfg.max = None \/ cfg.max \in Nat \ {0})
  BY ChosenFacts
<1> DEFINE a == Cardinality(Successes(p))
           b == Cardinality(Successes(p + 1))
<1>1. a \in Nat /\ (Success(p + 1) => b = a + 1) /\ (~Success(p + 1) => b = a)
  BY SuccessesNext
<1>2. p + 1 \in Limited <=> Success(p + 1) /\ (cfg.max = None \/ b <= cfg.max)
  <2>1. Successes(p + 1) = {j \in {i \in 1 .. Total : Success(i)} : j <= p + 1}
    BY DEF Successes
  <2> QED BY <1>0, <2>1 DEF Limited
<1>3. cfg.max # None => n = IF a < cfg.max THEN a ELSE cfg.max
  BY DEF Counted
<1> HIDE DEF a, b
<1>4. p + 1 \in Chosen <=> Success(p + 1) /\ (cfg.max = None \/ n < cfg.max)
  BY <1>0, <1>1, <1>2, <1>3
<1>5. \A m : Counted(p + 1, m) <=> (cfg.max # None => m = IF b < cfg.max THEN b ELSE cfg.max)
  BY DEF Counted, b
<1>6. ~Success(p + 1) => Counted(p + 1, n)
  BY <1>1, <1>3, <1>5
<1>7. Success(p + 1) /\ (cfg.max = None \/ n < cfg.max) => Counted(p + 1, n + 1)
  BY <1>0, <1>1, <1>3, <1>5
<1>8. Success(p + 1) /\ ~(cfg.max = None \/ n < cfg.max) => Counted(p + 1, n)
  BY <1>0, <1>1, <1>3, <1>5
<1> QED BY <1>4, <1>6, <1>7, <1>8

\* The lines between are no successes, or come too late.
LEMMA CountedOn ==
    ASSUME Given, Orderly, NEW p \in Nat, NEW q \in Nat, p <= q, NEW n, Counted(p, n),
           \/ \A j \in 1 .. Total : p < j /\ j <= q => ~Success(j)
           \/ cfg.max # None /\ n >= cfg.max
    PROVE  Counted(q, n)
<1>0. cfg.max = None \/ cfg.max \in Nat \ {0}
  BY ChosenFacts
<1>1. Cardinality(Successes(p)) \in Nat /\ Cardinality(Successes(q)) \in Nat /\ Cardinality(Successes(p)) <= Cardinality(Successes(q))
  BY SuccessesSize, SuccessesGrow
<1>2. CASE \A j \in 1 .. Total : p < j /\ j <= q => ~Success(j)
  BY <1>2, SuccessesGrow DEF Counted
<1>3. CASE cfg.max # None /\ n >= cfg.max
  BY <1>0, <1>1, <1>3 DEF Counted
<1> QED BY <1>2, <1>3

\* The limit was reached: there are no more matches within the limit, which
\* are as many as it says.
LEMMA LimitIs ==
    ASSUME Given, Orderly, NEW p \in Nat, p <= Total, NEW n, Counted(p, n), cfg.max # None, n >= cfg.max
    PROVE  LimitReached /\ \A j \in Chosen : j <= p
<1>0. /\ Total \in Nat /\ Chosen = Limited /\ cfg.max \in Nat \ {0}
      /\ Chosen = {i \in 1 .. Total : Success(i) /\ Cardinality(Successes(i)) <= cfg.max}
  <2>1. Total \in Nat /\ Chosen = Limited /\ cfg.max \in Nat \ {0}
    BY ChosenFacts
  <2>2. \A i : Successes(i) = {j \in {k \in 1 .. Total : Success(k)} : j <= i}
    BY DEF Successes
  <2>3. Limited = {i \in 1 .. Total : Success(i) /\ Cardinality(Successes(i)) <= cfg.max}
    BY <2>2 DEF Limited
  <2> QED BY <2>1, <2>3
<1>1. \A q \in Nat : Cardinality(Successes(q)) \in Nat
  BY SuccessesSize
<1>2. Cardinality(Successes(p)) >= cfg.max
  BY <1>0, <1>1 DEF Counted
<1>3. ASSUME NEW j \in Chosen, j > p PROVE FALSE
  <2>1. j \in 1 .. Total /\ Success(j) /\ Cardinality(Successes(j)) <= cfg.max
    BY <1>0, <1>3
  <2>2. j - 1 \in Nat /\ (j - 1) + 1 = j /\ p <= j - 1
    BY <1>3, <2>1
  <2>3. Cardinality(Successes(j)) = Cardinality(Successes(j - 1)) + 1
    BY <1>0, <2>1, <2>2, SuccessesNext
  <2>4. Cardinality(Successes(p)) <= Cardinality(Successes(j - 1))
    BY <2>2, SuccessesGrow
  <2> QED BY <1>0, <1>1, <1>2, <2>1, <2>2, <2>3, <2>4
<1> DEFINE Picked(q) == {i \in Chosen : i <= q}
           AtMostMax(m) == IF m < cfg.max THEN m ELSE cfg.max
           S == {q \in Nat : q <= Total => /\ IsFiniteSet(Picked(q))
                                           /\ Cardinality(Picked(q)) = AtMostMax(Cardinality(Successes(q)))}
<1>4. 0 \in S
  <2>1. Picked(0) = {} /\ Successes(0) = {}
    BY <1>0 DEF Successes
  <2>2. IsFiniteSet(Picked(0)) /\ Cardinality(Picked(0)) = 0 /\ Cardinality(Successes(0)) = 0
    BY <2>1, FS_EmptySet
  <2> HIDE DEF Picked
  <2> QED BY <1>0, <2>2
<1>5. ASSUME NEW q \in Nat, q \in S PROVE q + 1 \in S
  <2> SUFFICES ASSUME q + 1 <= Total
               PROVE  IsFiniteSet(Picked(q + 1)) /\ Cardinality(Picked(q + 1)) = AtMostMax(Cardinality(Successes(q + 1)))
    OBVIOUS
  <2>1. q + 1 \in 1 .. Total /\ IsFiniteSet(Picked(q)) /\ Cardinality(Picked(q)) = AtMostMax(Cardinality(Successes(q)))
    BY <1>0, <1>5
  <2>2. /\ ~Success(q + 1) => Successes(q + 1) = Successes(q)
        /\ Success(q + 1) => Cardinality(Successes(q + 1)) = Cardinality(Successes(q)) + 1
    BY SuccessesNext
  <2>3. \A i \in Chosen : i <= q + 1 <=> i <= q \/ i = q + 1
    BY <1>0
  <2>4. CASE q + 1 \in Chosen
    <3>1. Picked(q + 1) = Picked(q) \cup {q + 1} /\ q + 1 \notin Picked(q)
      BY <1>0, <2>3, <2>4
    <3>2. Success(q + 1) /\ Cardinality(Successes(q + 1)) <= cfg.max
      BY <1>0, <2>4
    <3> HIDE DEF Picked
    <3>3. IsFiniteSet(Picked(q + 1)) /\ Cardinality(Picked(q + 1)) = Cardinality(Picked(q)) + 1
      BY <2>1, <3>1, FS_AddElement
    <3> QED BY <1>0, <1>1, <2>1, <2>2, <3>2, <3>3
  <2>5. CASE q + 1 \notin Chosen
    <3>1. Picked(q + 1) = Picked(q)
      BY <1>0, <2>3, <2>5
    <3>2. ~Success(q + 1) \/ Cardinality(Successes(q + 1)) > cfg.max
      <4>1. ~Success(q + 1) \/ ~(Cardinality(Successes(q + 1)) <= cfg.max)
        BY <1>0, <2>1, <2>5
      <4> QED BY <1>0, <1>1, <4>1
    <3> HIDE DEF Picked
    <3> QED BY <1>0, <1>1, <2>1, <2>2, <3>1, <3>2
  <2> QED BY <2>4, <2>5
<1> HIDE DEF S
<1>6. Total \in S
  BY <1>0, <1>4, <1>5, SetInduction
<1>7. Cardinality(Picked(Total)) = AtMostMax(Cardinality(Successes(Total)))
  BY <1>0, <1>6 DEF S
<1>8. Cardinality(Successes(Total)) >= cfg.max
  BY <1>0, <1>1, <1>2, SuccessesGrow
<1>9. Picked(Total) = Chosen
  BY <1>0
<1>10. LimitReached
  <2>1. Cardinality(Successes(Total)) \in Nat
    BY <1>0, <1>1
  <2>2. Cardinality(Chosen) = AtMostMax(Cardinality(Successes(Total)))
    BY <1>7, <1>9
  <2> HIDE DEF Picked
  <2>3. Cardinality(Chosen) = cfg.max
    BY <1>0, <1>8, <2>1, <2>2
  <2> QED BY <2>3 DEF LimitReached
<1>11. \A j \in Chosen : j <= p
  BY <1>0, <1>3
<1> QED BY <1>10, <1>11
-----------------------------------------------------------------------------
LEMMA ListedIs ==
    ASSUME Given, Orderly
    PROVE  /\ Listed \in [0 .. Total -> Seq(Briefs)] /\ Listed[0] = <<>> /\ Expected = Listed[Total]
           /\ \A n \in 1 .. Total : Listed[n] = IF n \in Due THEN Listed[n - 1] \o CallsFor(Due, n) ELSE Listed[n - 1]
<1> DEFINE R == LineReference
<1>1. Reference(R) /\ Listed = ListedOf(R) /\ Expected = Listed[Total] /\ R.starts = Due
  BY LineIsReference, LineSame, LineFields
<1>2. \A n \in Due : CallsFor(Due, n) = CallsOf(R, n)
  <2>1. \A n \in Due : n \in 1 .. Total
    BY DueIs
  <2> QED BY <2>1, LineFields DEF CallsFor, CallsOf
<1> HIDE DEF R
<1>3. /\ ListedOf(R) \in [0 .. Total -> Seq(Briefs)] /\ ListedOf(R)[0] = <<>>
      /\ \A n \in 1 .. Total : ListedOf(R)[n] = IF n \in R.starts THEN ListedOf(R)[n - 1] \o CallsOf(R, n) ELSE ListedOf(R)[n - 1]
  BY <1>1, ListedIsOf
<1> QED BY <1>1, <1>2, <1>3

LEMMA Quiet ==
    ASSUME Given, Orderly, NEW m \in Nat, NEW n \in Nat, m <= n, n <= Total, \A k \in m + 1 .. n : k \notin Due
    PROVE  Listed[n] = Listed[m]
  BY LineIsReference, LineSame, LineFields, QuietOf DEF State

LEMMA NextReady ==
    ASSUME State, Orderly, NEW v \in Nat, NEW c, Owed(v, c), v + 1 \in Due
    PROVE  Ready(v + 1, c)
  BY LineIsReference, LineSame, LineFields, NextReadyOf DEF State

LEMMA OwedPre ==
    ASSUME Given, Orderly, NEW v \in 0 .. Total, NEW c, Shown(c) = Listed[v]
    PROVE  Pre(c)
  BY LineIsReference, LineSame, LineFields, OwedPreOf DEF State

LEMMA OwedAlike ==
    ASSUME NEW v, NEW c, NEW d, Owed(v, c), Shown(d) = Shown(c), d.hasSunk = c.hasSunk, d.afterLeft = c.afterLeft
    PROVE  Owed(v, d)
  BY DEF Owed

LEMMA OwedNow ==
    ASSUME Given, Orderly, NEW v \in Due, NEW d, Shown(d) = Listed[v], d.hasSunk = TRUE, AfterIs(v, d.afterLeft)
    PROVE  Owed(v, d)
  BY LineIsReference, LineSame, LineFields, OwedNowOf

LEMMA MatchedShown ==
    ASSUME State, Orderly, NEW c, Sound(c), c.go, NEW i \in 1 .. shown, c.visited < i, Owed(base + c.visited, c),
           base + i \in Due, KindOf(base + i) = "match",
           \A k \in (base + c.visited) + 1 .. (base + i) - 1 : k \notin Due
    PROVE  LET d == SinkMatched(c, i)
           IN /\ d.go => Shown(d) = Listed[base + i] /\ d.hasSunk = TRUE /\ d.afterLeft = cfg.after
              /\ ~d.go => Ended(d)
<1> DEFINE R == LineReference
           x == SinkMatched(c, i)
<1>0. Given /\ R.due = Due
  BY LineFields DEF State
<1>1. Reference(R) /\ OwedOf(R, base + c.visited, c) /\ Single(R, base + i, "match")
  <2>1. Single(R, base + i, KindOf(base + i))
    BY <1>0, LineSingle
  <2> QED BY <1>0, <2>1, LineIsReference, LineSame
<1>2. Listed = ListedOf(R) /\ (EndedOf(R, x) => Ended(x))
  BY <1>0, LineSame
<1> HIDE DEF R
<1>3. /\ x.go => Shown(x) = ListedOf(R)[base + i] /\ x.hasSunk = TRUE /\ x.afterLeft = cfg.after
      /\ ~x.go => EndedOf(R, x)
  BY <1>0, <1>1, MatchedAdds
<1> HIDE DEF x
<1> QED BY <1>2, <1>3 DEF x

LEMMA ContextShown ==
    ASSUME State, Orderly, NEW c, Sound(c), c.go, NEW i \in 1 .. shown, Ready(base + i, c),
           NEW kind \in {"before", "after", "other"}, base + i \in Due, KindOf(base + i) = kind
    PROVE  LET d == SinkContext(c, i, kind)
           IN /\ d.go => /\ Shown(d) = Listed[base + i] /\ d.hasSunk = TRUE
                         /\ d.afterLeft = IF kind = "after" THEN c.afterLeft - 1 ELSE c.afterLeft
              /\ ~d.go => Ended(d)
<1> DEFINE R == LineReference
           x == SinkContext(c, i, kind)
<1>1. Given /\ Reference(R) /\ ReadyOf(R, base + i, c) /\ Single(R, base + i, kind)
  BY LineIsReference, LineSame, LineSingle DEF State
<1>2. Listed = ListedOf(R) /\ (EndedOf(R, x) => Ended(x))
  BY <1>1, LineSame
<1> HIDE DEF R
<1>3. /\ x.go => /\ Shown(x) = ListedOf(R)[base + i] /\ x.hasSunk = TRUE
                 /\ x.afterLeft = IF kind = "after" THEN c.afterLeft - 1 ELSE c.afterLeft
      /\ ~x.go => EndedOf(R, x)
  <2> \A k \in {"before", "after", "other"} : Single(R, base + i, k) =>
         LET d == SinkContext(c, i, k)
         IN /\ d.go => /\ Shown(d) = ListedOf(R)[base + i] /\ d.hasSunk = TRUE
                       /\ d.afterLeft = IF k = "after" THEN c.afterLeft - 1 ELSE c.afterLeft
            /\ ~d.go => EndedOf(R, d)
    BY <1>1, ContextAdds
  <2> QED BY <1>1
<1> HIDE DEF x
<1> QED BY <1>2, <1>3 DEF x

LEMMA BeforeShown ==
    ASSUME State, Orderly, NEW c, Sound(c), c.go, NEW upto \in 0 .. shown, c.visited <= upto, Owed(base + c.visited, c),
           (base + upto) + 1 \in Chosen, Free(base + c.visited, base + upto),
           c.visited = upto \/ (c.afterLeft = 0 /\ ~cfg.passthru)
    PROVE  LET d == BeforeContext(c, upto)
           IN /\ d.go => Owed(base + d.visited, d) /\ \A k \in (base + d.visited) + 1 .. base + upto : k \notin Due
              /\ ~d.go => Ended(d)
  BY LineIsReference, LineSame, LineFields, BeforeAdds DEF State

LEMMA AfterShown ==
    ASSUME State, Orderly, NEW c, Sound(c), c.go, NEW upto \in 0 .. shown, Owed(base + c.visited, c),
           c.afterLeft > 0 =>
                /\ c.visited <= upto /\ Free(base + c.visited, base + upto)
                /\ \A n \in (base + c.visited) + 1 .. base + upto : MatchInContext(n) <=> ExceededLimit(c) /\ Success(n)
    PROVE  LET d == AfterContext(c, upto)
           IN /\ d.go => /\ Owed(base + d.visited, d)
                         /\ c.visited <= d.visited
                         /\ d.afterLeft > 0 => d.visited = upto
              /\ ~d.go => Ended(d)
<1> DEFINE R == LineReference
           x == AfterContext(c, upto)
<1>0. Given /\ base \in Nat /\ base + shown <= Total /\ Total \in Nat /\ shown \in Nat
  BY Facts DEF State
<1>1. /\ Reference(R) /\ OwedOf(R, base + c.visited, c)
      /\ \A n \in 1 .. Total : n \in R.over <=> MatchInContext(n)
  BY <1>0, LineIsReference, LineSame, LineFields
<1>2. /\ EndedOf(R, x) => Ended(x)
      /\ OwedOf(R, base + x.visited, x) => Owed(base + x.visited, x)
      /\ Free(base + c.visited, base + upto) => FreeOf(R, base + c.visited, base + upto)
  BY <1>0, LineSame
<1> HIDE DEF R
<1>3. c.afterLeft > 0 => /\ c.visited <= upto /\ FreeOf(R, base + c.visited, base + upto)
                         /\ \A n \in (base + c.visited) + 1 .. base + upto : n \in R.over <=> ExceededLimit(c) /\ Success(n)
  <2>1. c.visited \in Nat
    BY DEF Sound, Ranges
  <2>2. \A n \in (base + c.visited) + 1 .. base + upto : n \in 1 .. Total
    BY <1>0, <2>1
  <2> QED BY <1>1, <1>2, <2>2
<1>4. /\ x.go => /\ OwedOf(R, base + x.visited, x)
                 /\ c.visited <= x.visited
                 /\ x.afterLeft > 0 => x.visited = upto
      /\ ~x.go => EndedOf(R, x)
  BY <1>0, <1>1, <1>3, AfterAdds
<1> HIDE DEF x
<1> QED BY <1>2, <1>4 DEF x


\* An inverted search by the fast path is never stopped, as Orderly says.
LEMMA NotHindered ==
    ASSUME Given, Orderly, cfg.invert, cfg.fast
    PROVE  \A c : ~Ended(c)
  BY Facts DEF Orderly, Ended, Hindered

\* One of the lines before the next line that matches.
LEMMA InvertedLineShown ==
    ASSUME State, Orderly, cfg.invert, cfg.fast, NEW d, Sound(d), d.go, NEW i \in 1 .. shown, d.visited < i,
           Owed(base + d.visited, d), \A k \in (base + d.visited) + 1 .. (base + i) - 1 : k \notin Due, Success(base + i)
    PROVE  LET r == InvertedLine(d, i)
           IN r.go /\ r.visited = i /\ Owed(base + i, r)
<1> DEFINE r == InvertedLine(d, i)
           m == [d EXCEPT !.count = @ + 1]
           e == SinkMatched(m, i)
<1>0. d \in Cores /\ cfg.max = None /\ Given /\ base + i \in 1 .. Total /\ base + i \in Nat /\ i \in Int
  BY Facts DEF Sound, Orderly, State
<1>1. base + i \in Chosen
  BY <1>0, ChosenFacts
<1>2. base + i \in Due /\ KindOf(base + i) = "match" /\ AfterIs(base + i, cfg.after)
  BY <1>0, <1>1, ChosenKind, AfterMatched
<1>3. Alike(d, m) /\ m.hasSunk = d.hasSunk
  <2>1. Alike(d, m)
    BY <1>0, CountingAlike
  <2> QED BY <1>0, <2>1 DEF Cores
<1> HIDE DEF m
<1>4. m.visited = d.visited /\ m.go /\ Shown(m) = Shown(d) /\ m.afterLeft = d.afterLeft
  BY <1>3 DEF Alike, Shown
<1>5. Sound(m) /\ Owed(base + m.visited, m)
  BY <1>3, <1>4, AlikeSound, OwedAlike
<1>6. /\ e.go => Shown(e) = Listed[base + i] /\ e.hasSunk = TRUE /\ e.afterLeft = cfg.after
      /\ ~e.go => Ended(e)
  BY <1>2, <1>4, <1>5, MatchedShown
<1>7. e.go /\ Sound(e) /\ e.visited = i
  <2>1. m.visited < i
    BY <1>4
  <2>2. Sound(e) /\ (e.go => e.visited = i)
    BY <1>5, <2>1, MatchedSound
  <2> QED BY <1>0, <1>6, <2>2, NotHindered
<1>8. r = [e EXCEPT !.go = @ /\ ~ExceededLimit(e)]
  BY DEF InvertedLine, m
<1> HIDE DEF e, r
<1>9. r = [e EXCEPT !.go = TRUE] /\ e \in Cores
  BY <1>0, <1>7, <1>8 DEF ExceededLimit, Sound, Cores
<1>10. r.go = TRUE /\ r.visited = e.visited /\ r.calls = e.calls /\ r.hasSunk = e.hasSunk /\ r.afterLeft = e.afterLeft
  BY <1>9 DEF Cores
<1>11. Owed(base + i, r)
  BY <1>0, <1>2, <1>6, <1>7, <1>10, OwedNow DEF Shown
<1> QED BY <1>7, <1>10, <1>11 DEF r

\* match_by_line_fast_invert.
LEMMA InvertedShown ==
    ASSUME State, Orderly, cfg.invert, cfg.fast, ~cfg.passthru, NEW c, Sound(c), c.go,
           NEW start \in 0 .. shown, NEW upto \in start + 1 .. shown, c.visited <= start,
           Owed(base + c.visited, c), Free(base + c.visited, base + start),
           c.afterLeft > 0 => \A n \in (base + c.visited) + 1 .. base + start : ~Success(n),
           \A n \in (base + start) + 1 .. base + upto : Success(n)
    PROVE  LET d == SinkInverted(c, start, upto)
           IN d.go /\ d.visited = upto /\ Owed(base + upto, d)
<1> DEFINE counting == [c EXCEPT !.hasMatched = TRUE]
           after == AfterContext(counting, start)
           context == BeforeContext(after, start)
           Sink(d, i) == InvertedLine(d, i)
<1>0. /\ c \in Cores /\ c.visited \in 0 .. shown /\ shown \in Nat /\ start \in Int /\ upto \in Int /\ start < upto
      /\ Given /\ base \in Nat /\ base + shown <= Total /\ Total \in Nat /\ start \in 0 .. shown
      /\ Chosen \in SUBSET (1 .. Total) /\ Chosen = {i \in 1 .. Total : Success(i)} /\ c.afterLeft \in Nat /\ upto <= shown
  BY CoreTypes, Facts, ChosenFacts DEF Sound, State, Ranges, Orderly, Config
<1>1. Alike(c, counting) /\ counting.hasSunk = c.hasSunk
  <2>1. Alike(c, counting)
    BY <1>0, CountingAlike
  <2> QED BY <1>0, <2>1 DEF Cores
<1>2. SinkInverted(c, start, upto) = IF ~context.go THEN context ELSE ForLines(Sink, Checked(context, start, upto), start, upto)
  BY DEF SinkInverted, InvertedLine
<1> HIDE DEF counting
<1>31. counting.visited = c.visited /\ counting.go /\ Shown(counting) = Shown(c) /\ counting.afterLeft = c.afterLeft
  BY <1>1 DEF Alike, Shown
<1>32. Sound(counting) /\ Owed(base + counting.visited, counting)
  BY <1>1, <1>31, AlikeSound, OwedAlike
<1>33. \A n : ~Success(n) => ~MatchInContext(n)
  BY DEF MatchInContext
<1>34. counting.afterLeft > 0 =>
          /\ counting.visited <= start /\ Free(base + counting.visited, base + start)
          /\ \A n \in (base + counting.visited) + 1 .. base + start : MatchInContext(n) <=> ExceededLimit(counting) /\ Success(n)
  BY <1>31, <1>33
<1>4. /\ after.go => /\ Owed(base + after.visited, after)
                     /\ counting.visited <= after.visited
                     /\ after.afterLeft > 0 => after.visited = start
      /\ ~after.go => Ended(after)
  BY <1>0, <1>31, <1>32, <1>34, AfterShown
<1>41. Sound(after) /\ (after.visited <= start \/ after = counting)
  BY <1>0, <1>31, <1>32, AfterSound
<1> HIDE DEF after
<1>42. /\ after.go /\ Sound(after) /\ Owed(base + after.visited, after) /\ c.visited <= after.visited /\ after.visited <= start
       /\ after.afterLeft > 0 => after.visited = start
       /\ after.visited \in 0 .. shown
  <2>1. after.go
    BY <1>0, <1>4, NotHindered
  <2>2. after.visited <= start /\ after.visited \in 0 .. shown
    BY <1>31, <1>41 DEF Sound, Ranges
  <2> QED BY <1>31, <1>4, <1>41, <2>1, <2>2
<1>43. (base + start) + 1 \in Chosen
  BY <1>0
<1>44. Free(base + after.visited, base + start)
  <2> SUFFICES ASSUME NEW j \in Chosen, base + after.visited < j, j <= base + start PROVE FALSE
    BY DEF Free
  <2>1. j \in Int /\ ~(base + c.visited < j /\ j <= base + start)
    BY <1>0 DEF Free
  <2> QED BY <1>0, <1>42, <2>1
<1>45. after.visited = start \/ (after.afterLeft = 0 /\ ~cfg.passthru)
  BY <1>42, CoreTypes DEF Sound, Ranges
<1>5. /\ context.go => /\ Owed(base + context.visited, context)
                       /\ \A k \in (base + context.visited) + 1 .. base + start : k \notin Due
      /\ ~context.go => Ended(context)
  BY <1>0, <1>42, <1>43, <1>44, <1>45, BeforeShown
<1>51. Sound(context) /\ context.visited <= start
  BY <1>0, <1>42, BeforeSound
<1> HIDE DEF context
<1>52. context.go
  BY <1>0, <1>5, NotHindered
<1> DEFINE P(d, i) == /\ Sound(d) /\ d.visited <= i /\ d.go
                      /\ Owed(base + d.visited, d)
                      /\ \A k \in (base + d.visited) + 1 .. base + i : k \notin Due
                      /\ i > start => d.visited = i
<1> QED
  <2>3. PICK a \in 0 .. shown : a = start /\ a <= upto
    BY <1>0
  <2>4. Checked(context, a, upto) = context
    BY <1>0, <2>3, CheckedSound
  <2>31. P(context, a)
    BY <1>0, <1>5, <1>51, <1>52, <2>3
  <2>32. context \in Cores
    BY <1>51 DEF Sound
  <2> DEFINE Turns(f) == [i \in a .. upto |-> IF i = a THEN context ELSE Sink(f[i - 1], i)]
             rec == CHOOSE f : f = Turns(f)
             X == [i \in a .. upto |-> {d \in Cores : P(d, i)}]
             F == [p \in (a + 1 .. upto) \X Cores |-> Sink(p[2], p[1])]
  <2>5. SinkInverted(c, start, upto) = rec[upto]
    BY <1>2, <1>52, <2>3, <2>4 DEF ForLines
  <2>6. ASSUME NEW i \in a + 1 .. upto, NEW d, P(d, i - 1) PROVE P(Sink(d, i), i)
    <3>0. i \in 1 .. shown /\ d.visited \in 0 .. shown /\ d.visited < i /\ base + (i - 1) = (base + i) - 1 /\ i > start /\ i \in Int
      BY <1>0, <2>3, <2>6 DEF Sound, Ranges
    <3>1. Success(base + i)
      BY <1>0, <2>3, <3>0
    <3> DEFINE e == InvertedLine(d, i)
    <3>2. e.go /\ e.visited = i /\ Owed(base + i, e)
      BY <2>6, <3>0, <3>1, InvertedLineShown
    <3>3. Sound(e)
      BY <2>6, <3>0, InvertedLineSound
    <3>4. Sink(d, i) = e
      OBVIOUS
    <3> HIDE DEF e, Sink
    <3>5. \A k \in (base + i) + 1 .. base + i : FALSE
      BY <1>0, <3>0
    <3>6. P(e, i)
      BY <3>0, <3>2, <3>3, <3>5
    <3> QED BY <3>4, <3>6
  <2> HIDE DEF P, Sink
  <2>7. \A i \in a .. upto : X[i] = {d \in Cores : P(d, i)}
    OBVIOUS
  <2>8. \A d, i : P(d, i) => d \in Cores
    BY DEF P, Sound
  <2>9. a \in Int /\ upto \in Int /\ a <= upto /\ a \in a .. upto /\ upto \in a .. upto /\ \A i \in a + 1 .. upto : i \in a .. upto /\ i - 1 \in a .. upto
    BY <2>3
  <2>10. \A i \in a + 1 .. upto : \A d \in Cores : F[<<i, d>>] = Sink(d, i)
    OBVIOUS
  <2> HIDE DEF X, F
  <2>11. context \in X[a]
    BY <1>0, <2>3, <2>7, <2>9, <2>31, <2>32
  <2>12. \A i \in a + 1 .. upto : \A d \in X[i - 1] : Sink(d, i) \in X[i]
    BY <2>6, <2>7, <2>8, <2>9
  <2>13. \A i \in a .. upto : X[i] \subseteq Cores
    BY <2>7
  <2>14. \A i \in a + 1 .. upto : \A d \in X[i - 1] : F[<<i, d>>] \in X[i]
    BY <2>9, <2>10, <2>12, <2>13
  <2>15. PICK g : IsRun(g, a, upto, X, context, F)
    BY <2>9, <2>11, <2>13, <2>14, RunExists
  <2>16. g = Turns(g)
    <3>1. \A i \in a + 1 .. upto : g[i] = Sink(g[i - 1], i)
      BY <2>9, <2>10, <2>13, <2>15 DEF IsRun
    <3>2. \A i \in a .. upto : g[i] = IF i = a THEN context ELSE Sink(g[i - 1], i)
      <4> TAKE i \in a .. upto
      <4>1. g[a] = context
        BY <2>15 DEF IsRun
      <4>2. i # a => i \in a + 1 .. upto
        BY <2>9
      <4> QED BY <3>1, <4>1, <4>2
    <3>3. g = [i \in a .. upto |-> g[i]]
      BY <2>15 DEF IsRun
    <3> QED BY <3>2, <3>3
  <2>17. rec = Turns(rec)
    BY <2>16, Zenon
  <2> HIDE DEF rec
  <2>18. rec[a] \in X[a] /\ \A i \in a + 1 .. upto : rec[i] = Sink(rec[i - 1], i)
    BY <2>9, <2>11, <2>17
  <2>19. \A i \in a + 1 .. upto : rec[i - 1] \in X[i - 1] => rec[i] \in X[i]
    BY <2>12, <2>18
  <2>20. \A i \in a .. upto : rec[i] \in X[i]
    BY <2>9, <2>18, <2>19, Along
  <2>21. P(rec[upto], upto)
    BY <2>7, <2>9, <2>20
  <2>22. P(rec[upto], upto) /\ upto > start
    BY <1>0, <2>21
  <2> QED BY <2>5, <2>22 DEF P
-----------------------------------------------------------------------------
\* The inductive invariant of the report.

\* Walk(b, s, q, c): the core c at place q, with b lines before the s lines in
\* the buffer.  Behind the last line visited, up to the position, there is no
\* match within the limit; the matches up to the position were counted.
Walk(b, s, q, c) ==
    LET v == b + c.visited
        p == b + c.pos
    IN /\ v <= p
       /\ Free(v, p)
       /\ Counted(p, c.count)
       /\ cfg.passthru => v = p
       /\ c.afterLeft > 0 => \A j \in v + 1 .. p : ~Success(j)
       /\ q \in {"begin", "slow", "fill"} => c.afterLeft = 0 \/ v = p
       /\ q = "fastEnd" => ExceededLimit(c) \/ \A j \in p + 1 .. b + s : ~Success(j)
       /\ q = "slow" => ~cfg.fast \/ cfg.passthru
       /\ q \in {"fast", "fastEnd"} => cfg.fast /\ ~cfg.passthru
       /\ cfg.slice => b + s = Total

Walking == {"begin", "fill", "slow", "fast", "fastEnd"}

Place(b, s, q, c) ==
    /\ q \in Walking => c.go /\ Owed(b + c.visited, c) /\ Walk(b, s, q, c)
    /\ q \in {"finish", "done"} => Pre(c) /\ (Hindered(c) \/ Shown(c) = Expected)
    /\ q = "failed" => Pre(c)

RInv == Orderly => Place(base, shown, pc, core)

\* File, configuration and sink stay, and with them what is to be reported.
LEMMA Stays ==
    ASSUME UNCHANGED <<file, cfg, stopAnswer>>
    PROVE  /\ Due' = Due /\ Chosen' = Chosen /\ Total' = Total /\ Listed' = Listed /\ Expected' = Expected
           /\ Orderly' <=> Orderly
<1>1. Total' = Total
  BY DEF Total
<1>2. Limited' = Limited
  BY DEF Limited, Success, Total
<1>3. Horizon' = Horizon
  BY <1>1, <1>2 DEF Horizon, LeastLine
<1>4. Chosen' = Chosen
  BY <1>2, <1>3 DEF Chosen
<1>5. LimitReached' <=> LimitReached
  BY <1>4 DEF LimitReached
<1>6. LastReported' = LastReported
  BY <1>3, <1>4, <1>5 DEF LastReported, AtMost, LastLine
<1>7. Due' = Due
  BY DEF Chosen, Limited, Horizon, Total, Due, KindOf, InAfter, InBefore, MatchInContext, LimitReached, Success, LastLine,
         LeastLine, LastReported, AtMost
<1>8. Listed' = Listed /\ Expected' = Expected
  <2> DEFINE K == [i \in Due |-> CallsFor(Due, i)]
  <2>1. \A n : CallsFor(Due, n)' = CallsFor(Due, n)
    BY <1>7 DEF CallsFor, Calls, Gap, Chosen, Limited, Horizon, Total, KindOf, InAfter, InBefore,
           MatchInContext, LimitReached, Success, LastLine, LeastLine, LastReported, AtMost
  <2>2. K' = K
    BY <1>7, <2>1
  <2>3. Listed = Reports(Total, Due, K) /\ Expected = Reports(Total, Due, K)[Total]
    BY DEF Listed, Expected
  <2>4. Listed' = Reports(Total', Due', K') /\ Expected' = Reports(Total', Due', K')[Total']
    BY DEF Listed, Expected
  <2> HIDE DEF K
  <2> QED BY <1>1, <1>7, <2>2, <2>3, <2>4
<1>9. Orderly' <=> Orderly
  BY DEF Orderly, Quits
<1> QED BY <1>1, <1>4, <1>7, <1>8, <1>9

\* The invariant after a step, in terms of the report before it.
LEMMA RInvPrimed ==
    ASSUME UNCHANGED <<file, cfg, stopAnswer>>, Orderly => Place(base', shown', pc', core')
    PROVE  RInv'
<1>1. /\ Due' = Due /\ Chosen' = Chosen /\ Total' = Total /\ Listed' = Listed /\ Expected' = Expected
      /\ Orderly' <=> Orderly
  BY Stays
<1>2. \A v, n : AfterIs(v, n)' <=> AfterIs(v, n)
  BY <1>1 DEF AfterIs
<1> QED BY <1>1, <1>2 DEF RInv, Place, Walk, Owed, Free, Counted, Successes, Success, Pre, Hindered, Quits, Shown, ExceededLimit, AfterIs, Total

\* Nothing is left to be reported.
LEMMA AllShown ==
    ASSUME Given, Orderly, NEW v \in 0 .. Total, NEW c, Owed(v, c),
           v = Total \/ (c.afterLeft = 0 /\ ~cfg.passthru /\ \A j \in Chosen : j <= v)
    PROVE  Pre(c) /\ Shown(c) = Expected
<1>0. Total \in Nat /\ v \in Nat /\ v <= Total /\ Chosen \in SUBSET (1 .. Total) /\ Shown(c) = Listed[v] /\ Expected = Listed[Total]
  BY ChosenFacts, ListedIs DEF Owed
<1>1. Pre(c)
  BY <1>0, OwedPre
<1>2. CASE v = Total
  BY <1>0, <1>1, <1>2
<1>3. CASE c.afterLeft = 0 /\ ~cfg.passthru /\ \A j \in Chosen : j <= v
  <2>1. AfterIs(v, 0)
    BY <1>3 DEF Owed
  <2>2. ASSUME NEW k \in v + 1 .. Total PROVE k \notin Due
    <3>1. k \in Nat /\ v < k
      BY <1>0
    <3>2. Free(v, k)
      BY <1>0, <1>3 DEF Free
    <3>3. \A j \in Chosen : k < j => k + cfg.before < j
      BY <1>0, <1>3, <3>1
    <3> QED BY <1>3, <2>1, <3>1, <3>2, <3>3, NotDue
  <2>3. Listed[Total] = Listed[v]
    BY <1>0, <2>2, Quiet
  <2> QED BY <1>0, <1>1, <2>3
<1> QED BY <1>2, <1>3

\* A match, with the context before it.
LEMMA SuccessShown ==
    ASSUME State, Orderly, NEW c, Sound(c), c.go, NEW i \in 1 .. shown, c.visited <= i - 1, Owed(base + c.visited, c),
           base + i \in Chosen, Free(base + c.visited, base + (i - 1)),
           c.visited = i - 1 \/ (c.afterLeft = 0 /\ ~cfg.passthru),
           NEW x, x = BeforeContext(c, i - 1),
           NEW y, IF x.go THEN Alike(x, y) /\ y.hasSunk = x.hasSunk ELSE y = x
    PROVE  LET d == SinkMatched(y, i)
           IN /\ d.go => Owed(base + i, d) /\ d.visited = i /\ y.go
              /\ ~d.go => Ended(d)
              /\ d.pos = y.pos /\ d.count = y.count
<1> DEFINE d == SinkMatched(y, i)
<1>0. /\ i - 1 \in 0 .. shown /\ base \in Nat /\ shown \in Nat /\ base + shown <= Total /\ Total \in Nat /\ Given
      /\ base + i \in 1 .. Total /\ (base + (i - 1)) + 1 = base + i /\ (base + i) - 1 = base + (i - 1) /\ i \in Int
  BY Facts DEF State
<1>1. /\ x.go => Owed(base + x.visited, x) /\ \A k \in (base + x.visited) + 1 .. base + (i - 1) : k \notin Due
      /\ ~x.go => Ended(x)
  <2>1. (base + (i - 1)) + 1 \in Chosen
    BY <1>0
  <2> QED BY <1>0, <2>1, BeforeShown
<1>2. Sound(x) /\ x.visited <= i - 1 /\ x.visited \in 0 .. shown
  BY <1>0, BeforeSound DEF Sound, Ranges
<1>3. Sound(y) /\ y.visited = x.visited /\ y.visited < i /\ y.go = x.go
  <2>1. Sound(y)
    BY <1>2, AlikeSound
  <2>2. y.visited = x.visited /\ y.go = x.go
    BY DEF Alike
  <2> QED BY <1>0, <1>2, <2>1, <2>2
<1>4. Sound(d) /\ d.pos = y.pos /\ d.count = y.count /\ (d.go => y.go /\ d.visited = i)
  BY <1>3, MatchedSound
<1>5. CASE ~x.go
  <2>1. y = x /\ ~y.go
    BY <1>5
  <2>2. DetectBinary(y, i - 1, i) = y
    BY <2>1 DEF DetectBinary
  <2>3. BreakContext(y, i - 1) = y
    BY <2>1 DEF BreakContext
  <2>4. d = y
    BY <2>1, <2>2, <2>3 DEF SinkMatched, Report
  <2> QED BY <1>1, <1>5, <2>1, <2>4
<1>6. CASE x.go
  <2>1. Shown(y) = Shown(x) /\ y.hasSunk = x.hasSunk /\ y.afterLeft = x.afterLeft /\ y.go
    BY <1>3, <1>6 DEF Alike, Shown
  <2>2. Owed(base + y.visited, y)
    BY <1>1, <1>3, <1>6, <2>1, OwedAlike
  <2>3. base + i \in Due /\ KindOf(base + i) = "match" /\ AfterIs(base + i, cfg.after)
    BY <1>0, ChosenKind, AfterMatched
  <2>4. \A k \in (base + y.visited) + 1 .. (base + i) - 1 : k \notin Due
    BY <1>0, <1>1, <1>3, <1>6
  <2>5. /\ d.go => Shown(d) = Listed[base + i] /\ d.hasSunk = TRUE /\ d.afterLeft = cfg.after
        /\ ~d.go => Ended(d)
    BY <1>3, <2>1, <2>2, <2>3, <2>4, MatchedShown
  <2> HIDE DEF d
  <2>6. d.go => Owed(base + i, d)
    BY <1>0, <2>3, <2>5, OwedNow
  <2> QED BY <1>4, <2>5, <2>6 DEF d
<1> QED BY <1>5, <1>6

\* The core at a place where the search goes on.
Here ==
    /\ State /\ Orderly /\ pc \in Walking
    /\ Sound(core) /\ core.go /\ core.pos \in 0 .. shown
    /\ Owed(base + core.visited, core) /\ Walk(base, shown, pc, core)
    /\ pc = "fill" => core.pos = shown /\ ~cfg.slice
    /\ pc = "begin" => core.pos = 0 /\ core.visited = 0 /\ core.calls = <<>> /\ shown = IF cfg.slice THEN Total ELSE 0

\* What both invariants say of a core that is not done.
LEMMA HereOf == ASSUME IInv, RInv, Orderly, pc \in Walking PROVE Here
<1>1. State /\ Sound(core) /\ core.pos \in 0 .. shown
  BY StateOf DEF IInv, Running, Loop, Walking
<1>2. core.go /\ Owed(base + core.visited, core) /\ Walk(base, shown, pc, core)
  BY DEF RInv, Place
<1>3. /\ pc = "fill" => core.pos = shown /\ ~cfg.slice
      /\ pc = "begin" => core.pos = 0 /\ core.visited = 0 /\ core.calls = <<>> /\ shown = IF cfg.slice THEN Total ELSE 0
  BY DEF IInv, Running, Window, Loop
<1> QED BY <1>1, <1>2, <1>3 DEF Here

\* Places in the file: the last line visited, the position, the end of the buffer.
LEMMA HereFacts ==
    ASSUME Here
    PROVE  /\ Given /\ State /\ Orderly /\ Sound(core) /\ core \in Cores /\ core.go /\ base \in Nat /\ shown \in Nat
           /\ core.visited \in 0 .. shown /\ core.pos \in 0 .. shown /\ core.visited <= core.pos
           /\ base + shown <= Total /\ Total \in Nat /\ core.afterLeft \in 0 .. cfg.after /\ cfg.after \in Nat /\ core.count \in Int
           /\ Chosen \in SUBSET (1 .. Total)
<1>1. /\ Given /\ State /\ Orderly /\ Sound(core) /\ core \in Cores /\ core.go /\ base \in Nat /\ shown \in Nat
      /\ core.visited \in 0 .. shown /\ core.pos \in 0 .. shown
      /\ base + shown <= Total /\ core.afterLeft \in 0 .. cfg.after /\ core.count \in Int
  BY CoreTypes DEF Here, State, Sound, Ranges
<1>2. base + core.visited <= base + core.pos
  BY DEF Here, Walk
<1>3. Total \in Nat /\ cfg.after \in Nat /\ Chosen \in SUBSET (1 .. Total)
  BY <1>1, ChosenFacts
<1>4. core.visited <= core.pos
  BY <1>1, <1>2
<1> QED BY <1>1, <1>3, <1>4

\* Where a search stops.
LEMMA EndPlace ==
    ASSUME NEW b, NEW s, NEW c, Ended(c) \/ (Pre(c) /\ Shown(c) = Expected)
    PROVE  Place(b, s, "finish", c)
  BY DEF Place, Walking, Ended

LEMMA ContinuePlace ==
    ASSUME NEW c, NEW next, Continue(c, next), c.go => Place(base, shown, next, c), ~c.go => Ended(c)
    PROVE  Place(base', shown', pc', core')
<1>1. CASE c.go /\ core' = c /\ pc' = next /\ UNCHANGED <<base, shown>>
  BY <1>1
<1>2. CASE ~c.go /\ Stop(c)
  <2>1. core' = c /\ pc' = "finish"
    BY <1>2 DEF Stop
  <2> QED BY <1>2, <2>1, EndPlace
<1> QED BY <1>1, <1>2 DEF Continue

\* No more matches: the limit was reached, and the context behind is complete.
LEMMA LimitShown ==
    ASSUME Given, Orderly, NEW v \in 0 .. Total, NEW w \in 0 .. Total, NEW p \in v .. Total, v <= w, NEW c, Owed(w, c), c.afterLeft = 0, ~cfg.passthru,
           Free(v, p), NEW n, Counted(p, n), cfg.max # None, n >= cfg.max
    PROVE  Pre(c) /\ Shown(c) = Expected
<1>0. Total \in Nat /\ p \in Nat /\ p <= Total /\ Chosen \in SUBSET (1 .. Total)
  BY ChosenFacts
<1>1. \A j \in Chosen : j <= p
  BY <1>0, LimitIs
<1>2. \A j \in Chosen : j <= w
  BY <1>0, <1>1 DEF Free
<1> QED BY <1>2, AllShown

\* The end of the file.
LEMMA LastShown ==
    ASSUME Given, Orderly, NEW v \in 0 .. Total, NEW c, Owed(v, c), Free(v, Total),
           v = Total \/ (c.afterLeft = 0 /\ ~cfg.passthru)
    PROVE  Pre(c) /\ Shown(c) = Expected
<1>0. Total \in Nat /\ Chosen \in SUBSET (1 .. Total)
  BY ChosenFacts
<1>1. \A j \in Chosen : j <= v
  BY <1>0 DEF Free
<1> QED BY <1>1, AllShown

\* The slow path is done with a buffer.
LEMMA SlowEndShown == ASSUME Here, SlowEnd PROVE Place(base', shown', pc', core')
<1>1. /\ pc = "slow" /\ core.pos = shown /\ pc' = NextBuffer /\ UNCHANGED <<base, shown, core>>
  BY DEF SlowEnd
<1>2. /\ Given /\ State /\ Orderly /\ Sound(core) /\ core \in Cores /\ core.go /\ base \in Nat /\ shown \in Nat
      /\ core.visited \in 0 .. shown /\ core.pos \in 0 .. shown /\ core.visited <= core.pos
      /\ base + shown <= Total /\ Total \in Nat
      /\ base + core.visited \in 0 .. Total
  BY HereFacts
<1>3. Owed(base + core.visited, core) /\ Walk(base, shown, "slow", core)
  BY <1>1 DEF Here
<1>4. CASE cfg.slice
  <2>1. pc' = "finish" /\ base + core.pos = Total /\ Free(base + core.visited, Total)
        /\ (base + core.visited = Total \/ (core.afterLeft = 0 /\ ~cfg.passthru))
    BY <1>1, <1>3, <1>4 DEF NextBuffer, Walk
  <2>2. Pre(core) /\ Shown(core) = Expected
    BY <1>2, <1>3, <2>1, LastShown
  <2> QED BY <1>1, <2>1, <2>2, EndPlace
<1>5. CASE ~cfg.slice
  <2>1. pc' = "fill" /\ Walk(base, shown, "fill", core)
    BY <1>1, <1>3, <1>5 DEF NextBuffer, Walk
  <2> QED BY <1>1, <1>2, <1>3, <2>1 DEF Place, Walking
<1> QED BY <1>4, <1>5

\* A line of the slow path, which is reported, or is not due so far.
LEMMA SlowLineShown == ASSUME Here, SlowLine PROVE Place(base', shown', pc', core')
<1> DEFINE i == core.pos + 1
           success == (~ExceededLimit(core) /\ Hit(i)) # cfg.invert
           at1 == [core EXCEPT !.pos = i]
           counted == [at1 EXCEPT !.hasMatched = TRUE, !.count = @ + 1]
           d == IF success THEN SinkMatched(BeforeContext(counted, i - 1), i)
                ELSE IF core.afterLeft >= 1 THEN SinkContext(at1, i, "after")
                ELSE IF cfg.passthru THEN SinkContext(at1, i, "other")
                ELSE at1
           nonmatch == cfg.stopOnNonmatch /\ ~success /\ d.hasMatched
<1>1. /\ Given /\ State /\ Orderly /\ Sound(core) /\ core \in Cores /\ core.go /\ base \in Nat /\ shown \in Nat
      /\ core.visited \in 0 .. shown /\ core.pos \in 0 .. shown /\ core.visited <= core.pos
      /\ base + shown <= Total /\ Total \in Nat /\ core.afterLeft \in 0 .. cfg.after /\ cfg.after \in Nat /\ core.count \in Int
      /\ Chosen \in SUBSET (1 .. Total)
  BY HereFacts
<1>2. pc = "slow" /\ core.pos < shown
  BY DEF SlowLine
<1>3. Owed(base + core.visited, core) /\ Walk(base, shown, "slow", core)
  BY <1>2 DEF Here
<1>4. IF ExceededLimit(core) /\ ~cfg.passthru /\ core.afterLeft = 0
      THEN Stop(core)
      ELSE Continue([d EXCEPT !.go = @ /\ ~nonmatch], "slow")
  BY DEF SlowLine
<1>5. i \in 1 .. shown /\ i \in Int \cup {None} /\ i - 1 = core.pos /\ core.visited <= i - 1 /\ i \in Int
  BY <1>1, <1>2
<1>6. PICK v \in Nat : v = base + core.visited
  BY <1>1
<1>7. PICK p \in Nat : p = base + core.pos
  BY <1>1
<1>8. /\ v <= p /\ p + 1 <= Total /\ p + 1 = base + i /\ p = base + (i - 1) /\ (v = p <=> core.visited = i - 1)
      /\ v \in 0 .. Total /\ p \in v .. Total
  BY <1>1, <1>2, <1>6, <1>7
<1>9. /\ Free(v, p) /\ Counted(p, core.count) /\ (cfg.passthru => v = p)
      /\ (core.afterLeft = 0 \/ v = p) /\ (~cfg.fast \/ cfg.passthru) /\ (cfg.slice => base + shown = Total)
      /\ Owed(v, core)
  BY <1>3, <1>6, <1>7 DEF Walk
<1>10. CASE ExceededLimit(core) /\ ~cfg.passthru /\ core.afterLeft = 0
  <2>1. core' = core /\ pc' = "finish"
    BY <1>4, <1>10 DEF Stop
  <2>2. Pre(core) /\ Shown(core) = Expected
    BY <1>1, <1>8, <1>9, <1>10, LimitShown DEF ExceededLimit
  <2> QED BY <2>1, <2>2, EndPlace
<1>11. CASE ~(ExceededLimit(core) /\ ~cfg.passthru /\ core.afterLeft = 0)
  <2>0. ~nonmatch /\ (cfg.invert => cfg.max = None)
    BY <1>1 DEF Orderly
  <2> HIDE DEF i
  <2>1. success <=> p + 1 \in Chosen
    <3>1. p + 1 \in Chosen <=> Success(p + 1) /\ (cfg.max = None \/ core.count < cfg.max)
      BY <1>1, <1>8, <1>9, ChosenWithin
    <3>2. ExceededLimit(core) <=> ~(cfg.max = None \/ core.count < cfg.max)
      BY <1>1, ChosenFacts DEF ExceededLimit
    <3>3. Hit(i) \in BOOLEAN /\ cfg.invert \in BOOLEAN /\ Hit(i) = file.hit[p + 1]
      <4>1. p + 1 \in 1 .. Total
        BY <1>8, <1>1
      <4> QED BY <1>1, <1>8, <4>1, Facts, ChosenFacts DEF Hit
    <3>4. Success(p + 1) <=> Hit(i) # cfg.invert
      BY <3>3 DEF Success
    <3>5. cfg.invert => ~ExceededLimit(core)
      BY <2>0 DEF ExceededLimit
    <3> QED BY <3>1, <3>2, <3>3, <3>4, <3>5
  <2>2. Alike(core, at1) /\ at1.pos = i /\ at1.count = core.count /\ at1.hasSunk = core.hasSunk
    BY <1>1, <1>5, PosAlike
  <2>3. Alike(core, counted) /\ counted.pos = i /\ counted.count = core.count + 1 /\ counted.hasSunk = core.hasSunk
    <3> HIDE DEF at1
    <3> DEFINE n == at1.count + 1
    <3>1. counted = [at1 EXCEPT !.hasMatched = TRUE, !.count = n] /\ n \in Int /\ at1 \in Cores
      BY <2>2, CoreTypes DEF Alike, Cores
    <3>2. n = core.count + 1
      BY <2>2
    <3> HIDE DEF n, counted
    <3> QED BY <2>2, <3>1, <3>2 DEF Alike, Cores
  <2> HIDE DEF at1, counted, success
  <2>4. /\ Sound(at1) /\ at1.visited = core.visited /\ at1.afterLeft = core.afterLeft /\ at1.go /\ Shown(at1) = Shown(core)
        /\ Sound(counted) /\ counted.visited = core.visited /\ counted.afterLeft = core.afterLeft /\ counted.go
        /\ Shown(counted) = Shown(core)
    BY <1>1, <2>2, <2>3, AlikeSound DEF Alike, Shown
  <2>5. Owed(v, at1) /\ Owed(v, counted)
    BY <1>9, <2>2, <2>3, <2>4, OwedAlike
  <2>6. ASSUME ~success
        PROVE  p + 1 \notin Chosen /\ Counted(p + 1, core.count) /\ Free(v, p + 1)
    <3>1. p + 1 \notin Chosen
      BY <2>1, <2>6
    <3>2. Counted(p + 1, core.count)
      BY <1>1, <1>8, <1>9, <3>1, ChosenWithin
    <3>3. Free(v, p + 1)
      BY <1>1, <1>9, <3>1 DEF Free
    <3> QED BY <3>1, <3>2, <3>3
  \* The line is reported, or nothing is owed of it yet.
  <2>7. /\ d.go => /\ \/ d.visited = i /\ Owed(p + 1, d)
                      \/ d.visited = core.visited /\ Owed(v, d) /\ d.afterLeft = 0 /\ ~cfg.passthru /\ Free(v, p + 1)
                   /\ d.pos = i /\ Counted(p + 1, d.count)
        /\ ~d.go => Ended(d)
        /\ d \in Cores
    <3>1. CASE success
      <4> DEFINE x == BeforeContext(counted, i - 1)
                 e == SinkMatched(x, i)
      <4>1. d = e
        BY <3>1
      <4> HIDE DEF d
      <4>2. base + i \in Chosen /\ Counted(p + 1, core.count + 1)
        BY <1>1, <1>8, <1>9, <2>1, <3>1, ChosenWithin
      <4>3. Sound(x) /\ x.pos = counted.pos /\ x.count = counted.count /\ x.visited <= i - 1 /\ x.visited \in 0 .. shown
        <5>1. i - 1 \in 0 .. shown
          BY <1>1, <1>5
        <5>2. counted.visited <= i - 1
          BY <1>5, <2>4
        <5> QED BY <1>1, <2>4, <5>1, <5>2, BeforeSound DEF Onward, Sound, Ranges
      <4> DEFINE y == x
      <4>4. IF x.go THEN Alike(x, y) /\ y.hasSunk = x.hasSunk ELSE y = x
        BY <4>3 DEF Alike, Sound
      <4>5. counted.visited <= i - 1 /\ Owed(base + counted.visited, counted) /\ Free(base + counted.visited, base + (i - 1))
            /\ (counted.visited = i - 1 \/ (counted.afterLeft = 0 /\ ~cfg.passthru))
        BY <1>5, <1>6, <1>8, <1>9, <2>4, <2>5
      <4> DEFINE r == SinkMatched(y, i)
      <4>6. /\ r.go => Owed(base + i, r) /\ r.visited = i /\ y.go
            /\ ~r.go => Ended(r)
            /\ r.pos = y.pos /\ r.count = y.count
        <5> HIDE DEF y
        <5> QED BY <1>1, <1>5, <2>4, <4>2, <4>4, <4>5, SuccessShown
      <4>7. Sound(r)
        <5>1. x.visited < i
          BY <1>5, <4>3
        <5> HIDE DEF x
        <5> QED BY <1>1, <1>5, <4>3, <5>1, MatchedSound
      <4> HIDE DEF r, x
      <4>8. d = r
        BY <4>1 DEF r, x
      <4> QED BY <1>8, <2>3, <4>2, <4>3, <4>6, <4>7, <4>8 DEF Sound
    <3>2. CASE ~success /\ core.afterLeft >= 1
      <4> DEFINE e == SinkContext(at1, i, "after")
      <4>1. d = e
        BY <3>2
      <4> HIDE DEF d
      <4>2. v = p /\ AfterIs(v, core.afterLeft) /\ core.afterLeft \in Nat /\ core.afterLeft > 0
        BY <1>1, <1>9, <3>2 DEF Owed
      <4>3. p + 1 \in Due /\ KindOf(p + 1) = "after" /\ AfterIs(p + 1, core.afterLeft - 1)
        <5>1. ~MatchInContext(p + 1)
          BY <1>9 DEF MatchInContext
        <5>2. core.afterLeft \in Nat /\ core.afterLeft > 0 /\ AfterIs(p, core.afterLeft) /\ p + 1 \notin Chosen /\ p + 1 <= Total
          BY <1>8, <2>6, <3>2, <4>2
        <5> QED BY <1>1, <5>1, <5>2, AfterKind, AfterNext
      <4>4. Ready(p + 1, at1)
        BY <1>1, <2>5, <4>2, <4>3, NextReady
      <4>5. base + i \in Due /\ KindOf(base + i) = "after" /\ Ready(base + i, at1)
        BY <1>8, <4>3, <4>4
      <4>6. LET x == SinkContext(at1, i, "after")
            IN /\ x.go => /\ Shown(x) = Listed[base + i] /\ x.hasSunk = TRUE
                          /\ x.afterLeft = IF "after" = "after" THEN at1.afterLeft - 1 ELSE at1.afterLeft
               /\ ~x.go => Ended(x)
        BY <1>1, <1>5, <2>4, <4>5, ContextShown
      <4>7. /\ Sound(e) /\ e.pos = at1.pos /\ e.count = at1.count /\ (e.go => e.visited = i)
        <5>1. at1.visited < i /\ at1.afterLeft >= 1
          BY <1>1, <1>5, <2>4, <3>2
        <5> QED BY <1>1, <1>5, <2>4, <5>1, ContextSound
      <4> HIDE DEF e
      <4>8. /\ e.go => Shown(e) = Listed[p + 1] /\ e.hasSunk = TRUE /\ e.afterLeft = core.afterLeft - 1
            /\ ~e.go => Ended(e)
        BY <1>8, <2>4, <4>6 DEF e
      <4>9. e.go => Owed(p + 1, e)
        BY <1>1, <4>3, <4>8, OwedNow
      <4> QED BY <2>2, <2>6, <3>2, <4>1, <4>7, <4>8, <4>9 DEF Sound
    <3>3. CASE ~success /\ ~(core.afterLeft >= 1) /\ cfg.passthru
      <4> DEFINE e == SinkContext(at1, i, "other")
      <4>1. d = e
        BY <3>3
      <4> HIDE DEF d
      <4>2. v = p /\ core.afterLeft = 0 /\ AfterIs(v, 0)
        BY <1>1, <1>9, <3>3 DEF Owed
      <4>3. p + 1 \in Due /\ KindOf(p + 1) = "other" /\ AfterIs(p + 1, 0)
        <5>1. p + 1 \in 1 .. Total /\ p + 1 \notin Chosen /\ Free(p, p + 1) /\ p <= p + 1 /\ p + 1 \in Nat
          BY <1>1, <1>8, <2>6, <3>3, <4>2
        <5> QED BY <1>1, <3>3, <4>2, <5>1, OtherKind, AfterNone
      <4>4. Ready(p + 1, at1)
        BY <1>1, <2>5, <4>2, <4>3, NextReady
      <4>5. base + i \in Due /\ KindOf(base + i) = "other" /\ Ready(base + i, at1)
        BY <1>8, <4>3, <4>4
      <4>6. LET x == SinkContext(at1, i, "other")
            IN /\ x.go => /\ Shown(x) = Listed[base + i] /\ x.hasSunk = TRUE
                          /\ x.afterLeft = IF "other" = "after" THEN at1.afterLeft - 1 ELSE at1.afterLeft
               /\ ~x.go => Ended(x)
        BY <1>1, <1>5, <2>4, <4>5, ContextShown
      <4>7. /\ Sound(e) /\ e.pos = at1.pos /\ e.count = at1.count /\ (e.go => e.visited = i)
        <5>1. at1.visited < i
          BY <1>1, <1>5, <2>4
        <5> QED BY <1>1, <1>5, <2>4, <5>1, ContextSound
      <4> HIDE DEF e
      <4>8. /\ e.go => Shown(e) = Listed[p + 1] /\ e.hasSunk = TRUE /\ e.afterLeft = 0
            /\ ~e.go => Ended(e)
        BY <1>8, <2>4, <4>2, <4>6 DEF e
      <4>9. e.go => Owed(p + 1, e)
        BY <1>1, <4>3, <4>8, OwedNow
      <4> QED BY <2>2, <2>6, <3>3, <4>1, <4>7, <4>8, <4>9 DEF Sound
    <3>4. CASE ~success /\ ~(core.afterLeft >= 1) /\ ~cfg.passthru
      <4>1. d = at1
        BY <3>4
      <4>2. core.afterLeft = 0
        BY <1>1, <3>4
      <4> HIDE DEF d
      <4> QED BY <2>2, <2>4, <2>5, <2>6, <3>4, <4>1, <4>2 DEF Sound
    <3> QED BY <3>1, <3>2, <3>3, <3>4
  <2> HIDE DEF d
  <2>8. [d EXCEPT !.go = @ /\ ~nonmatch] = d
    BY <2>0, <2>7 DEF Cores
  <2> HIDE DEF nonmatch
  <2>9. Continue(d, "slow")
    BY <1>4, <1>11, <2>8
  <2>10. ASSUME d.go PROVE Place(base, shown, "slow", d)
    <3>1. CASE d.visited = i /\ Owed(p + 1, d)
      <4>1. base + d.visited = p + 1 /\ base + d.pos = p + 1
        BY <1>8, <2>7, <2>10, <3>1
      <4>2. Free(p + 1, p + 1) /\ \A j \in (p + 1) + 1 .. p + 1 : FALSE
        BY <1>1 DEF Free
      <4>3. Walk(base, shown, "slow", d)
        BY <1>9, <2>7, <2>10, <4>1, <4>2 DEF Walk
      <4> QED BY <2>10, <3>1, <4>1, <4>3 DEF Place, Walking
    <3>2. CASE d.visited = core.visited /\ Owed(v, d) /\ d.afterLeft = 0 /\ ~cfg.passthru /\ Free(v, p + 1)
      <4>1. base + d.visited = v /\ base + d.pos = p + 1 /\ v <= p + 1
        BY <1>6, <1>8, <2>7, <2>10, <3>2
      <4>3. Walk(base, shown, "slow", d)
        BY <1>9, <2>7, <2>10, <3>2, <4>1 DEF Walk
      <4> QED BY <2>10, <3>2, <4>1, <4>3 DEF Place, Walking
    <3> QED BY <2>7, <2>10, <3>1, <3>2
  <2> QED BY <2>7, <2>9, <2>10, ContinuePlace
<1> QED BY <1>10, <1>11

\* Nothing is reported at first.
LEMMA InitShown == Init => RInv
<1> SUFFICES ASSUME Init, Orderly PROVE Place(base, shown, pc, core)
  BY DEF RInv
<1>1. Given
  BY DEF Init, Given
<1>2. pc = "begin" /\ base = 0 /\ shown = (IF cfg.slice THEN Total ELSE 0)
  BY DEF Init, Fresh, Total
<1>3. /\ core.pos = 0 /\ core.visited = 0 /\ core.afterLeft = 0 /\ core.count = 0 /\ core.go = TRUE
      /\ core.hasSunk = FALSE /\ core.calls = <<>>
  BY DEF Init, Fresh
<1>4. Total \in Nat /\ Chosen \in SUBSET (1 .. Total) /\ cfg.max \in (Nat \ {0}) \cup {None}
  BY <1>1, ChosenFacts
<1>5. Shown(core) = Listed[0]
  <2>1. <<>> \in Seq(SinkCalls) /\ Len(<<>>) = 0
    OBVIOUS
  <2>2. LineCallsOf(<<>>) = <<>>
    <3>1. PICK f \in [0 .. Len(<<>>) -> Seq(Briefs)] : IsListing(f, <<>>) /\ LineCallsOf(<<>>) = f[Len(<<>>)]
      BY <2>1, Listing
    <3> QED BY <2>1, <3>1 DEF IsListing
  <2> QED BY <1>1, <1>3, <2>2, ListedIs DEF Shown
<1>6. \A j \in Due : ~(j <= 0)
  BY DEF Due
<1>7. AfterIs(0, 0)
  BY <1>4 DEF AfterIs
<1>8. Owed(0, core)
  BY <1>3, <1>5, <1>6, <1>7 DEF Owed
<1>9. Free(0, 0)
  BY <1>4 DEF Free
<1>10. Counted(0, 0)
  <2>1. Successes(0) = {}
    BY <1>4 DEF Successes
  <2>2. Cardinality(Successes(0)) = 0
    BY <2>1, FS_EmptySet
  <2> QED BY <1>4, <2>2 DEF Counted
<1>11. Walk(base, shown, "begin", core)
  BY <1>2, <1>3, <1>4, <1>9, <1>10 DEF Walk
<1> QED BY <1>2, <1>3, <1>8, <1>11 DEF Place

\* Nor by begin and the look at the first lines of a slice.
LEMMA BeginShown == ASSUME Here, Begin PROVE Place(base', shown', pc', core')
<1> DEFINE x == [kind |-> "begin", line |-> 0]
           begun == Tell(core, x)
           examined == IF shown < DetectLines THEN shown ELSE DetectLines
           d == DetectBinary(begun, 0, examined)
<1>1. /\ Given /\ State /\ Orderly /\ Sound(core) /\ core \in Cores /\ core.go /\ base \in Nat /\ shown \in Nat
      /\ core.visited \in 0 .. shown /\ core.pos \in 0 .. shown /\ core.visited <= core.pos
      /\ base + shown <= Total /\ Total \in Nat
      /\ base + core.visited \in 0 .. Total
  BY HereFacts
<1>2. /\ pc = "begin" /\ core.pos = 0 /\ core.visited = 0 /\ core.calls = <<>>
      /\ core' = d /\ pc' = (IF ~d.go \/ (cfg.slice /\ shown = 0) THEN "finish" ELSE IF cfg.slice THEN MatchByLine(d) ELSE "fill")
      /\ UNCHANGED <<base, shown>>
  BY DEF Begin, Here
<1>3. Owed(base + core.visited, core) /\ Walk(base, shown, "begin", core)
  BY <1>2 DEF Here
<1>4. x \in Marks /\ x.kind \in {"begin", "break"} /\ x \in SinkCalls /\ ~OfLines(x)
  BY DEF Marks, SinkCalls, OfLines, LineKinds
<1> HIDE DEF x
<1>5. Sound(begun) /\ Kept(core, begun)
  BY <1>1, <1>4, MarkTold
<1>6. Told(core, begun, x) /\ Shown(begun) = Shown(core) /\ (~begun.go => Hindered(begun))
  BY <1>1, <1>4, TellShown, HaltedHinders
<1> HIDE DEF begun
<1>7. examined \in Nat /\ examined <= shown /\ 0 \in Nat
  BY <1>1, DetectAssumption DEF State
<1> HIDE DEF examined
<1>8. Sound(d) /\ Kept(begun, d) /\ (~begun.go => d = begun)
  BY <1>1, <1>5, <1>7, DetectSound
<1>9. Shown(d) = Shown(begun) /\ d.hasSunk = begun.hasSunk /\ (~d.go => Hindered(d))
  <2>1. CASE begun.go
    BY <1>1, <1>5, <1>7, <2>1, DetectShown, HaltedHinders
  <2>2. CASE ~begun.go
    BY <1>6, <1>8, <2>2
  <2> QED BY <2>1, <2>2
<1> HIDE DEF d
<1>10. /\ Shown(d) = Shown(core) /\ d.hasSunk = core.hasSunk /\ d.visited = core.visited /\ d.pos = core.pos
       /\ d.afterLeft = core.afterLeft /\ d.count = core.count /\ d.hasMatched = core.hasMatched
  BY <1>5, <1>6, <1>8, <1>9 DEF Told, Kept
<1>11. Owed(base + core.visited, d)
  BY <1>3, <1>10, OwedAlike
<1>12. Walk(base, shown, "begin", d)
  BY <1>3, <1>10 DEF Walk
<1>13. CASE ~d.go
  <2>1. Pre(d)
    BY <1>1, <1>11, OwedPre DEF Owed
  <2> QED BY <1>2, <1>9, <1>13, <2>1, EndPlace DEF Ended
<1>14. CASE d.go /\ cfg.slice /\ shown = 0
  <2>1. Free(base + d.visited, Total) /\ base + d.visited = Total
    <3>1. base + shown = Total /\ base + core.visited = Total /\ base + core.pos = Total
      BY <1>1, <1>2, <1>3, <1>14 DEF Walk
    <3> QED BY <1>10, <1>12, <3>1 DEF Walk
  <2>2. Pre(d) /\ Shown(d) = Expected
    BY <1>1, <1>10, <1>11, <2>1, LastShown
  <2> QED BY <1>2, <1>14, <2>2, EndPlace
<1>15. CASE d.go /\ ~(cfg.slice /\ shown = 0)
  <2>1. pc' \in {"fill", "slow", "fast"}
    BY <1>2, <1>15 DEF MatchByLine
  <2>2. pc' = "slow" => ~cfg.fast \/ cfg.passthru
    BY <1>1, <1>2, <1>15, ChosenFacts DEF MatchByLine, IsFast, Orderly
  <2>3. pc' = "fast" => cfg.fast /\ ~cfg.passthru
    BY <1>2, <1>15 DEF MatchByLine, IsFast
  <2>4. Walk(base, shown, pc', d)
    BY <1>12, <2>1, <2>2, <2>3 DEF Walk
  <2> QED BY <1>2, <1>10, <1>11, <1>15, <2>1, <2>4 DEF Place, Walking
<1> QED BY <1>13, <1>14, <1>15

\* The fast path goes to its end, or goes on with the slow path, which it does
\* not in a search that is orderly.
LEMMA FastMoveShown == ASSUME Here, FastToSlow \/ FastLoopEnds PROVE Place(base', shown', pc', core')
<1>1. Orderly /\ core.go /\ base \in Nat /\ shown \in Nat
  BY HereFacts
<1>2. pc = "fast" /\ core.pos = shown /\ pc' = "fastEnd" /\ UNCHANGED <<base, shown, core>>
  BY <1>1 DEF FastToSlow, FastLoopEnds, Orderly
<1>3. Owed(base + core.visited, core) /\ Walk(base, shown, "fast", core)
  BY <1>2 DEF Here
<1>4. Walk(base, shown, "fastEnd", core)
  <2>1. \A j \in base + core.pos + 1 .. base + shown : ~Success(j)
    BY <1>1, <1>2
  <2> QED BY <1>3, <2>1 DEF Walk
<1> QED BY <1>1, <1>2, <1>3, <1>4 DEF Place, Walking

\* Core.finish reports no line.
LEMMA FinishShown == ASSUME IInv, RInv, Orderly, Finish PROVE Place(base', shown', pc', core')
<1> DEFINE x == [kind |-> "finish", line |-> ByteCount]
           s == Append(core.calls, x)
<1>1. Given /\ State /\ pc = "finish" /\ core \in Cores /\ ~core.panicked /\ base \in Nat
      /\ core.pos \in Int /\ core.binaryAt \in 1 .. Total \cup {None}
  BY StateOf DEF IInv, Over, Finish, Loop, State
<1>2. core' = [core EXCEPT !.calls = s] /\ pc' = "done"
  BY <1>1 DEF Finish
<1>3. x \in SinkCalls /\ ~OfLines(x)
  <2>1. ByteCount \in Int
    BY <1>1, Facts DEF ByteCount
  <2> QED BY <2>1 DEF SinkCalls, Marks, LineKinds, OfLines
<1> HIDE DEF x
<1>4. core.calls \in Seq(SinkCalls)
  BY <1>1, CoreTypes
<1>5. s \in Seq(SinkCalls) /\ Len(s) = Len(core.calls) + 1 /\ Len(core.calls) \in Nat
  BY <1>3, <1>4, AppendOne
<1>6. LineCallsOf(s) = LineCallsOf(core.calls)
  BY <1>3, <1>4, ListingAppended
<1> HIDE DEF s
<1>7. core'.calls = s
  BY <1>1, <1>2, <1>5 DEF Cores
<1>8. Pre(core) /\ (Hindered(core) \/ Shown(core) = Expected)
  BY <1>1 DEF RInv, Place
<1>9. LineCallsOf(core'.calls) = LineCallsOf(core.calls) /\ Len(core'.calls) >= Len(core.calls)
  BY <1>5, <1>6, <1>7
<1>10. \A c, d : LineCallsOf(d.calls) = LineCallsOf(c.calls) /\ Len(d.calls) >= Len(c.calls)
                   /\ Pre(c) /\ (Hindered(c) \/ Shown(c) = Expected) /\ Len(c.calls) \in Nat /\ Len(d.calls) \in Nat
                 => Pre(d) /\ (Hindered(d) \/ Shown(d) = Expected)
  <2>1. stopAnswer \in Nat
    BY <1>1, Facts
  <2> QED BY <2>1 DEF Pre, Hindered, Shown
<1>11. \A c : Pre(c) /\ (Hindered(c) \/ Shown(c) = Expected) => Place(base', shown', "done", c)
  BY DEF Place, Walking
<1>12. Len(core'.calls) \in Nat
  BY <1>5, <1>7
<1>13. Pre(core') /\ (Hindered(core') \/ Shown(core') = Expected)
  BY <1>5, <1>8, <1>9, <1>10, <1>12
<1> QED BY <1>2, <1>11, <1>13

\* What was reported before an error is a prefix of the report.
LEMMA FillFailsShown == ASSUME Here, FillFails PROVE Place(base', shown', pc', core')
<1> DEFINE n == Rolled(core)
           r == Roll(core, n)
<1>1. /\ Given /\ State /\ Sound(core) /\ core.go /\ base + core.visited \in 0 .. Total
  BY HereFacts
<1>2. n \in core.visited .. shown
  BY <1>1, RolledBounds
<1>3. core' = r /\ pc' = "failed" /\ Owed(base + core.visited, core)
  BY DEF FillFails, Here
<1> HIDE DEF n
<1>4. r.calls = core.calls
  BY <1>1, <1>2, RollFields
<1>5. Pre(core)
  BY <1>1, <1>3, OwedPre DEF Owed, Here
<1> HIDE DEF r
<1>6. Pre(r)
  BY <1>4, <1>5 DEF Pre, Shown
<1>7. \A c : Pre(c) => Place(base', shown', "failed", c)
  BY DEF Place, Walking
<1> QED BY <1>3, <1>6, <1>7

\* What find_by_line_fast returns.
LEMMA FoundIs ==
    ASSUME State, NEW c, c.pos \in 0 .. shown
    PROVE  /\ Found(c) = None => ExceededLimit(c) \/ \A j \in c.pos + 1 .. shown : ~Hit(j)
           /\ Found(c) # None => /\ ~ExceededLimit(c) /\ Found(c) \in c.pos + 1 .. shown /\ Hit(Found(c))
                                 /\ \A j \in c.pos + 1 .. shown : j < Found(c) => ~Hit(j)
<1> DEFINE matching == {i \in c.pos + 1 .. shown : Hit(i)}
           least == CHOOSE i \in matching : \A j \in matching : i <= j
<1>1. Found(c) = IF ExceededLimit(c) \/ matching = {} THEN None ELSE least
  BY DEF Found
<1>2. matching \in SUBSET Nat /\ matching \subseteq c.pos + 1 .. shown /\ \A j \in c.pos + 1 .. shown : Hit(j) => j \in matching
  BY DEF State
<1>3. \A j \in matching : Hit(j)
  OBVIOUS
<1> HIDE DEF matching
<1>4. ASSUME matching # {} PROVE least \in matching /\ \A j \in matching : least <= j
  <2>1. \E i \in matching : \A j \in matching : i <= j
    BY <1>2, <1>4, LeastNat
  <2> QED BY <2>1, Zenon
<1> HIDE DEF least
<1>5. None \notin Int
  BY NoneAssumption
<1>6. CASE ExceededLimit(c)
  BY <1>1, <1>6
<1>7. CASE matching = {}
  BY <1>1, <1>2, <1>7
<1>8. CASE ~ExceededLimit(c) /\ matching # {}
  <2>1. Found(c) = least
    BY <1>1, <1>8
  <2>2. least \in c.pos + 1 .. shown /\ Hit(least) /\ least # None
    <3>1. least \in matching /\ matching # {}
      BY <1>4, <1>8
    <3>2. least \in c.pos + 1 .. shown /\ Hit(least) /\ least \in Int
      BY <1>2, <1>3, <3>1
    <3> QED BY <1>5, <3>2
  <2>3. ASSUME NEW j \in c.pos + 1 .. shown, j < least PROVE ~Hit(j)
    <3>1. j \in Nat /\ least \in Nat
      <4>1. c.pos + 1 \in Nat
        BY DEF State
      <4>2. least \in Nat
        BY <1>2, <1>4, <1>8
      <4> QED BY <4>1, <4>2
    <3> QED BY <1>2, <1>4, <1>8, <2>3, <3>1
  <2> QED BY <1>8, <2>1, <2>2, <2>3
<1> QED BY <1>6, <1>7, <1>8

\* Lines of the file that match, and lines of the buffer that do.
LEMMA HitIs ==
    ASSUME State, NEW n \in Nat, base < n, n <= base + shown
    PROVE  /\ n - base \in 1 .. shown /\ base + (n - base) = n
           /\ Success(n) <=> (Hit(n - base) # cfg.invert)
           /\ Hit(n - base) \in BOOLEAN /\ cfg.invert \in BOOLEAN
<1>1. base \in Nat /\ shown \in Nat /\ n \in 1 .. Total /\ Given
  BY Facts DEF State
<1>2. n - base \in 1 .. shown /\ base + (n - base) = n
  BY <1>1
<1>3. file.hit[n] \in BOOLEAN /\ cfg.invert \in BOOLEAN
  BY <1>1, Facts DEF Config
<1>4. Hit(n - base) = file.hit[n]
  BY <1>2 DEF Hit
<1> QED BY <1>2, <1>3, <1>4 DEF Success

\* A match by the fast path: the context after the match before, the context
\* before this one, and this one are reported.
LEMMA FastMatchShown == ASSUME Here, FastMatch PROVE Place(base', shown', pc', core')
<1> DEFINE i == Found(core)
           counted == [core EXCEPT !.hasMatched = TRUE, !.count = @ + 1]
           after == AfterContext(counted, i - 1)
           context == BeforeContext(after, i - 1)
           at1 == IF context.go THEN [context EXCEPT !.pos = i] ELSE context
           d == SinkMatched(at1, i)
<1>1. /\ Given /\ State /\ Orderly /\ Sound(core) /\ core \in Cores /\ core.go /\ base \in Nat /\ shown \in Nat
      /\ core.visited \in 0 .. shown /\ core.pos \in 0 .. shown /\ core.visited <= core.pos
      /\ base + shown <= Total /\ Total \in Nat /\ core.afterLeft \in 0 .. cfg.after /\ cfg.after \in Nat /\ core.count \in Int
      /\ Chosen \in SUBSET (1 .. Total)
  BY HereFacts
<1>2. pc = "fast" /\ core.pos < shown /\ cfg.invert = FALSE
  <2>1. cfg.invert \in BOOLEAN
    BY <1>1, ChosenFacts
  <2> QED BY <2>1 DEF FastMatch
<1>3. Owed(base + core.visited, core) /\ Walk(base, shown, "fast", core)
  BY <1>2 DEF Here
<1>4. PICK v \in Nat : v = base + core.visited
  BY <1>1
<1>5. PICK p \in Nat : p = base + core.pos
  BY <1>1
<1>6. /\ v <= p /\ Free(v, p) /\ Counted(p, core.count) /\ cfg.fast /\ ~cfg.passthru /\ (cfg.slice => base + shown = Total)
      /\ (core.afterLeft > 0 => \A j \in v + 1 .. p : ~Success(j)) /\ Owed(v, core)
  BY <1>3, <1>4, <1>5 DEF Walk
<1>7. CASE i = None
  <2>1. core' = core /\ pc' = "fastEnd" /\ UNCHANGED <<base, shown>>
    BY <1>7 DEF FastMatch
  <2>2. ASSUME ~ExceededLimit(core), NEW j \in base + core.pos + 1 .. base + shown PROVE ~Success(j)
    <3>1. \A m \in core.pos + 1 .. shown : ~Hit(m)
      BY <1>1, <1>7, <2>2, FoundIs
    <3>2. j \in Nat /\ base < j /\ j <= base + shown /\ j - base \in core.pos + 1 .. shown
      BY <1>1, <2>2
    <3> QED BY <1>1, <1>2, <3>1, <3>2, HitIs
  <2>3. Walk(base, shown, "fastEnd", core)
    BY <1>3, <2>2 DEF Walk
  <2> QED BY <1>1, <1>3, <2>1, <2>3 DEF Place, Walking
<1>8. CASE i # None
  <2>0. Continue(d, "fast")
    BY <1>8 DEF FastMatch
  <2>1. ~ExceededLimit(core) /\ i \in core.pos + 1 .. shown /\ Hit(i) /\ \A j \in core.pos + 1 .. shown : j < i => ~Hit(j)
    BY <1>1, <1>8, FoundIs
  <2> HIDE DEF i
  <2>2. i - 1 \in 0 .. shown /\ i \in 1 .. shown /\ i \in Int /\ i \in Int \cup {None} /\ core.visited <= i - 1
    BY <1>1, <2>1
  <2>3. PICK n \in Nat : n = base + i
    BY <1>1, <2>2
  <2>4. /\ n - 1 \in Nat /\ n - 1 = base + (i - 1) /\ p <= n - 1 /\ (n - 1) + 1 = n /\ n <= Total /\ base < n /\ n <= base + shown
        /\ n - base = i
    BY <1>1, <1>5, <2>1, <2>2, <2>3
  <2>5. ASSUME NEW j \in Nat, p < j, j <= n - 1 PROVE ~Success(j)
    <3>1. base < j /\ j <= base + shown /\ j - base \in core.pos + 1 .. shown /\ j - base < i
      BY <1>1, <1>5, <2>2, <2>4, <2>5
    <3> QED BY <1>1, <1>2, <2>1, <3>1, HitIs
  <2>6. Success(n)
    BY <1>1, <1>2, <2>1, <2>4, HitIs
  <2>7. Counted(n - 1, core.count)
    <3>1. \A j \in 1 .. Total : p < j /\ j <= n - 1 => ~Success(j)
      BY <2>5
    <3> QED BY <1>1, <1>6, <2>4, <3>1, CountedOn
  <2>8. n \in Chosen /\ Counted(n, core.count + 1)
    <3>1. cfg.max = None \/ core.count < cfg.max
      BY <1>1, <2>1, ChosenFacts DEF ExceededLimit
    <3>2. /\ (n - 1) + 1 \in Chosen <=> Success((n - 1) + 1) /\ (cfg.max = None \/ core.count < cfg.max)
          /\ Success((n - 1) + 1) /\ (cfg.max = None \/ core.count < cfg.max) => Counted((n - 1) + 1, core.count + 1)
      BY <1>1, <2>4, <2>7, ChosenWithin
    <3> QED BY <2>4, <2>6, <3>1, <3>2
  <2>9. Free(v, n - 1)
    <3>1. \A j \in Chosen : Success(j) /\ j \in Nat
      BY <1>1, ChosenFacts
    <3>2. ASSUME NEW j \in Chosen, v < j, j <= n - 1 PROVE FALSE
      <4>1. j <= p
        BY <1>5, <2>5, <3>1, <3>2
      <4> QED BY <1>6, <3>2, <4>1 DEF Free
    <3> QED BY <3>2 DEF Free
  <2>10. Alike(core, counted) /\ counted.pos = core.pos /\ counted.count = core.count + 1 /\ counted.hasSunk = core.hasSunk
    <3> DEFINE m == core.count + 1
    <3>1. counted = [core EXCEPT !.hasMatched = TRUE, !.count = m] /\ m \in Int /\ core \in Cores
      BY <1>1, CoreTypes DEF Cores
    <3> HIDE DEF m, counted
    <3> QED BY <3>1 DEF Alike, Cores, m
  <2> HIDE DEF counted
  <2>11. Sound(counted) /\ counted.visited = core.visited /\ counted.afterLeft = core.afterLeft /\ counted.go /\ Shown(counted) = Shown(core)
    BY <1>1, <2>10, AlikeSound DEF Alike, Shown
  <2>12. Owed(v, counted)
    BY <1>6, <2>10, <2>11, OwedAlike
  <2>13. /\ after.go => /\ Owed(base + after.visited, after)
                        /\ counted.visited <= after.visited
                        /\ after.afterLeft > 0 => after.visited = i - 1
         /\ ~after.go => Ended(after)
    <3>1. Owed(base + counted.visited, counted)
      BY <1>4, <2>11, <2>12
    <3>2. ASSUME counted.afterLeft > 0
          PROVE  /\ counted.visited <= i - 1 /\ Free(base + counted.visited, base + (i - 1))
                 /\ \A m \in (base + counted.visited) + 1 .. base + (i - 1) : MatchInContext(m) <=> ExceededLimit(counted) /\ Success(m)
      <4>1. counted.visited <= i - 1 /\ Free(base + counted.visited, base + (i - 1))
        BY <1>4, <2>2, <2>4, <2>9, <2>11
      <4>2. ASSUME NEW m \in (base + counted.visited) + 1 .. base + (i - 1) PROVE ~Success(m)
        <5>1. m \in Nat /\ v < m /\ m <= n - 1 /\ core.afterLeft > 0
          BY <1>4, <2>4, <2>11, <3>2
        <5>2. CASE m <= p
          BY <1>6, <5>1, <5>2
        <5>3. CASE p < m
          BY <2>5, <5>1, <5>3
        <5> QED BY <5>1, <5>2, <5>3
      <4>3. \A m : MatchInContext(m) => Success(m)
        BY DEF MatchInContext
      <4> QED BY <4>1, <4>2, <4>3
    <3> QED BY <1>1, <2>2, <2>11, <3>1, <3>2, AfterShown
  <2>14. /\ Sound(after) /\ after.visited <= i - 1 /\ after.count = core.count + 1 /\ after.visited \in 0 .. shown
         /\ after.afterLeft \in Nat
    <3>1. counted.afterLeft > 0 => counted.visited <= i - 1
      BY <2>2, <2>11
    <3>2. Sound(after) /\ Onward(counted, after) /\ (after.visited <= i - 1 \/ after = counted)
      BY <1>1, <2>2, <2>11, <3>1, AfterSound
    <3> HIDE DEF after
    <3> QED BY <1>1, <2>2, <2>10, <2>11, <3>2 DEF Onward, Sound, Ranges
  <2> HIDE DEF after
  <2>15. CASE ~after.go
    <3>1. context = after
      BY <2>15 DEF BeforeContext
    <3>2. at1 = after
      BY <2>15, <3>1
    <3>3. DetectBinary(at1, i - 1, i) = at1
      BY <2>15, <3>2 DEF DetectBinary
    <3>4. BreakContext(at1, i - 1) = at1
      BY <2>15, <3>2 DEF BreakContext
    <3>5. d = at1
      BY <2>15, <3>2, <3>3, <3>4 DEF SinkMatched, Report
    <3>6. d = after
      BY <3>2, <3>5
    <3> HIDE DEF d
    <3> QED BY <2>0, <2>13, <2>15, <3>6, ContinuePlace
  <2>16. CASE after.go
    <3>1. after.visited <= i - 1 /\ base + i \in Chosen /\ Free(base + after.visited, base + (i - 1))
          /\ (after.visited = i - 1 \/ (after.afterLeft = 0 /\ ~cfg.passthru))
      <4>1. v <= base + after.visited
        BY <1>1, <1>4, <2>11, <2>13, <2>14, <2>16
      <4>2. Free(base + after.visited, n - 1)
        BY <1>1, <2>9, <2>14, <4>1 DEF Free
      <4> QED BY <1>6, <2>3, <2>4, <2>8, <2>13, <2>14, <2>16, <4>2
    <3>2. Sound(context) /\ Onward(after, context)
      BY <1>1, <2>2, <2>14, BeforeSound
    <3> DEFINE x == context
               y == at1
    <3>3. IF x.go THEN Alike(x, y) /\ y.hasSunk = x.hasSunk ELSE y = x
      <4> HIDE DEF context
      <4>1. CASE context.go
        <5>1. at1 = [context EXCEPT !.pos = i] /\ context \in Cores
          BY <3>2, <4>1 DEF Sound
        <5> HIDE DEF at1
        <5> QED BY <2>2, <4>1, <5>1, PosAlike
      <4>2. CASE ~context.go
        BY <4>2
      <4> QED BY <4>1, <4>2
    <3>4. y.go => y.pos = i
      <4> HIDE DEF context
      <4>1. CASE context.go
        <5>1. at1 = [context EXCEPT !.pos = i] /\ context \in Cores
          BY <3>2, <4>1 DEF Sound
        <5> HIDE DEF at1
        <5> QED BY <2>2, <5>1, PosAlike
      <4>2. CASE ~context.go
        BY <4>2
      <4> QED BY <4>1, <4>2
    <3>5. y.count = x.count
      <4> HIDE DEF context
      <4>1. CASE context.go
        <5>1. at1 = [context EXCEPT !.pos = i] /\ context \in Cores
          BY <3>2, <4>1 DEF Sound
        <5> HIDE DEF at1
        <5> QED BY <2>2, <5>1, PosAlike
      <4>2. CASE ~context.go
        BY <4>2
      <4> QED BY <4>1, <4>2
    <3>6. x = BeforeContext(after, i - 1)
      OBVIOUS
    <3> HIDE DEF x, y
    <3> DEFINE r == SinkMatched(y, i)
    <3>7. /\ r.go => Owed(base + i, r) /\ r.visited = i /\ y.go
          /\ ~r.go => Ended(r)
          /\ r.pos = y.pos /\ r.count = y.count
      BY <1>1, <2>2, <2>13, <2>14, <2>16, <3>1, <3>3, <3>6, SuccessShown
    <3>8. x.count = core.count + 1
      BY <2>14, <3>2 DEF Onward, x
    <3>9. d = r
      BY DEF y
    <3> HIDE DEF d, r
    <3>10. ASSUME d.go PROVE Place(base, shown, "fast", d)
      <4>1. d.pos = i /\ d.visited = i /\ Counted(n, d.count) /\ Owed(n, d)
        BY <2>3, <2>8, <3>4, <3>5, <3>7, <3>8, <3>9, <3>10
      <4>2. base + d.pos = n /\ base + d.visited = n /\ Free(n, n) /\ \A j \in n + 1 .. n : FALSE
        BY <1>1, <2>3, <4>1 DEF Free
      <4>3. Walk(base, shown, "fast", d)
        BY <1>6, <4>1, <4>2 DEF Walk
      <4> QED BY <3>10, <4>1, <4>2, <4>3 DEF Place, Walking
    <3> QED BY <2>0, <3>7, <3>9, <3>10, ContinuePlace
  <2> QED BY <2>15, <2>16
<1> QED BY <1>7, <1>8

\* An inverted search by the fast path: the lines before the next line that
\* matches are reported.
LEMMA FastInvertShown == ASSUME Here, FastInvert PROVE Place(base', shown', pc', core')
<1> DEFINE i == Found(core)
           end == IF i = None THEN shown ELSE i - 1
           q == IF i = None THEN shown ELSE i
           at1 == [core EXCEPT !.pos = q]
           d == IF core.pos = end THEN at1 ELSE SinkInverted(at1, core.pos, end)
<1>1. /\ Given /\ State /\ Orderly /\ Sound(core) /\ core \in Cores /\ core.go /\ base \in Nat /\ shown \in Nat
      /\ core.visited \in 0 .. shown /\ core.pos \in 0 .. shown /\ core.visited <= core.pos
      /\ base + shown <= Total /\ Total \in Nat /\ core.afterLeft \in 0 .. cfg.after /\ cfg.after \in Nat /\ core.count \in Int
      /\ Chosen \in SUBSET (1 .. Total)
  BY HereFacts
<1>2. pc = "fast" /\ core.pos < shown /\ cfg.invert = TRUE
  <2>1. cfg.invert \in BOOLEAN
    BY <1>1, ChosenFacts
  <2> QED BY <2>1 DEF FastInvert
<1>3. Owed(base + core.visited, core) /\ Walk(base, shown, "fast", core)
  BY <1>2 DEF Here
<1>4. PICK v \in Nat : v = base + core.visited
  BY <1>1
<1>5. PICK p \in Nat : p = base + core.pos
  BY <1>1
<1>6. /\ v <= p /\ Free(v, p) /\ cfg.fast /\ ~cfg.passthru /\ (cfg.slice => base + shown = Total)
      /\ (core.afterLeft > 0 => \A j \in v + 1 .. p : ~Success(j)) /\ Owed(v, core)
  BY <1>3, <1>4, <1>5 DEF Walk
<1>7. cfg.max = None /\ ~ExceededLimit(core)
  BY <1>1, <1>2 DEF Orderly, ExceededLimit
<1>8. core' = d /\ pc' = (IF d.go THEN "fast" ELSE "fastEnd") /\ UNCHANGED <<base, shown>>
  BY DEF FastInvert
<1>9. /\ end \in core.pos .. shown /\ q \in core.pos + 1 .. shown /\ (q = end \/ (q = end + 1 /\ Hit(q)))
      /\ \A j \in core.pos + 1 .. end : ~Hit(j)
  <2>1. /\ i = None => \A j \in core.pos + 1 .. shown : ~Hit(j)
        /\ i # None => i \in core.pos + 1 .. shown /\ Hit(i) /\ \A j \in core.pos + 1 .. shown : j < i => ~Hit(j)
    BY <1>1, <1>7, FoundIs
  <2> HIDE DEF i
  <2>2. CASE i = None
    <3>1. end = shown /\ q = shown
      BY <2>2
    <3> QED BY <1>1, <1>2, <2>1, <2>2, <3>1
  <2>3. CASE i # None
    <3>1. end = i - 1 /\ q = i
      BY <2>3
    <3> QED BY <1>1, <1>2, <2>1, <2>3, <3>1
  <2> QED BY <2>2, <2>3
<1> HIDE DEF i, end, q
<1>10. q \in Int /\ q \in Int \cup {None} /\ end \in Int
  BY <1>1, <1>9
<1>11. PICK n \in Nat : n = base + end
  BY <1>1, <1>9
<1>12. PICK m \in Nat : m = base + q
  BY <1>1, <1>9
<1>13. p <= n /\ n <= m /\ p < m /\ m <= base + shown /\ base <= p /\ (m = n \/ m = n + 1) /\ (core.pos = end <=> p = n)
  BY <1>1, <1>5, <1>9, <1>10, <1>11, <1>12
<1>14. ASSUME NEW j \in Nat, p < j, j <= n PROVE Success(j)
  <2>1. base < j /\ j <= base + shown
    BY <1>1, <1>13, <1>14
  <2>2. j - base \in core.pos + 1 .. end
    BY <1>1, <1>5, <1>10, <1>11, <1>14
  <2> QED BY <1>1, <1>2, <1>9, <2>1, <2>2, HitIs
<1>15. ASSUME NEW j \in Nat, n < j, j <= m PROVE ~Success(j)
  <2>1. base < j /\ j <= base + shown /\ j - base = q /\ Hit(q)
    BY <1>1, <1>9, <1>10, <1>11, <1>12, <1>13, <1>15
  <2> QED BY <1>1, <1>2, <2>1, HitIs
<1>16. \A j \in Chosen : Success(j) /\ j \in Nat
  BY <1>1, ChosenFacts
<1>17. Free(n, m)
  BY <1>15, <1>16 DEF Free
<1>18. Alike(core, at1) /\ at1.pos = q /\ at1.hasSunk = core.hasSunk
  BY <1>1, <1>10, PosAlike
<1> HIDE DEF at1
<1>19. Sound(at1) /\ at1.visited = core.visited /\ at1.afterLeft = core.afterLeft /\ at1.go /\ Shown(at1) = Shown(core)
  BY <1>1, <1>18, AlikeSound DEF Alike, Shown
<1>20. Owed(v, at1)
  BY <1>6, <1>18, <1>19, OwedAlike
<1>21. CASE core.pos = end
  <2>1. d = at1
    BY <1>21
  <2> HIDE DEF d
  <2>2. base + d.visited = v /\ base + d.pos = m /\ v <= m /\ p = n
    BY <1>4, <1>6, <1>12, <1>13, <1>18, <1>19, <1>21, <2>1
  <2>3. Free(v, m)
    <3>1. ASSUME NEW j \in Chosen, v < j, j <= m PROVE FALSE
      <4>1. j \in Nat /\ Success(j)
        BY <1>16
      <4>2. j <= n
        BY <1>15, <3>1, <4>1
      <4> QED BY <1>6, <2>2, <3>1, <4>2 DEF Free
    <3> QED BY <3>1 DEF Free
  <2>4. ASSUME d.afterLeft > 0, NEW j \in v + 1 .. m PROVE ~Success(j)
    <3>1. j \in Nat /\ v < j /\ j <= m
      BY <2>4
    <3>2. CASE j <= p
      BY <1>6, <1>19, <2>1, <2>4, <3>1, <3>2
    <3>3. CASE p < j
      BY <1>15, <2>2, <3>1, <3>3
    <3> QED BY <3>1, <3>2, <3>3
  <2>5. Walk(base, shown, "fast", d)
    BY <1>6, <1>7, <2>2, <2>3, <2>4 DEF Walk, Counted
  <2> QED BY <1>8, <1>19, <1>20, <2>1, <2>2, <2>5 DEF Place, Walking
<1>22. CASE core.pos # end
  <2>1. d = SinkInverted(at1, core.pos, end) /\ end \in core.pos + 1 .. shown
    BY <1>1, <1>9, <1>10, <1>22
  <2> HIDE DEF d
  <2>2. /\ at1.visited <= core.pos /\ Owed(base + at1.visited, at1) /\ Free(base + at1.visited, base + core.pos)
        /\ at1.afterLeft > 0 => \A j \in (base + at1.visited) + 1 .. base + core.pos : ~Success(j)
    BY <1>1, <1>4, <1>5, <1>6, <1>19, <1>20
  <2>3. \A j \in (base + core.pos) + 1 .. base + end : Success(j)
    BY <1>1, <1>5, <1>11, <1>14
  <2>4. d.go /\ d.visited = end /\ Owed(base + end, d)
    BY <1>1, <1>2, <1>6, <1>19, <2>1, <2>2, <2>3, InvertedShown
  <2>5. d.pos = q
    BY <1>1, <1>18, <1>19, <2>1, <2>2, <2>4, InvertedSound
  <2>6. base + d.visited = n /\ base + d.pos = m
    BY <1>11, <1>12, <2>4, <2>5
  <2>7. \A j \in n + 1 .. m : ~Success(j)
    BY <1>15
  <2>8. Walk(base, shown, "fast", d)
    BY <1>6, <1>7, <1>13, <1>17, <2>6, <2>7 DEF Walk, Counted
  <2> QED BY <1>8, <1>11, <2>4, <2>6, <2>8 DEF Place, Walking
<1> QED BY <1>21, <1>22

\* The end of a buffer, or the limit: the context after the last match.
LEMMA FastEndShown == ASSUME Here, FastEnd PROVE Place(base', shown', pc', core')
<1> DEFINE g == ~core.panicked
           c == [core EXCEPT !.go = g]
           d == AfterContext(c, shown)
           over == d.go /\ ExceededLimit(d) /\ d.afterLeft = 0
           e == IF d.go THEN [d EXCEPT !.pos = shown] ELSE d
           next == NextBuffer
<1>1. /\ Given /\ State /\ Orderly /\ Sound(core) /\ core \in Cores /\ core.go /\ base \in Nat /\ shown \in Nat
      /\ core.visited \in 0 .. shown /\ core.pos \in 0 .. shown /\ core.visited <= core.pos
      /\ base + shown <= Total /\ Total \in Nat /\ core.afterLeft \in 0 .. cfg.after /\ cfg.after \in Nat /\ core.count \in Int
      /\ Chosen \in SUBSET (1 .. Total)
  BY HereFacts
<1>2. pc = "fastEnd" /\ (IF over THEN Stop(d) ELSE Continue(e, next))
  BY DEF FastEnd
<1>3. Owed(base + core.visited, core) /\ Walk(base, shown, "fastEnd", core)
  BY <1>2 DEF Here
<1>4. PICK v \in Nat : v = base + core.visited
  BY <1>1
<1>5. PICK p \in Nat : p = base + core.pos
  BY <1>1
<1>6. PICK z \in Nat : z = base + shown
  BY <1>1
<1>7. /\ v <= p /\ Free(v, p) /\ Counted(p, core.count) /\ cfg.fast /\ ~cfg.passthru /\ (cfg.slice => z = Total)
      /\ (core.afterLeft > 0 => \A j \in v + 1 .. p : ~Success(j)) /\ Owed(v, core)
      /\ ExceededLimit(core) \/ \A j \in p + 1 .. z : ~Success(j)
  BY <1>3, <1>4, <1>5, <1>6 DEF Walk
<1>8. p <= z /\ z <= Total /\ v <= z /\ p <= Total
  BY <1>1, <1>4, <1>5, <1>6
<1>9. \A j \in Chosen : Success(j) /\ j \in Nat
  BY <1>1, ChosenFacts
<1>10. ExceededLimit(core) => cfg.max # None /\ core.count >= cfg.max /\ LimitReached /\ \A j \in Chosen : j <= p
  BY <1>1, <1>7, <1>8, LimitIs DEF ExceededLimit
<1>11. Free(v, z)
  <2>1. ASSUME NEW j \in Chosen, v < j, j <= z PROVE FALSE
    <3>1. j <= p
      BY <1>5, <1>6, <1>7, <1>9, <1>10, <2>1
    <3> QED BY <1>7, <2>1, <3>1 DEF Free
  <2> QED BY <2>1 DEF Free
<1>12. Counted(z, core.count)
  <2>1. \/ \A j \in 1 .. Total : p < j /\ j <= z => ~Success(j)
        \/ cfg.max # None /\ core.count >= cfg.max
    BY <1>5, <1>6, <1>7, <1>10
  <2> QED BY <1>1, <1>7, <1>8, <2>1, CountedOn
<1>13. c = core
  <2>1. g = TRUE /\ core.go = TRUE
    BY <1>1 DEF Sound, Ranges, Cores
  <2> HIDE DEF g
  <2> QED BY <1>1, <2>1 DEF Cores
<1> HIDE DEF g, c
<1>14. /\ d.go => /\ Owed(base + d.visited, d)
                  /\ core.visited <= d.visited
                  /\ d.afterLeft > 0 => d.visited = shown
       /\ ~d.go => Ended(d)
  <2>1. Owed(base + core.visited, core)
    BY <1>3
  <2>2. ASSUME core.afterLeft > 0
        PROVE  /\ core.visited <= shown /\ Free(base + core.visited, base + shown)
               /\ \A m \in (base + core.visited) + 1 .. base + shown : MatchInContext(m) <=> ExceededLimit(core) /\ Success(m)
    <3>1. core.visited <= shown /\ Free(base + core.visited, base + shown)
      BY <1>1, <1>4, <1>6, <1>11
    <3>2. ASSUME NEW m \in (base + core.visited) + 1 .. base + shown
          PROVE  MatchInContext(m) <=> ExceededLimit(core) /\ Success(m)
      <4>1. m \in Nat /\ v < m /\ m <= z
        BY <1>1, <1>4, <1>6, <3>2
      <4>2. CASE ExceededLimit(core)
        <5>1. LimitReached /\ \A j \in Chosen : j <= p
          BY <1>10, <4>2
        <5>2. LastLine(Chosen) \in Chosen
          BY <1>1, <5>1, LimitFacts
        <5>3. LastLine(Chosen) \in Nat /\ LastLine(Chosen) <= v
          <6>1. PICK k \in Chosen : k = LastLine(Chosen)
            BY <5>2
          <6>2. k \in Nat /\ k <= p /\ ~(v < k /\ k <= p)
            BY <1>7, <1>9, <5>1, <6>1 DEF Free
          <6> QED BY <1>4, <6>1, <6>2
        <5>4. m > LastLine(Chosen)
          BY <4>1, <5>3
        <5> QED BY <1>1, <1>7, <4>2, <5>1, <5>4 DEF MatchInContext, Orderly
      <4>3. CASE ~ExceededLimit(core)
        <5>1. ~Success(m)
          <6>1. CASE m <= p
            BY <1>7, <2>2, <4>1, <6>1
          <6>2. CASE p < m
            BY <1>7, <4>1, <4>3, <6>2
          <6> QED BY <4>1, <6>1, <6>2
        <5> QED BY <4>3, <5>1 DEF MatchInContext
      <4> QED BY <4>2, <4>3
    <3> QED BY <3>1, <3>2
  <2>3. shown \in 0 .. shown
    BY <1>1
  <2>4. LET x == AfterContext(core, shown)
        IN /\ x.go => /\ Owed(base + x.visited, x)
                      /\ core.visited <= x.visited
                      /\ x.afterLeft > 0 => x.visited = shown
           /\ ~x.go => Ended(x)
    BY <1>1, <2>1, <2>2, <2>3, AfterShown
  <2>5. d = AfterContext(core, shown)
    BY <1>13
  <2> HIDE DEF d
  <2> QED BY <2>4, <2>5
<1>15. Sound(d) /\ d \in Cores /\ d.visited \in 0 .. shown /\ d.afterLeft \in Nat /\ d.count = core.count
  <2>1. shown \in 0 .. shown /\ (core.afterLeft > 0 => core.visited <= shown)
    BY <1>1
  <2>2. Sound(AfterContext(core, shown)) /\ Onward(core, AfterContext(core, shown))
    BY <1>1, <2>1, AfterSound
  <2>3. Sound(d) /\ Onward(core, d)
    BY <1>13, <2>2
  <2> HIDE DEF d
  <2> QED BY <1>1, <2>3 DEF Sound, Ranges, Onward
<1> HIDE DEF d
<1>16. CASE ~d.go
  <2>1. ~over /\ e = d
    BY <1>16
  <2> HIDE DEF over, e, next
  <2>2. Continue(d, next)
    BY <1>2, <2>1
  <2> QED BY <1>14, <1>16, <2>2, ContinuePlace
<1>17. CASE d.go
  <2>1. PICK w \in Nat : w = base + d.visited
    BY <1>1, <1>15
  <2>2. v <= w /\ w <= z /\ Owed(w, d) /\ (w = z \/ d.afterLeft = 0) /\ w \in 0 .. Total
    BY <1>1, <1>4, <1>6, <1>8, <1>14, <1>15, <1>17, <2>1
  <2>3. Free(w, z)
    BY <1>9, <1>11, <2>2 DEF Free
  <2>4. CASE over
    <3>1. core' = d /\ pc' = "finish"
      BY <1>2, <2>4 DEF Stop
    <3>2. d.afterLeft = 0 /\ cfg.max # None /\ core.count >= cfg.max
      BY <1>15, <2>4 DEF ExceededLimit
    <3>3. v \in 0 .. Total /\ p \in v .. Total
      BY <1>1, <1>4, <1>5, <1>7, <1>8
    <3>4. Pre(d) /\ Shown(d) = Expected
      BY <1>1, <1>7, <2>2, <3>2, <3>3, LimitShown
    <3> QED BY <3>1, <3>4, EndPlace
  <2>5. CASE ~over
    <3>1. Continue(e, next)
      BY <1>2, <2>5
    <3>2. e = [d EXCEPT !.pos = shown] /\ shown \in Int \cup {None}
      BY <1>1, <1>17
    <3> HIDE DEF e, over
    <3>3. Alike(d, e) /\ e.pos = shown /\ e.count = d.count /\ e.hasSunk = d.hasSunk
      BY <1>15, <3>2, PosAlike
    <3>4. e.go /\ e.visited = d.visited /\ e.afterLeft = d.afterLeft /\ Shown(e) = Shown(d)
      BY <1>17, <3>3 DEF Alike, Shown
    <3>5. Owed(w, e)
      BY <2>2, <3>3, <3>4, OwedAlike
    <3>6. CASE cfg.slice
      <4>1. next = "finish" /\ z = Total
        BY <1>7, <3>6 DEF NextBuffer
      <4>2. Pre(e) /\ Shown(e) = Expected
        BY <1>1, <1>7, <2>2, <2>3, <3>4, <3>5, <4>1, LastShown
      <4>3. core' = e /\ pc' = "finish"
        BY <3>1, <3>4, <4>1 DEF Continue
      <4> QED BY <4>2, <4>3, EndPlace
    <3>7. CASE ~cfg.slice
      <4>1. next = "fill"
        BY <3>7 DEF NextBuffer
      <4>2. base + e.visited = w /\ base + e.pos = z
        BY <1>6, <2>1, <3>3, <3>4
      <4>3. \A j \in z + 1 .. z : FALSE
        BY <1>6
      <4>4. Walk(base, shown, "fill", e)
        BY <1>7, <1>12, <1>15, <2>2, <2>3, <3>3, <3>4, <3>7, <4>2, <4>3 DEF Walk
      <4>5. core' = e /\ pc' = "fill" /\ UNCHANGED <<base, shown>>
        BY <3>1, <3>4, <4>1 DEF Continue
      <4> QED BY <3>4, <3>5, <4>2, <4>4, <4>5 DEF Place, Walking
    <3> QED BY <3>6, <3>7
  <2> QED BY <2>4, <2>5
<1> QED BY <1>16, <1>17

LEMMA RollKeeps ==
    ASSUME State, NEW c, Sound(c), NEW n \in 0 .. shown
    PROVE  Roll(c, n).count = c.count /\ Roll(c, n).hasSunk = c.hasSunk
<1> DEFINE d == CountLines(c, n)
           r == Roll(c, n)
<1>1. d \in Cores /\ d.count = c.count /\ d.hasSunk = c.hasSunk
  BY CountSound DEF Kept
<1>2. r = [d EXCEPT !.offset = @ + n, !.counted = 0, !.visited = 0, !.pos = shown - n]
  BY DEF Roll
<1> HIDE DEF d, r
<1>3. r.count = d.count /\ r.hasSunk = d.hasSunk
  BY <1>1, <1>2 DEF Cores
<1> QED BY <1>1, <1>3 DEF r

\* A fill reports no line, and may announce binary data.
LEMMA FilledShown ==
    ASSUME State, Sound(core), core.go, NEW more \in Nat, NEW n \in core.visited .. shown, Filled(n, more)
    PROVE  /\ core' \in Cores /\ core'.visited = 0 /\ core'.pos = shown - n
           /\ core'.afterLeft = core.afterLeft /\ core'.hasSunk = core.hasSunk /\ core'.count = core.count
           /\ Shown(core') = Shown(core)
           /\ ~core'.go => Hindered(core')
           /\ core'.binaryAt # None => core.binaryAt # None \/ file.binary # {}
<1> DEFINE newBinary == {i \in file.binary : i > base + shown /\ i <= base + shown + more}
           found == ReaderBinary /\ core.binaryAt = None /\ newBinary # {}
           first == CHOOSE i \in newBinary : \A j \in newBinary : i <= j
           r == Roll(core, n)
           x == [kind |-> "binary", line |-> first]
           b == [r EXCEPT !.binaryAt = first]
<1>1. Given /\ n \in 0 .. shown /\ file.binary \subseteq 1 .. Total /\ Total \in Nat
  BY Facts DEF State, Sound, Ranges
<1>2. /\ r \in Cores /\ r.visited = 0 /\ r.pos = shown - n
      /\ r.calls = core.calls /\ r.go = core.go /\ r.binaryAt = core.binaryAt /\ r.afterLeft = core.afterLeft
  BY RollFields
<1>3. r.count = core.count /\ r.hasSunk = core.hasSunk
  BY <1>1, RollKeeps
<1>4. core' = IF found THEN Tell(b, x) ELSE r
  BY DEF Filled
<1> HIDE DEF r
<1>5. Shown(r) = Shown(core)
  BY <1>2 DEF Shown
<1>6. CASE ~found
  <2>1. core' = r
    BY <1>4, <1>6
  <2>2. \A c : c = r => /\ c \in Cores /\ c.visited = 0 /\ c.pos = shown - n
                        /\ c.afterLeft = core.afterLeft /\ c.hasSunk = core.hasSunk /\ c.count = core.count
                        /\ Shown(c) = Shown(core)
                        /\ ~c.go => Hindered(c)
                        /\ c.binaryAt # None => core.binaryAt # None \/ file.binary # {}
    BY <1>2, <1>3, <1>5
  <2> QED BY <2>1, <2>2
<1>7. CASE found
  <2>1. newBinary \in SUBSET Nat /\ newBinary # {} /\ newBinary \subseteq file.binary
    BY <1>1, <1>7
  <2> HIDE DEF newBinary
  <2>2. first \in newBinary
    <3>1. \E i \in newBinary : \A j \in newBinary : i <= j
      BY <2>1, LeastNat
    <3> QED BY <3>1, Zenon
  <2> HIDE DEF first
  <2>3. first \in Int /\ file.binary # {}
    BY <2>1, <2>2
  <2>4. x \in SinkCalls /\ ~OfLines(x)
    BY <2>3 DEF Marks, SinkCalls, LineKinds, OfLines
  <2> HIDE DEF x
  <2>5. /\ b \in Cores /\ b.visited = r.visited /\ b.pos = r.pos /\ b.calls = r.calls /\ b.go = r.go /\ b.afterLeft = r.afterLeft
        /\ b.hasSunk = r.hasSunk /\ b.count = r.count
    BY <1>2, <2>3 DEF Cores
  <2> HIDE DEF b
  <2> DEFINE t == Tell(b, x)
  <2>6. Told(b, t, x) /\ Shown(t) = Shown(b) /\ (~t.go => Hindered(t))
    BY <1>1, <2>4, <2>5, TellShown, HaltedHinders
  <2> HIDE DEF t
  <2>7. Shown(b) = Shown(core)
    BY <1>2, <2>5 DEF Shown
  <2>8. core' = t
    BY <1>4, <1>7 DEF t
  <2>9. \A c : c = t => /\ c \in Cores /\ c.visited = 0 /\ c.pos = shown - n
                        /\ c.afterLeft = core.afterLeft /\ c.hasSunk = core.hasSunk /\ c.count = core.count
                        /\ Shown(c) = Shown(core)
                        /\ ~c.go => Hindered(c)
    BY <1>2, <1>3, <2>5, <2>6, <2>7 DEF Told
  <2> QED BY <2>3, <2>8, <2>9
<1> QED BY <1>6, <1>7

\* The lines that are rolled away, and the one behind them, are not due, and
\* they are not kept if the context of a match may need them.
LEMMA RolledQuiet ==
    ASSUME Here, pc = "fill", NEW n \in Nat, n = Rolled(core), NEW d,
           Shown(d) = Shown(core), d.hasSunk = core.hasSunk, d.afterLeft = core.afterLeft
    PROVE  Owed(base + n, d) /\ core.visited <= n /\ n <= shown /\ Free(base + n, base + shown)
<1>1. /\ Given /\ State /\ Orderly /\ Sound(core) /\ core \in Cores /\ core.go /\ base \in Nat /\ shown \in Nat
      /\ core.visited \in 0 .. shown /\ core.pos \in 0 .. shown /\ core.visited <= core.pos
      /\ base + shown <= Total /\ Total \in Nat /\ core.afterLeft \in 0 .. cfg.after /\ cfg.after \in Nat /\ core.count \in Int
      /\ Chosen \in SUBSET (1 .. Total)
  BY HereFacts
<1>2. Owed(base + core.visited, core) /\ Walk(base, shown, "fill", core) /\ core.pos = shown
  BY DEF Here
<1>3. PICK v \in Nat : v = base + core.visited
  BY <1>1
<1>4. PICK z \in Nat : z = base + shown
  BY <1>1
<1>5. PICK w \in Nat : w = base + n
  BY <1>1
<1>6. Free(v, z) /\ (core.afterLeft = 0 \/ v = z) /\ (cfg.passthru => v = z) /\ Owed(v, core) /\ z <= Total /\ v <= z
  BY <1>1, <1>2, <1>3, <1>4 DEF Walk
<1>7. core.visited <= n /\ n <= shown /\ n \in core.visited .. shown
  BY <1>1, RolledBounds
<1>8. v <= w /\ w <= z
  BY <1>1, <1>3, <1>4, <1>5, <1>7
<1>9. Free(w, z)
  BY <1>1, <1>8, <1>6 DEF Free
<1>10. Owed(v, d)
  BY <1>6, OwedAlike
<1>11. CASE w = v
  BY <1>3, <1>4, <1>5, <1>7, <1>9, <1>10, <1>11
<1>12. CASE v < w
  <2>1. core.afterLeft = 0 /\ ~cfg.passthru /\ AfterIs(v, 0)
    BY <1>6, <1>8, <1>12 DEF Owed
  <2>2. cfg.before \in Nat /\ cfg.after \in Nat
    BY <1>1, ChosenFacts
  <2>3. IF cfg.before + cfg.after = 0 THEN w = z ELSE w + (cfg.before + 1) = z
    <3>1. n # core.visited
      BY <1>1, <1>3, <1>5, <1>12
    <3>2. IF cfg.before + cfg.after = 0 THEN n = shown ELSE n = shown - (cfg.before + 1)
      BY <3>1 DEF Rolled
    <3> QED BY <1>1, <1>4, <1>5, <2>2, <3>2
  <2>4. ASSUME NEW k \in Nat, v < k, k + cfg.before <= z PROVE k \notin Due
    <3>1. k <= z
      BY <2>2, <2>4
    <3>2. Free(v, k)
      BY <1>1, <1>6, <3>1 DEF Free
    <3>3. ASSUME NEW j \in Chosen, k < j PROVE k + cfg.before < j
      <4>1. j \in Nat /\ ~(v < j /\ j <= z)
        BY <1>1, <1>6 DEF Free
      <4> QED BY <2>2, <2>4, <3>3, <4>1
    <3> QED BY <1>1, <2>1, <2>4, <3>2, <3>3, NotDue
  <2>5. \A k \in v + 1 .. w : k \notin Due
    <3>1. \A k \in v + 1 .. w : k \in Nat /\ v < k /\ k + cfg.before <= z
      BY <2>2, <2>3
    <3> QED BY <2>4, <3>1
  <2>6. cfg.before + cfg.after > 0 => w + 1 \notin Due
    <3>1. cfg.before + cfg.after > 0 => (w + 1) + cfg.before <= z /\ w + 1 \in Nat /\ v < w + 1
      BY <1>8, <2>2, <2>3
    <3> QED BY <2>4, <3>1
  <2>7. Listed[w] = Listed[v]
    BY <1>1, <1>6, <1>8, <2>5, Quiet
  <2>8. (\E j \in Due : j <= v) <=> (\E j \in Due : j <= w)
    <3>1. Due \subseteq Nat
      BY <1>1 DEF Due
    <3> QED BY <1>8, <2>5, <3>1
  <2>9. AfterIs(w, 0)
    <3>1. Free(v, w)
      BY <1>1, <1>6, <1>8 DEF Free
    <3> QED BY <1>1, <1>8, <2>1, <3>1, AfterNone
  <2>10. Shown(d) = Listed[v] /\ (d.hasSunk <=> \E j \in Due : j <= v) /\ d.afterLeft = 0
    BY <1>10, <2>1 DEF Owed
  <2>11. Owed(w, d)
    BY <2>6, <2>7, <2>8, <2>9, <2>10 DEF Owed
  <2> QED BY <1>4, <1>5, <1>7, <1>9, <2>11
<1> QED BY <1>8, <1>11, <1>12

\* A fill: lines are rolled away, others come, or the search is over.
LEMMA FillShown == ASSUME Here, NEW more \in 0 .. Total, Fill(more) PROVE Place(base', shown', pc', core')
<1> DEFINE m == Rolled(core)
           left == shown - m
           exhausted == \/ left + more = 0
                        \/ core'.binaryAt # None /\ cfg.binary = "quit"
                        \/ ~core'.go
           leftover == ~exhausted /\ Leftover(m, more)
<1>1. /\ Given /\ State /\ Orderly /\ Sound(core) /\ core \in Cores /\ core.go /\ base \in Nat /\ shown \in Nat
      /\ core.visited \in 0 .. shown /\ core.pos \in 0 .. shown /\ core.visited <= core.pos
      /\ base + shown <= Total /\ Total \in Nat /\ core.afterLeft \in 0 .. cfg.after /\ cfg.after \in Nat /\ core.count \in Int
      /\ Chosen \in SUBSET (1 .. Total)
  BY HereFacts
<1>2. pc = "fill" /\ core.pos = shown /\ ~cfg.slice /\ Walk(base, shown, "fill", core)
  BY DEF Fill, Here
<1>3. /\ more = 0 => base + shown = Readable
      /\ base' = base + m + (IF leftover THEN left ELSE 0)
      /\ shown' = left + more - (IF leftover THEN left ELSE 0)
      /\ pc' = IF exhausted \/ leftover THEN "finish" ELSE MatchByLine(core')
  BY DEF Fill
<1>4. Filled(m, more)
  BY DEF Fill, Filled
<1>5. m \in core.visited .. shown /\ more \in Nat
  BY <1>1, RolledBounds
<1>6. PICK n \in Nat : n = m
  BY <1>1, <1>5
<1>7. /\ core' \in Cores /\ core'.visited = 0 /\ core'.pos = shown - n
      /\ core'.afterLeft = core.afterLeft /\ core'.hasSunk = core.hasSunk /\ core'.count = core.count
      /\ Shown(core') = Shown(core)
      /\ ~core'.go => Hindered(core')
      /\ core'.binaryAt # None => core.binaryAt # None \/ file.binary # {}
  BY <1>1, <1>4, <1>5, <1>6, FilledShown
<1> DEFINE w == base + n
           z == base + shown
<1>8. Owed(w, core') /\ core.visited <= n /\ n <= shown /\ Free(w, z)
  <2>1. n = Rolled(core)
    BY <1>6
  <2>2. \A d : Shown(d) = Shown(core) /\ d.hasSunk = core.hasSunk /\ d.afterLeft = core.afterLeft =>
                 Owed(base + n, d) /\ core.visited <= n /\ n <= shown /\ Free(base + n, base + shown)
    BY <1>2, <2>1, RolledQuiet
  <2> QED BY <1>7, <2>2
<1>9. left = shown - n /\ left \in Nat /\ w \in 0 .. Total /\ w \in Nat /\ z \in Nat /\ w <= z
  BY <1>1, <1>6, <1>8
<1>10. /\ core.afterLeft = 0 \/ w = z
       /\ cfg.passthru => w = z
       /\ Counted(z, core.count)
  <2>1. (core.afterLeft = 0 \/ base + core.visited = z) /\ (cfg.passthru => base + core.visited = z) /\ Counted(z, core.count)
    BY <1>2 DEF Walk
  <2>2. base + core.visited = z => w = z
    BY <1>1, <1>8
  <2> QED BY <2>1, <2>2
<1>11. core.binaryAt # None => Quits \/ cfg.binary # "quit"
  BY <1>1, <1>2 DEF Sound, Announces
<1> HIDE DEF m, left
<1>12. CASE exhausted \/ leftover
  <2>1. Pre(core')
    <3>1. \A d : Shown(d) = Listed[w] => Pre(d)
      BY <1>1, <1>9, OwedPre
    <3> QED BY <1>8, <3>1 DEF Owed
  <2>2. more = 0 \/ Hindered(core')
    <3>1. CASE left + more = 0
      BY <1>5, <1>9, <3>1
    <3>2. CASE core'.binaryAt # None /\ cfg.binary = "quit"
      BY <1>7, <1>11, <3>2 DEF Quits, Hindered
    <3>3. CASE ~core'.go
      BY <1>7, <3>3
    <3>4. CASE leftover
      BY <3>4 DEF Leftover
    <3> QED BY <1>12, <3>1, <3>2, <3>3, <3>4
  <2>3. ASSUME more = 0, ~Quits PROVE Shown(core') = Expected
    <3>1. z = Total
      BY <1>3, <2>3 DEF Readable, Quits
    <3>2. w = Total \/ (core'.afterLeft = 0 /\ ~cfg.passthru)
      BY <1>7, <1>10, <3>1
    <3>3. \A d : Owed(w, d) /\ d.afterLeft = core'.afterLeft => Shown(d) = Expected
      BY <1>1, <1>8, <1>9, <3>1, <3>2, LastShown
    <3> QED BY <1>8, <3>3
  <2>4. Hindered(core') \/ Shown(core') = Expected
    BY <2>2, <2>3 DEF Hindered
  <2>5. pc' = "finish"
    BY <1>3, <1>12
  <2>6. \A b, s, c : Ended(c) \/ (Pre(c) /\ Shown(c) = Expected) => Place(b, s, "finish", c)
    BY EndPlace
  <2> QED BY <2>1, <2>4, <2>5, <2>6 DEF Ended
<1>13. CASE ~(exhausted \/ leftover)
  <2>1. base' = w /\ shown' = shown - n + more /\ pc' = MatchByLine(core') /\ core'.go
    BY <1>1, <1>3, <1>5, <1>6, <1>9, <1>13
  <2>2. pc' \in {"slow", "fast"}
    BY <2>1 DEF MatchByLine
  <2>3. pc' = "slow" => ~cfg.fast \/ cfg.passthru
    BY <1>1, <2>1, ChosenFacts DEF MatchByLine, IsFast, Orderly
  <2>4. pc' = "fast" => cfg.fast /\ ~cfg.passthru
    BY <2>1 DEF MatchByLine, IsFast
  <2>5. base' + core'.visited = w /\ base' + core'.pos = z
    BY <1>1, <1>7, <1>8, <1>9, <2>1
  <2>6. core'.afterLeft > 0 => \A j \in w + 1 .. z : ~Success(j)
    BY <1>1, <1>7, <1>9, <1>10
  <2> HIDE DEF w, z
  <2>7. \A b, s, q, c : /\ b + c.visited = w /\ b + c.pos = z /\ c.count = core.count /\ c.afterLeft = core.afterLeft
                        /\ c.afterLeft > 0 => \A j \in w + 1 .. z : ~Success(j)
                        /\ q \in {"slow", "fast"}
                        /\ q = "slow" => ~cfg.fast \/ cfg.passthru
                        /\ q = "fast" => cfg.fast /\ ~cfg.passthru
                        /\ c.go /\ Owed(w, c)
                        => Place(b, s, q, c)
    BY <1>2, <1>8, <1>9, <1>10 DEF Place, Walk, Walking
  <2> QED BY <1>7, <1>8, <2>1, <2>2, <2>3, <2>4, <2>5, <2>6, <2>7
<1> QED BY <1>12, <1>13

\* Every step keeps the invariant.
LEMMA NextShown == IInv /\ RInv /\ [Next]_vars => RInv'
<1> SUFFICES ASSUME IInv, RInv, [Next]_vars PROVE RInv'
  OBVIOUS
<1>1. UNCHANGED <<file, cfg, stopAnswer>>
  BY DEF Next, vars, Begin, Fill, FillFails, SlowLine, SlowEnd, FastToSlow, FastMatch, FastInvert, FastLoopEnds, FastEnd, Finish
<1> SUFFICES ASSUME Orderly PROVE Place(base', shown', pc', core')
  BY <1>1, RInvPrimed
<1>2. pc \in Walking => Here
  BY HereOf
<1>3. CASE Begin
  <2>1. Here
    BY <1>2, <1>3 DEF Begin, Walking
  <2> QED BY <1>3, <2>1, BeginShown
<1>4. ASSUME NEW more \in 0 .. Total, Fill(more) PROVE Place(base', shown', pc', core')
  <2>1. Here
    BY <1>2, <1>4 DEF Fill, Walking
  <2> QED BY <1>4, <2>1, FillShown
<1>5. CASE FillFails
  <2>1. Here
    BY <1>2, <1>5 DEF FillFails, Walking
  <2> QED BY <1>5, <2>1, FillFailsShown
<1>6. CASE SlowLine
  <2>1. Here
    BY <1>2, <1>6 DEF SlowLine, Walking
  <2> QED BY <1>6, <2>1, SlowLineShown
<1>7. CASE SlowEnd
  <2>1. Here
    BY <1>2, <1>7 DEF SlowEnd, Walking
  <2> QED BY <1>7, <2>1, SlowEndShown
<1>8. CASE FastToSlow \/ FastLoopEnds
  <2>1. Here
    BY <1>2, <1>8 DEF FastToSlow, FastLoopEnds, Walking
  <2> QED BY <1>8, <2>1, FastMoveShown
<1>9. CASE FastMatch
  <2>1. Here
    BY <1>2, <1>9 DEF FastMatch, Walking
  <2> QED BY <1>9, <2>1, FastMatchShown
<1>10. CASE FastInvert
  <2>1. Here
    BY <1>2, <1>10 DEF FastInvert, Walking
  <2> QED BY <1>10, <2>1, FastInvertShown
<1>11. CASE FastEnd
  <2>1. Here
    BY <1>2, <1>11 DEF FastEnd, Walking
  <2> QED BY <1>11, <2>1, FastEndShown
<1>12. CASE Finish
  BY <1>12, FinishShown
<1>13. CASE UNCHANGED vars
  <2>1. UNCHANGED <<base, shown, pc, core>>
    BY <1>13 DEF vars
  <2>2. Place(base, shown, pc, core)
    BY DEF RInv
  <2> QED BY <2>1, <2>2
<1> QED BY <1>3, <1>4, <1>5, <1>6, <1>7, <1>8, <1>9, <1>10, <1>11, <1>12, <1>13 DEF Next

\* Whatever the chunks of the reader and the path through the core, what was
\* reported is a prefix of the report, and is all of it when a search is done
\* that nothing has stopped (match_by_line and all it calls).
THEOREM LineReports == Spec => [](Orderly => ReportsExpected)
<1>1. Init => IInv /\ RInv
  BY InitInv, InitShown
<1>2. IInv /\ RInv /\ [Next]_vars => (IInv /\ RInv)'
  BY NextInv, NextShown
<1>3. IInv /\ RInv => (Orderly => ReportsExpected)
  <2> SUFFICES ASSUME IInv, RInv, Orderly PROVE ReportsExpected
    OBVIOUS
  <2>1. Numbered
    <3> SUFFICES ASSUME Obeyed PROVE NumbersMatch(core.calls)
      BY DEF Numbered, NumbersMatch
    <3>1. CASE Loop
      BY <3>1 DEF IInv, Running, Sound, Numbers
    <3>2. CASE ~Loop
      BY <3>2 DEF IInv, Over
    <3> QED BY <3>1, <3>2
  <2>2. Reported = Shown(core)
    BY DEF Reported, Shown
  <2>3. pc \in Walking \cup {"finish", "done", "failed"}
    BY DEF IInv, Over, Loop, Walking
  <2>4. Pre(core)
    <3>1. CASE pc \in Walking
      <4>1. Here
        BY <3>1, HereOf
      <4>2. Given /\ base + core.visited \in 0 .. Total
        BY <4>1, HereFacts
      <4>3. Owed(base + core.visited, core)
        BY <4>1 DEF Here
      <4> QED BY <4>2, <4>3, OwedPre DEF Owed
    <3>2. CASE pc \notin Walking
      BY <2>3, <3>2 DEF RInv, Place
    <3> QED BY <3>1, <3>2
  <2>5. ASSUME pc = "done", Uninterrupted PROVE Shown(core) = Expected
    <3>1. Hindered(core) \/ Shown(core) = Expected
      BY <2>5 DEF RInv, Place
    <3>2. core \in Cores /\ stopAnswer \in Nat
      BY <2>5, Facts DEF IInv, Over, Loop
    <3>3. Len(core.calls) \in Nat
      BY <3>2, CoreTypes
    <3>4. ~Hindered(core)
      BY <2>5, <3>2, <3>3 DEF Uninterrupted, Hindered, Quits
    <3> QED BY <3>1, <3>4
  <2> QED BY <2>1, <2>2, <2>4, <2>5 DEF ReportsExpected, Pre
<1> QED BY <1>1, <1>2, <1>3, PTL DEF Spec
=============================================================================
