------------------------- MODULE SerialWalk_proofs --------------------------
(***************************************************************************)
(* The serial walk, for every file system and every choice of options:     *)
(* sort_children sorts, the frames on the stack are nested and follow no   *)
(* link in a circle, results come once each, in the order of the tree, and *)
(* they are exactly what file system, rules, options and the calls that    *)
(* fail call for.                                                          *)
(***************************************************************************)
EXTENDS SerialWalk, SequenceTheorems, NaturalsInduction, WellFoundedInduction, FiniteSetTheorems, TLAPS

-----------------------------------------------------------------------------
(***************************************************************************)
(* Induction and recursion over an interval of the integers, for functions *)
(* that model a loop of the code: the induction is stated with a set, or   *)
(* with a family of sets, and no operator, so that it can be cited.        *)
(***************************************************************************)

\* Induction, with the set of the numbers that have the property.
LEMMA SetInduction ==
    ASSUME NEW S, 0 \in S, \A n \in Nat : n \in S => n + 1 \in S
    PROVE  Nat \subseteq S
<1> DEFINE T == Nat \ S
<1> SUFFICES ASSUME T # {} PROVE FALSE
  OBVIOUS
<1>1. OpToRel(<, Nat) = {p \in Nat \X Nat : p[1] < p[2]}
  BY Zenon DEF OpToRel
<1>2. PICK x \in T : \A y \in T : ~(<<y, x>> \in OpToRel(<, Nat))
  BY NatLessThanWellFounded, WFMin, T \subseteq Nat, Zenon
<1>3. \A y \in T : ~(y < x)
  BY <1>2, <1>1
<1>4. x # 0 /\ x - 1 \in Nat /\ x - 1 \notin T
  BY <1>3
<1> QED
  BY <1>4

\* What holds before a loop and is kept by each turn holds after every turn.
LEMMA Along ==
    ASSUME NEW a \in Int, NEW b \in Int, a <= b,
           NEW f, NEW X, f[a] \in X[a],
           \A i \in a + 1 .. b : f[i - 1] \in X[i - 1] => f[i] \in X[i]
    PROVE  \A i \in a .. b : f[i] \in X[i]
<1> DEFINE S == {n \in Nat : a + n <= b => f[a + n] \in X[a + n]}
<1>1. 0 \in S
  BY a + 0 = a
<1>2. ASSUME NEW n \in Nat, n \in S PROVE n + 1 \in S
  <2> SUFFICES ASSUME a + (n + 1) <= b PROVE f[a + (n + 1)] \in X[a + (n + 1)]
    OBVIOUS
  <2> DEFINE i == a + (n + 1)
  <2>1. i \in a + 1 .. b /\ i - 1 = a + n /\ a + n <= b
    OBVIOUS
  <2> HIDE DEF i
  <2>2. f[i - 1] \in X[i - 1]
    BY <1>2, <2>1
  <2>3. f[i] \in X[i]
    BY <2>1, <2>2
  <2> QED BY <2>3 DEF i
<1> HIDE DEF S
<1>3. Nat \subseteq S
  BY <1>1, <1>2, SetInduction
<1>4. ASSUME NEW i \in a .. b PROVE f[i] \in X[i]
  <2>1. i - a \in Nat /\ a + (i - a) = i
    OBVIOUS
  <2>2. i - a \in S
    BY <1>3, <2>1
  <2> QED BY <2>1, <2>2 DEF S
<1> QED
  BY <1>4

\* g[i] is what turn i of a loop over a + 1 .. b makes of g[i - 1].
IsLoop(g, a, b, D, c, F) ==
    g \in [a .. b -> D] /\ g[a] = c /\ \A i \in a + 1 .. b : g[i] = F[<<i, g[i - 1]>>]

\* A loop has a result: the recursive function that models it is defined.
LEMMA Recursion ==
    ASSUME NEW a \in Int, NEW b \in Int, a <= b,
           NEW D, NEW c \in D, NEW F, \A i \in a + 1 .. b, d \in D : F[<<i, d>>] \in D
    PROVE  \E g : IsLoop(g, a, b, D, c, F)
<1> DEFINE Good(m, g) == g[a] = c /\ \A i \in a + 1 .. a + m : g[i] = F[<<i, g[i - 1]>>]
           S == {m \in Nat : a + m <= b => \E g \in [a .. a + m -> D] : Good(m, g)}
<1>1. 0 \in S
  <2> DEFINE g == [i \in a .. a + 0 |-> c]
  <2>1. g \in [a .. a + 0 -> D] /\ Good(0, g)
    OBVIOUS
  <2> QED BY <2>1
<1>2. ASSUME NEW m \in Nat, m \in S PROVE m + 1 \in S
  <2> SUFFICES ASSUME a + (m + 1) <= b PROVE \E g \in [a .. a + (m + 1) -> D] : Good(m + 1, g)
    OBVIOUS
  <2>1. PICK g \in [a .. a + m -> D] : Good(m, g)
    BY <1>2
  <2> DEFINE h == [i \in a .. a + (m + 1) |-> IF i = a + (m + 1) THEN F[<<i, g[i - 1]>>] ELSE g[i]]
  <2>2. h \in [a .. a + (m + 1) -> D] /\ h[a] = c
    BY <2>1
  <2>3. \A i \in a + 1 .. a + (m + 1) : h[i] = F[<<i, h[i - 1]>>]
    BY <2>1
  <2> HIDE DEF h
  <2> QED BY <2>2, <2>3
<1> HIDE DEF S, Good
<1>3. PICK m \in Nat : m \in S /\ a + m = b /\ m = b - a
  <2>1. b - a \in Nat /\ a + (b - a) = b
    OBVIOUS
  <2>2. b - a \in S
    BY <1>1, <1>2, <2>1, SetInduction
  <2> QED BY <2>1, <2>2
<1>4. \E g \in [a .. a + m -> D] : Good(m, g)
  <2>1. a + m <= b
    BY <1>3
  <2> QED BY <2>1, <1>3 DEF S
<1>5. PICK g \in [a .. b -> D] : Good(m, g)
  BY <1>3, <1>4
<1>6. IsLoop(g, a, b, D, c, F)
  BY <1>3, <1>5 DEF IsLoop, Good
<1> QED
  BY <1>6

\* A sequence with one more element.
LEMMA AppendOne ==
    ASSUME NEW S, NEW s \in Seq(S), NEW u \in S
    PROVE  /\ Append(s, u) \in Seq(S) /\ Len(Append(s, u)) = Len(s) + 1
           /\ Append(s, u)[Len(s) + 1] = u /\ \A i \in 1 .. Len(s) : Append(s, u)[i] = s[i]
  OBVIOUS

-----------------------------------------------------------------------------
\* The inductive invariant.

Nodes == [dir : Obj \cup {Nowhere}, hasGit : BOOLEAN, above : BOOLEAN]
Frames == [path : Seq(Obj), ig : Seq(Nodes), children : Seq(Obj), next : Nat \ {0}]
Whats == {"entry", "parents", "device", "lost", "broken", "unopened", "loop", "undecided", "unreadable"}
ResultSet == [what : Whats, root : Nat, path : Seq(Obj \cup {Stdin})]

\* What the walk is given, and does not change.
Given ==
    /\ fs.kind \in [Obj -> {"dir", "file", "link", "missing"}]
    /\ fs.parent \in [Obj -> Obj \cup {Nowhere}]
    /\ \A o \in Obj : fs.kind[o] = "link" => fs.target[o] \in Obj /\ fs.kind[fs.target[o]] # "link"
    /\ opt.roots \in Seq(Obj \cup {Stdin})
    /\ opt.sort \in {"none", "up", "down"}
    /\ {opt.follow, opt.oneDevice, opt.parents, opt.requireGit, opt.skipHidden} \subseteq BOOLEAN
    /\ opt.min \in Nat /\ opt.max \in Nat

Types ==
    /\ rootIndex \in 0 .. Len(opt.roots)
    /\ stack \in Seq(Frames)
    /\ pending \in Seq(ResultSet) /\ Len(pending) <= 3
    /\ delivered \in Seq(ResultSet)

\* Children that are sorted, if they are to be.
Sorted(s) == opt.sort # "none" => \A i, j \in DOMAIN s : i < j => Before(s[i], s[j])

\* A frame is one of the directory its path ends in; the nodes of its chain
\* that belong to the walk are those of the directories on its path.
FrameHolds(frame, k) ==
    /\ Len(frame.path) = k
    /\ frame.path[1] = opt.roots[rootIndex]
    /\ frame.next <= Len(frame.children) + 1
    /\ frame.ig # <<>> /\ frame.ig[1].dir = Real(frame.path[k])
    /\ \A o \in Obj : SymlinkLoop(frame.ig, o) <=> \E i \in 1 .. k : o = Real(frame.path[i])
    /\ Range(frame.children) = Children(Real(frame.path[k]))
    /\ IsInjective(frame.children) /\ Sorted(frame.children)

FramesHold ==
    /\ stack # <<>> => rootIndex > 0
    /\ \A k \in DOMAIN stack : FrameHolds(stack[k], k)

\* Each frame is that of the child its parent has come to.
Nested ==
    \A k \in 2 .. Len(stack) :
        /\ stack[k - 1].next > 1
        /\ stack[k].path = Append(stack[k - 1].path, stack[k - 1].children[stack[k - 1].next - 1])

\* Paths agree as far as the shorter one goes.
PathPrefix(p, q) == Len(p) <= Len(q) /\ \A i \in 1 .. Len(p) : p[i] = q[i]
Prefixed == \A j, k \in DOMAIN stack : j <= k => PathPrefix(stack[j].path, stack[k].path)

Acyclic ==
    \A k \in DOMAIN stack : \A i \in 1 .. k - 1 :
        fs.kind[stack[k].path[k]] = "link" => Real(stack[k].path[k]) # Real(stack[k].path[i])

\* Everything the walk found so far, in order.
Results == delivered \o pending

RootsKnown == \A i \in DOMAIN Results : Results[i].root \in 1 .. rootIndex

\* A result of the path that is walked lies at a frame, or below a child that
\* this frame has come to; a frame below it is that of the last such child.
PlacedAt(r, m) ==
    /\ PathPrefix(stack[m].path, r.path)
    /\ \/ Len(r.path) = m
       \/ \E i \in 1 .. stack[m].next - 1 :
            /\ Len(r.path) > m /\ r.path[m + 1] = stack[m].children[i]
            /\ m < Len(stack) => i < stack[m].next - 1
Placed ==
    stack # <<>> =>
        \A i \in DOMAIN Results : Results[i].root = rootIndex => \E m \in DOMAIN stack : PlacedAt(Results[i], m)

\* From the first result in a frame's directory on, all are in it.
Inside ==
    \A k \in DOMAIN stack : \A i, j \in DOMAIN Results :
        (i < j /\ Results[i].root = rootIndex /\ PathPrefix(stack[k].path, Results[i].path)) =>
            PathPrefix(stack[k].path, Results[j].path)

Agree(p, q, n) == n <= Len(p) /\ n <= Len(q) /\ \A i \in 1 .. n : p[i] = q[i]

\* What comes between two results of a directory is in the directory.
TogetherIn(w) ==
    \A i, j, k \in DOMAIN w :
        (i < j /\ j < k /\ w[i].root = w[k].root) =>
            \A n \in Nat : Agree(w[i].path, w[k].path, n) => Agree(w[i].path, w[j].path, n)
Together == TogetherIn(Results)

\* Earlier, place by place.
PathComes(p, q) ==
    \/ PathPrefix(p, q)
    \/ \E n \in DOMAIN p \cap DOMAIN q :
            /\ Agree(p, q, n - 1)
            /\ p[n] # q[n]
            /\ opt.sort # "none" => Before(p[n], q[n])
Comes(a, b) == a.root < b.root \/ (a.root = b.root /\ PathComes(a.path, b.path))
OrderedIn(w) == \A i, j \in DOMAIN w : i < j => Comes(w[i], w[j])
Ordered == OrderedIn(Results)

\* A result differs from all others.
Once == IsInjective(Results)

IInv == Given /\ Types /\ FramesHold /\ Nested /\ Prefixed /\ Acyclic
        /\ RootsKnown /\ Placed /\ Inside /\ Together /\ Ordered /\ Once

-----------------------------------------------------------------------------
\* sort_children.

\* One exchange rearranges.
LEMMA ExchangeRearranges ==
    ASSUME NEW n \in Nat, NEW s \in [1 .. n -> Obj], IsInjective(s), NEW i \in 1 .. n, NEW j \in 1 .. n
    PROVE  LET t == Exchange(s, i, j)
           IN t \in [1 .. n -> Obj] /\ Range(t) = Range(s) /\ IsInjective(t)
<1> DEFINE t == Swap(s, i, j)
<1>1. t \in [1 .. n -> Obj] /\ t[i] = s[j] /\ t[j] = s[i] /\ \A k \in 1 .. n : k # i /\ k # j => t[k] = s[k]
  BY DEF Swap
<1> HIDE DEF t
<1>2. Range(t) = Range(s)
  BY <1>1 DEF Range
<1>3. IsInjective(t)
  BY <1>1 DEF IsInjective
<1> QED
  BY <1>1, <1>2, <1>3 DEF Exchange, t

\* Names are in one order or the other.
LEMMA BeforeOrders ==
    ASSUME opt.sort \in {"up", "down"}
    PROVE  /\ \A a, b \in Nat : a = b \/ Before(a, b) \/ Before(b, a)
           /\ \A a, b, c \in Nat : Before(a, b) /\ Before(b, c) => Before(a, c)
BY DEF Before

\* The first i places hold what belongs there.
Settled(s, i, n) == \A a \in 1 .. i, b \in 1 .. n : a < b => Before(s[a], s[b])

\* The inner loop: what belongs first of the rest comes to its place, and the
\* places before it stay.
LEMMA FillPlaceFills ==
    ASSUME Obj \subseteq Nat, opt.sort \in {"up", "down"},
           NEW n \in Nat, NEW s \in [1 .. n -> Obj], IsInjective(s), NEW i \in 1 .. n
    PROVE  LET t == FillPlace(s, i)
           IN /\ t \in [1 .. n -> Obj] /\ Range(t) = Range(s) /\ IsInjective(t)
              /\ Settled(s, i - 1, n) => Settled(t, i, n)
<1>0. i \in Int /\ n \in Int /\ i <= n /\ i \in i .. n /\ n \in i .. n
  OBVIOUS
<1> DEFINE Turns(f) == [j \in i .. n |-> IF j = i THEN s ELSE Exchange(f[j - 1], i, j)]
           tried == CHOOSE f : f = Turns(f)
           D == {t \in [1 .. n -> Obj] : Range(t) = Range(s) /\ IsInjective(t)}
           F == [p \in (i + 1 .. n) \X D |-> Exchange(p[2], i, p[1])]
           X == [j \in i .. n |->
                    {t \in D : Settled(s, i - 1, n) =>
                                /\ Settled(t, i - 1, n)
                                /\ \A b \in i + 1 .. j : Before(t[i], t[b])}]
<1>1. s \in D /\ \A j \in i + 1 .. n, t \in D : F[<<j, t>>] = Exchange(t, i, j) /\ F[<<j, t>>] \in D
  <2>1. \A j \in i + 1 .. n, t \in D : Exchange(t, i, j) \in D
    BY ExchangeRearranges
  <2>2. \A j \in i + 1 .. n, t \in D : F[<<j, t>>] = Exchange(t, i, j)
    OBVIOUS
  <2> HIDE DEF F
  <2> QED BY <2>1, <2>2
<1>2. PICK g : IsLoop(g, i, n, D, s, F)
  <2> HIDE DEF D, F
  <2> QED BY <1>0, <1>1, Recursion
<1>3. g = Turns(g)
  <2> HIDE DEF D, F
  <2>1. ASSUME NEW j \in i .. n PROVE g[j] = IF j = i THEN s ELSE Exchange(g[j - 1], i, j)
    <3>1. j # i => j \in i + 1 .. n /\ j - 1 \in i .. n
      OBVIOUS
    <3>2. j # i => g[j - 1] \in D /\ g[j] = F[<<j, g[j - 1]>>]
      BY <3>1, <1>2 DEF IsLoop
    <3> QED BY <1>1, <1>2, <3>1, <3>2 DEF IsLoop
  <2>2. g = [j \in i .. n |-> g[j]]
    BY <1>2 DEF IsLoop
  <2> QED BY <2>1, <2>2
<1>4. tried = Turns(tried)
  BY <1>3
<1>5. tried[i] \in X[i]
  <2>1. tried[i] = s
    <3> HIDE DEF tried
    <3> QED BY <1>0, <1>4
  <2> HIDE DEF tried
  <2> QED BY <1>0, <1>1, <2>1
<1>6. ASSUME NEW j \in i + 1 .. n, tried[j - 1] \in X[j - 1] PROVE tried[j] \in X[j]
  <2> DEFINE t == tried[j - 1]
             u == Exchange(t, i, j)
  <2>1. tried[j] = u
    <3> HIDE DEF tried
    <3> QED BY <1>4
  <2> HIDE DEF tried
  <2>2. /\ t \in D
        /\ Settled(s, i - 1, n) => Settled(t, i - 1, n) /\ \A b \in i + 1 .. j - 1 : Before(t[i], t[b])
    BY <1>6
  <2> HIDE DEF t
  <2>3. u \in D
    BY <2>2, ExchangeRearranges
  <2>4. /\ u[i] = IF Before(t[j], t[i]) THEN t[j] ELSE t[i]
        /\ u[j] = IF Before(t[j], t[i]) THEN t[i] ELSE t[j]
        /\ \A k \in 1 .. n : k # i /\ k # j => u[k] = t[k]
    BY <2>2 DEF Exchange, Swap
  <2> HIDE DEF u
  <2>5. ASSUME Settled(s, i - 1, n) PROVE Settled(u, i - 1, n)
    BY <2>2, <2>4, <2>5 DEF Settled
  <2>6. Before(u[i], u[j])
    <3>1. t \in [1 .. n -> Obj] /\ IsInjective(t) /\ i # j /\ i \in 1 .. n /\ j \in 1 .. n
      BY <2>2
    <3>2. t[i] # t[j] /\ t[i] \in Nat /\ t[j] \in Nat
      BY <3>1 DEF IsInjective
    <3> QED BY <3>2, <2>4, BeforeOrders
  <2>7. ASSUME Settled(s, i - 1, n) PROVE \A b \in i + 1 .. j - 1 : Before(u[i], u[b])
    <3>1. \A k \in 1 .. n : t[k] \in Nat
      BY <2>2
    <3> QED BY <3>1, <2>2, <2>4, <2>7, BeforeOrders
  <2>8. u \in X[j]
    <3>1. Settled(s, i - 1, n) => \A b \in i + 1 .. j : Before(u[i], u[b])
      BY <2>6, <2>7
    <3> HIDE DEF D
    <3> QED BY <2>3, <2>5, <3>1
  <2> QED BY <2>1, <2>8
<1>7. tried[n] \in X[n]
  <2> HIDE DEF tried, X
  <2>1. \A j \in i .. n : tried[j] \in X[j]
    BY <1>0, <1>5, <1>6, Along
  <2> QED BY <1>0, <2>1
<1>8. FillPlace(s, i) = tried[n]
  <2>1. Len(s) = n
    OBVIOUS
  <2> QED BY <2>1 DEF FillPlace
<1> HIDE DEF tried
<1> QED
  BY <1>7, <1>8 DEF Settled

\* sort_children rearranges the children, and leaves them in order if they are
\* to be sorted, whatever their number: no place is exchanged out of order
\* again once it is filled.
THEOREM ChildrenSorted ==
    ASSUME Obj \subseteq Nat, opt.sort \in {"none", "up", "down"},
           NEW s \in Seq(Obj), IsInjective(s)
    PROVE  LET t == SortChildren(s)
           IN t \in Seq(Obj) /\ Range(t) = Range(s) /\ IsInjective(t) /\ Sorted(t)
<1>1. CASE opt.sort = "none"
  BY <1>1 DEF SortChildren, Sorted
<1>2. CASE opt.sort \in {"up", "down"}
  <2> DEFINE n == Len(s)
  <2>0. n \in Nat /\ s \in [1 .. n -> Obj] /\ 0 \in Int /\ n \in Int /\ 0 <= n
    OBVIOUS
  <2>1. SortChildren(s) = LET filled[i \in 0 .. n] == IF i = 0 THEN s ELSE FillPlace(filled[i - 1], i) IN filled[n]
    BY <1>2 DEF SortChildren
  <2> HIDE DEF n
  <2> DEFINE Turns(f) == [i \in 0 .. n |-> IF i = 0 THEN s ELSE FillPlace(f[i - 1], i)]
             filled == CHOOSE f : f = Turns(f)
             D == {t \in [1 .. n -> Obj] : Range(t) = Range(s) /\ IsInjective(t)}
             F == [p \in (1 .. n) \X D |-> FillPlace(p[2], p[1])]
             X == [i \in 0 .. n |-> {t \in D : Settled(t, i, n)}]
  <2>2. ASSUME NEW i \in 0 + 1 .. n, NEW t \in D
        PROVE  FillPlace(t, i) \in D /\ (Settled(t, i - 1, n) => Settled(FillPlace(t, i), i, n))
    BY <1>2, <2>0, FillPlaceFills
  <2>3. s \in D /\ \A i \in 0 + 1 .. n, t \in D : F[<<i, t>>] = FillPlace(t, i) /\ F[<<i, t>>] \in D
    <3>1. \A i \in 0 + 1 .. n, t \in D : F[<<i, t>>] = FillPlace(t, i)
      OBVIOUS
    <3>2. s \in D
      BY <2>0
    <3> HIDE DEF D, F
    <3> QED BY <3>1, <3>2, <2>2
  <2>4. PICK g : IsLoop(g, 0, n, D, s, F)
    <3> HIDE DEF D, F
    <3> QED BY <2>0, <2>3, Recursion
  <2>5. g = Turns(g)
    <3> HIDE DEF D, F
    <3>1. ASSUME NEW i \in 0 .. n PROVE g[i] = IF i = 0 THEN s ELSE FillPlace(g[i - 1], i)
      <4>1. i # 0 => i \in 0 + 1 .. n /\ i - 1 \in 0 .. n
        BY <2>0
      <4>2. i # 0 => g[i - 1] \in D /\ g[i] = F[<<i, g[i - 1]>>]
        BY <4>1, <2>4 DEF IsLoop
      <4> QED BY <2>3, <2>4, <4>1, <4>2 DEF IsLoop
    <3>2. g = [i \in 0 .. n |-> g[i]]
      BY <2>4 DEF IsLoop
    <3> QED BY <3>1, <3>2
  <2>6. filled = Turns(filled)
    BY <2>5
  <2>7. filled[0] \in X[0]
    <3>1. filled[0] = s
      <4> HIDE DEF filled
      <4> QED BY <2>0, <2>6
    <3> HIDE DEF filled
    <3> QED BY <2>0, <3>1, <2>3 DEF Settled
  <2>8. ASSUME NEW i \in 0 + 1 .. n, filled[i - 1] \in X[i - 1] PROVE filled[i] \in X[i]
    <3>1. filled[i] = FillPlace(filled[i - 1], i)
      <4> HIDE DEF filled
      <4> QED BY <2>0, <2>6
    <3>2. i - 1 \in 0 .. n /\ i \in 0 .. n
      BY <2>0
    <3> HIDE DEF filled
    <3>3. filled[i - 1] \in D /\ Settled(filled[i - 1], i - 1, n)
      BY <3>2, <2>8
    <3>4. filled[i] \in D /\ Settled(filled[i], i, n)
      BY <3>1, <3>3, <2>2
    <3> QED BY <3>2, <3>4
  <2>9. filled[n] \in X[n]
    <3> HIDE DEF filled, X
    <3>1. \A i \in 0 .. n : filled[i] \in X[i]
      BY <2>0, <2>7, <2>8, Along
    <3> QED BY <2>0, <3>1
  <2>10. SortChildren(s) = filled[n]
    BY <2>1
  <2> HIDE DEF filled
  <2> DEFINE t == filled[n]
  <2>11. t \in [1 .. n -> Obj] /\ Range(t) = Range(s) /\ IsInjective(t) /\ Settled(t, n, n)
    BY <2>0, <2>9
  <2> HIDE DEF t
  <2>12. t \in Seq(Obj) /\ Sorted(t)
    BY <2>0, <2>11 DEF Settled, Sorted
  <2> QED BY <2>10, <2>11, <2>12 DEF t
<1> QED
  BY <1>1, <1>2

-----------------------------------------------------------------------------
\* Paths, and the chain of matchers.

LEMMA PrefixMeans ==
    ASSUME NEW S, NEW p \in Seq(S), NEW q \in Seq(S)
    PROVE  IsPrefix(p, q) <=> PathPrefix(p, q)
<1>1. Len(p) \in Nat /\ Len(q) \in Nat
  OBVIOUS
<1>2. CASE Len(p) <= Len(q)
  <2> DEFINE a == SubSeq(p, 1, Len(p))
             b == SubSeq(q, 1, Len(p))
  <2>1. a \in Seq(S) /\ Len(a) = Len(p) /\ \A i \in 1 .. Len(p) : a[i] = p[i]
    BY <1>1
  <2>2. b \in Seq(S) /\ Len(b) = Len(p) /\ \A i \in 1 .. Len(p) : b[i] = q[i]
    BY <1>1, <1>2
  <2> HIDE DEF a, b
  <2>3. a = b <=> \A i \in 1 .. Len(p) : p[i] = q[i]
    BY <2>1, <2>2, SeqEqual
  <2> QED BY <1>2, <2>3 DEF IsPrefix, PathPrefix, a, b
<1> QED
  BY <1>1, <1>2 DEF IsPrefix, PathPrefix

\* How many numbers there are from 1 to n.
LEMMA IntervalCount ==
    ASSUME NEW n \in Nat
    PROVE  IsFiniteSet(1 .. n) /\ Cardinality(1 .. n) = n
<1>1. 1 \in Int /\ n \in Int
  OBVIOUS
<1>2. IsFiniteSet(1 .. n) /\ Cardinality(1 .. n) = IF 1 > n THEN 0 ELSE n - 1 + 1
  BY <1>1, FS_Interval, Zenon
<1>3. (IF 1 > n THEN 0 ELSE n - 1 + 1) = n
  OBVIOUS
<1> QED BY <1>2, <1>3

\* A listing of a directory has every child.
LEMMA ListingComplete ==
    ASSUME Obj \subseteq Nat, IsFiniteSet(Obj), NEW d,
           NEW order \in [1 .. Cardinality(Children(d)) -> Children(d)], IsInjective(order)
    PROVE  order \in Seq(Obj) /\ Range(order) = Children(d)
<1> DEFINE C == Children(d)
           n == Cardinality(C)
<1>1. C \subseteq Obj /\ IsFiniteSet(C) /\ n \in Nat
  BY FS_Subset, FS_CardinalityType DEF Children
<1>2. Cardinality(1 .. n) = n /\ IsFiniteSet(1 .. n)
  BY <1>1, IntervalCount
<1> HIDE DEF C, n
<1>3. order \in [1 .. n -> C] /\ IsInjective(order)
  BY DEF C, n
<1>4. order \in Injection(1 .. n, C)
  BY <1>3 DEF Injection, IsInjective
<1>5. order \in Surjection(1 .. n, C)
  BY <1>1, <1>2, <1>4, FS_Injection DEF n
<1>6. Range(order) = C
  BY <1>3, <1>5 DEF Surjection, Range
<1>7. order \in Seq(Obj)
  <2>1. order \in [1 .. n -> Obj]
    BY <1>1, <1>3
  <2> QED BY <1>1, <2>1
<1> QED
  BY <1>6, <1>7 DEF C

\* The directories above one, as many as there are.
LEMMA AboveIsASequence ==
    ASSUME Given, Obj \subseteq Nat, IsFiniteSet(Obj), NEW d \in Obj
    PROVE  Above(d) \in Seq(Obj)
<1> DEFINE N == Cardinality(Obj)
           Climb(s) == IF fs.parent[Last(s)] = Nowhere THEN s ELSE Append(s, fs.parent[Last(s)])
           Turns(f) == [n \in 0 .. N |-> IF n = 0 THEN <<d>> ELSE Climb(f[n - 1])]
           up == CHOOSE f : f = Turns(f)
           D == Seq(Obj) \ {<<>>}
           F == [p \in (1 .. N) \X D |-> Climb(p[2])]
           X == [n \in 0 .. N |-> D]
<1>1. N \in Nat /\ 0 \in Int /\ N \in Int /\ 0 <= N
  BY FS_CardinalityType
<1> HIDE DEF N
<1>2. ASSUME NEW s \in D PROVE Climb(s) \in D
  <2>1. Last(s) \in Obj
    BY DEF Last
  <2>2. fs.parent[Last(s)] \in Obj \cup {Nowhere}
    BY <2>1 DEF Given
  <2> QED BY <2>2
<1>3. <<d>> \in D /\ \A n \in 0 + 1 .. N, s \in D : F[<<n, s>>] = Climb(s) /\ F[<<n, s>>] \in D
  <2>1. \A n \in 0 + 1 .. N, s \in D : F[<<n, s>>] = Climb(s)
    OBVIOUS
  <2>2. <<d>> \in D
    OBVIOUS
  <2> HIDE DEF D, F, Climb
  <2> QED BY <2>1, <2>2, <1>2
<1> HIDE DEF Climb
<1>4. PICK g : IsLoop(g, 0, N, D, <<d>>, F)
  <2> HIDE DEF D, F
  <2> QED BY <1>1, <1>3, Recursion
<1>5. g = Turns(g)
  <2> HIDE DEF D, F
  <2>1. ASSUME NEW n \in 0 .. N PROVE g[n] = IF n = 0 THEN <<d>> ELSE Climb(g[n - 1])
    <3>1. n # 0 => n \in 0 + 1 .. N /\ n - 1 \in 0 .. N
      BY <1>1
    <3>2. n # 0 => g[n - 1] \in D /\ g[n] = F[<<n, g[n - 1]>>]
      BY <3>1, <1>4 DEF IsLoop
    <3> QED BY <1>3, <1>4, <3>1, <3>2 DEF IsLoop
  <2>2. g = [n \in 0 .. N |-> g[n]]
    BY <1>4 DEF IsLoop
  <2> QED BY <2>1, <2>2
<1>6. up = Turns(up)
  BY <1>5
<1>7. up[0] \in X[0]
  <2>1. up[0] = <<d>>
    <3> HIDE DEF up
    <3> QED BY <1>1, <1>6
  <2> HIDE DEF up
  <2> QED BY <1>1, <2>1
<1>8. ASSUME NEW n \in 0 + 1 .. N, up[n - 1] \in X[n - 1] PROVE up[n] \in X[n]
  <2>1. up[n] = Climb(up[n - 1])
    <3> HIDE DEF up
    <3> QED BY <1>1, <1>6
  <2>2. n - 1 \in 0 .. N /\ n \in 0 .. N
    BY <1>1
  <2> HIDE DEF up, D
  <2> QED BY <2>1, <2>2, <1>2, <1>8
<1>9. up[N] \in D
  <2> HIDE DEF up
  <2>1. \A n \in 0 .. N : up[n] \in X[n]
    <3> HIDE DEF X
    <3> QED BY <1>1, <1>7, <1>8, Along
  <2> HIDE DEF D
  <2> QED BY <1>1, <2>1
<1>10. Above(d) = Tail(up[N])
  BY DEF Above, N, Climb
<1> HIDE DEF up
<1> QED
  BY <1>9, <1>10

LEMMA ConcatAbove ==
    ASSUME NEW u \in Seq(Nodes), \A k \in 1 .. Len(u) : u[k].above,
           NEW r \in Seq(Nodes), Len(r) = 1, r[1].above
    PROVE  u \o r \in Seq(Nodes) /\ \A k \in 1 .. Len(u \o r) : (u \o r)[k].above
<1> DEFINE w == u \o r
<1>1. w \in Seq(Nodes) /\ Len(w) = Len(u) + 1
  BY ConcatProperties
<1>2. w[Len(u) + 1] = r[1] /\ \A k \in 1 .. Len(u) : w[k] = u[k]
  <2>1. \A k \in 1 .. Len(u) + Len(r) : w[k] = IF k <= Len(u) THEN u[k] ELSE r[k - Len(u)]
    BY ConcatProperties
  <2> HIDE DEF w
  <2> QED BY <2>1
<1>3. \A k \in 1 .. Len(w) : w[k].above
  <2> HIDE DEF w
  <2> QED BY <1>1, <1>2
<1> QED
  BY <1>1, <1>3

\* What add_parents adds are directories above the walk.
LEMMA AddParentsAbove ==
    ASSUME Given, Obj \subseteq Nat, IsFiniteSet(Obj), NEW d \in Obj
    PROVE  AddParents(d) \in Seq(Nodes) /\ \A o : ~SymlinkLoop(AddParents(d), o)
<1>1. IgRoot \in Seq(Nodes) /\ Len(IgRoot) = 1 /\ IgRoot[1].above
  BY DEF IgRoot, Node, Nodes
<1>2. Above(d) \in Seq(Obj)
  BY AboveIsASequence
<1> DEFINE p == Above(d)
           hasGit(x) == opt.requireGit /\ "git" \in opt.kinds /\ x \in fs.git
           u == [k \in DOMAIN p |-> Node(p[k], hasGit(p[k]), TRUE)]
<1>3. u \in Seq(Nodes) /\ Len(u) = Len(p) /\ \A k \in 1 .. Len(p) : u[k].above
  <2> HIDE DEF p
  <2>1. p \in Seq(Obj)
    BY <1>2 DEF p
  <2>2. \A x : hasGit(x) \in BOOLEAN
    BY Zenon
  <2>3. DOMAIN p = 1 .. Len(p) /\ Len(p) \in Nat
    BY <2>1
  <2> HIDE DEF hasGit
  <2>4. u = [k \in 1 .. Len(p) |-> Node(p[k], hasGit(p[k]), TRUE)]
    BY <2>3
  <2> HIDE DEF u
  <2>5. \A k \in 1 .. Len(p) : u[k] \in Nodes /\ u[k].above
    BY <2>1, <2>2, <2>4 DEF Node, Nodes
  <2>6. u \in [1 .. Len(p) -> Nodes]
    BY <2>4, <2>5
  <2> QED BY <2>3, <2>5, <2>6
<1>4. AddParents(d) = IgRoot \/ AddParents(d) = u \o IgRoot
  BY DEF AddParents
<1> HIDE DEF u, p
<1>5. CASE AddParents(d) = IgRoot
  BY <1>1, <1>5 DEF SymlinkLoop
<1>6. CASE AddParents(d) = u \o IgRoot
  <2>1. AddParents(d) \in Seq(Nodes) /\ \A k \in 1 .. Len(AddParents(d)) : AddParents(d)[k].above
    BY <1>1, <1>3, <1>6, ConcatAbove
  <2> QED BY <2>1 DEF SymlinkLoop
<1> QED
  BY <1>4, <1>5, <1>6

\* add_child_path puts the directory's node in front.
LEMMA AddChildAdds ==
    ASSUME Given, NEW ig \in Seq(Nodes), NEW d \in Obj
    PROVE  /\ AddChild(ig, d) \in Seq(Nodes) /\ AddChild(ig, d) # <<>> /\ AddChild(ig, d)[1].dir = d
           /\ \A o : SymlinkLoop(AddChild(ig, d), o) <=> o = d \/ SymlinkLoop(ig, o)
<1> DEFINE node == Node(d, opt.requireGit /\ opt.kinds \cap GitKind # {} /\ d \in fs.git, FALSE)
           w == <<node>> \o ig
<1>1. node \in Nodes /\ node.dir = d /\ ~node.above
  BY DEF Node, Nodes
<1>2. AddChild(ig, d) = w
  BY DEF AddChild
<1> HIDE DEF node
<1>3. w \in Seq(Nodes) /\ Len(w) = Len(ig) + 1 /\ w[1] = node /\ \A k \in 1 .. Len(ig) : w[k + 1] = ig[k]
  BY <1>1
<1> HIDE DEF w
<1>4. ASSUME NEW o PROVE SymlinkLoop(w, o) <=> o = d \/ SymlinkLoop(ig, o)
  <2>1. ASSUME SymlinkLoop(ig, o) PROVE SymlinkLoop(w, o)
    <3>1. PICK k \in DOMAIN ig : ~ig[k].above /\ ig[k].dir = o
      BY <2>1 DEF SymlinkLoop
    <3>2. k + 1 \in DOMAIN w /\ w[k + 1] = ig[k]
      BY <1>3
    <3> QED BY <3>1, <3>2 DEF SymlinkLoop
  <2>2. ASSUME SymlinkLoop(w, o) PROVE o = d \/ SymlinkLoop(ig, o)
    <3>1. PICK k \in DOMAIN w : ~w[k].above /\ w[k].dir = o
      BY <2>2 DEF SymlinkLoop
    <3>2. CASE k = 1
      BY <3>1, <3>2, <1>1, <1>3
    <3>3. CASE k # 1
      <4>1. k - 1 \in DOMAIN ig /\ w[k] = ig[k - 1]
        BY <1>3, <3>3
      <4> QED BY <4>1, <3>1 DEF SymlinkLoop
    <3> QED BY <3>2, <3>3
  <2>3. SymlinkLoop(w, d)
    BY <1>1, <1>3 DEF SymlinkLoop
  <2> QED BY <2>1, <2>2, <2>3
<1> QED
  BY <1>1, <1>2, <1>3, <1>4

-----------------------------------------------------------------------------
\* What a turn of the loop of Walk.next makes of an entry.

\* The results of one entry.
ResultsOf(path, root, new) ==
    /\ new \in Seq(ResultSet) /\ Len(new) <= 3 /\ IsInjective(new)
    /\ \A i \in DOMAIN new : new[i].path = path /\ new[i].root = root

\* The frame of a directory that is entered.
FrameOf(frame, path, ig) ==
    /\ IsDir(path) /\ frame.ig = AddChild(ig, Real(Last(path)))
    /\ frame \in Frames /\ frame.path = path /\ frame.next = 1
    /\ frame.ig # <<>> /\ frame.ig[1].dir = Real(Last(path))
    /\ \A o : SymlinkLoop(frame.ig, o) <=> o = Real(Last(path)) \/ SymlinkLoop(ig, o)
    /\ Range(frame.children) = Children(Real(Last(path)))
    /\ IsInjective(frame.children) /\ Sorted(frame.children)

LEMMA ResolvedIsReal ==
    ASSUME Given, NEW path \in Seq(Obj), path # <<>>
    PROVE  /\ Last(path) \in Obj /\ Real(Last(path)) \in Obj
           /\ IsDir(path) => Resolved(path) = Real(Last(path))
<1>1. Last(path) \in Obj
  BY DEF Last
<1>2. Real(Last(path)) \in Obj
  BY <1>1 DEF Given, Real
<1>3. ASSUME IsDir(path) PROVE Resolved(path) = Real(Last(path))
  BY <1>3 DEF IsDir, Resolved, Real
<1> QED
  BY <1>1, <1>2, <1>3

LEMMA OneResult ==
    ASSUME NEW what \in Whats, NEW path \in Seq(Obj \cup {Stdin}), rootIndex' \in Nat
    PROVE  ResultsOf(path, rootIndex', <<Result(what, path)>>)
<1>1. Result(what, path) \in ResultSet /\ Result(what, path).path = path /\ Result(what, path).root = rootIndex'
  BY DEF Result, ResultSet
<1> QED
  BY <1>1 DEF ResultsOf, IsInjective

LEMMA RangeOfOne ==
    ASSUME NEW r
    PROVE  Range(<<r>>) = {r}
  BY DEF Range

LEMMA RangeOfConcat ==
    ASSUME NEW S, NEW u \in Seq(S), NEW v \in Seq(S)
    PROVE  Range(u \o v) = Range(u) \cup Range(v)
<1> DEFINE w == u \o v
<1>1. w \in Seq(S) /\ Len(w) = Len(u) + Len(v)
  BY ConcatProperties
<1>2. \A i \in 1 .. Len(u) + Len(v) : w[i] = IF i <= Len(u) THEN u[i] ELSE v[i - Len(u)]
  BY ConcatProperties
<1>3. Len(u) \in Nat /\ Len(v) \in Nat /\ DOMAIN u = 1 .. Len(u) /\ DOMAIN v = 1 .. Len(v)
  OBVIOUS
<1> HIDE DEF w
<1>4. DOMAIN w = 1 .. Len(u) + Len(v)
  BY <1>1
<1>5. ASSUME NEW x \in Range(w) PROVE x \in Range(u) \cup Range(v)
  <2>1. PICK i \in 1 .. Len(u) + Len(v) : x = w[i]
    BY <1>4 DEF Range
  <2>2. CASE i <= Len(u)
    BY <2>1, <2>2, <1>2, <1>3 DEF Range
  <2>3. CASE ~(i <= Len(u))
    <3>1. i - Len(u) \in 1 .. Len(v)
      BY <2>3, <1>3
    <3> QED BY <2>1, <2>3, <3>1, <1>2, <1>3 DEF Range
  <2> QED BY <2>2, <2>3
<1>6. ASSUME NEW x \in Range(u) PROVE x \in Range(w)
  <2>1. PICK i \in 1 .. Len(u) : x = u[i]
    BY <1>3 DEF Range
  <2>2. i \in 1 .. Len(u) + Len(v) /\ i <= Len(u)
    BY <1>3
  <2> QED BY <2>1, <2>2, <1>2, <1>4 DEF Range
<1>7. ASSUME NEW x \in Range(v) PROVE x \in Range(w)
  <2>1. PICK i \in 1 .. Len(v) : x = v[i]
    BY <1>3 DEF Range
  <2>2. i + Len(u) \in 1 .. Len(u) + Len(v) /\ ~(i + Len(u) <= Len(u)) /\ (i + Len(u)) - Len(u) = i
    BY <1>3
  <2>3. w[i + Len(u)] = v[i]
    BY <2>2, <1>2
  <2> QED BY <2>1, <2>2, <2>3, <1>4 DEF Range
<1> QED
  BY <1>5, <1>6, <1>7 DEF w

\* Sequences that have nothing in common.
LEMMA ConcatApart ==
    ASSUME NEW S, NEW u \in Seq(S), NEW v \in Seq(S), IsInjective(u), IsInjective(v), Range(u) \cap Range(v) = {}
    PROVE  /\ u \o v \in Seq(S) /\ Len(u \o v) = Len(u) + Len(v)
           /\ Range(u \o v) = Range(u) \cup Range(v) /\ IsInjective(u \o v)
<1> DEFINE w == u \o v
<1>1. w \in Seq(S) /\ Len(w) = Len(u) + Len(v)
  BY ConcatProperties
<1>2. \A i \in 1 .. Len(u) + Len(v) : w[i] = IF i <= Len(u) THEN u[i] ELSE v[i - Len(u)]
  BY ConcatProperties
<1>3. Len(u) \in Nat /\ Len(v) \in Nat /\ DOMAIN u = 1 .. Len(u) /\ DOMAIN v = 1 .. Len(v)
  OBVIOUS
<1>4. Range(w) = Range(u) \cup Range(v)
  BY RangeOfConcat
<1> HIDE DEF w
<1>5. ASSUME NEW i \in 1 .. Len(u) + Len(v), NEW j \in 1 .. Len(u) + Len(v), w[i] = w[j] PROVE i = j
  <2>1. CASE i <= Len(u) /\ j <= Len(u)
    <3>1. i \in DOMAIN u /\ j \in DOMAIN u /\ u[i] = u[j]
      BY <2>1, <1>2, <1>3, <1>5
    <3> QED BY <3>1 DEF IsInjective
  <2>2. CASE ~(i <= Len(u)) /\ ~(j <= Len(u))
    <3>1. i - Len(u) \in DOMAIN v /\ j - Len(u) \in DOMAIN v /\ v[i - Len(u)] = v[j - Len(u)]
      BY <2>2, <1>2, <1>3, <1>5
    <3>2. i - Len(u) = j - Len(u)
      BY <3>1 DEF IsInjective
    <3> QED BY <3>2, <1>3
  <2>3. ASSUME NEW a \in 1 .. Len(u) + Len(v), NEW b \in 1 .. Len(u) + Len(v), a <= Len(u), ~(b <= Len(u)) PROVE w[a] # w[b]
    <3>1. a \in DOMAIN u /\ b - Len(u) \in DOMAIN v /\ w[a] = u[a] /\ w[b] = v[b - Len(u)]
      BY <2>3, <1>2, <1>3
    <3>2. u[a] \in Range(u) /\ v[b - Len(u)] \in Range(v)
      BY <3>1 DEF Range
    <3> QED BY <3>1, <3>2
  <2> QED BY <2>1, <2>2, <2>3, <1>5
<1>6. IsInjective(w)
  <2>1. DOMAIN w = 1 .. Len(u) + Len(v)
    BY <1>1, <1>3
  <2> QED BY <2>1, <1>5 DEF IsInjective
<1> QED
  BY <1>1, <1>4, <1>6 DEF w

LEMMA OneIfIs ==
    ASSUME NEW S, NEW r \in S, NEW condition \in BOOLEAN
    PROVE  /\ OneIf(condition, r) \in Seq(S) /\ IsInjective(OneIf(condition, r))
           /\ Len(OneIf(condition, r)) = IF condition THEN 1 ELSE 0
           /\ Range(OneIf(condition, r)) = IF condition THEN {r} ELSE {}
<1>1. CASE condition
  <2>1. OneIf(condition, r) = <<r>>
    BY <1>1 DEF OneIf
  <2>2. Range(<<r>>) = {r}
    BY RangeOfOne
  <2>3. <<r>> \in Seq(S) /\ Len(<<r>>) = 1 /\ IsInjective(<<r>>)
    BY DEF IsInjective
  <2> QED BY <1>1, <2>1, <2>2, <2>3
<1>2. CASE ~condition
  <2>1. OneIf(condition, r) = <<>>
    BY <1>2 DEF OneIf
  <2> QED BY <1>2, <2>1 DEF IsInjective, Range
<1> QED
  BY <1>1, <1>2

\* RangeOfConcat and ConcatApart for sequences of results.
LEMMA ResultsConcat ==
    \A u, v \in Seq(ResultSet) : Range(u \o v) = Range(u) \cup Range(v)
BY RangeOfConcat

LEMMA ResultsApart ==
    \A u, v \in Seq(ResultSet) :
        IsInjective(u) /\ IsInjective(v) /\ Range(u) \cap Range(v) = {}
            => /\ u \o v \in Seq(ResultSet) /\ Len(u \o v) = Len(u) + Len(v)
               /\ Range(u \o v) = Range(u) \cup Range(v) /\ IsInjective(u \o v)
<1> SUFFICES ASSUME NEW u \in Seq(ResultSet), NEW v \in Seq(ResultSet),
                    IsInjective(u), IsInjective(v), Range(u) \cap Range(v) = {}
             PROVE  /\ u \o v \in Seq(ResultSet) /\ Len(u \o v) = Len(u) + Len(v)
                    /\ Range(u \o v) = Range(u) \cup Range(v) /\ IsInjective(u \o v)
  OBVIOUS
<1> QED BY ConcatApart

\* What is pushed for an entry that is kept: never all three.
LEMMA PushedIs ==
    ASSUME rootIndex' \in Nat, NEW path \in Seq(Obj \cup {Stdin})
    PROVE  /\ Pushed(path) \in Seq(ResultSet) /\ Len(Pushed(path)) <= 2 /\ IsInjective(Pushed(path))
           /\ \A r : r \in Range(Pushed(path)) <=>
                \/ IsDir(path) /\ opt.oneDevice /\ Fails("same", Resolved(path)) /\ r = Result("device", path)
                \/ Depth(path) >= opt.min /\ r = Result("entry", path)
                \/ Descends(path) /\ Resolved(path) \in fs.unreadable /\ r = Result("unreadable", path)
<1> DEFINE a == IsDir(path) /\ opt.oneDevice /\ Fails("same", Resolved(path))
           b == Depth(path) >= opt.min
           c == Descends(path) /\ Resolved(path) \in fs.unreadable
           d == Result("device", path)
           e == Result("entry", path)
           u == Result("unreadable", path)
<1>1. d \in ResultSet /\ e \in ResultSet /\ u \in ResultSet /\ d # e /\ d # u /\ e # u
  BY DEF Result, ResultSet, Whats
<1>2. a \in BOOLEAN /\ b \in BOOLEAN /\ c \in BOOLEAN /\ ~(a /\ c)
  BY DEF Descends
<1>3. Pushed(path) = OneIf(a, d) \o OneIf(b, e) \o OneIf(c, u)
  BY DEF Pushed
<1> HIDE DEF a, b, c, d, e, u
<1>4. /\ OneIf(a, d) \in Seq(ResultSet) /\ IsInjective(OneIf(a, d))
      /\ Len(OneIf(a, d)) = (IF a THEN 1 ELSE 0) /\ Range(OneIf(a, d)) = (IF a THEN {d} ELSE {})
  BY <1>1, <1>2, OneIfIs
<1>5. /\ OneIf(b, e) \in Seq(ResultSet) /\ IsInjective(OneIf(b, e))
      /\ Len(OneIf(b, e)) = (IF b THEN 1 ELSE 0) /\ Range(OneIf(b, e)) = (IF b THEN {e} ELSE {})
  BY <1>1, <1>2, OneIfIs
<1>6. /\ OneIf(c, u) \in Seq(ResultSet) /\ IsInjective(OneIf(c, u))
      /\ Len(OneIf(c, u)) = (IF c THEN 1 ELSE 0) /\ Range(OneIf(c, u)) = (IF c THEN {u} ELSE {})
  BY <1>1, <1>2, OneIfIs
<1>7. PICK s \in Seq(ResultSet) :
          /\ s = OneIf(a, d) \o OneIf(b, e) /\ IsInjective(s)
          /\ Len(s) = Len(OneIf(a, d)) + Len(OneIf(b, e)) /\ Range(s) = Range(OneIf(a, d)) \cup Range(OneIf(b, e))
  <2>1. Range(OneIf(a, d)) \cap Range(OneIf(b, e)) = {}
    BY <1>1, <1>4, <1>5
  <2> QED BY <2>1, <1>4, <1>5, ResultsApart, Zenon
<1>8. /\ s \o OneIf(c, u) \in Seq(ResultSet) /\ IsInjective(s \o OneIf(c, u))
      /\ Len(s \o OneIf(c, u)) = Len(s) + Len(OneIf(c, u)) /\ Range(s \o OneIf(c, u)) = Range(s) \cup Range(OneIf(c, u))
  <2>1. Range(s) \cap Range(OneIf(c, u)) = {}
    BY <1>1, <1>4, <1>5, <1>6, <1>7
  <2> QED BY <2>1, <1>6, <1>7, ResultsApart, Zenon
<1>9. Pushed(path) = s \o OneIf(c, u)
  BY <1>3, <1>7
<1>10. Len(Pushed(path)) <= 2
  BY <1>2, <1>4, <1>5, <1>6, <1>7, <1>8, <1>9
<1>11. \A r : r \in Range(Pushed(path)) <=> (a /\ r = d) \/ (b /\ r = e) \/ (c /\ r = u)
  BY <1>4, <1>5, <1>6, <1>7, <1>8, <1>9
<1> QED
  BY <1>8, <1>9, <1>10, <1>11 DEF a, b, c, d, e, u

\* An entry, after at most an error of what lies above it: what is pushed, and
\* the frame it may get.
LEMMA EnqueueShape ==
    ASSUME Given, Obj \subseteq Nat, IsFiniteSet(Obj), rootIndex' \in Nat,
           NEW path \in Seq(Obj), path # <<>>, NEW ig \in Seq(Nodes), NEW frames,
           NEW before \in {<<>>, <<Result("parents", path)>>}, EnqueueEntry(path, ig, before, frames)
    PROVE  /\ ResultsOf(path, rootIndex', pending')
           /\ stack' = frames \/ \E frame : FrameOf(frame, path, ig) /\ stack' = Append(frames, frame)
<1> DEFINE d == Real(Last(path))
           Ours(new) == /\ new \in Seq(ResultSet) /\ IsInjective(new) /\ Len(new) <= 2
                        /\ \A r \in Range(new) : r.path = path /\ r.root = rootIndex' /\ r.what # "parents"
<1>1. path \in Seq(Obj \cup {Stdin})
  <2>1. Obj \subseteq Obj \cup {Stdin}
    OBVIOUS
  <2> QED BY <2>1, SeqMonotonic
<1>2. PICK new : pending' = before \o new /\ new \in {<<>>, <<Result("undecided", path)>>, Pushed(path)}
  <2>1. SkipEntry(ig, path) \in {"keep", "skip", "error"}
    BY DEF SkipEntry
  <2> QED BY <2>1 DEF EnqueueEntry
<1>3. Ours(new)
  <2>1. CASE new = <<>>
    BY <2>1 DEF IsInjective, Range
  <2>2. CASE new = <<Result("undecided", path)>>
    <3>1. ResultsOf(path, rootIndex', new)
      BY <2>2, <1>1, OneResult DEF Whats
    <3>2. Range(new) = {Result("undecided", path)}
      BY <2>2, RangeOfOne
    <3>3. Result("undecided", path).path = path /\ Result("undecided", path).root = rootIndex'
          /\ Result("undecided", path).what = "undecided"
      BY DEF Result
    <3>4. Len(new) = 1
      BY <2>2
    <3> QED BY <3>1, <3>2, <3>3, <3>4 DEF ResultsOf
  <2>3. CASE new = Pushed(path)
    <3>1. \A r \in Range(new) : r \in {Result("device", path), Result("entry", path), Result("unreadable", path)}
      BY <2>3, <1>1, PushedIs
    <3>2. \A r \in Range(new) : r.path = path /\ r.root = rootIndex' /\ r.what # "parents"
      BY <3>1 DEF Result
    <3> QED BY <3>2, <2>3, <1>1, PushedIs
  <2> QED BY <2>1, <2>2, <2>3, <1>2
<1>4. /\ before \in Seq(ResultSet) /\ IsInjective(before) /\ Len(before) <= 1
      /\ \A r \in Range(before) : r.path = path /\ r.root = rootIndex' /\ r.what = "parents"
  <2>1. CASE before = <<>>
    BY <2>1 DEF IsInjective, Range
  <2>2. CASE before = <<Result("parents", path)>>
    <3>1. ResultsOf(path, rootIndex', before)
      BY <2>2, <1>1, OneResult DEF Whats
    <3>2. Range(before) = {Result("parents", path)}
      BY <2>2, RangeOfOne
    <3>3. Result("parents", path).path = path /\ Result("parents", path).root = rootIndex'
          /\ Result("parents", path).what = "parents"
      BY DEF Result
    <3>4. Len(before) = 1
      BY <2>2
    <3> QED BY <3>1, <3>2, <3>3, <3>4 DEF ResultsOf
  <2> QED BY <2>1, <2>2
<1>5. ResultsOf(path, rootIndex', pending')
  <2>1. Range(before) \cap Range(new) = {}
    BY <1>3, <1>4
  <2>2. PICK w \in Seq(ResultSet) : /\ w = pending' /\ IsInjective(w) /\ Len(w) = Len(before) + Len(new)
                                    /\ Range(w) = Range(before) \cup Range(new)
    BY <2>1, <1>2, <1>3, <1>4, ResultsApart, Zenon
  <2>3. Len(before) \in Nat /\ Len(new) \in Nat
    BY <1>3, <1>4
  <2>4. Len(w) <= 3
    BY <2>2, <2>3, <1>3, <1>4
  <2>5. \A i \in DOMAIN w : w[i] \in Range(w)
    BY DEF Range
  <2> QED BY <2>2, <2>4, <2>5, <1>3, <1>4 DEF ResultsOf
<1>6. ASSUME stack' # frames PROVE \E frame : FrameOf(frame, path, ig) /\ stack' = Append(frames, frame)
  <2>1. /\ IsDir(path)
        /\ \E order \in [1 .. Cardinality(Children(Resolved(path))) -> Children(Resolved(path))] :
            /\ IsInjective(order)
            /\ stack' = Append(frames, Frame(path, AddChild(ig, Resolved(path)), SortChildren(order)))
    BY <1>6 DEF EnqueueEntry, Descends
  <2>2. Resolved(path) = d /\ d \in Obj
    BY <2>1, ResolvedIsReal
  <2> HIDE DEF d
  <2>3. PICK order \in [1 .. Cardinality(Children(d)) -> Children(d)] :
            /\ IsInjective(order)
            /\ stack' = Append(frames, Frame(path, AddChild(ig, d), SortChildren(order)))
    BY <2>1, <2>2
  <2>4. order \in Seq(Obj) /\ Range(order) = Children(d)
    BY <2>3, ListingComplete
  <2> DEFINE t == SortChildren(order)
             node == AddChild(ig, d)
             frame == Frame(path, node, t)
  <2>5. t \in Seq(Obj) /\ Range(t) = Children(d) /\ IsInjective(t) /\ Sorted(t)
    BY <2>3, <2>4, ChildrenSorted DEF Given
  <2>6. /\ node \in Seq(Nodes) /\ node # <<>> /\ node[1].dir = d
        /\ \A o : SymlinkLoop(node, o) <=> o = d \/ SymlinkLoop(ig, o)
    BY <2>2, AddChildAdds
  <2> HIDE DEF t, node
  <2>7. FrameOf(frame, path, ig)
    BY <2>1, <2>5, <2>6 DEF FrameOf, Frame, Frames, d, node
  <2> QED BY <2>3, <2>7 DEF t, node
<1> QED
  BY <1>5, <1>6

-----------------------------------------------------------------------------
\* What the walk found grows by the results of one path.

\* A path that comes after everything found so far.
Follows(R, q, root) ==
    /\ \A i \in DOMAIN R :
        R[i].root < root \/ (R[i].root = root /\ ~PathPrefix(q, R[i].path) /\ PathComes(R[i].path, q))
    /\ \A i, j \in DOMAIN R :
        (i < j /\ R[i].root = root) => \A n \in Nat : Agree(R[i].path, q, n) => Agree(R[i].path, R[j].path, n)

\* The new results come last, all of one path.
Extended(w, R, q, root) ==
    /\ w \in Seq(ResultSet) /\ Len(w) \in Nat /\ Len(w) >= Len(R)
    /\ \A i \in 1 .. Len(R) : w[i] = R[i]
    /\ \A i \in Len(R) + 1 .. Len(w) : w[i].path = q /\ w[i].root = root

LEMMA Grow ==
    ASSUME NEW R \in Seq(ResultSet), NEW q \in Seq(Obj \cup {Stdin}), NEW root \in Nat, NEW new, ResultsOf(q, root, new),
           OrderedIn(R), TogetherIn(R), IsInjective(R), Follows(R, q, root)
    PROVE  Extended(R \o new, R, q, root) /\ OrderedIn(R \o new) /\ TogetherIn(R \o new) /\ IsInjective(R \o new)
<1> DEFINE w == R \o new
           m == Len(R)
<1>1. new \in Seq(ResultSet) /\ IsInjective(new) /\ \A i \in 1 .. Len(new) : new[i].path = q /\ new[i].root = root
  BY DEF ResultsOf
<1>2. m \in Nat /\ Len(new) \in Nat /\ w \in Seq(ResultSet) /\ Len(w) = m + Len(new)
  BY <1>1, ConcatProperties
<1>3. \A i \in 1 .. m + Len(new) : w[i] = IF i <= m THEN R[i] ELSE new[i - m]
  BY <1>1, ConcatProperties
<1> HIDE DEF w
<1>4. \A i \in 1 .. m : w[i] = R[i]
  BY <1>2, <1>3
<1>5. \A i \in m + 1 .. Len(w) : i - m \in 1 .. Len(new) /\ w[i] = new[i - m]
  BY <1>2, <1>3
<1>6. \A i \in m + 1 .. Len(w) : w[i].path = q /\ w[i].root = root
  BY <1>1, <1>5
<1>7. DOMAIN w = 1 .. Len(w) /\ DOMAIN R = 1 .. m /\ DOMAIN new = 1 .. Len(new)
  BY <1>1, <1>2
<1> HIDE DEF m
<1>8. PathPrefix(q, q) /\ \A n \in Nat : \A p : Agree(p, q, n) => Agree(p, q, n)
  BY DEF PathPrefix
<1>9. Extended(w, R, q, root)
  BY <1>2, <1>4, <1>6 DEF Extended, m
<1>10. OrderedIn(w)
  <2> SUFFICES ASSUME NEW i \in 1 .. Len(w), NEW j \in 1 .. Len(w), i < j PROVE Comes(w[i], w[j])
    BY <1>7 DEF OrderedIn
  <2>1. CASE j <= m
    <3>1. i \in DOMAIN R /\ j \in DOMAIN R /\ w[i] = R[i] /\ w[j] = R[j]
      BY <2>1, <1>2, <1>4, <1>7
    <3> QED BY <3>1 DEF OrderedIn
  <2>2. CASE i <= m /\ j > m
    <3>1. i \in DOMAIN R /\ w[i] = R[i] /\ w[j].path = q /\ w[j].root = root
      BY <2>2, <1>2, <1>4, <1>6, <1>7
    <3> QED BY <3>1 DEF Follows, Comes
  <2>3. CASE i > m
    <3>1. w[i].path = q /\ w[i].root = root /\ w[j].path = q /\ w[j].root = root
      BY <2>3, <1>2, <1>6
    <3> QED BY <3>1, <1>8 DEF Comes, PathComes
  <2> QED BY <2>1, <2>2, <2>3, <1>2
<1>11. TogetherIn(w)
  <2> SUFFICES ASSUME NEW i \in 1 .. Len(w), NEW j \in 1 .. Len(w), NEW k \in 1 .. Len(w),
                      i < j, j < k, w[i].root = w[k].root, NEW n \in Nat, Agree(w[i].path, w[k].path, n)
               PROVE  Agree(w[i].path, w[j].path, n)
    BY <1>7 DEF TogetherIn
  <2>1. CASE k <= m
    <3>0. i \in 1 .. m /\ j \in 1 .. m /\ k \in 1 .. m
      BY <2>1, <1>2
    <3>1. i \in DOMAIN R /\ j \in DOMAIN R /\ k \in DOMAIN R /\ w[i] = R[i] /\ w[j] = R[j] /\ w[k] = R[k]
      BY <3>0, <1>4, <1>7
    <3>2. R[i].root = R[k].root /\ Agree(R[i].path, R[k].path, n)
      BY <3>1
    <3>3. Agree(R[i].path, R[j].path, n)
      BY <3>1, <3>2 DEF TogetherIn
    <3> QED BY <3>1, <3>3
  <2>2. CASE j <= m /\ k > m
    <3>1. i \in DOMAIN R /\ j \in DOMAIN R /\ w[i] = R[i] /\ w[j] = R[j] /\ w[k].path = q /\ w[k].root = root
      BY <2>2, <1>2, <1>4, <1>6, <1>7
    <3> QED BY <3>1 DEF Follows
  <2>3. CASE j > m
    <3>1. w[j].path = q /\ w[k].path = q
      BY <2>3, <1>2, <1>6
    <3> QED BY <3>1
  <2> QED BY <2>1, <2>2, <2>3, <1>2
<1>12. IsInjective(w)
  <2> SUFFICES ASSUME NEW i \in 1 .. Len(w), NEW j \in 1 .. Len(w), i < j PROVE w[i] # w[j]
    BY <1>2, <1>7 DEF IsInjective
  <2>1. CASE j <= m
    <3>1. i \in DOMAIN R /\ j \in DOMAIN R /\ w[i] = R[i] /\ w[j] = R[j]
      BY <2>1, <1>2, <1>4, <1>7
    <3> QED BY <3>1 DEF IsInjective
  <2>2. CASE i <= m /\ j > m
    <3>1. i \in DOMAIN R /\ w[i] = R[i] /\ w[j].path = q /\ w[j].root = root
      BY <2>2, <1>2, <1>4, <1>6, <1>7
    <3>2. R[i].root \in Nat
      <4>1. R[i] \in ResultSet
        BY <3>1
      <4> QED BY <4>1 DEF ResultSet
    <3>3. R[i].root < root \/ ~PathPrefix(q, R[i].path)
      BY <3>1 DEF Follows
    <3>4. R[i].root # w[j].root \/ R[i].path # w[j].path
      BY <3>1, <3>2, <3>3, <1>8
    <3> QED BY <3>1, <3>4
  <2>3. CASE i > m
    <3>1. i - m \in DOMAIN new /\ j - m \in DOMAIN new /\ w[i] = new[i - m] /\ w[j] = new[j - m] /\ i - m # j - m
      BY <2>3, <1>2, <1>5, <1>7
    <3> QED BY <3>1, <1>1 DEF IsInjective
  <2> QED BY <2>1, <2>2, <2>3, <1>2
<1> QED
  BY <1>9, <1>10, <1>11, <1>12 DEF w

-----------------------------------------------------------------------------
\* The path of the next child.

ChildPath(q) ==
    /\ q \in Seq(Obj) /\ Len(q) = Len(stack) + 1
    /\ q[Len(stack) + 1] = stack[Len(stack)].children[stack[Len(stack)].next]
    /\ \A m \in 1 .. Len(stack) : \A i \in 1 .. m : q[i] = stack[m].path[i]

LEMMA ChildPathIs ==
    ASSUME IInv, stack # <<>>, Last(stack).next <= Len(Last(stack).children)
    PROVE  /\ Len(stack) \in Nat \ {0} /\ Last(stack) = stack[Len(stack)]
           /\ Last(stack).children[Last(stack).next] \in Obj
           /\ ChildPath(Append(Last(stack).path, Last(stack).children[Last(stack).next]))
<1> DEFINE K == Len(stack)
           top == stack[K]
           child == top.children[top.next]
           q == Append(top.path, child)
<1>1. K \in Nat \ {0} /\ Last(stack) = top /\ top \in Frames /\ DOMAIN stack = 1 .. K
  BY DEF IInv, Types, Last
<1>2. top.path \in Seq(Obj) /\ top.children \in Seq(Obj) /\ top.next \in 1 .. Len(top.children)
  BY <1>1 DEF Frames
<1>3. child \in Obj
  BY <1>2
<1>4. FrameHolds(top, K)
  BY <1>1 DEF IInv, FramesHold
<1> HIDE DEF K, top, child
<1>5. Len(top.path) = K
  BY <1>4 DEF FrameHolds
<1>6. q \in Seq(Obj) /\ Len(q) = K + 1 /\ q[K + 1] = child /\ \A i \in 1 .. K : q[i] = top.path[i]
  BY <1>2, <1>3, <1>5, AppendOne
<1> HIDE DEF q
<1>7. ASSUME NEW m \in 1 .. K, NEW i \in 1 .. m PROVE q[i] = stack[m].path[i]
  <2>1. m \in DOMAIN stack /\ K \in DOMAIN stack /\ m <= K
    BY <1>1
  <2>2. FrameHolds(stack[m], m) /\ PathPrefix(stack[m].path, top.path)
    BY <2>1 DEF IInv, FramesHold, Prefixed, top
  <2>3. stack[m].path[i] = top.path[i]
    BY <2>2 DEF FrameHolds, PathPrefix
  <2> QED BY <2>1, <2>3, <1>1, <1>6
<1>8. ChildPath(q)
  BY <1>6, <1>7 DEF ChildPath, K, top, child
<1> QED
  BY <1>1, <1>3, <1>8 DEF K, top, child, q

\* Where a result and the path of the next child part.
LEMMA Parts ==
    ASSUME IInv, stack # <<>>, NEW q, ChildPath(q), Last(stack).next <= Len(Last(stack).children),
           NEW r \in ResultSet, NEW m \in DOMAIN stack, PlacedAt(r, m)
    PROVE  PathComes(r.path, q) /\ ~PathPrefix(q, r.path)
<1> DEFINE K == Len(stack)
           frame == stack[m]
           p == r.path
<1>1. K \in Nat \ {0} /\ m \in 1 .. K /\ frame \in Frames /\ FrameHolds(frame, m) /\ Last(stack) = stack[K]
  BY DEF IInv, Types, FramesHold, Last
<1>2. /\ p \in Seq(Obj \cup {Stdin}) /\ Len(p) \in Nat /\ DOMAIN p = 1 .. Len(p)
      /\ q \in Seq(Obj) /\ Len(q) = K + 1 /\ DOMAIN q = 1 .. K + 1
  BY <1>1 DEF ResultSet, ChildPath
<1>3. Len(frame.path) = m /\ Len(p) >= m /\ \A i \in 1 .. m : p[i] = q[i]
  <2>1. Len(frame.path) = m /\ PathPrefix(frame.path, p)
    BY <1>1 DEF FrameHolds, PlacedAt
  <2>2. \A i \in 1 .. m : q[i] = frame.path[i]
    BY <1>1 DEF ChildPath
  <2> HIDE DEF frame, p
  <2> QED BY <2>1, <2>2 DEF PathPrefix
<1>4. CASE Len(p) = m
  BY <1>1, <1>2, <1>3, <1>4 DEF PathComes, PathPrefix
<1>5. ASSUME NEW i \in 1 .. frame.next - 1, Len(p) > m, p[m + 1] = frame.children[i],
             m < Len(stack) => i < frame.next - 1
      PROVE  PathComes(p, q) /\ ~PathPrefix(q, p)
  <2>1. PICK j \in 1 .. Len(frame.children) : i < j /\ q[m + 1] = frame.children[j]
    <3>1. CASE m < K
      <4>1. m + 1 \in 2 .. K /\ m + 1 \in DOMAIN stack /\ m + 1 \in 1 .. m + 1 /\ (m + 1) - 1 = m
        BY <3>1, <1>1
      <4>2. frame.next > 1 /\ stack[m + 1].path = Append(frame.path, frame.children[frame.next - 1])
        BY <4>1 DEF IInv, Nested
      <4>3. stack[m + 1].path[m + 1] = frame.children[frame.next - 1]
        <5>1. frame.next - 1 \in 1 .. Len(frame.children) /\ frame.path \in Seq(Obj) /\ frame.children \in Seq(Obj)
          BY SMTT(30), <4>2, <1>1 DEF FrameHolds, Frames
        <5>2. frame.children[frame.next - 1] \in Obj
          BY <5>1
        <5> HIDE DEF frame
        <5> QED BY <4>2, <5>1, <5>2, <1>3, AppendOne
      <4>4. q[m + 1] = frame.children[frame.next - 1]
        <5>1. q[m + 1] = stack[m + 1].path[m + 1]
          BY <4>1 DEF ChildPath
        <5> QED BY <5>1, <4>3
      <4>5. frame.next - 1 \in 1 .. Len(frame.children) /\ i < frame.next - 1
        BY SMTT(30), <3>1, <1>1, <1>5, <4>2 DEF FrameHolds, Frames
      <4> QED BY <4>4, <4>5
    <3>2. CASE m = K
      <4>1. q[m + 1] = frame.children[frame.next]
        BY <3>2 DEF ChildPath
      <4>2. frame.next \in 1 .. Len(frame.children) /\ i < frame.next
        BY <3>2, <1>1, <1>5 DEF Frames
      <4> QED BY <4>1, <4>2
    <3> QED BY <3>1, <3>2, <1>1
  <2>2. i \in DOMAIN frame.children /\ j \in DOMAIN frame.children /\ IsInjective(frame.children) /\ Sorted(frame.children)
    <3>1. IsInjective(frame.children) /\ Sorted(frame.children) /\ frame.children \in Seq(Obj) /\ frame.next \in Nat
      BY <1>1 DEF FrameHolds, Frames
    <3> HIDE DEF frame
    <3> QED BY <3>1, <2>1
  <2>3. p[m + 1] # q[m + 1] /\ (opt.sort # "none" => Before(p[m + 1], q[m + 1]))
    <3> HIDE DEF frame, p
    <3> QED BY <2>1, <2>2, <1>5 DEF IsInjective, Sorted
  <2>4. m + 1 \in DOMAIN p \cap DOMAIN q /\ Agree(p, q, (m + 1) - 1)
    <3> HIDE DEF frame, p, K
    <3> QED BY SMTT(30), <1>1, <1>2, <1>3, <1>5 DEF Agree
  <2>5. PathComes(p, q)
    <3> HIDE DEF frame, p
    <3> QED BY <2>3, <2>4 DEF PathComes
  <2>6. ~PathPrefix(q, p)
    <3> HIDE DEF frame, p
    <3> QED BY <2>3, <2>4 DEF PathPrefix
  <2> QED BY <2>5, <2>6
<1> QED
  BY <1>4, <1>5 DEF PlacedAt

LEMMA ResultsSoFar ==
    ASSUME Types, pending = <<>>
    PROVE  Results = delivered /\ delivered \in Seq(ResultSet) /\ rootIndex \in Nat
<1>1. delivered \in Seq(ResultSet) /\ rootIndex \in Nat
  BY DEF Types
<1>2. delivered \o <<>> = delivered
  BY <1>1, ConcatEmptySeq
<1> QED
  BY <1>1, <1>2 DEF Results

\* What was found so far comes before the next child.
LEMMA ChildFollows ==
    ASSUME IInv, pending = <<>>, stack # <<>>, NEW q, ChildPath(q), Last(stack).next <= Len(Last(stack).children)
    PROVE  Follows(delivered, q, rootIndex)
<1> DEFINE R == delivered
           K == Len(stack)
<1>1. Results = R /\ R \in Seq(ResultSet) /\ rootIndex \in Nat
  BY ResultsSoFar DEF IInv
<1>2. K \in Nat \ {0} /\ DOMAIN stack = 1 .. K
  BY ChildPathIs DEF IInv, Types
<1>3. ASSUME NEW i \in DOMAIN R, R[i].root = rootIndex
      PROVE  PathComes(R[i].path, q) /\ ~PathPrefix(q, R[i].path)
  <2>1. R[i] \in ResultSet
    BY <1>1
  <2>2. PICK m \in DOMAIN stack : PlacedAt(R[i], m)
    BY <1>1, <1>3 DEF IInv, Placed
  <2> HIDE DEF R
  <2> QED BY <2>1, <2>2, Parts
<1>4. ASSUME NEW i \in DOMAIN R
      PROVE  R[i].root < rootIndex \/ (R[i].root = rootIndex /\ ~PathPrefix(q, R[i].path) /\ PathComes(R[i].path, q))
  <2>1. R[i].root \in 1 .. rootIndex
    BY <1>1 DEF IInv, RootsKnown
  <2>2. CASE R[i].root = rootIndex
    BY <2>2, <1>3
  <2>3. CASE R[i].root # rootIndex
    BY <2>1, <2>3, <1>1
  <2> QED BY <2>2, <2>3
<1>5. ASSUME NEW i \in DOMAIN R, NEW j \in DOMAIN R, i < j, R[i].root = rootIndex,
             NEW n \in Nat, Agree(R[i].path, q, n)
      PROVE  Agree(R[i].path, R[j].path, n)
  <2> DEFINE p == R[i].path
             s == R[j].path
  <2>1. p \in Seq(Obj \cup {Stdin}) /\ s \in Seq(Obj \cup {Stdin})
    <3>1. R[i] \in ResultSet /\ R[j] \in ResultSet
      BY <1>1
    <3> QED BY <3>1 DEF ResultSet
  <2>2. q \in Seq(Obj) /\ Len(q) = K + 1 /\ n <= K + 1 /\ ~PathPrefix(q, p)
    BY <1>2, <1>3, <1>5 DEF ChildPath, Agree
  <2>3. Len(p) \in Nat /\ Len(s) \in Nat /\ n <= Len(p) /\ \A a \in 1 .. n : p[a] = q[a]
    BY <2>1, <1>5 DEF Agree
  <2> HIDE DEF p, s, K
  <2>4. CASE n = 0
    BY <2>3, <2>4 DEF Agree, p, s
  <2>5. CASE n = K + 1
    BY <2>2, <2>3, <2>5, <1>2 DEF PathPrefix
  <2>6. CASE n \in 1 .. K
    <3>1. n \in DOMAIN stack /\ Len(stack[n].path) = n
      <4>1. n \in DOMAIN stack
        BY <2>6, <1>2
      <4> QED BY <4>1 DEF IInv, FramesHold, FrameHolds
    <3>2. \A a \in 1 .. n : stack[n].path[a] = q[a]
      <4>1. n \in 1 .. Len(stack)
        BY <2>6 DEF K
      <4> QED BY <4>1 DEF ChildPath
    <3>3. PathPrefix(stack[n].path, p)
      BY <2>3, <3>1, <3>2 DEF PathPrefix
    <3>4. PathPrefix(stack[n].path, s)
      BY <3>1, <3>3, <1>1, <1>5 DEF IInv, Inside, p, s
    <3>5. Agree(p, s, n)
      BY <2>3, <3>1, <3>2, <3>4 DEF PathPrefix, Agree
    <3> QED BY <3>5 DEF p, s
  <2> QED BY <2>2, <2>4, <2>5, <2>6, <1>2
<1> QED
  BY <1>4, <1>5 DEF Follows

-----------------------------------------------------------------------------
\* The steps.

LEMMA GivenKept ==
    ASSUME Given, fs' = fs, opt' = opt
    PROVE  Given'
BY DEF Given

\* What does not touch the stack keeps what is known of the frames.
LEMMA StackKept ==
    ASSUME IInv, fs' = fs, opt' = opt, rootIndex' = rootIndex, stack' = stack
    PROVE  FramesHold' /\ Nested' /\ Prefixed' /\ Acyclic'
<1>1. FramesHold'
  BY DEF IInv, FramesHold, FrameHolds, Real, Children, Sorted, Before
<1>2. Nested' /\ Prefixed'
  BY DEF IInv, Nested, Prefixed
<1>3. Acyclic'
  BY DEF IInv, Acyclic, Real
<1> QED
  BY <1>1, <1>2, <1>3

\* What does not touch the results keeps their order.
LEMMA ResultsKept ==
    ASSUME IInv, opt' = opt, rootIndex' = rootIndex, Results' = Results
    PROVE  RootsKnown' /\ Together' /\ Ordered' /\ Once'
<1>1. RootsKnown' /\ Together' /\ Once'
  BY DEF IInv, RootsKnown, Together, TogetherIn, Once
<1>2. Ordered'
  BY DEF IInv, Ordered, OrderedIn, Comes, PathComes, Before
<1> QED
  BY <1>1, <1>2

\* A result that is handed over moves from one list to the other.
LEMMA HandOver ==
    ASSUME NEW S, NEW s \in Seq(S), NEW p \in Seq(S), p # <<>>
    PROVE  Append(s, Head(p)) \o Tail(p) = s \o p /\ Append(s, Head(p)) \in Seq(S) /\ Tail(p) \in Seq(S) /\ Len(Tail(p)) < Len(p)
<1> DEFINE a == Append(s, Head(p))
           t == Tail(p)
           u == a \o t
           w == s \o p
<1>1. Len(s) \in Nat /\ Len(p) \in Nat \ {0} /\ p[1] \in S /\ Head(p) = p[1]
  OBVIOUS
<1>2. a \in Seq(S) /\ Len(a) = Len(s) + 1 /\ a[Len(s) + 1] = p[1] /\ \A i \in 1 .. Len(s) : a[i] = s[i]
  BY <1>1, AppendOne
<1>3. t \in Seq(S) /\ Len(t) = Len(p) - 1 /\ \A i \in 1 .. Len(p) - 1 : t[i] = p[i + 1]
  BY <1>1, HeadTailProperties
<1> HIDE DEF a, t
<1>4. u \in Seq(S) /\ Len(u) = Len(a) + Len(t)
  BY <1>2, <1>3, ConcatProperties
<1>5. \A i \in 1 .. Len(a) + Len(t) : u[i] = IF i <= Len(a) THEN a[i] ELSE t[i - Len(a)]
  BY <1>2, <1>3, ConcatProperties
<1>6. w \in Seq(S) /\ Len(w) = Len(s) + Len(p)
  BY ConcatProperties
<1>7. \A i \in 1 .. Len(s) + Len(p) : w[i] = IF i <= Len(s) THEN s[i] ELSE p[i - Len(s)]
  BY ConcatProperties
<1> HIDE DEF u, w
<1>8. ASSUME NEW i \in 1 .. Len(s) + Len(p) PROVE u[i] = w[i]
  <2>0. i \in 1 .. Len(a) + Len(t)
    BY <1>1, <1>2, <1>3
  <2>1. CASE i <= Len(s)
    <3>1. i <= Len(a) /\ i \in 1 .. Len(s)
      BY <2>1, <1>1, <1>2
    <3>2. u[i] = a[i] /\ w[i] = s[i]
      BY <3>1, <2>0, <2>1, <1>5, <1>7
    <3> QED BY <3>1, <3>2, <1>2
  <2>2. CASE i = Len(s) + 1
    BY <2>2, <1>1, <1>2, <1>3, <1>5, <1>7
  <2>3. CASE i > Len(s) + 1
    <3>1. i - Len(a) \in 1 .. Len(p) - 1 /\ (i - Len(a)) + 1 = i - Len(s)
      BY <2>3, <1>1, <1>2
    <3>2. u[i] = t[i - Len(a)] /\ w[i] = p[i - Len(s)]
      <4>1. ~(i <= Len(a)) /\ ~(i <= Len(s))
        BY <2>3, <1>1, <1>2
      <4> QED BY <4>1, <2>0, <1>5, <1>7
    <3> QED BY <3>1, <3>2, <1>3
  <2> QED BY <2>1, <2>2, <2>3, <1>1
<1>9. u = w
  <2>1. Len(u) = Len(w) /\ \A i \in 1 .. Len(u) : u[i] = w[i]
    BY <1>1, <1>2, <1>3, <1>4, <1>6, <1>8
  <2> QED BY <2>1, <1>4, <1>6, SeqEqual
<1> QED
  BY <1>1, <1>2, <1>3, <1>9 DEF a, t, u, w

LEMMA PopKeeps ==
    ASSUME IInv, PopPending
    PROVE  IInv'
<1>1. fs' = fs /\ opt' = opt /\ rootIndex' = rootIndex /\ stack' = stack
      /\ pending # <<>> /\ delivered' = Append(delivered, Head(pending)) /\ pending' = Tail(pending)
  BY DEF PopPending
<1>2. pending \in Seq(ResultSet) /\ delivered \in Seq(ResultSet) /\ Len(pending) <= 3
  BY DEF IInv, Types
<1>3. Results' = Results
  BY <1>1, <1>2, HandOver DEF Results
<1>4. Types'
  <2>1. delivered' \in Seq(ResultSet) /\ pending' \in Seq(ResultSet) /\ Len(pending') < Len(pending)
    BY <1>1, <1>2, HandOver
  <2>2. Len(pending') <= 2
    BY <2>1, <1>2
  <2> QED BY <2>1, <2>2, <1>1 DEF IInv, Types
<1>5. Placed'
  BY <1>1, <1>3 DEF IInv, Placed, PlacedAt
<1>6. Inside'
  BY <1>1, <1>3 DEF IInv, Inside
<1> QED
  BY <1>1, <1>3, <1>4, <1>5, <1>6, GivenKept, StackKept, ResultsKept DEF IInv

LEMMA FrontIs ==
    ASSUME NEW S, NEW s \in Seq(S), s # <<>>
    PROVE  /\ Len(s) \in Nat \ {0} /\ Front(s) \in Seq(S) /\ Len(Front(s)) = Len(s) - 1
           /\ \A i \in 1 .. Len(s) - 1 : Front(s)[i] = s[i]
<1>1. Len(s) \in Nat \ {0}
  OBVIOUS
<1> DEFINE n == Len(s) - 1
<1>2. n \in Nat /\ \A i \in 1 .. n : s[i] \in S
  BY <1>1, ElementOfSeq
<1>3. SubSeq(s, 1, n) \in Seq(S) /\ Len(SubSeq(s, 1, n)) = n /\ \A i \in 1 .. n : SubSeq(s, 1, n)[i] = s[i]
  <2> HIDE DEF n
  <2> QED BY <1>2, SubSeqProperties
<1> QED
  BY <1>1, <1>3 DEF Front

LEMMA LeaveKeeps ==
    ASSUME IInv, LeaveDir
    PROVE  IInv'
<1> DEFINE K == Len(stack)
<1>1. fs' = fs /\ opt' = opt /\ rootIndex' = rootIndex /\ pending' = pending /\ delivered' = delivered
      /\ stack # <<>> /\ stack' = Front(stack)
  BY DEF LeaveDir
<1>2. K \in Nat \ {0} /\ DOMAIN stack = 1 .. K /\ stack' \in Seq(Frames) /\ Len(stack') = K - 1
      /\ \A k \in 1 .. K - 1 : stack'[k] = stack[k]
  BY <1>1, FrontIs DEF IInv, Types
<1>3. DOMAIN stack' = 1 .. K - 1 /\ Results' = Results
  BY <1>1, <1>2 DEF Results
<1> HIDE DEF K
<1>4. Types'
  BY <1>1, <1>2 DEF IInv, Types
<1>5. FramesHold'
  <2>1. stack' # <<>> => rootIndex' > 0
    BY <1>1 DEF IInv, FramesHold
  <2>2. ASSUME NEW k \in DOMAIN stack' PROVE FrameHolds(stack[k], k)'
    <3>1. k \in DOMAIN stack /\ stack'[k] = stack[k]
      BY <1>2, <1>3
    <3>2. FrameHolds(stack[k], k)
      BY <3>1 DEF IInv, FramesHold
    <3> QED BY <1>1, <3>1, <3>2 DEF FrameHolds, Real, Children, Sorted, Before
  <2> QED BY <2>1, <2>2 DEF FramesHold
<1>6. Nested'
  <2>1. ASSUME NEW k \in 2 .. Len(stack')
        PROVE  /\ stack'[k - 1].next > 1
               /\ stack'[k].path = Append(stack'[k - 1].path, stack'[k - 1].children[stack'[k - 1].next - 1])
    <3>1. k \in 2 .. Len(stack) /\ stack'[k] = stack[k] /\ stack'[k - 1] = stack[k - 1]
      BY <1>2 DEF K
    <3> QED BY <3>1 DEF IInv, Nested
  <2> QED BY <2>1 DEF Nested
<1>7. Prefixed'
  BY <1>2, <1>3 DEF IInv, Prefixed
<1>8. Acyclic'
  BY <1>1, <1>2, <1>3 DEF IInv, Acyclic, Real
<1>9. Placed'
  <2> SUFFICES ASSUME NEW x \in DOMAIN Results, Results[x].root = rootIndex, stack' # <<>>
               PROVE  \E m \in DOMAIN stack' : PlacedAt(Results[x], m)'
    BY <1>1, <1>3 DEF Placed
  <2> DEFINE r == Results[x]
  <2>1. PICK m \in DOMAIN stack : PlacedAt(r, m)
    BY <1>1 DEF IInv, Placed
  <2>2. K >= 2
    BY <1>2
  <2>3. CASE m < K
    <3>1. m \in DOMAIN stack' /\ stack'[m] = stack[m] /\ (m < Len(stack') => m < Len(stack))
      BY <2>3, <1>2, <1>3 DEF K
    <3>2. Results' = Results
      BY <1>3
    <3>3. PlacedAt(Results[x], m)'
      BY <2>1, <3>1, <3>2 DEF PlacedAt
    <3> QED BY <3>1, <3>3
  <2>4. CASE m = K
    <3>0. PICK n \in Nat : n = K - 1
      BY <1>2
    <3> DEFINE frame == stack[n]
    <3>1. n \in DOMAIN stack /\ n \in DOMAIN stack' /\ stack'[n] = frame /\ n = Len(stack') /\ K \in 2 .. Len(stack) /\ n + 1 = K
      BY <3>0, <2>2, <1>2, <1>3 DEF K
    <3>2. frame \in Frames /\ FrameHolds(frame, n) /\ FrameHolds(stack[K], K) /\ PathPrefix(frame.path, stack[K].path)
      <4>1. n \in DOMAIN stack /\ K \in DOMAIN stack /\ n <= K
        BY <3>1, <1>2
      <4>2. frame \in Frames
        BY <4>1 DEF IInv, Types
      <4> QED BY <4>1, <4>2 DEF IInv, FramesHold, Prefixed
    <3>3. frame.next > 1 /\ stack[K].path = Append(frame.path, frame.children[frame.next - 1])
      BY <3>0, <3>1 DEF IInv, Nested
    <3>4. frame.next - 1 \in 1 .. Len(frame.children) /\ frame.children \in Seq(Obj) /\ frame.path \in Seq(Obj)
      BY <3>2, <3>3 DEF FrameHolds, Frames
    <3> HIDE DEF frame
    <3>5. stack[K].path[n + 1] = frame.children[frame.next - 1]
      <4>1. frame.children[frame.next - 1] \in Obj /\ Len(frame.path) = n
        BY <3>2, <3>4 DEF FrameHolds
      <4> QED BY <3>3, <3>4, <4>1, AppendOne
    <3> HIDE DEF r
    <3>6. PathPrefix(stack[K].path, r.path) /\ Len(stack[K].path) = K
      BY <2>1, <2>4, <3>2 DEF PlacedAt, FrameHolds
    <3>7. Len(frame.path) = n /\ Len(r.path) >= K
      BY <3>2, <3>6 DEF FrameHolds, PathPrefix
    <3>8. PathPrefix(frame.path, r.path) /\ r.path[n + 1] = frame.children[frame.next - 1]
      <4>1. r.path[K] = stack[K].path[K] /\ \A i \in 1 .. K : r.path[i] = stack[K].path[i]
        BY <3>6, <1>2 DEF PathPrefix
      <4>2. \A i \in 1 .. n : frame.path[i] = r.path[i]
        BY <4>1, <3>1, <3>2, <3>7 DEF PathPrefix
      <4>3. PathPrefix(frame.path, r.path)
        <5>1. Len(r.path) \in Int
          <6>1. r \in ResultSet
            <7>1. Results \in Seq(ResultSet)
              BY ConcatProperties DEF IInv, Types, Results
            <7> QED BY <7>1 DEF r
          <6> QED BY <6>1 DEF ResultSet
        <5> QED BY <5>1, <4>2, <3>1, <3>7 DEF PathPrefix
      <4> QED BY <4>1, <4>3, <3>1, <3>5
    <3>9. Len(r.path) > n
      <4>1. Len(r.path) \in Int
        <5>1. r \in ResultSet
          <6>1. Results \in Seq(ResultSet)
            BY ConcatProperties DEF IInv, Types, Results
          <6> QED BY <6>1 DEF r
        <5> QED BY <5>1 DEF ResultSet
      <4> QED BY <4>1, <3>1, <3>7
    <3>10. PlacedAt(Results[x], n)'
      <4>1. stack'[n] = frame
        BY <3>1
      <4>2. ~(n < Len(stack'))
        BY <3>1
      <4>3. Results'[x] = r
        BY <1>3 DEF r
      <4>4. PathPrefix(stack'[n].path, Results'[x].path)
        BY <4>1, <4>3, <3>8
      <4>5. Results'[x].path[n + 1] = stack'[n].children[frame.next - 1] /\ Len(Results'[x].path) > n
        BY <4>1, <4>3, <3>8, <3>9
      <4>6. frame.next - 1 \in 1 .. stack'[n].next - 1
        BY <4>1, <3>4
      <4> QED BY <4>2, <4>4, <4>5, <4>6 DEF PlacedAt
    <3> QED BY <3>1, <3>10
  <2> QED BY <2>1, <2>3, <2>4, <1>2
<1>10. Inside'
  BY <1>1, <1>2, <1>3 DEF IInv, Inside
<1> QED
  BY <1>1, <1>3, <1>4, <1>5, <1>6, <1>7, <1>8, <1>9, <1>10, GivenKept, ResultsKept DEF IInv

\* The stack after a child was looked at: its parent is a child further, and the
\* child may have a frame of its own, unless it is a link back into the walk.
ChildStack(q) ==
    LET K == Len(stack)
    IN /\ stack' \in Seq(Frames) /\ Len(stack') \in {K, K + 1}
       /\ \A k \in 1 .. K :
            /\ stack'[k].path = stack[k].path /\ stack'[k].ig = stack[k].ig /\ stack'[k].children = stack[k].children
            /\ stack'[k].next = IF k = K THEN stack[k].next + 1 ELSE stack[k].next
       /\ Len(stack') = K + 1 =>
            /\ FrameOf(stack'[K + 1], q, stack[K].ig)
            /\ fs.kind[q[K + 1]] = "link" => ~SymlinkLoop(stack[K].ig, Real(q[K + 1]))

LEMMA ChildStackIs ==
    ASSUME Types, stack # <<>>, NEW q, Last(stack) = stack[Len(stack)],
           LET frames == [stack EXCEPT ![Len(stack)].next = @ + 1]
           IN \/ stack' = frames
              \/ \E frame :
                    /\ FrameOf(frame, q, Last(stack).ig)
                    /\ stack' = Append(frames, frame)
                    /\ fs.kind[q[Len(stack) + 1]] = "link" => ~SymlinkLoop(Last(stack).ig, Real(q[Len(stack) + 1]))
    PROVE  ChildStack(q)
<1> DEFINE K == Len(stack)
           frames == [stack EXCEPT ![K].next = @ + 1]
<1>1. K \in Nat \ {0} /\ DOMAIN stack = 1 .. K /\ \A k \in 1 .. K : stack[k] \in Frames
  BY DEF Types
<1>2. frames \in Seq(Frames) /\ Len(frames) = K
      /\ \A k \in 1 .. K :
            /\ frames[k].path = stack[k].path /\ frames[k].ig = stack[k].ig /\ frames[k].children = stack[k].children
            /\ frames[k].next = IF k = K THEN stack[k].next + 1 ELSE stack[k].next
  <2>1. frames = [k \in 1 .. K |-> IF k = K THEN [stack[k] EXCEPT !.next = @ + 1] ELSE stack[k]]
    BY <1>1
  <2>2. [stack[K] EXCEPT !.next = @ + 1] \in Frames
    <3>1. ASSUME NEW s \in Frames PROVE [s EXCEPT !.next = @ + 1] \in Frames
      <4>1. s.next + 1 \in Nat \ {0}
        BY DEF Frames
      <4>2. [s EXCEPT !.next = s.next + 1] \in Frames
        <5> DEFINE n == s.next + 1
        <5> HIDE DEF n
        <5> QED BY <4>1 DEF Frames, n
      <4> QED BY <4>2
    <3> QED BY <3>1, <1>1
  <2> HIDE DEF K, frames
  <2>3. frames \in [1 .. K -> Frames]
    BY <2>1, <2>2, <1>1
  <2>4. frames \in Seq(Frames) /\ Len(frames) = K
    BY <2>3, <1>1
  <2>5. ASSUME NEW k \in 1 .. K
        PROVE  /\ frames[k].path = stack[k].path /\ frames[k].ig = stack[k].ig /\ frames[k].children = stack[k].children
               /\ frames[k].next = IF k = K THEN stack[k].next + 1 ELSE stack[k].next
    BY <2>1, <1>1 DEF Frames
  <2> QED BY <2>4, <2>5
<1>3. \/ stack' = frames
      \/ \E frame :
            /\ FrameOf(frame, q, stack[K].ig)
            /\ stack' = Append(frames, frame)
            /\ fs.kind[q[K + 1]] = "link" => ~SymlinkLoop(stack[K].ig, Real(q[K + 1]))
  OBVIOUS
<1> HIDE DEF K, frames
<1>4. CASE stack' = frames
  BY <1>1, <1>2, <1>4 DEF ChildStack, K
<1>5. ASSUME NEW frame, FrameOf(frame, q, stack[K].ig), stack' = Append(frames, frame),
             fs.kind[q[K + 1]] = "link" => ~SymlinkLoop(stack[K].ig, Real(q[K + 1]))
      PROVE  ChildStack(q)
  <2>1. frame \in Frames
    BY <1>5 DEF FrameOf
  <2>2. stack' \in Seq(Frames) /\ Len(stack') = K + 1 /\ stack'[K + 1] = frame /\ \A k \in 1 .. K : stack'[k] = frames[k]
    BY <1>2, <1>5, <2>1, AppendOne
  <2> QED BY <1>1, <1>2, <1>5, <2>2 DEF ChildStack, K
<1> QED
  BY <1>3, <1>4, <1>5

\* A turn at a child keeps the invariant: first what is known of the frames.
LEMMA ChildKeepsFrames ==
    ASSUME IInv, stack # <<>>, Last(stack).next <= Len(Last(stack).children),
           fs' = fs, opt' = opt, rootIndex' = rootIndex, NEW q, ChildPath(q), ChildStack(q)
    PROVE  FramesHold' /\ Nested' /\ Prefixed' /\ Acyclic'
<1>1. PICK K \in Nat \ {0} : K = Len(stack)
  BY DEF IInv, Types
<1>0. DOMAIN stack = 1 .. K /\ Last(stack) = stack[K] /\ stack' \in Seq(Frames) /\ Len(stack') \in {K, K + 1}
  BY <1>1 DEF IInv, Types, Last, ChildStack
<1>2. PICK N \in Nat : /\ N = K \/ N = K + 1
                      /\ Len(stack') = N /\ DOMAIN stack' = 1 .. N /\ DOMAIN stack = 1 .. K
                      /\ Last(stack) = stack[K] /\ \A k \in 1 .. N : stack'[k] \in Frames
  BY <1>0
<1>3. \A k \in 1 .. K :
        /\ k \in DOMAIN stack'
        /\ stack'[k].path = stack[k].path /\ stack'[k].ig = stack[k].ig /\ stack'[k].children = stack[k].children
        /\ stack'[k].next = IF k = K THEN stack[k].next + 1 ELSE stack[k].next
  <2>1. \A k \in 1 .. K : k \in DOMAIN stack'
    BY <1>2
  <2> QED BY <1>1, <2>1 DEF ChildStack
<1>4. Len(stack') = K + 1 => FrameOf(stack'[K + 1], q, stack[K].ig)
  BY <1>1 DEF ChildStack
<1>5. /\ q \in Seq(Obj) /\ Len(q) = K + 1 /\ Last(q) = q[K + 1]
      /\ q[K + 1] = stack[K].children[stack[K].next]
      /\ \A m \in 1 .. K : \A i \in 1 .. m : q[i] = stack[m].path[i]
  BY <1>1 DEF ChildPath, Last
<1>6. \A k \in 1 .. K : stack[k] \in Frames /\ FrameHolds(stack[k], k)
  BY <1>2 DEF IInv, Types, FramesHold
<1>7. stack[K].next \in 1 .. Len(stack[K].children)
  <2>1. stack[K] \in Frames
    BY <1>6
  <2>2. stack[K].next \in Nat \ {0}
    BY <2>1 DEF Frames
  <2> QED BY <2>2, <1>2
<1>8. FramesHold'
  <2>1. rootIndex' > 0
    BY DEF IInv, FramesHold
  <2>2. ASSUME NEW k \in 1 .. K PROVE FrameHolds(stack[k], k)'
    <3>1. FrameHolds(stack[k], k)
      BY <1>6
    <3>2. stack'[k].next <= Len(stack'[k].children) + 1
      BY <1>3, <1>7, <3>1 DEF FrameHolds
    <3>3. \A o : Real(o)' = Real(o) /\ Children(o)' = Children(o)
      BY DEF Real, Children
    <3>4. stack'[k].path = stack[k].path /\ stack'[k].ig = stack[k].ig /\ stack'[k].children = stack[k].children
      BY <1>3
    <3>5. Sorted(stack[k].children)'
      BY <3>1, <3>4 DEF FrameHolds, Sorted, Before
    <3>6. \A o \in Obj : SymlinkLoop(stack'[k].ig, o) <=> \E i \in 1 .. k : o = Real(stack[k].path[i])'
      BY <3>1, <3>3, <3>4 DEF FrameHolds
    <3>7. Range(stack'[k].children) = Children(Real(stack[k].path[k]))' /\ IsInjective(stack'[k].children)
      BY <3>1, <3>3, <3>4 DEF FrameHolds, Children, Real
    <3>8. Len(stack'[k].path) = k /\ stack'[k].path[1] = opt'.roots[rootIndex'] /\ stack'[k].ig # <<>>
          /\ stack'[k].ig[1].dir = Real(stack[k].path[k])'
      BY <3>1, <3>3, <3>4 DEF FrameHolds
    <3> QED BY <3>2, <3>5, <3>6, <3>7, <3>8 DEF FrameHolds, SymlinkLoop
  <2>3. ASSUME Len(stack') = K + 1, NEW k, k = K + 1 PROVE FrameHolds(stack[k], k)'
    <3>1. FrameOf(stack'[k], q, stack[K].ig)
      BY <1>4, <2>3
    <3>2. stack'[k].path = q /\ stack'[k].path[1] = opt'.roots[rootIndex']
      <4>1. q[1] = stack[K].path[1] /\ stack[K].path[1] = opt.roots[rootIndex]
        BY <1>5, <1>6 DEF FrameHolds
      <4> QED BY <4>1, <3>1 DEF FrameOf
    <3>3. \A o \in Obj : SymlinkLoop(stack'[k].ig, o) <=> \E i \in 1 .. k : o = Real(stack[k].path[i])'
      <4>1. \A o \in Obj : SymlinkLoop(stack'[k].ig, o) <=> o = Real(q[k]) \/ SymlinkLoop(stack[K].ig, o)
        BY <2>3, <3>1, <1>5 DEF FrameOf
      <4>2. \A o \in Obj : SymlinkLoop(stack[K].ig, o) <=> \E i \in 1 .. K : o = Real(stack[K].path[i])
        BY <1>6 DEF FrameHolds
      <4>3. \A i \in 1 .. K : stack[K].path[i] = q[i]
        BY <1>5
      <4>4. \A o \in Obj : SymlinkLoop(stack'[k].ig, o) <=> \E i \in 1 .. k : o = Real(q[i])
        BY <4>1, <4>2, <4>3, <2>3
      <4>5. \A o : Real(o)' = Real(o)
        BY DEF Real
      <4> QED BY <3>2, <4>4, <4>5 DEF Real
    <3>4. Len(stack'[k].path) = k /\ stack'[k].next = 1 /\ Len(stack'[k].children) \in Nat
      <4>1. stack'[k].children \in Seq(Obj)
        BY <3>1 DEF FrameOf, Frames
      <4> QED BY <4>1, <2>3, <3>1, <3>2, <1>5 DEF FrameOf
    <3>5. stack'[k].ig # <<>> /\ stack'[k].ig[1].dir = Real(stack[k].path[k])'
      <4>1. stack'[k].ig # <<>> /\ stack'[k].ig[1].dir = Real(q[k])
        BY <2>3, <3>1, <1>5 DEF FrameOf
      <4> QED BY <4>1, <3>2 DEF Real
    <3>6. Range(stack'[k].children) = Children(Real(stack[k].path[k]))'
      <4>1. Range(stack'[k].children) = Children(Real(q[k]))
        BY <2>3, <3>1, <1>5 DEF FrameOf
      <4> QED BY <4>1, <3>2 DEF Real, Children
    <3>7. IsInjective(stack'[k].children) /\ Sorted(stack[k].children)'
      <4>1. IsInjective(stack'[k].children) /\ Sorted(stack'[k].children)
        BY <3>1 DEF FrameOf
      <4> QED BY <4>1 DEF Sorted, Before
    <3> QED BY <3>2, <3>3, <3>4, <3>5, <3>6, <3>7 DEF FrameHolds
  <2>4. \A k \in DOMAIN stack' : FrameHolds(stack[k], k)'
    BY <1>2, <2>2, <2>3
  <2> QED BY <2>1, <2>4 DEF FramesHold
<1>9. Nested'
  <2> SUFFICES ASSUME NEW k \in 2 .. Len(stack')
        PROVE  /\ stack'[k - 1].next > 1
               /\ stack'[k].path = Append(stack'[k - 1].path, stack'[k - 1].children[stack'[k - 1].next - 1])
    BY DEF Nested
  <2>1. CASE k <= K
    <3>1. k \in 2 .. Len(stack) /\ k - 1 \in 1 .. K /\ k - 1 # K /\ k \in 1 .. K
      BY <2>1, <1>1
    <3>2. stack[k - 1].next > 1 /\ stack[k].path = Append(stack[k - 1].path, stack[k - 1].children[stack[k - 1].next - 1])
      BY <3>1 DEF IInv, Nested
    <3> QED BY <3>1, <3>2, <1>3
  <2>2. CASE k = K + 1
    <3>1. stack'[k].path = q /\ k - 1 = K /\ K \in 1 .. K /\ Len(stack') = K + 1
      BY <2>2, <1>2, <1>4 DEF FrameOf
    <3>2. stack'[K].next = stack[K].next + 1 /\ stack[K].next \in Nat \ {0} /\ stack'[K].next - 1 = stack[K].next
      BY <3>1, <1>3, <1>7
    <3>3. q = Append(stack[K].path, stack[K].children[stack[K].next])
      <4> DEFINE u == Append(stack[K].path, stack[K].children[stack[K].next])
      <4>1. stack[K] \in Frames /\ Len(stack[K].path) = K
        BY <3>1, <1>6 DEF FrameHolds
      <4>2. stack[K].path \in Seq(Obj) /\ stack[K].children[stack[K].next] \in Obj
        BY <4>1, <1>7 DEF Frames
      <4>3. u \in Seq(Obj) /\ Len(u) = K + 1 /\ u[K + 1] = q[K + 1] /\ \A i \in 1 .. K : u[i] = stack[K].path[i]
        BY <4>1, <4>2, <1>5, AppendOne
      <4> HIDE DEF u
      <4>4. \A i \in 1 .. K + 1 : u[i] = q[i]
        BY <4>3, <1>5, <3>1
      <4>5. u = q
        BY <4>3, <4>4, <1>5, SeqEqual
      <4> QED BY <4>5 DEF u
    <3>4. stack'[K].path = stack[K].path /\ stack'[K].children = stack[K].children
      BY <3>1, <1>3
    <3>5. stack'[k - 1] = stack'[K] /\ stack'[k] = stack'[k]
      BY <3>1
    <3>6. stack'[K].next > 1
      BY <3>2
    <3> QED BY <3>1, <3>2, <3>3, <3>4, <3>5, <3>6
  <2> QED BY <2>1, <2>2, <1>2
<1>10. Prefixed'
  <2> SUFFICES ASSUME NEW j \in DOMAIN stack', NEW k \in DOMAIN stack', j <= k PROVE PathPrefix(stack'[j].path, stack'[k].path)
    BY DEF Prefixed
  <2>1. CASE k <= K
    <3>1. j \in 1 .. K /\ k \in 1 .. K
      BY <2>1, <1>2
    <3> QED BY <3>1, <1>2, <1>3 DEF IInv, Prefixed
  <2>2. CASE k = K + 1 /\ j <= K
    <3>1. j \in 1 .. K /\ stack'[k].path = q
      BY <2>2, <1>2, <1>4 DEF FrameOf
    <3>2. Len(stack[j].path) = j /\ stack'[j].path = stack[j].path
      BY <3>1, <1>3, <1>6 DEF FrameHolds
    <3> QED BY <3>1, <3>2, <1>5 DEF PathPrefix
  <2>3. CASE j = k
    <3>1. stack'[k] \in Frames
      BY <1>2
    <3> QED BY <2>3, <3>1 DEF PathPrefix, Frames
  <2> QED BY <2>1, <2>2, <2>3, <1>2
<1>11. Acyclic'
  <2> SUFFICES ASSUME NEW k \in DOMAIN stack', NEW i \in 1 .. k - 1, fs.kind[stack'[k].path[k]] = "link"
               PROVE  Real(stack'[k].path[k]) # Real(stack'[k].path[i])
    BY DEF Acyclic, Real
  <2>1. CASE k <= K
    <3>1. k \in 1 .. K
      BY <2>1, <1>2
    <3> QED BY <3>1, <1>2, <1>3 DEF IInv, Acyclic
  <2>2. CASE k = K + 1
    <3>1. stack'[k].path = q /\ ~SymlinkLoop(stack[K].ig, Real(q[K + 1]))
      BY <2>2, <1>1, <1>2, <1>4 DEF FrameOf, ChildStack
    <3>2. Real(q[K + 1]) \in Obj
      <4>1. q[K + 1] \in Obj
        BY <1>5
      <4> QED BY <4>1 DEF IInv, Given, Real
    <3>3. Real(q[K + 1]) # Real(stack[K].path[i])
      <4>1. i \in 1 .. K /\ K \in 1 .. K
        BY <2>2
      <4>2. FrameHolds(stack[K], K)
        BY <4>1, <1>6
      <4> QED BY <4>1, <4>2, <3>1, <3>2 DEF FrameHolds
    <3>4. q[i] = stack[K].path[i]
      BY <2>2, <1>5
    <3> QED BY <2>2, <3>1, <3>3, <3>4
  <2> QED BY <2>1, <2>2, <1>2
<1> QED
  BY <1>8, <1>9, <1>10, <1>11

\* Then what was found: it grows by the results of the child.
LEMMA ChildKeepsResults ==
    ASSUME IInv, pending = <<>>, stack # <<>>, Last(stack).next <= Len(Last(stack).children),
           fs' = fs, opt' = opt, rootIndex' = rootIndex, delivered' = delivered,
           NEW q, ChildPath(q), ChildStack(q), ResultsOf(q, rootIndex, pending')
    PROVE  Types' /\ RootsKnown' /\ Placed' /\ Inside' /\ Together' /\ Ordered' /\ Once'
<1>1. PICK K \in Nat \ {0} : K = Len(stack)
  BY DEF IInv, Types
<1>0. DOMAIN stack = 1 .. K /\ Last(stack) = stack[K] /\ stack' \in Seq(Frames) /\ Len(stack') \in {K, K + 1}
  BY <1>1 DEF IInv, Types, Last, ChildStack
<1>2. PICK N \in Nat : (N = K \/ N = K + 1) /\ Len(stack') = N /\ DOMAIN stack' = 1 .. N
  BY <1>0
<1>3. \A k \in 1 .. K :
        /\ k \in DOMAIN stack'
        /\ stack'[k].path = stack[k].path /\ stack'[k].children = stack[k].children
        /\ stack'[k].next = IF k = K THEN stack[k].next + 1 ELSE stack[k].next
  <2>1. \A k \in 1 .. K : k \in DOMAIN stack'
    BY <1>2
  <2> QED BY <1>1, <2>1 DEF ChildStack
<1>4. N = K + 1 => stack'[N].path = q
  BY <1>1, <1>2 DEF ChildStack, FrameOf
<1>5. /\ q \in Seq(Obj) /\ q \in Seq(Obj \cup {Stdin}) /\ Len(q) = K + 1
      /\ q[K + 1] = stack[K].children[stack[K].next]
      /\ \A m \in 1 .. K : \A i \in 1 .. m : q[i] = stack[m].path[i]
  <2>1. Obj \subseteq Obj \cup {Stdin}
    OBVIOUS
  <2> QED BY <2>1, <1>1, SeqMonotonic DEF ChildPath
<1>6. \A k \in 1 .. K : stack[k].next \in Nat \ {0} /\ Len(stack[k].path) = k
  <2>1. ASSUME NEW k \in 1 .. K PROVE stack[k].next \in Nat \ {0} /\ Len(stack[k].path) = k
    <3>1. stack[k] \in Frames /\ FrameHolds(stack[k], k)
      BY <1>0 DEF IInv, Types, FramesHold
    <3> QED BY <3>1 DEF Frames, FrameHolds
  <2> QED BY <2>1
<1>7. PICK R \in Seq(ResultSet) : R = delivered /\ R = Results
  BY ResultsSoFar DEF IInv
<1>8. PICK root \in Nat : root = rootIndex /\ root > 0 /\ root <= Len(opt.roots)
  BY <1>1 DEF IInv, Types, FramesHold
<1>9. Follows(R, q, root)
  BY ChildFollows, <1>7, <1>8
<1>10. PICK w \in Seq(ResultSet) :
          w = Results' /\ Extended(w, R, q, root) /\ OrderedIn(w) /\ TogetherIn(w) /\ IsInjective(w)
  <2>1. OrderedIn(R) /\ TogetherIn(R) /\ IsInjective(R) /\ ResultsOf(q, root, pending')
    BY <1>7, <1>8 DEF IInv, Ordered, Together, Once
  <2>2. Results' = R \o pending'
    BY <1>7 DEF Results
  <2>3. Extended(Results', R, q, root) /\ OrderedIn(R \o pending') /\ TogetherIn(Results') /\ IsInjective(Results')
    BY <2>1, <2>2, <1>5, <1>9, Grow
  <2> QED BY <2>2, <2>3 DEF Extended
<1>11. /\ DOMAIN w = 1 .. Len(w) /\ Len(w) \in Nat /\ DOMAIN R = 1 .. Len(R) /\ Len(R) \in Nat
       /\ \A i \in DOMAIN R : i \in DOMAIN w /\ w[i] = R[i]
       /\ \A i \in DOMAIN w : i \notin DOMAIN R => i > Len(R) /\ w[i].path = q /\ w[i].root = root
  BY <1>10 DEF Extended
<1>12. Types'
  BY <1>0, <1>8 DEF IInv, Types, ResultsOf
<1>13. RootsKnown'
  <2>1. \A i \in DOMAIN R : R[i].root \in 1 .. root
    BY <1>7, <1>8 DEF IInv, RootsKnown
  <2>2. \A i \in DOMAIN w : w[i].root \in 1 .. root
    BY <2>1, <1>8, <1>11
  <2> QED BY <2>2, <1>8, <1>10 DEF RootsKnown
<1>14. Together' /\ Ordered' /\ Once'
  BY <1>10 DEF Together, TogetherIn, Ordered, OrderedIn, Comes, PathComes, Before, Once
<1>15. Placed'
  <2> SUFFICES ASSUME NEW x \in DOMAIN w, w[x].root = root PROVE \E m \in DOMAIN stack' : PlacedAt(w[x], m)'
    BY <1>8, <1>10 DEF Placed, PlacedAt
  <2>1. ASSUME x \in DOMAIN R PROVE \E m \in DOMAIN stack' : PlacedAt(w[x], m)'
    <3>1. R[x].root = rootIndex
      BY <2>1, <1>8, <1>11
    <3>2. PICK m \in 1 .. K : PlacedAt(R[x], m)
      BY <2>1, <3>1, <1>0, <1>7 DEF IInv, Placed
    <3>3. PathPrefix(stack'[m].path, w[x].path)
      BY <2>1, <3>2, <1>3, <1>11 DEF PlacedAt
    <3>4. CASE Len(R[x].path) = m
      <4>1. PlacedAt(w[x], m)'
        BY <2>1, <3>3, <3>4, <1>11 DEF PlacedAt
      <4> QED BY <4>1, <1>3
    <3>5. CASE Len(R[x].path) # m
      <4>1. PICK i \in 1 .. stack[m].next - 1 :
                /\ Len(R[x].path) > m /\ R[x].path[m + 1] = stack[m].children[i]
                /\ m < Len(stack) => i < stack[m].next - 1
        BY <3>2, <3>5 DEF PlacedAt
      <4>2. i \in 1 .. stack'[m].next - 1 /\ (m < Len(stack') => i < stack'[m].next - 1)
        BY SMTT(30), <4>1, <1>1, <1>2, <1>3, <1>6
      <4>3. Len(w[x].path) > m /\ w[x].path[m + 1] = stack'[m].children[i]
        BY <2>1, <4>1, <1>3, <1>11
      <4>4. PlacedAt(w[x], m)'
        BY <3>3, <4>2, <4>3 DEF PlacedAt
      <4> QED BY <4>4, <1>3
    <3> QED BY <3>4, <3>5
  <2>2. ASSUME x \notin DOMAIN R PROVE \E m \in DOMAIN stack' : PlacedAt(w[x], m)'
    <3>1. w[x].path = q
      BY <2>2, <1>11
    <3>2. CASE N = K + 1
      <4>1. PlacedAt(w[x], N)'
        BY <3>1, <3>2, <1>4, <1>5 DEF PlacedAt, PathPrefix
      <4> QED BY <4>1, <3>2, <1>2
    <3>3. CASE N = K
      <4>1. PathPrefix(stack'[K].path, q)
        <5>1. K \in 1 .. K /\ stack'[K].path = stack[K].path /\ Len(stack[K].path) = K
          BY <1>3, <1>6
        <5>2. \A i \in 1 .. K : q[i] = stack[K].path[i]
          BY <5>1, <1>5
        <5> QED BY <5>1, <5>2, <1>5 DEF PathPrefix
      <4>2. stack[K].next \in 1 .. stack'[K].next - 1 /\ ~(K < Len(stack'))
        BY <3>3, <1>2, <1>3, <1>6
      <4>3. Len(q) > K /\ q[K + 1] = stack'[K].children[stack[K].next]
        BY <1>3, <1>5
      <4>4. PlacedAt(w[x], K)'
        BY <3>1, <4>1, <4>2, <4>3 DEF PlacedAt
      <4> QED BY <4>4, <1>3
    <3> QED BY <3>2, <3>3, <1>2
  <2> QED BY <2>1, <2>2
<1>16. Inside'
  <2> SUFFICES ASSUME NEW k \in 1 .. N, NEW i \in DOMAIN w, NEW j \in DOMAIN w,
                      i < j, w[i].root = root, PathPrefix(stack'[k].path, w[i].path)
               PROVE  PathPrefix(stack'[k].path, w[j].path)
    BY <1>2, <1>8, <1>10 DEF Inside
  <2>1. CASE i \notin DOMAIN R
    <3>1. j \notin DOMAIN R
      BY <2>1, <1>11
    <3> QED BY <2>1, <3>1, <1>11
  <2>2. CASE i \in DOMAIN R /\ k = K + 1
    <3>1. PathPrefix(q, R[i].path) /\ R[i].root = root
      BY <2>2, <1>2, <1>4, <1>11
    <3>2. R[i].root \in Nat /\ root \in Nat
      BY <3>1
    <3> QED BY <2>2, <3>1, <3>2, <1>9 DEF Follows
  <2>3. CASE i \in DOMAIN R /\ k \in 1 .. K
    <3>1. PathPrefix(stack[k].path, R[i].path) /\ R[i].root = rootIndex /\ stack'[k].path = stack[k].path /\ k \in DOMAIN stack
      BY <2>3, <1>0, <1>3, <1>8, <1>11
    <3>2. CASE j \in DOMAIN R
      <4>1. PathPrefix(stack[k].path, R[j].path)
        BY <2>3, <3>1, <3>2, <1>7 DEF IInv, Inside
      <4> QED BY <4>1, <3>1, <3>2, <1>11
    <3>3. CASE j \notin DOMAIN R
      <4>1. PathPrefix(stack[k].path, q)
        BY <2>3, <1>5, <1>6 DEF PathPrefix
      <4> QED BY <4>1, <3>1, <3>3, <1>11
    <3> QED BY <3>2, <3>3
  <2> QED BY <2>1, <2>2, <2>3, <1>2
<1> QED
  BY <1>12, <1>13, <1>14, <1>15, <1>16

\* A turn at a child: its path, its results, and the frame it may get.
LEMMA ChildTurn ==
    ASSUME IInv, Obj \subseteq Nat, IsFiniteSet(Obj), NextChild
    PROVE  \E q \in Seq(Obj) :
              /\ q = Append(Last(stack).path, Last(stack).children[Last(stack).next])
              /\ ChildPath(q) /\ ChildStack(q) /\ ResultsOf(q, rootIndex, pending')
<1> DEFINE frame == Last(stack)
           child == frame.children[frame.next]
           p == Append(frame.path, child)
           frames == [stack EXCEPT ![Len(stack)].next = @ + 1]
           error == ChildError(frame.ig, child)
<1>1. /\ pending = <<>> /\ stack # <<>> /\ frame.next <= Len(frame.children)
      /\ fs' = fs /\ opt' = opt /\ rootIndex' = rootIndex /\ delivered' = delivered
  BY DEF NextChild
<1>2. \/ error # "none" /\ pending' = <<Result(error, p)>> /\ stack' = frames
      \/ error = "none" /\ EnqueueEntry(p, frame.ig, <<>>, frames)
  BY DEF NextChild
<1>3. Len(stack) \in Nat \ {0} /\ frame = stack[Len(stack)] /\ child \in Obj /\ ChildPath(p)
  BY <1>1, ChildPathIs
<1>4. PICK K \in Nat \ {0} : K = Len(stack)
  BY <1>3
<1>5. frame.ig \in Seq(Nodes)
  <2>1. frame \in Frames
    BY <1>3 DEF IInv, Types
  <2> QED BY <2>1 DEF Frames
<1> HIDE DEF frame, frames
<1>6. PICK q \in Seq(Obj) : q = p /\ ChildPath(q)
  BY <1>3 DEF ChildPath
<1>7. q \in Seq(Obj \cup {Stdin}) /\ q # <<>> /\ Len(q) = K + 1 /\ q[K + 1] = child /\ Last(q) = child
  <2>1. Obj \subseteq Obj \cup {Stdin}
    OBVIOUS
  <2>2. q \in Seq(Obj) /\ Len(q) = K + 1 /\ q[K + 1] = child
    BY <1>3, <1>4, <1>6 DEF ChildPath
  <2> HIDE DEF child
  <2> QED BY <2>1, <2>2, <1>4, SeqMonotonic DEF Last
<1> HIDE DEF p, child
<1>8. rootIndex' \in Nat /\ rootIndex' = rootIndex
  BY <1>1 DEF IInv, Types
<1>9. /\ ResultsOf(q, rootIndex', pending')
      /\ \/ stack' = frames
         \/ \E f : /\ FrameOf(f, q, frame.ig) /\ stack' = Append(frames, f)
                   /\ fs.kind[child] = "link" => ~SymlinkLoop(frame.ig, Real(child))
  <2>1. CASE error # "none" /\ pending' = <<Result(error, p)>> /\ stack' = frames
    <3>1. error \in Whats
      BY <2>1 DEF ChildError, Whats
    <3> HIDE DEF error
    <3> QED BY <2>1, <3>1, <1>6, <1>7, <1>8, OneResult
  <2>2. CASE error = "none" /\ EnqueueEntry(p, frame.ig, <<>>, frames)
    <3>1. EnqueueEntry(q, frame.ig, <<>>, frames)
      BY <2>2, <1>6
    <3>2. /\ ResultsOf(q, rootIndex', pending')
          /\ stack' = frames \/ \E f : FrameOf(f, q, frame.ig) /\ stack' = Append(frames, f)
      <4>1. PICK before : before = <<>> /\ before \in {<<>>, <<Result("parents", q)>>}
        OBVIOUS
      <4>2. EnqueueEntry(q, frame.ig, before, frames)
        BY <3>1, <4>1
      <4>3. Given
        BY DEF IInv
      <4>4. before \in {<<>>, <<Result("parents", q)>>} /\ q # <<>> /\ rootIndex' \in Nat
        BY <4>1, <1>7, <1>8
      <4> QED BY <4>2, <4>3, <4>4, <1>5, EnqueueShape
    <3>3. ASSUME NEW f, FrameOf(f, q, frame.ig), fs.kind[child] = "link" PROVE ~SymlinkLoop(frame.ig, Real(child))
      <4>1. fs.kind[Resolved(q)] = "dir"
        BY <3>3 DEF FrameOf, IsDir
      <4>2. Len(q) # 1
        BY <1>4, <1>7
      <4>3. opt.follow
        BY <4>1, <4>2, <3>3, <1>7 DEF Resolved
      <4>4. fs.kind[Real(child)] = "dir"
        BY <4>1, <4>3, <1>7 DEF Resolved
      <4> QED BY <4>3, <4>4, <3>3, <2>2 DEF ChildError
    <3> QED BY <3>2, <3>3
  <2> HIDE DEF error
  <2> QED BY <2>1, <2>2, <1>2
<1>10. ChildStack(q)
  <2>1. \/ stack' = [stack EXCEPT ![Len(stack)].next = @ + 1]
        \/ \E f : /\ FrameOf(f, q, Last(stack).ig)
                  /\ stack' = Append([stack EXCEPT ![Len(stack)].next = @ + 1], f)
                  /\ fs.kind[q[Len(stack) + 1]] = "link" => ~SymlinkLoop(Last(stack).ig, Real(q[Len(stack) + 1]))
    <3>1. q[Len(stack) + 1] = child
      BY <1>4, <1>7
    <3> QED BY <3>1, <1>9 DEF frame, frames
  <2>2. Types /\ Last(stack) = stack[Len(stack)]
    BY <1>3 DEF IInv, frame
  <2> QED BY <2>1, <2>2, <1>1, ChildStackIs
<1>11. ResultsOf(q, rootIndex, pending')
  BY <1>8, <1>9
<1> QED
  BY <1>6, <1>10, <1>11 DEF p, frame, child

LEMMA NextChildKeeps ==
    ASSUME IInv, Obj \subseteq Nat, IsFiniteSet(Obj), NextChild
    PROVE  IInv'
<1>1. /\ pending = <<>> /\ stack # <<>> /\ Last(stack).next <= Len(Last(stack).children)
      /\ fs' = fs /\ opt' = opt /\ rootIndex' = rootIndex /\ delivered' = delivered
  BY DEF NextChild
<1>2. PICK q \in Seq(Obj) : ChildPath(q) /\ ChildStack(q) /\ ResultsOf(q, rootIndex, pending')
  BY ChildTurn
<1>3. FramesHold' /\ Nested' /\ Prefixed' /\ Acyclic'
  BY <1>1, <1>2, ChildKeepsFrames
<1>4. Types' /\ RootsKnown' /\ Placed' /\ Inside' /\ Together' /\ Ordered' /\ Once'
  BY <1>1, <1>2, ChildKeepsResults
<1> QED
  BY <1>1, <1>3, <1>4, GivenKept DEF IInv

LEMMA NextRootKeeps ==
    ASSUME IInv, Obj \subseteq Nat, IsFiniteSet(Obj), NextRoot
    PROVE  IInv'
<1>1. /\ pending = <<>> /\ stack = <<>> /\ rootIndex < Len(opt.roots)
      /\ fs' = fs /\ opt' = opt /\ rootIndex' = rootIndex + 1 /\ delivered' = delivered
  BY DEF NextRoot
<1>2. PICK root \in Nat \ {0} : root = rootIndex' /\ rootIndex = root - 1 /\ root <= Len(opt.roots)
  BY <1>1 DEF IInv, Types
<1>3. PICK o \in Obj \cup {Stdin} : o = opt.roots[rootIndex'] /\ o = opt.roots[rootIndex + 1]
  <2>1. opt.roots \in Seq(Obj \cup {Stdin}) /\ rootIndex + 1 = rootIndex' /\ root \in 1 .. Len(opt.roots)
    BY <1>1, <1>2 DEF IInv, Given, Types
  <2>2. opt.roots[root] \in Obj \cup {Stdin}
    BY <2>1
  <2> QED BY <2>1, <2>2, <1>2
<1> DEFINE q == <<o>>
           ig == IF IsDir(q) THEN AddParents(Real(o)) ELSE IgRoot
           parents == OneIf(IsDir(q) /\ ParentsFail(Real(o)), Result("parents", q))
<1>4. q \in Seq(Obj \cup {Stdin}) /\ q # <<>> /\ Len(q) = 1 /\ q[1] = o /\ Last(q) = o
  BY DEF Last
<1>5. \/ pending' = <<Result("entry", q)>> /\ stack' = <<>>
      \/ pending' = <<Result("broken", q)>> /\ stack' = <<>>
      \/ pending' = Append(parents, Result("device", q)) /\ stack' = <<>>
      \/ o # Stdin /\ EnqueueEntry(q, ig, parents, <<>>)
  BY <1>3 DEF NextRoot
<1>6. ASSUME o # Stdin PROVE q \in Seq(Obj) /\ Real(o) \in Obj
  <2>1. o \in Obj
    BY <1>6
  <2>2. q \in Seq(Obj)
    BY <2>1
  <2>3. Real(o) \in Obj
    BY <2>1 DEF IInv, Given, Real
  <2> QED BY <2>2, <2>3
<1>7. ASSUME o # Stdin PROVE ig \in Seq(Nodes) /\ \A x : ~SymlinkLoop(ig, x)
  <2>1. IgRoot \in Seq(Nodes) /\ \A x : ~SymlinkLoop(IgRoot, x)
    BY DEF IgRoot, Node, Nodes, SymlinkLoop
  <2>2. AddParents(Real(o)) \in Seq(Nodes) /\ \A x : ~SymlinkLoop(AddParents(Real(o)), x)
    BY <1>6, <1>7, AddParentsAbove DEF IInv
  <2> QED BY <2>1, <2>2
<1> HIDE DEF ig
<1>0. parents \in {<<>>, <<Result("parents", q)>>}
  BY DEF OneIf
<1> HIDE DEF parents
<1>8. PICK s \in Seq(Obj \cup {Stdin}) : s = q
  BY <1>4
<1>9. /\ ResultsOf(s, root, pending')
      /\ stack' = <<>> \/ (o # Stdin /\ \E f : FrameOf(f, s, ig) /\ stack' = Append(<<>>, f))
  <2>1. CASE pending' = <<Result("entry", q)>> /\ stack' = <<>>
    BY <2>1, <1>2, <1>8, OneResult DEF Whats
  <2>2. CASE pending' = <<Result("broken", q)>> /\ stack' = <<>>
    BY <2>2, <1>2, <1>8, OneResult DEF Whats
  <2>4. CASE pending' = Append(parents, Result("device", q)) /\ stack' = <<>>
    <3>1. ResultsOf(s, rootIndex', <<Result("device", s)>>) /\ ResultsOf(s, rootIndex', <<Result("parents", s)>>)
      BY <1>2, OneResult DEF Whats
    <3>2. parents \in Seq(ResultSet) /\ Result("device", s) \in ResultSet /\ Len(parents) <= 1
          /\ \A i \in DOMAIN parents : parents[i].path = s /\ parents[i].root = rootIndex' /\ parents[i].what = "parents"
      <4>1. Result("device", s) \in ResultSet
        BY <1>2 DEF Result, ResultSet, Whats
      <4>2. CASE parents = <<>>
        BY <4>1, <4>2
      <4>3. CASE parents = <<Result("parents", q)>>
        <5>1. parents[1] = Result("parents", s) /\ DOMAIN parents = {1} /\ Len(parents) = 1 /\ parents \in Seq(ResultSet)
          BY <4>3, <3>1, <1>8 DEF ResultsOf
        <5> QED BY <4>1, <5>1 DEF Result
      <4> QED BY <4>2, <4>3, <1>0
    <3>3. PICK u \in ResultSet : u = Result("device", s) /\ u.path = s /\ u.root = rootIndex' /\ u.what = "device"
      BY <3>2 DEF Result
    <3>4. PICK w \in Seq(ResultSet) : /\ w = pending' /\ Len(w) = Len(parents) + 1 /\ w[Len(parents) + 1] = u
                                      /\ \A i \in 1 .. Len(parents) : w[i] = parents[i]
      BY <2>4, <3>2, <3>3, <1>8, AppendOne
    <3>5. PICK n \in 0 .. 1 : n = Len(parents) /\ DOMAIN parents = 1 .. n /\ DOMAIN w = 1 .. n + 1
      <4>1. Len(parents) \in Nat /\ DOMAIN parents = 1 .. Len(parents) /\ DOMAIN w = 1 .. Len(w)
        BY <3>2
      <4>2. Len(parents) \in 0 .. 1
        BY <4>1, <3>2
      <4> QED BY <4>1, <4>2, <3>4
    <3>6. ResultsOf(s, rootIndex', w)
      BY <3>2, <3>3, <3>4, <3>5 DEF ResultsOf, IsInjective
    <3> QED BY <2>4, <3>4, <3>6, <1>2
  <2>3. CASE o # Stdin /\ EnqueueEntry(q, ig, parents, <<>>)
    <3>1. q \in Seq(Obj) /\ q # <<>> /\ ig \in Seq(Nodes) /\ rootIndex' \in Nat
      BY <2>3, <1>2, <1>4, <1>6, <1>7
    <3> HIDE DEF q
    <3>2. ResultsOf(q, rootIndex', pending') /\ (stack' = <<>> \/ \E f : FrameOf(f, q, ig) /\ stack' = Append(<<>>, f))
      BY <2>3, <3>1, <1>0, EnqueueShape DEF IInv
    <3> QED BY <2>3, <3>2, <1>2, <1>8
  <2> QED BY <2>1, <2>2, <2>3, <2>4, <1>5
<1>10. s \in Seq(Obj \cup {Stdin}) /\ Len(s) = 1 /\ s[1] = o /\ Last(s) = o
  BY <1>4, <1>8
<1> HIDE DEF q
<1>11. PICK R \in Seq(ResultSet) : R = delivered /\ R = Results /\ \A i \in DOMAIN R : R[i].root \in 1 .. root - 1
  <2>1. delivered \in Seq(ResultSet) /\ delivered = Results
    BY <1>1, ResultsSoFar DEF IInv
  <2> QED BY <2>1, <1>2 DEF IInv, RootsKnown
<1>12. PICK w \in Seq(ResultSet) :
          w = Results' /\ Extended(w, R, s, root) /\ OrderedIn(w) /\ TogetherIn(w) /\ IsInjective(w)
  <2>1. OrderedIn(R) /\ TogetherIn(R) /\ IsInjective(R)
    BY <1>11 DEF IInv, Ordered, Together, Once
  <2>2. Follows(R, s, root)
    BY <1>2, <1>11 DEF Follows
  <2>3. Results' = R \o pending'
    BY <1>1, <1>11 DEF Results
  <2>4. Extended(Results', R, s, root) /\ OrderedIn(R \o pending') /\ TogetherIn(Results') /\ IsInjective(Results')
    BY <2>1, <2>2, <2>3, <1>2, <1>9, Grow
  <2> QED BY <2>3, <2>4 DEF Extended
<1>13. /\ DOMAIN w = 1 .. Len(w) /\ Len(w) \in Nat
       /\ \A i \in DOMAIN w : w[i].root = root => i > Len(R) /\ w[i].path = s
       /\ \A i \in DOMAIN w : i > Len(R) => w[i].path = s
       /\ \A i \in DOMAIN w : w[i].root \in 1 .. root
       /\ Len(R) \in Nat
  <2>1. DOMAIN w = 1 .. Len(w) /\ Len(w) \in Nat /\ DOMAIN R = 1 .. Len(R) /\ Len(R) \in Nat
    BY <1>12
  <2>2. \A i \in 1 .. Len(R) : w[i].root \in 1 .. root - 1 /\ w[i].root # root
    BY SMTT(30), <2>1, <1>2, <1>11, <1>12 DEF Extended
  <2>3. \A i \in DOMAIN w : i > Len(R) => w[i].path = s /\ w[i].root = root
    BY <2>1, <1>12 DEF Extended
  <2>4. \A i \in DOMAIN w : i \in 1 .. Len(R) \/ i > Len(R)
    BY <2>1
  <2>5. \A i \in DOMAIN w : w[i].root \in 1 .. root
    BY <2>2, <2>3, <2>4, <1>2
  <2>6. \A i \in DOMAIN w : w[i].root = root => i > Len(R)
    BY <2>2, <2>4
  <2> QED BY <2>1, <2>3, <2>5, <2>6
<1>14. stack' = <<>> \/ (Len(stack') = 1 /\ FrameOf(stack'[1], s, ig) /\ o # Stdin)
  BY <1>9
<1>15. stack' \in Seq(Frames) /\ DOMAIN stack' \subseteq {1} /\ Len(stack') \in {0, 1} /\ (stack' # <<>> => DOMAIN stack' = {1})
  <2>1. ASSUME stack' = <<>> PROVE stack' \in Seq(Frames) /\ DOMAIN stack' = {} /\ Len(stack') = 0
    BY <2>1
  <2>2. ASSUME NEW f, FrameOf(f, s, ig), stack' = Append(<<>>, f) PROVE stack' \in Seq(Frames) /\ DOMAIN stack' = {1} /\ Len(stack') = 1
    <3>1. f \in Frames
      BY <2>2 DEF FrameOf
    <3>2. <<>> \in Seq(Frames) /\ Len(<<>>) = 0
      OBVIOUS
    <3>3. stack' \in Seq(Frames) /\ Len(stack') = 1
      BY <2>2, <3>1, <3>2, AppendOne
    <3> QED BY <3>3
  <2>3. stack' # <<>> => stack' \in Seq(Frames) /\ DOMAIN stack' = {1} /\ Len(stack') = 1
    BY <2>2, <1>9
  <2>4. CASE stack' = <<>>
    BY <2>1, <2>4
  <2>5. CASE stack' # <<>>
    BY <2>3, <2>5
  <2> QED BY <2>4, <2>5
<1>16. Types'
  BY <1>1, <1>2, <1>9, <1>15 DEF IInv, Types, ResultsOf
<1>17. FramesHold'
  <2>1. ASSUME stack' # <<>>, NEW k, k = 1 PROVE FrameHolds(stack[k], k)'
    <3>1. FrameOf(stack'[k], s, ig) /\ o # Stdin
      BY <2>1, <1>14
    <3>2. stack'[k].path = s
      BY <3>1 DEF FrameOf
    <3>3. \A x \in Obj : SymlinkLoop(stack'[k].ig, x) <=> \E i \in 1 .. k : x = Real(stack[k].path[i])'
      <4>1. \A x : SymlinkLoop(stack'[k].ig, x) <=> x = Real(o)
        BY <3>1, <1>7, <1>10 DEF FrameOf
      <4> QED BY <4>1, <3>2, <2>1, <1>1, <1>10 DEF Real
    <3>4. stack'[k].next = 1 /\ Len(stack'[k].children) \in Nat
      <4>1. stack'[k].children \in Seq(Obj)
        BY <3>1 DEF FrameOf, Frames
      <4> QED BY <4>1, <3>1 DEF FrameOf
    <3>5. stack'[k].ig # <<>> /\ stack'[k].ig[1].dir = Real(stack[k].path[k])'
      BY <2>1, <3>1, <3>2, <1>1, <1>10 DEF FrameOf, Real
    <3>6. Range(stack'[k].children) = Children(Real(stack[k].path[k]))'
      BY <2>1, <3>1, <3>2, <1>1, <1>10 DEF FrameOf, Real, Children
    <3>7. IsInjective(stack'[k].children) /\ Sorted(stack[k].children)'
      BY <3>1, <1>1 DEF FrameOf, Sorted, Before
    <3>8. stack'[k].path[1] = opt'.roots[rootIndex']
      BY <3>2, <1>1, <1>3, <1>10
    <3>9. Len(stack'[k].path) = k
      BY <2>1, <3>2, <1>10
    <3> QED BY <3>3, <3>4, <3>5, <3>6, <3>7, <3>8, <3>9 DEF FrameHolds
  <2>2. \A k \in DOMAIN stack' : FrameHolds(stack[k], k)'
    BY <2>1, <1>15
  <2> QED BY <2>2, <1>2 DEF FramesHold
<1>18. Nested' /\ Acyclic'
  <2>1. 2 .. Len(stack') = {}
    <3>1. PICK n \in {0, 1} : n = Len(stack')
      BY <1>15
    <3>2. 2 .. n = {}
      BY <3>1
    <3> QED BY <3>1, <3>2
  <2> QED BY <2>1, <1>15 DEF Nested, Acyclic
<1>19. Prefixed'
  <2>1. ASSUME stack' # <<>> PROVE stack'[1].path = s
    BY <2>1, <1>14 DEF FrameOf
  <2> QED BY <2>1, <1>15, <1>10 DEF Prefixed, PathPrefix
<1>20. RootsKnown'
  BY <1>2, <1>12, <1>13 DEF RootsKnown
<1>21. Placed'
  <2> SUFFICES ASSUME stack' # <<>>, NEW x \in DOMAIN w, w[x].root = root PROVE \E m \in DOMAIN stack' : PlacedAt(w[x], m)'
    BY <1>2, <1>12 DEF Placed, PlacedAt
  <2>1. w[x].path = s /\ stack'[1].path = s /\ 1 \in DOMAIN stack'
    BY <1>13, <1>14, <1>15 DEF FrameOf
  <2>2. PlacedAt(w[x], 1)'
    BY <2>1, <1>10 DEF PlacedAt, PathPrefix
  <2> QED BY <2>1, <2>2
<1>22. Inside'
  <2> SUFFICES ASSUME NEW k \in DOMAIN stack', NEW i \in DOMAIN w, NEW j \in DOMAIN w,
                      i < j, w[i].root = root, PathPrefix(stack'[k].path, w[i].path)
               PROVE  PathPrefix(stack'[k].path, w[j].path)
    BY <1>2, <1>12 DEF Inside
  <2>1. w[i].path = s /\ i > Len(R)
    BY <1>13
  <2>2. w[j].path = s
    BY <2>1, <1>13
  <2> QED BY <2>1, <2>2
<1>23. Together' /\ Ordered' /\ Once'
  BY <1>1, <1>12 DEF Together, TogetherIn, Ordered, OrderedIn, Comes, PathComes, Before, Once
<1> QED
  BY <1>1, <1>16, <1>17, <1>18, <1>19, <1>20, <1>21, <1>22, <1>23, GivenKept DEF IInv

LEMMA InitHolds ==
    ASSUME Init
    PROVE  IInv
<1>1. PICK case \in Cases :
          /\ \E base \in case.fs, git \in case.git, rules \in case.rules :
                fs = [base EXCEPT !.git = git, !.rules = rules]
          /\ opt \in case.opt
  BY DEF Init
<1>2. PICK base \in case.fs, git \in case.git, rules \in case.rules : fs = [base EXCEPT !.git = git, !.rules = rules]
  BY <1>1
<1>3. /\ {"kind", "parent", "target"} \subseteq DOMAIN base
      /\ base.kind \in [Obj -> {"dir", "file", "link", "missing"}]
      /\ base.parent \in [Obj -> Obj \cup {Nowhere}]
      /\ \A o \in Obj : base.kind[o] = "link" => base.target[o] \in Obj /\ base.kind[base.target[o]] # "link"
  BY FileSystemAssumption
<1>4. fs.kind = base.kind /\ fs.parent = base.parent /\ fs.target = base.target
  BY <1>2, <1>3
<1>5. /\ opt.roots \in Seq(Obj \cup {Stdin})
      /\ opt.sort \in {"none", "up", "down"}
      /\ {opt.follow, opt.oneDevice, opt.parents, opt.requireGit, opt.skipHidden} \subseteq BOOLEAN
      /\ opt.min \in Nat /\ opt.max \in Nat
  BY <1>1, OptionsAssumption
<1>6. Given
  BY <1>3, <1>4, <1>5 DEF Given
<1>7. rootIndex = 0 /\ stack = <<>> /\ pending = <<>> /\ delivered = <<>>
  BY DEF Init
<1>8. Types
  BY <1>5, <1>7 DEF Types
<1>9. Results = <<>>
  BY <1>7, <1>8, ResultsSoFar
<1>10. FramesHold /\ Prefixed /\ Acyclic /\ Placed /\ Inside
  BY <1>7 DEF FramesHold, Prefixed, Acyclic, Placed, Inside
<1>11. Nested
  <2>1. 2 .. Len(stack) = {}
    BY <1>7
  <2> QED BY <2>1 DEF Nested
<1>12. RootsKnown /\ Together /\ Ordered /\ Once
  BY <1>9 DEF RootsKnown, Together, TogetherIn, Ordered, OrderedIn, Once, IsInjective
<1> QED
  BY <1>6, <1>8, <1>10, <1>11, <1>12 DEF IInv

LEMMA StepKeeps ==
    ASSUME IInv, [Next]_vars
    PROVE  IInv'
<1>1. CASE PopPending
  BY <1>1, PopKeeps
<1>2. CASE LeaveDir
  BY <1>2, LeaveKeeps
<1>3. CASE NextChild
  BY <1>3, NextChildKeeps, ObjAssumption
<1>4. CASE NextRoot
  BY <1>4, NextRootKeeps, ObjAssumption
<1>5. CASE UNCHANGED vars
  <2>1. fs' = fs /\ opt' = opt /\ rootIndex' = rootIndex /\ stack' = stack /\ pending' = pending /\ delivered' = delivered
    BY <1>5 DEF vars
  <2>2. Results' = Results
    BY <2>1 DEF Results
  <2>3. Types'
    BY <2>1 DEF IInv, Types
  <2>4. Placed' /\ Inside'
    BY <2>1, <2>2 DEF IInv, Placed, PlacedAt, Inside
  <2> QED BY <2>1, <2>2, <2>3, <2>4, GivenKept, StackKept, ResultsKept DEF IInv
<1> QED
  BY <1>1, <1>2, <1>3, <1>4, <1>5 DEF Next, Ended

\* The invariant that all else follows from.
THEOREM SerialInvariant == Spec => []IInv
<1>1. Init => IInv
  BY InitHolds
<1>2. IInv /\ [Next]_vars => IInv'
  BY StepKeeps
<1> QED
  BY <1>1, <1>2, PTL DEF Spec

-----------------------------------------------------------------------------
\* What follows.

\* The types; the children of a frame are those of its directory, each path on
\* the stack a beginning of the next, and whatever calls fail no more than three
\* results wait at once (advance_stack, enqueue_root_path, enqueue_entry).
THEOREM SerialTypeOK == Spec => []TypeOK
<1>1. ASSUME IInv PROVE TypeOK
  <2>1. rootIndex \in 0 .. Len(opt.roots) /\ Len(pending) <= 3 /\ delivered \in Seq(ResultSet)
    BY <1>1 DEF IInv, Types
  <2>2. ASSUME NEW k \in DOMAIN stack
        PROVE  /\ stack[k].path \in Seq(Obj) /\ Len(stack[k].path) = k /\ stack[k].next \in 1 .. Len(stack[k].children) + 1
               /\ Range(stack[k].children) = Children(stack[k].ig[1].dir)
    <3>1. stack[k] \in Frames /\ FrameHolds(stack[k], k)
      BY <1>1 DEF IInv, Types, FramesHold
    <3> QED BY <3>1 DEF Frames, FrameHolds
  <2>3. ASSUME NEW k \in DOMAIN stack, NEW j \in 1 .. k - 1 PROVE IsStrictPrefix(stack[j].path, stack[k].path)
    <3>1. DOMAIN stack = 1 .. Len(stack) /\ Len(stack) \in Nat
      BY <1>1 DEF IInv, Types
    <3>2. j \in DOMAIN stack /\ j <= k /\ j # k
      BY <3>1
    <3>3. PathPrefix(stack[j].path, stack[k].path)
      BY <1>1, <3>2 DEF IInv, Prefixed
    <3>4. IsPrefix(stack[j].path, stack[k].path)
      BY <2>2, <3>2, <3>3, PrefixMeans
    <3>5. stack[j].path # stack[k].path
      BY <2>2, <3>2
    <3> QED BY <3>4, <3>5 DEF IsStrictPrefix
  <2>4. \A k \in DOMAIN delivered : delivered[k].what \in Whats
    <3>1. \A k \in DOMAIN delivered : delivered[k] \in ResultSet
      BY <2>1
    <3> QED BY <3>1 DEF ResultSet
  <2> QED BY <2>1, <2>2, <2>3, <2>4 DEF TypeOK, Whats
<1> QED
  BY <1>1, SerialInvariant, PTL

\* A link leads the walk into no directory it is in, at whatever depth and
\* through whatever other links (check_symlink_loop).
THEOREM SerialNoCircle == Spec => []NoCircle
<1>1. ASSUME IInv PROVE NoCircle
  <2> SUFFICES ASSUME NEW j \in DOMAIN stack, NEW k \in DOMAIN stack, j < k, fs.kind[Last(stack[k].path)] = "link"
               PROVE  Real(Last(stack[k].path)) # Real(Last(stack[j].path))
    BY DEF NoCircle
  <2>1. DOMAIN stack = 1 .. Len(stack) /\ Len(stack) \in Nat
    BY <1>1 DEF IInv, Types
  <2>2. Len(stack[j].path) = j /\ Len(stack[k].path) = k /\ PathPrefix(stack[j].path, stack[k].path)
    BY <1>1 DEF IInv, FramesHold, FrameHolds, Prefixed
  <2>3. Last(stack[j].path) = stack[k].path[j] /\ Last(stack[k].path) = stack[k].path[k]
    BY <2>1, <2>2 DEF Last, PathPrefix
  <2>4. j \in 1 .. k - 1
    BY <2>1
  <2> QED BY <1>1, <2>3, <2>4 DEF IInv, Acyclic
<1> QED
  BY <1>1, SerialInvariant, PTL

\* No path is delivered twice with the same result, whatever links, roots given
\* twice and mounted directories there are (Walk.next).
THEOREM SerialOnce == Spec => []IsInjective(delivered)
<1>1. ASSUME IInv PROVE IsInjective(delivered)
  <2>1. pending \in Seq(ResultSet) /\ delivered \in Seq(ResultSet)
    BY <1>1 DEF IInv, Types
  <2>2. \A i \in DOMAIN delivered : i \in DOMAIN Results /\ Results[i] = delivered[i]
    <3> DEFINE w == delivered \o pending
    <3>1. Len(w) = Len(delivered) + Len(pending) /\ w \in Seq(ResultSet)
      BY <2>1, ConcatProperties
    <3>2. \A i \in 1 .. Len(delivered) + Len(pending) : w[i] = IF i <= Len(delivered) THEN delivered[i] ELSE pending[i - Len(delivered)]
      BY <2>1, ConcatProperties
    <3> HIDE DEF w
    <3>3. Len(delivered) \in Nat /\ Len(pending) \in Nat
      BY <2>1
    <3>4. \A i \in 1 .. Len(delivered) : i \in 1 .. Len(w) /\ w[i] = delivered[i]
      BY <3>1, <3>2, <3>3
    <3> QED BY <2>1, <3>1, <3>4 DEF Results, w
  <2> QED BY <1>1, <2>2 DEF IInv, Once, IsInjective
<1> QED
  BY <1>1, SerialInvariant, PTL

\* A bounded set of numbers has a greatest one.
LEMMA Greatest ==
    ASSUME NEW b \in Nat, NEW A \in SUBSET (0 .. b), 0 \in A
    PROVE  \E m \in A : \A n \in A : n <= m
<1> SUFFICES ASSUME \A m \in A : \E n \in A : n > m PROVE FALSE
  OBVIOUS
<1> DEFINE S == {k \in Nat : \E n \in A : n >= k}
<1>1. 0 \in S
  OBVIOUS
<1>2. ASSUME NEW k \in Nat, k \in S PROVE k + 1 \in S
  <2>1. PICK n \in A : n >= k
    BY <1>2
  <2>2. PICK m \in A : m > n
    OBVIOUS
  <2> QED BY <2>1, <2>2
<1> HIDE DEF S
<1>3. b + 1 \in S
  BY <1>1, <1>2, SetInduction
<1> QED
  BY <1>3 DEF S

LEMMA CommonPrefix ==
    ASSUME NEW S, NEW p \in Seq(S), NEW r \in Seq(S)
    PROVE  LET x == LongestCommonPrefix({p, r}) IN x \in Seq(S) /\ PathPrefix(x, p) /\ PathPrefix(x, r)
<1> DEFINE C == CommonPrefixes({p, r})
           A == {Len(x) : x \in C}
<1>1. Len(p) \in Nat /\ Len(r) \in Nat
  OBVIOUS
<1>2. ASSUME NEW q \in {p, r}, NEW l \in 0 .. Len(q) PROVE SubSeq(q, 1, l) \in Seq(S) /\ Len(SubSeq(q, 1, l)) = l
  <2>1. q \in Seq(S) /\ l \in Nat /\ \A i \in 1 .. l : q[i] \in S
    BY <1>1
  <2> QED BY <2>1, SubSeqProperties
<1>3. ASSUME NEW x \in C PROVE x \in Seq(S) /\ IsPrefix(x, p) /\ IsPrefix(x, r)
  <2>1. PICK q \in {p, r} : \E l \in 0 .. Len(q) : x = SubSeq(q, 1, l)
    BY DEF CommonPrefixes, Prefixes
  <2>2. IsPrefix(x, p) /\ IsPrefix(x, r)
    BY DEF CommonPrefixes
  <2> QED BY <1>2, <2>1, <2>2
<1>4. \E x \in C : Len(x) = 0
  <2> DEFINE x == SubSeq(p, 1, 0)
  <2>1. x \in Seq(S) /\ Len(x) = 0
    BY <1>1, <1>2
  <2>2. x \in UNION {Prefixes(q) : q \in {p, r}}
    BY <1>1 DEF Prefixes
  <2> HIDE DEF x
  <2>3. IsPrefix(x, p) /\ IsPrefix(x, r)
    <3>1. PathPrefix(x, p) /\ PathPrefix(x, r)
      <4>1. Len(x) <= Len(p) /\ Len(x) <= Len(r) /\ 1 .. Len(x) = {}
        BY <2>1, <1>1
      <4> QED BY <4>1 DEF PathPrefix
    <3> QED BY <3>1, <2>1, PrefixMeans
  <2> QED BY <2>1, <2>2, <2>3 DEF CommonPrefixes
<1>5. A \in SUBSET (0 .. Len(p)) /\ 0 \in A
  <2>1. ASSUME NEW x \in C PROVE Len(x) \in 0 .. Len(p)
    <3>1. x \in Seq(S) /\ PathPrefix(x, p)
      BY <1>3, PrefixMeans
    <3> QED BY <3>1, <1>1 DEF PathPrefix
  <2> HIDE DEF C
  <2> QED BY <2>1, <1>4
<1>6. PICK m \in A : \A n \in A : n <= m
  <2> HIDE DEF A
  <2> QED BY <1>1, <1>5, Greatest
<1> HIDE DEF C
<1>7. \E x \in C : \A y \in C : Len(y) <= Len(x)
  BY <1>6
<1>8. LongestCommonPrefix({p, r}) \in C
  BY <1>7 DEF LongestCommonPrefix, C
<1> QED
  BY <1>3, <1>8, PrefixMeans

\* Results come path by path in the order given, a directory before what is in
\* it, siblings in order if they are sorted, and between two results of a
\* directory only what is in the directory (advance_stack, sort_children).
THEOREM SerialInOrder == Spec => []InOrder
<1>1. ASSUME IInv PROVE InOrder
  <2> SUFFICES ASSUME Finished PROVE
        /\ \A j, k \in DOMAIN delivered : j < k => Earlier(delivered[j], delivered[k])
        /\ \A i, j, k \in DOMAIN delivered :
            (i < j /\ j < k /\ delivered[i].root = delivered[k].root) =>
                IsPrefix(LongestCommonPrefix({delivered[i].path, delivered[k].path}), delivered[j].path)
    BY DEF InOrder
  <2>1. Results = delivered /\ delivered \in Seq(ResultSet)
    BY <1>1, ResultsSoFar DEF IInv, Finished
  <2>2. \A i \in DOMAIN delivered : delivered[i].path \in Seq(Obj \cup {Stdin})
    <3>1. \A i \in DOMAIN delivered : delivered[i] \in ResultSet
      BY <2>1
    <3> QED BY <3>1 DEF ResultSet
  <2>3. ASSUME NEW j \in DOMAIN delivered, NEW k \in DOMAIN delivered, j < k PROVE Earlier(delivered[j], delivered[k])
    <3> DEFINE a == delivered[j]
               b == delivered[k]
    <3>1. a.path \in Seq(Obj \cup {Stdin}) /\ b.path \in Seq(Obj \cup {Stdin})
      BY <2>2
    <3>2. Comes(a, b)
      BY <1>1, <2>1, <2>3 DEF IInv, Ordered, OrderedIn
    <3> HIDE DEF a, b
    <3>3. PathPrefix(a.path, b.path) => IsPrefix(a.path, b.path)
      BY <3>1, PrefixMeans
    <3>4. ASSUME NEW n \in DOMAIN a.path \cap DOMAIN b.path, Agree(a.path, b.path, n - 1)
          PROVE  SubSeq(a.path, 1, n - 1) = SubSeq(b.path, 1, n - 1)
      BY <3>1, <3>4 DEF Agree
    <3>5. Earlier(a, b)
      BY <3>2, <3>3, <3>4 DEF Comes, PathComes, Earlier
    <3> QED BY <3>5 DEF a, b
  <2>4. ASSUME NEW i \in DOMAIN delivered, NEW j \in DOMAIN delivered, NEW k \in DOMAIN delivered,
               i < j, j < k, delivered[i].root = delivered[k].root
        PROVE  IsPrefix(LongestCommonPrefix({delivered[i].path, delivered[k].path}), delivered[j].path)
    <3> DEFINE p == delivered[i].path
               s == delivered[j].path
               r == delivered[k].path
               x == LongestCommonPrefix({p, r})
               n == Len(x)
    <3>1. p \in Seq(Obj \cup {Stdin}) /\ s \in Seq(Obj \cup {Stdin}) /\ r \in Seq(Obj \cup {Stdin})
      BY <2>2
    <3>2. \A m \in Nat : Agree(p, r, m) => Agree(p, s, m)
      BY <1>1, <2>1, <2>4 DEF IInv, Together, TogetherIn
    <3> HIDE DEF p, s, r
    <3>3. x \in Seq(Obj \cup {Stdin}) /\ PathPrefix(x, p) /\ PathPrefix(x, r)
      BY <3>1, CommonPrefix
    <3> HIDE DEF x
    <3>4. n \in Nat /\ Agree(p, r, n)
      BY <3>3 DEF PathPrefix, Agree
    <3>5. Agree(p, s, n)
      BY <3>2, <3>4
    <3>6. PathPrefix(x, s)
      BY <3>3, <3>5 DEF PathPrefix, Agree
    <3>7. IsPrefix(x, s)
      BY <3>1, <3>3, <3>6, PrefixMeans
    <3> QED BY <3>7 DEF x, p, r, s
  <2> QED BY <2>3, <2>4
<1> QED
  BY <1>1, SerialInvariant, PTL

-----------------------------------------------------------------------------
\* matched_ignore.

\* What the rules say, and that exclude files and global rules come with git's.
Answers == {"none", "ignore", "whitelist"}
RulesGiven ==
    /\ \A r \in DOMAIN fs.rules : fs.rules[r] \in Answers /\ (r[2] = Nowhere => r[1] \in GlobalKind)
    /\ opt.kinds \cap {"exclude", "global"} # {} => "git" \in opt.kinds

Saids == [said : [custom : Answers, ignore : Answers, git : Answers, exclude : Answers], sawGit : BOOLEAN]
DirKinds == {"custom", "ignore", "git", "exclude"}

LEMMA SaysVerdict ==
    ASSUME RulesGiven, NEW kind, NEW place, NEW o
    PROVE  /\ Says(kind, place, o) \in Answers
           /\ Says(kind, place, o) # "none" => kind \in opt.kinds /\ (place = Nowhere => kind \in GlobalKind)
<1>1. <<kind, place, o>> \in DOMAIN fs.rules =>
        fs.rules[<<kind, place, o>>] \in Answers /\ (place = Nowhere => kind \in GlobalKind)
  BY DEF RulesGiven
<1> QED
  BY <1>1 DEF Says, Answers

\* A node's rules of a kind decide, unless git's do not count there.
Decides(ig, o, anyGit, kind, j) ==
    /\ Says(kind, ig[j].dir, o) # "none"
    /\ kind \in GitKind => anyGit /\ \A i \in 1 .. j - 1 : ~ig[i].hasGit

\* v is what the first of n nodes says that decides.
First(ig, o, anyGit, kind, n, v) ==
    \/ v = "none" /\ \A j \in 1 .. n : ~Decides(ig, o, anyGit, kind, j)
    \/ \E j \in 1 .. n :
        /\ Decides(ig, o, anyGit, kind, j) /\ v = Says(kind, ig[j].dir, o)
        /\ \A i \in 1 .. j - 1 : ~Decides(ig, o, anyGit, kind, i)

\* What n nodes have said.
Sums(ig, o, anyGit, n, acc) ==
    /\ acc.sawGit <=> \E j \in 1 .. n : ig[j].hasGit
    /\ \A kind \in DirKinds : First(ig, o, anyGit, kind, n, acc.said[kind])

LEMMA TurnSaids ==
    ASSUME RulesGiven, NEW acc \in Saids, NEW node \in Nodes, NEW o, NEW anyGit \in BOOLEAN
    PROVE  MatchNode(o, anyGit, acc, node) \in Saids
<1>1. \A kind : Says(kind, node.dir, o) \in Answers
  BY SaysVerdict
<1>2. node.hasGit \in BOOLEAN /\ acc.sawGit \in BOOLEAN /\ \A kind \in DirKinds : acc.said[kind] \in Answers
  BY DEF Nodes, Saids, DirKinds
<1> QED
  BY <1>1, <1>2 DEF MatchNode, Saids, DirKinds

\* One more node.
LEMMA TurnSums ==
    ASSUME RulesGiven, NEW ig \in Seq(Nodes), NEW o, NEW anyGit \in BOOLEAN, NEW n \in Nat, n + 1 <= Len(ig),
           NEW acc \in Saids, Sums(ig, o, anyGit, n, acc)
    PROVE  Sums(ig, o, anyGit, n + 1, MatchNode(o, anyGit, acc, ig[n + 1]))
<1> DEFINE node == ig[n + 1]
           new == MatchNode(o, anyGit, acc, node)
           Looked(kind) == kind \notin GitKind \/ (anyGit /\ ~acc.sawGit)
<1>1. node \in Nodes /\ 1 .. n + 1 = (1 .. n) \cup {n + 1} /\ (n + 1) - 1 = n
  OBVIOUS
<1>2. new.sawGit = (acc.sawGit \/ node.hasGit)
  BY DEF MatchNode
<1>3. \A kind \in DirKinds :
        new.said[kind] = IF acc.said[kind] = "none" /\ Looked(kind) THEN Says(kind, node.dir, o) ELSE acc.said[kind]
  BY DEF MatchNode, DirKinds
<1>4. \A kind \in DirKinds : Decides(ig, o, anyGit, kind, n + 1) <=> Looked(kind) /\ Says(kind, node.dir, o) # "none"
  BY <1>1 DEF Sums, Decides
<1> HIDE DEF new, Looked
<1>5. ASSUME NEW kind \in DirKinds PROVE First(ig, o, anyGit, kind, n + 1, new.said[kind])
  <2> DEFINE v == acc.said[kind]
             D(j) == Decides(ig, o, anyGit, kind, j)
  <2>1. First(ig, o, anyGit, kind, n, v)
    BY DEF Sums
  <2>2. new.said[kind] = IF v = "none" /\ Looked(kind) THEN Says(kind, node.dir, o) ELSE v
    BY <1>3
  <2>3. D(n + 1) <=> Looked(kind) /\ Says(kind, node.dir, o) # "none"
    BY <1>4
  <2>4. CASE v = "none"
    <3>1. \A j \in 1 .. n : ~D(j)
      BY <2>1, <2>4 DEF First, Decides
    <3>2. CASE D(n + 1)
      BY <1>1, <2>2, <2>3, <2>4, <3>1, <3>2 DEF First
    <3>3. CASE ~D(n + 1)
      <4>1. new.said[kind] = "none"
        BY <2>2, <2>3, <2>4, <3>3
      <4> QED BY <1>1, <3>1, <3>3, <4>1 DEF First
    <3> QED BY <3>2, <3>3
  <2>5. CASE v # "none"
    <3>1. PICK j \in 1 .. n : D(j) /\ v = Says(kind, ig[j].dir, o) /\ \A i \in 1 .. j - 1 : ~D(i)
      BY <2>1, <2>5 DEF First
    <3>2. new.said[kind] = v /\ j \in 1 .. n + 1
      BY <2>2, <2>5
    <3> QED BY <3>1, <3>2 DEF First
  <2> QED BY <2>4, <2>5
<1>6. new.sawGit <=> \E j \in 1 .. n + 1 : ig[j].hasGit
  BY <1>1, <1>2 DEF Sums
<1> QED
  BY <1>5, <1>6 DEF Sums, new

\* A loop over the nodes has a result.
Looks(g, ig, o, above, anyGit, start) ==
    /\ g[0] = start /\ g[Len(ig)] = Look(ig, o, above, anyGit, start)
    /\ \A k \in 0 + 1 .. Len(ig) :
        /\ g[k - 1] \in Saids
        /\ g[k] = IF ig[k].above = above THEN MatchNode(o, anyGit, g[k - 1], ig[k]) ELSE g[k - 1]
    /\ \A k \in 0 .. Len(ig) : g[k] \in Saids

LEMMA LookIs ==
    ASSUME RulesGiven, NEW ig \in Seq(Nodes), NEW o, NEW above \in BOOLEAN, NEW anyGit \in BOOLEAN, NEW start \in Saids
    PROVE  \E g : Looks(g, ig, o, above, anyGit, start)
<1> DEFINE N == Len(ig)
           Turn(k, acc) == IF ig[k].above = above THEN MatchNode(o, anyGit, acc, ig[k]) ELSE acc
           Turns(f) == [k \in 0 .. N |-> IF k = 0 THEN start ELSE Turn(k, f[k - 1])]
           said == CHOOSE f : f = Turns(f)
           F == [p \in (0 + 1 .. N) \X Saids |-> Turn(p[1], p[2])]
           X == [k \in 0 .. N |-> Saids]
<1>1. N \in Nat /\ 0 \in Int /\ N \in Int /\ 0 <= N
  OBVIOUS
<1>2. ASSUME NEW k \in 0 + 1 .. N, NEW acc \in Saids PROVE Turn(k, acc) \in Saids
  <2>1. ig[k] \in Nodes
    OBVIOUS
  <2> QED BY <2>1, TurnSaids
<1> HIDE DEF N
<1>3. \A k \in 0 + 1 .. N, acc \in Saids : F[<<k, acc>>] = Turn(k, acc) /\ F[<<k, acc>>] \in Saids
  <2>1. \A k \in 0 + 1 .. N, acc \in Saids : F[<<k, acc>>] = Turn(k, acc)
    OBVIOUS
  <2> HIDE DEF F, Turn
  <2> QED BY <2>1, <1>2
<1> HIDE DEF Turn
<1>4. PICK g : IsLoop(g, 0, N, Saids, start, F)
  <2> HIDE DEF F
  <2> QED BY <1>1, <1>3, Recursion
<1>5. g = Turns(g)
  <2> HIDE DEF F
  <2>1. ASSUME NEW n \in 0 .. N PROVE g[n] = IF n = 0 THEN start ELSE Turn(n, g[n - 1])
    <3>1. n # 0 => n \in 0 + 1 .. N /\ n - 1 \in 0 .. N
      BY <1>1
    <3>2. n # 0 => g[n - 1] \in Saids /\ g[n] = F[<<n, g[n - 1]>>]
      BY <3>1, <1>4 DEF IsLoop
    <3> QED BY <1>3, <1>4, <3>1, <3>2 DEF IsLoop
  <2>2. g = [n \in 0 .. N |-> g[n]]
    BY <1>4 DEF IsLoop
  <2> QED BY <2>1, <2>2
<1>6. said = Turns(said)
  BY <1>5
<1>7. said[0] = start
  <2> HIDE DEF said
  <2> QED BY <1>1, <1>6
<1>8. ASSUME NEW n \in 0 + 1 .. N PROVE said[n] = Turn(n, said[n - 1])
  <2> HIDE DEF said
  <2> QED BY <1>1, <1>6
<1>9. \A n \in 0 .. N : said[n] \in X[n]
  <2>1. said[0] \in X[0]
    <3> HIDE DEF said
    <3> QED BY <1>1, <1>7
  <2>2. ASSUME NEW n \in 0 + 1 .. N, said[n - 1] \in X[n - 1] PROVE said[n] \in X[n]
    <3>1. n - 1 \in 0 .. N /\ n \in 0 .. N
      BY <1>1
    <3> HIDE DEF said
    <3> QED BY <1>2, <1>8, <2>2, <3>1
  <2> HIDE DEF said, X
  <2> QED BY <1>1, <2>1, <2>2, Along
<1>10. \A n \in 0 .. N : said[n] \in Saids
  <2> HIDE DEF said
  <2> QED BY <1>9
<1>11. Look(ig, o, above, anyGit, start) = said[N]
  BY DEF Look, N, Turn
<1>12. \A k \in 0 + 1 .. N : k - 1 \in 0 .. N
  BY <1>1
<1> HIDE DEF said
<1>13. \A k \in 0 + 1 .. N :
          /\ said[k - 1] \in Saids
          /\ said[k] = IF ig[k].above = above THEN MatchNode(o, anyGit, said[k - 1], ig[k]) ELSE said[k - 1]
  BY <1>8, <1>10, <1>12 DEF Turn
<1> QED
  BY <1>7, <1>10, <1>11, <1>13 DEF N, Looks

\* A chain has the directories of the walk first, then those above it.
Divided(ig, m) == m \in 0 .. Len(ig) /\ \A k \in 1 .. Len(ig) : ig[k].above <=> k > m

LEMMA FirstLoop ==
    ASSUME RulesGiven, NEW ig \in Seq(Nodes), NEW o, NEW anyGit \in BOOLEAN, NEW m, Divided(ig, m)
    PROVE  LET acc == Look(ig, o, FALSE, anyGit, NothingSaid) IN acc \in Saids /\ Sums(ig, o, anyGit, m, acc)
<1>1. NothingSaid \in Saids /\ Sums(ig, o, anyGit, 0, NothingSaid)
  BY DEF NothingSaid, Saids, Answers, Sums, First, DirKinds
<1>2. PICK g : Looks(g, ig, o, FALSE, anyGit, NothingSaid)
  BY <1>1, LookIs, FALSE \in BOOLEAN, Zenon
<1> DEFINE Least(k) == IF k < m THEN k ELSE m
           X == [k \in 0 .. Len(ig) |-> {acc \in Saids : Sums(ig, o, anyGit, Least(k), acc)}]
<1>3. Len(ig) \in Nat /\ m \in 0 .. Len(ig)
  BY DEF Divided
<1>4. g[0] \in X[0]
  BY <1>1, <1>2, <1>3 DEF Looks
<1>5. ASSUME NEW k \in 0 + 1 .. Len(ig), g[k - 1] \in X[k - 1] PROVE g[k] \in X[k]
  <2>1. k - 1 \in 0 .. Len(ig) /\ k \in 0 .. Len(ig) /\ k - 1 \in Nat /\ (k - 1) + 1 = k
    BY <1>3
  <2>2. g[k - 1] \in Saids /\ Sums(ig, o, anyGit, Least(k - 1), g[k - 1]) /\ g[k] \in Saids
    BY <1>2, <1>5, <2>1 DEF Looks
  <2>3. CASE k <= m
    <3>1. Least(k - 1) = k - 1 /\ Least(k) = k /\ ~ig[k].above
      BY <2>1, <2>3, <1>3 DEF Divided
    <3>2. g[k] = MatchNode(o, anyGit, g[k - 1], ig[k])
      <4>1. ig[k].above = FALSE
        <5>1. ig[k] \in Nodes
          OBVIOUS
        <5> QED BY <5>1, <3>1 DEF Nodes
      <4> QED BY <1>2, <4>1 DEF Looks
    <3>3. Sums(ig, o, anyGit, k, g[k])
      <4>1. PICK n \in Nat : n = k - 1 /\ n + 1 = k /\ n + 1 <= Len(ig)
        BY <2>1
      <4>2. g[n] \in Saids /\ Sums(ig, o, anyGit, n, g[n])
        BY <2>2, <3>1, <4>1
      <4>3. Sums(ig, o, anyGit, n + 1, MatchNode(o, anyGit, g[n], ig[n + 1]))
        BY <4>1, <4>2, TurnSums
      <4> QED BY <3>2, <4>1, <4>3
    <3> QED BY <2>1, <2>2, <3>1, <3>3
  <2>4. CASE k > m
    <3>1. Least(k - 1) = m /\ Least(k) = m /\ ig[k].above
      BY <2>1, <2>4, <1>3 DEF Divided
    <3>2. g[k] = g[k - 1]
      BY <1>2, <3>1 DEF Looks
    <3> QED BY <2>1, <2>2, <3>1, <3>2
  <2> QED BY <2>3, <2>4, <2>1, <1>3
<1>6. g[Len(ig)] \in X[Len(ig)]
  <2>1. \A k \in 0 .. Len(ig) : g[k] \in X[k]
    <3> HIDE DEF X
    <3>1. 0 \in Int /\ Len(ig) \in Int /\ 0 <= Len(ig)
      BY <1>3
    <3> QED BY <3>1, <1>4, <1>5, Along
  <2> HIDE DEF X
  <2> QED BY <2>1, <1>3
<1>7. Least(Len(ig)) = m
  BY <1>3
<1>8. Len(ig) \in 0 .. Len(ig)
  BY <1>3
<1> HIDE DEF Least
<1>9. g[Len(ig)] \in Saids /\ Sums(ig, o, anyGit, m, g[Len(ig)])
  BY <1>6, <1>7, <1>8
<1>10. Look(ig, o, FALSE, anyGit, NothingSaid) = g[Len(ig)]
  BY <1>2, Zenon DEF Looks
<1> QED
  BY <1>9, <1>10, Zenon

LEMMA SecondLoop ==
    ASSUME RulesGiven, NEW ig \in Seq(Nodes), NEW o, NEW anyGit \in BOOLEAN, NEW m, Divided(ig, m),
           NEW start \in Saids, Sums(ig, o, anyGit, m, start)
    PROVE  LET acc == Look(ig, o, TRUE, anyGit, start) IN acc \in Saids /\ Sums(ig, o, anyGit, Len(ig), acc)
<1>2. PICK g : Looks(g, ig, o, TRUE, anyGit, start)
  BY LookIs, TRUE \in BOOLEAN, Zenon
<1> DEFINE Most(k) == IF k < m THEN m ELSE k
           X == [k \in 0 .. Len(ig) |-> {acc \in Saids : Sums(ig, o, anyGit, Most(k), acc)}]
<1>3. Len(ig) \in Nat /\ m \in 0 .. Len(ig)
  BY DEF Divided
<1>4. g[0] \in X[0]
  <2>1. Most(0) = m
    BY <1>3
  <2> QED BY <1>2, <1>3, <2>1 DEF Looks
<1>5. ASSUME NEW k \in 0 + 1 .. Len(ig), g[k - 1] \in X[k - 1] PROVE g[k] \in X[k]
  <2>1. k - 1 \in 0 .. Len(ig) /\ k \in 0 .. Len(ig) /\ k - 1 \in Nat /\ (k - 1) + 1 = k
    BY <1>3
  <2>2. g[k - 1] \in Saids /\ Sums(ig, o, anyGit, Most(k - 1), g[k - 1]) /\ g[k] \in Saids
    BY <1>2, <1>5, <2>1 DEF Looks
  <2>3. CASE k <= m
    <3>1. Most(k - 1) = m /\ Most(k) = m /\ ~ig[k].above
      BY <2>1, <2>3, <1>3 DEF Divided
    <3>2. g[k] = g[k - 1]
      BY <1>2, <3>1 DEF Looks
    <3> QED BY <2>1, <2>2, <3>1, <3>2
  <2>4. CASE k > m
    <3>1. Most(k - 1) = k - 1 /\ Most(k) = k /\ ig[k].above
      BY <2>1, <2>4, <1>3 DEF Divided
    <3>2. g[k] = MatchNode(o, anyGit, g[k - 1], ig[k])
      <4>1. ig[k].above = TRUE
        <5>1. ig[k] \in Nodes
          OBVIOUS
        <5> QED BY <5>1, <3>1 DEF Nodes
      <4> QED BY <1>2, <4>1 DEF Looks
    <3>3. Sums(ig, o, anyGit, k, g[k])
      <4>1. PICK n \in Nat : n = k - 1 /\ n + 1 = k /\ n + 1 <= Len(ig)
        BY <2>1
      <4>2. g[n] \in Saids /\ Sums(ig, o, anyGit, n, g[n])
        BY <2>2, <3>1, <4>1
      <4>3. Sums(ig, o, anyGit, n + 1, MatchNode(o, anyGit, g[n], ig[n + 1]))
        BY <4>1, <4>2, TurnSums
      <4> QED BY <3>2, <4>1, <4>3
    <3> QED BY <2>1, <2>2, <3>1, <3>3
  <2> QED BY <2>3, <2>4, <2>1, <1>3
<1>6. g[Len(ig)] \in X[Len(ig)]
  <2>1. \A k \in 0 .. Len(ig) : g[k] \in X[k]
    <3> HIDE DEF X
    <3>1. 0 \in Int /\ Len(ig) \in Int /\ 0 <= Len(ig)
      BY <1>3
    <3> QED BY <3>1, <1>4, <1>5, Along
  <2> HIDE DEF X
  <2> QED BY <2>1, <1>3
<1>7. Most(Len(ig)) = Len(ig)
  BY <1>3
<1>8. Len(ig) \in 0 .. Len(ig)
  BY <1>3
<1> HIDE DEF Most
<1>9. g[Len(ig)] \in Saids /\ Sums(ig, o, anyGit, Len(ig), g[Len(ig)])
  BY <1>6, <1>7, <1>8
<1>10. Look(ig, o, TRUE, anyGit, start) = g[Len(ig)]
  BY <1>2, Zenon DEF Looks
<1> QED
  BY <1>9, <1>10, Zenon

-----------------------------------------------------------------------------
\* The chain of a directory, and what the documentation says of its rules.

HasGit(d) == opt.requireGit /\ "git" \in opt.kinds /\ d \in fs.git

\* The node of a directory.
Stands(node, d) == node.dir = d /\ (node.hasGit <=> HasGit(d))

\* The chain of the directory at p: one node for each directory on the path,
\* then, unless nothing is looked for there, one for each directory above.
ChainHolds(ig, p) ==
    LET up == Above(Real(p[1]))
    IN /\ ig \in Seq(Nodes) /\ Divided(ig, Len(p))
       /\ \A k \in 1 .. Len(p) : Stands(ig[k], Real(p[Len(p) + 1 - k]))
       /\ \/ Len(ig) = Len(p) + Len(up) + 1 /\ \A k \in 1 .. Len(up) : Stands(ig[Len(p) + k], up[k])
          \/ Len(ig) = Len(p) + 1 /\ ~opt.parents /\ "git" \notin opt.kinds
       /\ ig[Len(ig)].dir = Nowhere /\ ~ig[Len(ig)].hasGit

\* How many nodes matched_ignore looks at.
Looked(ig, p) == IF opt.parents THEN Len(ig) - 1 ELSE Len(p)

\* The directories of an entry and the nodes of the chain it is matched with.
LEMMA ChainIs ==
    ASSUME Given, Obj \subseteq Nat, IsFiniteSet(Obj), NEW p \in Seq(Obj), p # <<>>, NEW c \in Obj,
           NEW ig, ChainHolds(ig, p)
    PROVE  LET q == Append(p, c)
           IN /\ Chain(q) \in Seq(Obj) /\ Len(Chain(q)) = Looked(ig, p) /\ Looked(ig, p) \in Nat
              /\ \A k \in 1 .. Looked(ig, p) : k \in 1 .. Len(ig) /\ Stands(ig[k], Chain(q)[k])
              /\ "git" \in opt.kinds =>
                    (EveryDir(q) \cap fs.git # {} /\ opt.requireGit <=> \E k \in 1 .. Len(ig) : ig[k].hasGit)
<1> DEFINE q == Append(p, c)
           n == Len(p)
           up == Above(Real(p[1]))
           W == Within(q)
<1>1. n \in Nat \ {0} /\ p[1] \in Obj /\ Real(p[1]) \in Obj
  <2>1. n \in Nat \ {0} /\ p[1] \in Obj
    OBVIOUS
  <2> QED BY <2>1 DEF Given, Real
<1>2. q \in Seq(Obj) /\ Len(q) = n + 1 /\ \A i \in 1 .. n : q[i] = p[i]
  BY AppendOne
<1>3. up \in Seq(Obj)
  BY <1>1, AboveIsASequence
<1>4. Real(Head(q)) = Real(p[1])
  BY <1>1, <1>2
<1> HIDE DEF q, up, n
<1>5. W \in Seq(Obj) /\ Len(W) = n /\ \A k \in 1 .. n : W[k] = Real(p[n + 1 - k])
  <2>1. Len(q) - 1 = n
    BY <1>1, <1>2
  <2>2. W = [k \in 1 .. n |-> Real(q[Len(q) - k])]
    BY <2>1 DEF Within
  <2>3. ASSUME NEW k \in 1 .. n PROVE q[Len(q) - k] = p[n + 1 - k] /\ Real(p[n + 1 - k]) \in Obj
    <3>1. Len(q) - k = n + 1 - k /\ n + 1 - k \in 1 .. n
      BY <1>1, <1>2
    <3>2. p[n + 1 - k] \in Obj
      BY <3>1 DEF n
    <3> QED BY <3>1, <3>2, <1>2 DEF Given, Real
  <2> HIDE DEF W
  <2>4. W \in [1 .. n -> Obj] /\ \A k \in 1 .. n : W[k] = Real(p[n + 1 - k])
    BY <2>2, <2>3
  <2> QED BY <2>4, <1>1
<1> HIDE DEF W
<1>6. /\ ig \in Seq(Nodes) /\ Len(ig) \in Nat
      /\ \A k \in 1 .. n : Stands(ig[k], W[k])
      /\ \/ Len(ig) = n + Len(up) + 1 /\ \A k \in 1 .. Len(up) : Stands(ig[n + k], up[k])
         \/ Len(ig) = n + 1 /\ ~opt.parents /\ "git" \notin opt.kinds
      /\ ~ig[Len(ig)].hasGit
  BY <1>5 DEF ChainHolds, n, up
<1>7. Len(up) \in Nat
  BY <1>3
<1> DEFINE Nodewise ==
              /\ Chain(q) \in Seq(Obj) /\ Len(Chain(q)) = Looked(ig, p) /\ Looked(ig, p) \in Nat
              /\ \A k \in 1 .. Looked(ig, p) : k \in 1 .. Len(ig) /\ Stands(ig[k], Chain(q)[k])
<1>8. ASSUME opt.parents PROVE Nodewise
  <2> DEFINE w == W \o up
  <2>1. Chain(q) = w
    BY <1>4, <1>8 DEF Chain, W, up
  <2>2. w \in Seq(Obj) /\ Len(w) = n + Len(up)
    BY <1>3, <1>5, ConcatProperties
  <2>3. \A k \in 1 .. n + Len(up) : w[k] = IF k <= n THEN W[k] ELSE up[k - n]
    BY <1>3, <1>5, ConcatProperties
  <2> HIDE DEF w
  <2>4. Looked(ig, p) = n + Len(up) /\ Len(ig) = n + Len(up) + 1
    BY <1>1, <1>6, <1>7, <1>8 DEF Looked, n
  <2>5. ASSUME NEW k \in 1 .. n + Len(up) PROVE Stands(ig[k], w[k])
    <3>1. CASE k <= n
      BY <2>3, <3>1, <1>6
    <3>2. CASE k > n
      <4>1. k - n \in 1 .. Len(up) /\ n + (k - n) = k /\ ~(k <= n)
        BY <3>2, <1>1, <1>7
      <4>2. Stands(ig[n + (k - n)], up[k - n])
        BY <4>1, <1>6, <1>8
      <4> QED BY <4>1, <4>2, <2>3
    <3> QED BY <3>1, <3>2, <1>1
  <2>6. \A k \in 1 .. n + Len(up) : k \in 1 .. Len(ig)
    BY <2>4, <1>1, <1>7
  <2> QED BY <2>1, <2>2, <2>4, <2>5, <2>6, <1>1, <1>7
<1>9. ASSUME ~opt.parents PROVE Nodewise
  <2>1. Chain(q) = W
    <3>1. Chain(q) = W \o <<>>
      BY <1>9 DEF Chain, W
    <3> QED BY <3>1, <1>5, ConcatEmptySeq
  <2>2. Looked(ig, p) = n /\ Len(ig) >= n
    BY <1>1, <1>6, <1>7, <1>9 DEF Looked, n
  <2>3. \A k \in 1 .. n : k \in 1 .. Len(ig)
    BY <2>2, <1>1, <1>6
  <2> QED BY <2>1, <2>2, <2>3, <1>1, <1>5, <1>6
<1>10. ASSUME "git" \in opt.kinds
       PROVE  EveryDir(q) \cap fs.git # {} /\ opt.requireGit <=> \E k \in 1 .. Len(ig) : ig[k].hasGit
  <2>1. Len(ig) = n + Len(up) + 1 /\ \A k \in 1 .. Len(up) : Stands(ig[n + k], up[k])
    BY <1>6, <1>10
  <2>2. EveryDir(q) = {W[k] : k \in 1 .. n} \cup {up[k] : k \in 1 .. Len(up)}
    <3>1. Range(W) = {W[k] : k \in 1 .. n} /\ Range(up) = {up[k] : k \in 1 .. Len(up)}
      <4>1. DOMAIN W = 1 .. n /\ DOMAIN up = 1 .. Len(up)
        BY <1>3, <1>5
      <4> QED BY <4>1 DEF Range
    <3> QED BY <3>1, <1>4 DEF EveryDir, W, up
  <2>3. \A k \in 1 .. n : ig[k].hasGit <=> opt.requireGit /\ W[k] \in fs.git
    BY <1>6, <1>10 DEF Stands, HasGit
  <2>4. \A k \in 1 .. Len(up) : ig[n + k].hasGit <=> opt.requireGit /\ up[k] \in fs.git
    BY <2>1, <1>10 DEF Stands, HasGit
  <2>5. ASSUME opt.requireGit, NEW d \in EveryDir(q) \cap fs.git PROVE \E k \in 1 .. Len(ig) : ig[k].hasGit
    <3>1. CASE \E k \in 1 .. n : d = W[k]
      <4>1. PICK k \in 1 .. n : d = W[k]
        BY <3>1
      <4>2. k \in 1 .. Len(ig)
        BY <2>1, <1>1, <1>7
      <4> QED BY <4>1, <4>2, <2>3, <2>5
    <3>2. CASE \E k \in 1 .. Len(up) : d = up[k]
      <4>1. PICK k \in 1 .. Len(up) : d = up[k]
        BY <3>2
      <4>2. n + k \in 1 .. Len(ig)
        BY <2>1, <1>1, <1>7
      <4> QED BY <4>1, <4>2, <2>4, <2>5
    <3> QED BY <2>2, <2>5, <3>1, <3>2
  <2>6. ASSUME NEW k \in 1 .. Len(ig), ig[k].hasGit PROVE EveryDir(q) \cap fs.git # {} /\ opt.requireGit
    <3>1. CASE k <= n
      <4>1. k \in 1 .. n
        BY <3>1
      <4> QED BY <4>1, <2>2, <2>3, <2>6
    <3>2. CASE k > n
      <4>1. k # Len(ig)
        BY <2>6, <1>6
      <4>2. k - n \in 1 .. Len(up) /\ n + (k - n) = k
        <5>1. k \in Nat /\ k <= n + Len(up) /\ k > n
          <6>1. k \in 1 .. n + Len(up) + 1 /\ k # n + Len(up) + 1
            BY <2>1, <4>1
          <6>2. \A y, z \in Nat : \A x \in 1 .. y + z + 1 : x # y + z + 1 => x \in Nat /\ x <= y + z
            OBVIOUS
          <6> QED BY <6>1, <6>2, <3>2, <1>1, <1>7
        <5>2. \A x, y, z \in Nat : x <= y + z /\ x > y => x - y \in 1 .. z /\ y + (x - y) = x
          OBVIOUS
        <5>3. n \in Nat
          BY <1>1
        <5> QED BY <5>1, <5>2, <5>3, <1>7
      <4> QED BY <4>2, <2>2, <2>4, <2>6
    <3> QED BY <3>1, <3>2, <1>1
  <2> QED BY <2>5, <2>6
<1>11. Nodewise
  BY <1>8, <1>9
<1> QED
  BY <1>10, <1>11 DEF q

\* The nearest rule of a kind is what the loops leave of it.
LEMMA NearestIs ==
    ASSUME Given, RulesGiven, Obj \subseteq Nat, IsFiniteSet(Obj), NEW p \in Seq(Obj), p # <<>>, NEW c \in Obj,
           NEW ig, ChainHolds(ig, p), NEW kind \in DirKinds, NEW anyGit \in BOOLEAN,
           anyGit <=> ~opt.requireGit \/ AnyGitParent(ig), NEW v,
           First(ig, c, anyGit, kind, IF opt.parents THEN Len(ig) ELSE Len(p), v)
    PROVE  v = Nearest(kind, Append(p, c))
<1> DEFINE q == Append(p, c)
           M == Looked(ig, p)
           C == Chain(q)
           D(j) == Decides(ig, c, anyGit, kind, j)
           N == IF opt.parents THEN Len(ig) ELSE Len(p)
           deciding == {k \in DOMAIN C : Counts(kind, q, k) /\ Says(kind, C[k], Last(q)) # "none"}
<1>1. /\ C \in Seq(Obj) /\ Len(C) = M /\ M \in Nat
      /\ \A k \in 1 .. M : k \in 1 .. Len(ig) /\ Stands(ig[k], C[k])
      /\ "git" \in opt.kinds => (EveryDir(q) \cap fs.git # {} /\ opt.requireGit <=> \E k \in 1 .. Len(ig) : ig[k].hasGit)
  BY ChainIs
<1>2. Last(q) = c /\ kind \notin GlobalKind
  <2>1. q \in Seq(Obj) /\ Len(q) = Len(p) + 1 /\ q[Len(p) + 1] = c
    BY AppendOne
  <2>2. kind \notin GlobalKind
    BY DEF DirKinds, GlobalKind
  <2> HIDE DEF q
  <2> QED BY <2>1, <2>2 DEF Last
<1>3. ig \in Seq(Nodes) /\ Len(p) \in Nat /\ ig[Len(ig)].dir = Nowhere
  BY DEF ChainHolds
<1>4. N = M \/ (N = M + 1 /\ N = Len(ig))
  BY <1>3 DEF Looked
<1> HIDE DEF q, M, C, N
<1>5. DOMAIN C = 1 .. M
  BY <1>1
<1>6. kind \in opt.kinds /\ kind \in GitKind => "git" \in opt.kinds
  BY DEF RulesGiven, GitKind
<1>7. ASSUME "git" \in opt.kinds PROVE anyGit <=> InRepository(q)
  BY <1>1, <1>3, <1>7 DEF InRepository, AnyGitParent
<1>8. ASSUME NEW j \in 1 .. M PROVE D(j) <=> Counts(kind, q, j) /\ Says(kind, C[j], Last(q)) # "none"
  <2>1. Says(kind, C[j], c) # "none" => kind \in opt.kinds
    BY SaysVerdict
  <2>2. ig[j].dir = C[j]
    BY <1>1 DEF Stands
  <2>3. "git" \in opt.kinds => ((\A i \in 1 .. j - 1 : ~ig[i].hasGit) <=> (opt.requireGit => \A i \in 1 .. j - 1 : C[i] \notin fs.git))
    <3>1. \A i \in 1 .. j - 1 : i \in 1 .. M
      BY <1>1
    <3> QED BY <3>1, <1>1 DEF Stands, HasGit
  <2> QED BY <2>1, <2>2, <2>3, <1>2, <1>6, <1>7 DEF Decides, Counts, C
<1>9. ~D(M + 1) \/ N = M
  <2> SUFFICES ASSUME N = M + 1, N = Len(ig) PROVE ~D(M + 1)
    BY <1>4
  <2>1. Says(kind, Nowhere, c) = "none"
    BY <1>2, SaysVerdict
  <2> QED BY <2>1, <1>3 DEF Decides
<1>10. deciding = {k \in 1 .. M : D(k)}
  BY <1>5, <1>8
<1>11. Nearest(kind, q) = IF deciding = {} THEN "none" ELSE Says(kind, C[CHOOSE k \in deciding : \A j \in deciding : k <= j], Last(q))
  BY DEF Nearest, C
<1>12. First(ig, c, anyGit, kind, N, v)
  BY DEF N
<1> HIDE DEF D, deciding
<1>13. CASE v = "none" /\ \A j \in 1 .. N : ~D(j)
  <2>1. deciding = {}
    BY <1>1, <1>4, <1>10, <1>13
  <2> QED BY <2>1, <1>11, <1>13 DEF q
<1>14. ASSUME NEW j \in 1 .. N, D(j), v = Says(kind, ig[j].dir, c), \A i \in 1 .. j - 1 : ~D(i)
       PROVE  v = Nearest(kind, q)
  <2>1. j \in 1 .. M
    BY <1>1, <1>4, <1>9, <1>14
  <2>2. j \in deciding /\ \A k \in deciding : j <= k
    <3>1. \A k \in 1 .. M : D(k) => j <= k
      BY <2>1, <1>14, <1>1
    <3> QED BY <2>1, <3>1, <1>10, <1>14
  <2>3. \A k \in deciding : k \in Nat
    BY <1>10
  <2>4. (CHOOSE k \in deciding : \A i \in deciding : k <= i) = j
    <3>1. \A k \in deciding : (\A i \in deciding : k <= i) => k = j
      BY <2>2, <2>3
    <3>2. \E k \in deciding : \A i \in deciding : k <= i
      BY <2>2
    <3> QED BY <3>1, <3>2, Zenon
  <2>5. ig[j].dir = C[j]
    BY <2>1, <1>1 DEF Stands
  <2> QED BY <2>2, <2>4, <2>5, <1>2, <1>11, <1>14
<1>15. (v = "none" /\ \A j \in 1 .. N : ~D(j)) \/ \E j \in 1 .. N : D(j) /\ v = Says(kind, ig[j].dir, c) /\ \A i \in 1 .. j - 1 : ~D(i)
  BY <1>12 DEF First, D
<1> QED
  BY <1>13, <1>14, <1>15 DEF q

\* What matched_ignore says of an entry is what the documentation says.
LEMMA MatchedIs ==
    ASSUME Given, RulesGiven, Obj \subseteq Nat, IsFiniteSet(Obj), NEW p \in Seq(Obj), p # <<>>, NEW c \in Obj,
           NEW ig, ChainHolds(ig, p)
    PROVE  MatchedIgnore(ig, c) = ByRules(Append(p, c))
<1> DEFINE q == Append(p, c)
           anyGit == ~opt.requireGit \/ AnyGitParent(ig)
           relative == Look(ig, c, FALSE, anyGit, NothingSaid)
           all == IF opt.parents THEN Look(ig, c, TRUE, anyGit, relative) ELSE relative
           N == IF opt.parents THEN Len(ig) ELSE Len(p)
<1>1. Last(q) = c
  <2>1. q \in Seq(Obj) /\ Len(q) = Len(p) + 1 /\ q[Len(p) + 1] = c
    BY AppendOne
  <2> HIDE DEF q
  <2> QED BY <2>1 DEF Last
<1>2. ig \in Seq(Nodes) /\ Divided(ig, Len(p))
  BY DEF ChainHolds
<1>3. MatchedIgnore(ig, c) = Verdict(c, anyGit, all)
  BY DEF MatchedIgnore
<1>4. anyGit \in BOOLEAN
  OBVIOUS
<1>5. anyGit <=> ~opt.requireGit \/ AnyGitParent(ig)
  OBVIOUS
<1> HIDE DEF anyGit
<1>6. relative \in Saids /\ Sums(ig, c, anyGit, Len(p), relative)
  BY <1>2, <1>4, FirstLoop
<1> HIDE DEF relative
<1>7. all \in Saids /\ Sums(ig, c, anyGit, N, all)
  <2>1. CASE opt.parents
    BY <2>1, <1>2, <1>4, <1>6, SecondLoop
  <2>2. CASE ~opt.parents
    BY <2>2, <1>6
  <2> QED BY <2>1, <2>2
<1> HIDE DEF all
<1>8. ASSUME NEW kind \in DirKinds PROVE all.said[kind] = Nearest(kind, q)
  <2>1. First(ig, c, anyGit, kind, N, all.said[kind])
    BY <1>7 DEF Sums
  <2> QED BY <2>1, <1>4, <1>5, NearestIs
<1>9. [k \in DOMAIN DirKind |-> all.said[DirKind[k]]] = [k \in DOMAIN DirKind |-> Nearest(DirKind[k], q)]
  <2>1. \A k \in DOMAIN DirKind : DirKind[k] \in DirKinds
    BY DEF DirKind, DirKinds
  <2> QED BY <2>1, <1>8
<1>10. (IF anyGit THEN Says("global", Nowhere, c) ELSE "none") = Elsewhere("global", q)
  <2>1. "global" \notin opt.kinds => Says("global", Nowhere, c) = "none"
    BY SaysVerdict
  <2>2. "global" \in opt.kinds => "git" \in opt.kinds
    BY DEF RulesGiven
  <2>3. "git" \in opt.kinds => (anyGit <=> InRepository(q))
    <3>1. "git" \in opt.kinds => (EveryDir(q) \cap fs.git # {} /\ opt.requireGit <=> \E k \in 1 .. Len(ig) : ig[k].hasGit)
      BY ChainIs
    <3> HIDE DEF q
    <3> QED BY <3>1, <1>2, <1>5 DEF InRepository, AnyGitParent
  <2> HIDE DEF q
  <2> QED BY <2>1, <2>2, <2>3, <1>1 DEF Elsewhere
<1>11. Says("explicit", Nowhere, c) = Elsewhere("explicit", q)
  BY <1>1 DEF Elsewhere
<1> HIDE DEF q
<1>12. ByRules(q) = FirstMatch([k \in DOMAIN DirKind |-> Nearest(DirKind[k], q)] \o <<Elsewhere("global", q), Elsewhere("explicit", q)>>)
  BY DEF ByRules
<1>13. Verdict(c, anyGit, all) = FirstMatch([k \in DOMAIN DirKind |-> all.said[DirKind[k]]]
               \o <<IF anyGit THEN Says("global", Nowhere, c) ELSE "none", Says("explicit", Nowhere, c)>>)
  BY DEF Verdict
<1>14. Verdict(c, anyGit, all) = ByRules(q)
  BY <1>9, <1>10, <1>11, <1>12, <1>13, Zenon
<1> QED
  BY <1>3, <1>14 DEF q

\* An entry is skipped if and only if it is to be ignored.
LEMMA SkipIs ==
    ASSUME Given, RulesGiven, Obj \subseteq Nat, IsFiniteSet(Obj), NEW p \in Seq(Obj), p # <<>>, NEW c \in Obj,
           NEW ig, ChainHolds(ig, p)
    PROVE  ShouldSkip(ig, c) <=> Ignored(Append(p, c))
<1> DEFINE q == Append(p, c)
<1>1. Last(q) = c
  <2>1. q \in Seq(Obj) /\ Len(q) = Len(p) + 1 /\ q[Len(p) + 1] = c
    BY AppendOne
  <2> HIDE DEF q
  <2> QED BY <2>1 DEF Last
<1>2. MatchedIgnore(ig, c) = ByRules(q)
  BY MatchedIs
<1> HIDE DEF q
<1>3. Elsewhere("override", q) = Says("override", Nowhere, c) /\ Elsewhere("types", q) = Says("types", Nowhere, c)
  BY <1>1 DEF Elsewhere
<1>4. ShouldSkip(ig, c) <=> Ignored(q)
  BY <1>1, <1>2, <1>3 DEF ShouldSkip, Matched, Ignored
<1> QED
  BY <1>4 DEF q

-----------------------------------------------------------------------------
\* The paths the walk comes to.

Pre(p, n) == SubSeq(p, 1, n)

\* Paths that begin at root, each step one that the walk takes.
Reached(root) == {p \in Seq(Obj) : p # <<>> /\ p[1] = root /\ \A n \in 2 .. Len(p) : Pre(p, n) \in Below(Pre(p, n - 1))}

LEMMA PreIs ==
    ASSUME NEW S, NEW p \in Seq(S), NEW n \in 0 .. Len(p)
    PROVE  Pre(p, n) \in Seq(S) /\ Len(Pre(p, n)) = n /\ \A i \in 1 .. n : Pre(p, n)[i] = p[i]
<1>1. n \in Nat /\ \A i \in 1 .. n : p[i] \in S
  OBVIOUS
<1> QED
  BY <1>1, SubSeqProperties DEF Pre

LEMMA PreWhole ==
    ASSUME NEW S, NEW p \in Seq(S)
    PROVE  Pre(p, Len(p)) = p
<1>1. Len(p) \in 0 .. Len(p)
  OBVIOUS
<1>2. Pre(p, Len(p)) \in Seq(S) /\ Len(Pre(p, Len(p))) = Len(p) /\ \A i \in 1 .. Len(p) : Pre(p, Len(p))[i] = p[i]
  BY <1>1, PreIs
<1> QED
  BY <1>2, SeqEqual

LEMMA PrePre ==
    ASSUME NEW S, NEW p \in Seq(S), NEW n \in 0 .. Len(p), NEW m \in 0 .. n
    PROVE  Pre(Pre(p, n), m) = Pre(p, m)
<1> DEFINE x == Pre(p, n)
           y == Pre(p, m)
           z == Pre(x, m)
<1>1. x \in Seq(S) /\ Len(x) = n /\ \A i \in 1 .. n : x[i] = p[i]
  BY PreIs
<1>2. m \in 0 .. Len(p) /\ \A i \in 1 .. m : i \in 1 .. n
  OBVIOUS
<1>3. y \in Seq(S) /\ Len(y) = m /\ \A i \in 1 .. m : y[i] = p[i]
  BY <1>2, PreIs
<1> HIDE DEF x
<1>4. z \in Seq(S) /\ Len(z) = m /\ \A i \in 1 .. m : z[i] = x[i]
  BY <1>1, PreIs
<1> HIDE DEF y, z
<1>5. z = y
  BY <1>1, <1>2, <1>3, <1>4, SeqEqual
<1> QED
  BY <1>5 DEF x, y, z

LEMMA PreAppend ==
    ASSUME NEW S, NEW p \in Seq(S), NEW o \in S
    PROVE  /\ Append(p, o) \in Seq(S) /\ Len(Append(p, o)) = Len(p) + 1 /\ Append(p, o)[Len(p) + 1] = o
           /\ \A n \in 0 .. Len(p) : Pre(Append(p, o), n) = Pre(p, n)
<1> DEFINE q == Append(p, o)
<1>1. q \in Seq(S) /\ Len(q) = Len(p) + 1 /\ q[Len(p) + 1] = o /\ \A i \in 1 .. Len(p) : q[i] = p[i]
  BY AppendOne
<1>2. Len(p) \in Nat
  OBVIOUS
<1> HIDE DEF q
<1>3. ASSUME NEW n \in 0 .. Len(p) PROVE Pre(q, n) = Pre(p, n)
  <2>1. Pre(p, n) \in Seq(S) /\ Len(Pre(p, n)) = n /\ \A i \in 1 .. n : Pre(p, n)[i] = p[i]
    BY PreIs
  <2>2. n \in 0 .. Len(q)
    BY <1>1, <1>2
  <2>3. Pre(q, n) \in Seq(S) /\ Len(Pre(q, n)) = n /\ \A i \in 1 .. n : Pre(q, n)[i] = q[i]
    BY <1>1, <2>2, PreIs
  <2>4. \A i \in 1 .. n : i \in 1 .. Len(p)
    BY <1>2
  <2> QED BY <1>1, <2>1, <2>3, <2>4, SeqEqual
<1> QED
  BY <1>1, <1>3 DEF q

\* A beginning and the next element.
LEMMA PreNext ==
    ASSUME NEW S, NEW p \in Seq(S), NEW n \in 0 .. Len(p) - 1
    PROVE  Pre(p, n + 1) = Append(Pre(p, n), p[n + 1])
<1> DEFINE x == Pre(p, n)
           y == Pre(p, n + 1)
           z == Append(x, p[n + 1])
<1>1. n \in 0 .. Len(p) /\ n + 1 \in 0 .. Len(p) /\ n \in Nat /\ p[n + 1] \in S
  OBVIOUS
<1>2. x \in Seq(S) /\ Len(x) = n /\ \A i \in 1 .. n : x[i] = p[i]
  BY <1>1, PreIs
<1>3. y \in Seq(S) /\ Len(y) = n + 1 /\ \A i \in 1 .. n + 1 : y[i] = p[i]
  BY <1>1, PreIs
<1> HIDE DEF x
<1>4. z \in Seq(S) /\ Len(z) = n + 1 /\ z[n + 1] = p[n + 1] /\ \A i \in 1 .. n : z[i] = x[i]
  BY <1>1, <1>2, AppendOne
<1> HIDE DEF y, z
<1>5. \A i \in 1 .. n + 1 : z[i] = y[i]
  BY <1>1, <1>2, <1>3, <1>4
<1>6. y = z
  BY <1>3, <1>4, <1>5, SeqEqual
<1> QED
  BY <1>6 DEF x, y, z

\* A directory the walk goes on below.
Goes(p) == Entered(p) /\ Resolved(p) \notin fs.unreadable

LEMMA BelowIs ==
    ASSUME NEW p \in Seq(Obj), NEW q \in Below(p)
    PROVE  /\ q \in Seq(Obj) /\ Len(q) = Len(p) + 1 /\ Pre(q, Len(p)) = p
           /\ q[Len(p) + 1] \in Children(Resolved(p)) /\ q = Append(p, q[Len(p) + 1])
           /\ Goes(p)
           /\ \A n \in 0 .. Len(p) : Pre(q, n) = Pre(p, n)
<1>1. PICK o \in Children(Resolved(p)) : q = Append(p, o)
  BY DEF Below
<1>2. o \in Obj /\ Len(p) \in 0 .. Len(p)
  BY DEF Children
<1>3. /\ q \in Seq(Obj) /\ Len(q) = Len(p) + 1 /\ q[Len(p) + 1] = o
      /\ \A n \in 0 .. Len(p) : Pre(q, n) = Pre(p, n)
  BY <1>1, <1>2, PreAppend
<1>4. Pre(q, Len(p)) = p
  BY <1>2, <1>3, PreWhole
<1>5. Goes(p)
  BY DEF Below, Goes
<1> QED
  BY <1>1, <1>3, <1>4, <1>5

LEMMA ReachedFurther ==
    ASSUME NEW root, NEW p \in Reached(root), NEW q \in Below(p)
    PROVE  q \in Reached(root) /\ Len(q) = Len(p) + 1
<1>1. p \in Seq(Obj) /\ p # <<>> /\ p[1] = root /\ \A n \in 2 .. Len(p) : Pre(p, n) \in Below(Pre(p, n - 1))
  BY DEF Reached
<1>2. /\ q \in Seq(Obj) /\ Len(q) = Len(p) + 1 /\ q = Append(p, q[Len(p) + 1])
      /\ \A n \in 0 .. Len(p) : Pre(q, n) = Pre(p, n)
  BY <1>1, BelowIs
<1>3. Len(p) \in Nat \ {0}
  BY <1>1
<1>4. q[1] = p[1] /\ q # <<>>
  <2>1. q[Len(p) + 1] \in Obj
    BY <1>2, <1>3
  <2>2. PICK o \in Obj : q = Append(p, o)
    BY <1>2, <2>1
  <2>3. \A i \in 1 .. Len(p) : q[i] = p[i]
    BY <1>1, <2>2, AppendOne
  <2> QED BY <1>2, <1>3, <2>3
<1>5. ASSUME NEW n \in 2 .. Len(q) PROVE Pre(q, n) \in Below(Pre(q, n - 1))
  <2>1. CASE n <= Len(p)
    <3>1. n \in 0 .. Len(p) /\ n - 1 \in 0 .. Len(p) /\ n \in 2 .. Len(p)
      BY <1>3, <2>1
    <3> QED BY <1>1, <1>2, <3>1
  <2>2. CASE n = Len(p) + 1
    <3>1. n - 1 = Len(p) /\ n = Len(q) /\ Len(p) \in 0 .. Len(p)
      BY <1>2, <1>3, <2>2
    <3>2. Pre(q, n) = q
      BY <1>2, <3>1, PreWhole
    <3>3. Pre(q, n - 1) = p
      BY <1>1, <1>2, <3>1, PreWhole
    <3> QED BY <3>2, <3>3
  <2> QED BY <1>2, <1>3, <2>1, <2>2
<1> QED
  BY <1>1, <1>2, <1>4, <1>5 DEF Reached

LEMMA ReachedBefore ==
    ASSUME NEW root, NEW p \in Reached(root), NEW n \in 1 .. Len(p)
    PROVE  Pre(p, n) \in Reached(root) /\ Len(Pre(p, n)) = n /\ (n < Len(p) => Pre(p, n + 1) \in Below(Pre(p, n)))
<1>1. p \in Seq(Obj) /\ p[1] = root /\ \A k \in 2 .. Len(p) : Pre(p, k) \in Below(Pre(p, k - 1))
  BY DEF Reached
<1> DEFINE x == Pre(p, n)
<1>2. n \in 0 .. Len(p) /\ Len(p) \in Nat
  BY <1>1
<1>3. x \in Seq(Obj) /\ Len(x) = n /\ \A i \in 1 .. n : x[i] = p[i]
  BY <1>1, <1>2, PreIs
<1>4. \A k \in 0 .. n : Pre(x, k) = Pre(p, k)
  BY <1>1, <1>2, PrePre
<1> HIDE DEF x
<1>5. x \in Reached(root)
  <2>1. x # <<>> /\ x[1] = root
    BY <1>1, <1>3
  <2>2. \A k \in 2 .. n : Pre(x, k) \in Below(Pre(x, k - 1))
    <3>1. \A k \in 2 .. n : k \in 0 .. n /\ k - 1 \in 0 .. n /\ k \in 2 .. Len(p)
      BY <1>2
    <3> QED BY <1>1, <1>4, <3>1
  <2> QED BY <1>3, <2>1, <2>2 DEF Reached
<1>6. n < Len(p) => Pre(p, n + 1) \in Below(Pre(p, n))
  <2>1. n < Len(p) => n + 1 \in 2 .. Len(p) /\ (n + 1) - 1 = n
    BY <1>2
  <2> QED BY <1>1, <2>1
<1> QED
  BY <1>3, <1>5, <1>6 DEF x

\* A level of Come: the paths of that length.
LEMMA ComeLevels ==
    ASSUME NEW root \in Obj, Bound \in Nat \ {0}
    PROVE  Come(root) = {p \in Reached(root) : Len(p) <= Bound}
<1> DEFINE N == Bound
           Turns(f) == [n \in 1 .. N |-> IF n = 1 THEN {<<root>>} ELSE UNION {Below(path) : path \in f[n - 1]}]
           level == CHOOSE f : f = Turns(f)
           D == SUBSET Reached(root)
           F == [p \in (1 + 1 .. N) \X D |-> UNION {Below(path) : path \in p[2]}]
           Of(n) == {p \in Reached(root) : Len(p) = n}
           X == [n \in 1 .. N |-> {Of(n)}]
<1>1. 1 \in Int /\ N \in Int /\ 1 <= N
  OBVIOUS
<1>2. <<root>> \in Reached(root) /\ {<<root>>} = Of(1)
  <2>1. <<root>> \in Seq(Obj) /\ Len(<<root>>) = 1 /\ <<root>>[1] = root
    OBVIOUS
  <2>2. <<root>> \in Reached(root)
    BY <2>1 DEF Reached
  <2>3. ASSUME NEW p \in Reached(root), Len(p) = 1 PROVE p = <<root>>
    <3>1. p \in Seq(Obj) /\ p[1] = root
      BY DEF Reached
    <3> QED BY <2>1, <2>3, <3>1, SeqEqual
  <2> QED BY <2>1, <2>2, <2>3
<1> HIDE DEF N
<1>3. ASSUME NEW S \in D PROVE UNION {Below(path) : path \in S} \in D
  BY ReachedFurther
<1>4. \A n \in 1 + 1 .. N, S \in D : F[<<n, S>>] = UNION {Below(path) : path \in S} /\ F[<<n, S>>] \in D
  <2>1. \A n \in 1 + 1 .. N, S \in D : F[<<n, S>>] = UNION {Below(path) : path \in S}
    OBVIOUS
  <2> HIDE DEF D, F
  <2> QED BY <2>1, <1>3
<1>5. {<<root>>} \in D
  BY <1>2
<1>6. PICK g : IsLoop(g, 1, N, D, {<<root>>}, F)
  <2> HIDE DEF D, F
  <2> QED BY <1>1, <1>4, <1>5, Recursion
<1>7. g = Turns(g)
  <2> HIDE DEF F, D
  <2>1. ASSUME NEW n \in 1 .. N PROVE g[n] = IF n = 1 THEN {<<root>>} ELSE UNION {Below(path) : path \in g[n - 1]}
    <3>1. n # 1 => n \in 1 + 1 .. N /\ n - 1 \in 1 .. N
      BY <1>1
    <3>2. n # 1 => g[n - 1] \in D /\ g[n] = F[<<n, g[n - 1]>>]
      BY <3>1, <1>6 DEF IsLoop
    <3> QED BY <1>4, <1>6, <3>1, <3>2 DEF IsLoop
  <2>2. g = [n \in 1 .. N |-> g[n]]
    BY <1>6 DEF IsLoop
  <2> QED BY <2>1, <2>2
<1>8. level = Turns(level)
  BY <1>7
<1>9. level[1] = {<<root>>}
  <2> HIDE DEF level
  <2> QED BY <1>1, <1>8
<1>10. ASSUME NEW n \in 1 + 1 .. N PROVE level[n] = UNION {Below(path) : path \in level[n - 1]}
  <2> DEFINE Turn(f, k) == IF k = 1 THEN {<<root>>} ELSE UNION {Below(path) : path \in f[k - 1]}
  <2>1. n \in 1 .. N /\ n # 1
    BY <1>1
  <2>2. Turn(level, n) = UNION {Below(path) : path \in level[n - 1]}
    BY <2>1
  <2>3. Turns(level) = [k \in 1 .. N |-> Turn(level, k)]
    BY Zenon
  <2> HIDE DEF level, Turn
  <2>4. level[n] = Turn(level, n)
    BY <1>8, <2>1, <2>3
  <2> QED BY <2>2, <2>4
<1> HIDE DEF level
<1>11. ASSUME NEW n \in 1 + 1 .. N, level[n - 1] \in X[n - 1] PROVE level[n] \in X[n]
  <2>1. n \in 1 .. N /\ n - 1 \in 1 .. N /\ n \in Nat
    BY <1>1
  <2>2. level[n - 1] = Of(n - 1)
    BY <1>11, <2>1
  <2>3. ASSUME NEW q \in level[n] PROVE q \in Of(n)
    <3>1. PICK p \in Of(n - 1) : q \in Below(p)
      BY <1>10, <2>2
    <3> QED BY <2>1, <3>1, ReachedFurther
  <2>4. ASSUME NEW q \in Of(n) PROVE q \in level[n]
    <3>1. n - 1 \in 1 .. Len(q) /\ n - 1 < Len(q) /\ (n - 1) + 1 = n
      BY <2>1
    <3>2. Pre(q, n - 1) \in Of(n - 1) /\ Pre(q, n) \in Below(Pre(q, n - 1))
      <4>1. PICK k \in 1 .. Len(q) : k = n - 1 /\ k + 1 = n /\ k < Len(q)
        BY <3>1
      <4> QED BY <4>1, ReachedBefore
    <3>3. Pre(q, n) = q
      <4>1. q \in Seq(Obj)
        BY DEF Reached
      <4> QED BY <4>1, PreWhole
    <3> QED BY <1>10, <2>2, <3>2, <3>3
  <2> HIDE DEF Of
  <2>5. level[n] = Of(n)
    BY <2>3, <2>4
  <2> QED BY <2>1, <2>5
<1>12. \A n \in 1 .. N : level[n] = Of(n)
  <2>1. level[1] \in X[1]
    BY <1>1, <1>2, <1>9
  <2>2. \A n \in 1 .. N : level[n] \in X[n]
    <3> HIDE DEF X
    <3> QED BY <1>1, <1>11, <2>1, Along
  <2> HIDE DEF Of
  <2> QED BY <2>2
<1>13. Come(root) = UNION {level[n] : n \in 1 .. N}
  BY DEF Come, level, N
<1>14. ASSUME NEW p \in Reached(root) PROVE Len(p) \in Nat \ {0}
  BY DEF Reached
<1> QED
  BY <1>1, <1>12, <1>13, <1>14 DEF N

\* No directory is above itself.
Tree == \A set \in SUBSET Obj : set # {} => \E o \in set : fs.parent[o] \notin set

\* The directories an entry is in.
LEMMA WithinIs ==
    ASSUME NEW q \in Seq(Obj), q # <<>>
    PROVE  Range(Within(q)) = {Real(q[i]) : i \in 1 .. Len(q) - 1}
<1>1. Len(q) \in Nat \ {0}
  OBVIOUS
<1>2. Range(Within(q)) = {Real(q[Len(q) - k]) : k \in 1 .. Len(q) - 1}
  BY DEF Within, Range
<1>3. \A i \in 1 .. Len(q) - 1 : Len(q) - i \in 1 .. Len(q) - 1 /\ Len(q) - (Len(q) - i) = i
  BY <1>1
<1> QED
  BY <1>2, <1>3

\* What is known of the directories on a path that goes on below them.
LEMMA OnTheWay ==
    ASSUME Given, NEW root, NEW p \in Reached(root), NEW k \in 1 .. Len(p) - 1
    PROVE  /\ p \in Seq(Obj) /\ p[k] \in Obj /\ p[k + 1] \in Obj /\ Real(p[k]) \in Directories
           /\ fs.parent[p[k + 1]] = Real(p[k])
           /\ k > 1 /\ fs.kind[p[k]] = "link" => \A i \in 1 .. k - 1 : Real(p[i]) # Real(p[k])
<1> DEFINE q == Pre(p, k)
<1>1. p \in Seq(Obj) /\ p # <<>>
  BY DEF Reached
<1>2. k \in 1 .. Len(p) /\ k < Len(p) /\ k \in 0 .. Len(p) /\ Len(p) \in Nat
  BY <1>1
<1>3. Pre(p, k + 1) \in Below(q)
  BY <1>2, ReachedBefore
<1>4. q \in Seq(Obj) /\ Len(q) = k /\ \A i \in 1 .. k : q[i] = p[i]
  BY <1>1, <1>2, PreIs
<1>5. Pre(p, k + 1)[k + 1] = p[k + 1]
  <2>1. k + 1 \in 0 .. Len(p) /\ k + 1 \in 1 .. k + 1
    BY <1>2
  <2> QED BY <1>1, <2>1, PreIs
<1> HIDE DEF q
<1>6. p[k + 1] \in Children(Resolved(q)) /\ IsDir(q) /\ ~Loop(q)
  <2>1. p[k + 1] \in Children(Resolved(q)) /\ Goes(q)
    BY <1>3, <1>4, <1>5, BelowIs
  <2> QED BY <2>1 DEF Goes, Entered, Error
<1>7. q # <<>> /\ Last(q) = p[k]
  BY <1>2, <1>4 DEF Last
<1>8. Last(q) \in Obj /\ Real(Last(q)) \in Obj /\ IsDir(q) /\ Resolved(q) = Real(Last(q))
  BY <1>4, <1>6, <1>7, ResolvedIsReal
<1>9. Real(p[k]) \in Directories
  BY <1>7, <1>8 DEF IsDir, Directories
<1>10. p[k + 1] \in Obj /\ fs.parent[p[k + 1]] = Real(p[k])
  BY <1>6, <1>7, <1>8 DEF Children
<1>11. ASSUME k > 1, fs.kind[p[k]] = "link", NEW i \in 1 .. k - 1 PROVE Real(p[i]) # Real(p[k])
  <2>1. opt.follow
    BY <1>4, <1>7, <1>8, <1>11 DEF Resolved, IsDir
  <2>2. Followed(q)
    BY <1>4, <1>7, <1>11, <2>1 DEF Followed
  <2>3. Real(Last(q)) \notin Range(Within(q))
    BY <1>6, <1>8, <2>2 DEF Loop
  <2>4. Real(q[i]) \in Range(Within(q))
    BY <1>4, <1>7, WithinIs
  <2>5. q[i] = p[i]
    BY <1>4, <1>2
  <2> QED BY <2>3, <2>4, <2>5, <1>7
<1> QED
  BY <1>1, <1>7, <1>8, <1>9, <1>10, <1>11

\* No path is longer than Bound: of two places in the same directory, below the
\* same link, one would be above itself.
LEMMA ReachedBound ==
    ASSUME Given, Tree, IsFiniteSet(Obj), NEW root, NEW p \in Reached(root)
    PROVE  Bound \in Nat \ {0} /\ Len(p) <= Bound
<1> DEFINE Dirs == Directories
           n == Len(p) - 1
           Start(m) == m = 1 \/ fs.kind[p[m]] = "link"
           Begins(m, k) == Start(m) /\ \A l \in m + 1 .. k : ~Start(l)
           s == [k \in 1 .. n |-> CHOOSE m \in 1 .. k : Begins(m, k)]
           h == [k \in 1 .. n |-> <<Real(p[s[k]]), Real(p[k])>>]
<1>1. IsFiniteSet(Dirs) /\ Cardinality(Dirs) \in Nat
  <2>1. Dirs \in SUBSET Obj
    BY DEF Directories
  <2>2. IsFiniteSet(Dirs)
    BY <2>1, FS_Subset
  <2> QED BY <2>2, FS_CardinalityType
<1>2. IsFiniteSet(Dirs \X Dirs) /\ Cardinality(Dirs \X Dirs) = Cardinality(Dirs) * Cardinality(Dirs)
  BY <1>1, FS_Product
<1>3. PICK c \in Nat : c = Cardinality(Dirs \X Dirs) /\ Bound = c + 1
  <2>1. Cardinality(Dirs) * Cardinality(Dirs) \in Nat
    BY <1>1, SMT
  <2> QED BY <1>2, <2>1 DEF Bound
<1>4. p \in Seq(Obj) /\ p # <<>> /\ n \in Nat /\ Len(p) = n + 1
  BY DEF Reached
<1> HIDE DEF n
<1>5. ASSUME NEW k \in 1 .. n
      PROVE  /\ p[k] \in Obj /\ p[k + 1] \in Obj /\ Real(p[k]) \in Dirs
             /\ fs.parent[p[k + 1]] = Real(p[k])
             /\ k > 1 /\ fs.kind[p[k]] = "link" => \A i \in 1 .. k - 1 : Real(p[i]) # Real(p[k])
  BY OnTheWay DEF n
<1> HIDE DEF Start
<1>6. ASSUME NEW k \in 1 .. n PROVE s[k] \in 1 .. k /\ Begins(s[k], k)
  <2> DEFINE A == {m \in 0 .. k : m = 0 \/ Start(m)}
  <2>1. k \in Nat /\ A \in SUBSET (0 .. k) /\ 0 \in A
    BY <1>4
  <2>2. PICK m \in A : \A l \in A : l <= m
    <3> HIDE DEF A
    <3> QED BY <2>1, Greatest
  <2>3. Start(1)
    BY DEF Start
  <2>4. m \in 1 .. k /\ Begins(m, k)
    <3>1. 1 \in A
      BY <2>3, <1>4
    <3>2. m >= 1 /\ m \in 0 .. k /\ Start(m)
      BY <2>2, <3>1
    <3>3. ASSUME NEW l \in m + 1 .. k PROVE ~Start(l)
      BY <2>2, <3>2, <3>3
    <3> QED BY <3>2, <3>3
  <2> HIDE DEF Begins, A
  <2>5. \E x \in 1 .. k : Begins(x, k)
    BY <2>4
  <2>6. s[k] = CHOOSE x \in 1 .. k : Begins(x, k)
    OBVIOUS
  <2> QED BY <2>5, <2>6, Zenon
<1> HIDE DEF s
<1>7. h \in [1 .. n -> Dirs \X Dirs]
  <2>1. ASSUME NEW k \in 1 .. n PROVE h[k] \in Dirs \X Dirs
    <3>1. s[k] \in 1 .. n
      BY <1>4, <1>6
    <3> QED BY <3>1, <1>5
  <2> QED BY <2>1
<1>8. ASSUME NEW a \in 1 .. n, NEW b \in 1 .. n, Start(b), a < b PROVE Real(p[a]) # Real(p[b])
  <2>1. b > 1 /\ fs.kind[p[b]] = "link" /\ a \in 1 .. b - 1
    BY <1>4, <1>8 DEF Start
  <2> QED BY <2>1, <1>5
<1>9. ASSUME NEW i \in 1 .. n, NEW j \in 1 .. n, i < j, h[i] = h[j] PROVE FALSE
  <2>1. Real(p[s[i]]) = Real(p[s[j]]) /\ Real(p[i]) = Real(p[j])
    BY <1>9
  <2>2. s[i] \in 1 .. i /\ s[j] \in 1 .. j /\ Begins(s[i], i) /\ Begins(s[j], j)
    BY <1>6
  <2>3. s[i] \in 1 .. n /\ s[j] \in 1 .. n
    BY <2>2, <1>4
  <2>4. s[i] = s[j]
    <3>1. ~(s[i] < s[j]) /\ ~(s[j] < s[i])
      BY <2>1, <2>2, <2>3, <1>8
    <3> QED BY <2>3, <3>1
  <2> DEFINE set == {Real(p[m]) : m \in i + 1 .. j}
  <2>5. ASSUME NEW m \in i + 1 .. j PROVE fs.parent[Real(p[m])] \in set /\ Real(p[m]) \in Obj
    <3>1. m \in s[j] + 1 .. j /\ m \in 2 .. n /\ m - 1 \in 1 .. n /\ (m - 1) + 1 = m
      BY <1>4, <2>2, <2>4
    <3>2. fs.kind[p[m]] # "link"
      BY <2>2, <3>1 DEF Start
    <3>3. Real(p[m]) = p[m] /\ p[m] \in Obj
      BY <3>1, <3>2, <1>5 DEF Real
    <3>4. fs.parent[p[m]] = Real(p[m - 1])
      BY <3>1, <1>5
    <3>5. Real(p[m - 1]) \in set
      <4>1. CASE m - 1 \in i + 1 .. j
        BY <4>1
      <4>2. CASE m - 1 = i
        <5>1. j \in i + 1 .. j
          BY <1>9
        <5> QED BY <4>2, <5>1, <2>1
      <4> QED BY <4>1, <4>2
    <3> HIDE DEF set
    <3> QED BY <3>3, <3>4, <3>5
  <2>6. set # {} /\ set \in SUBSET Obj
    <3>1. j \in i + 1 .. j
      BY <1>9
    <3> QED BY <3>1, <2>5
  <2>7. \A o \in set : fs.parent[o] \in set
    BY <2>5
  <2> HIDE DEF set
  <2> QED BY <2>6, <2>7 DEF Tree
<1> HIDE DEF h
<1>10. ~(c < n)
  <2> SUFFICES ASSUME c < n PROVE FALSE
    OBVIOUS
  <2>1. IsFiniteSet(1 .. n) /\ Cardinality(1 .. n) = n
    BY <1>4, IntervalCount
  <2>2. PICK x \in 1 .. n, y \in 1 .. n : x # y /\ h[x] = h[y]
    <3>1. Cardinality(Dirs \X Dirs) < Cardinality(1 .. n)
      BY <2>1, <1>3
    <3> HIDE DEF Dirs
    <3> QED BY <2>1, <3>1, <1>2, <1>7, FS_PigeonHole
  <2>3. x < y \/ y < x
    BY <2>2, <1>4
  <2> QED BY <2>2, <2>3, <1>9
<1> QED
  BY <1>3, <1>4, <1>10

\* So Come finds all paths that the walk comes to.
LEMMA ComeIs ==
    ASSUME Given, Tree, IsFiniteSet(Obj), NEW root \in Obj
    PROVE  Come(root) = Reached(root)
<1>1. <<root>> \in Reached(root)
  BY DEF Reached
<1>2. Bound \in Nat \ {0} /\ \A p \in Reached(root) : Len(p) <= Bound
  BY <1>1, ReachedBound
<1> QED
  BY <1>2, ComeLevels

-----------------------------------------------------------------------------
\* What is delivered: the invariant.

\* What is said of a path.
Right(what, p) ==
    \/ what = Error(p)
    \/ what = "parents" /\ Len(p) = 1 /\ IsDir(p) /\ ParentsFail(Real(p[1]))
    \/ Error(p) = "none" /\ what = "undecided" /\ Undecided(p)
    \/ /\ Error(p) = "none" /\ ~Undecided(p)
       /\ \/ what = "device" /\ IsDir(p) /\ opt.oneDevice /\ Fails("same", Resolved(p))
          \/ what = "entry" /\ Depth(p) >= opt.min
          \/ what = "unreadable" /\ Entered(p) /\ Resolved(p) \in fs.unreadable
New(p, root) == {[what |-> w, root |-> root, path |-> p] : w \in {x \in Whats : Right(x, p)}}

\* What a path the walk is given leads to: Due(k), with the paths of the walk.
Owed(k) ==
    IF opt.roots[k] = Stdin THEN {[what |-> "entry", root |-> k, path |-> <<Stdin>>]}
    ELSE UNION {New(p, k) : p \in Reached(opt.roots[k])}

\* What lies below a child that some frame has not come to yet.
Later ==
    {p \in Seq(Obj) : \E m \in DOMAIN stack :
        /\ Len(p) > m /\ PathPrefix(stack[m].path, p)
        /\ \E i \in stack[m].next .. Len(stack[m].children) : p[m + 1] = stack[m].children[i]}

\* Found so far: all there is to find, but for what comes later.
OwedSoFar(n, later) == {r \in UNION {Owed(k) : k \in 1 .. n} : r.root = n => r.path \notin later}
Found == Range(Results) = OwedSoFar(rootIndex, Later)

\* A frame is that of a directory the walk comes to and reads.
FrameReached(ig, p) == p \in Reached(p[1]) /\ Goes(p) /\ ChainHolds(ig, p)
\* The path of the walk is walked.
Walked == opt.roots[rootIndex] # Stdin
FramesReached ==
    /\ stack # <<>> => Walked
    /\ \A m \in DOMAIN stack : FrameReached(stack[m].ig, stack[m].path)

EInv == Tree /\ RulesGiven /\ FramesReached /\ Found

\* The file system and the options do not change, nor what is to be found.
LEMMA EntryKept ==
    ASSUME fs' = fs, opt' = opt, NEW p
    PROVE  /\ Real(p)' = Real(p) /\ Children(p)' = Children(p) /\ Resolved(p)' = Resolved(p) /\ IsDir(p)' = IsDir(p)
           /\ Error(p)' = Error(p) /\ Undecided(p)' = Undecided(p) /\ Entered(p)' = Entered(p) /\ Goes(p)' = Goes(p)
<1>1. Real(p)' = Real(p) /\ Children(p)' = Children(p) /\ Resolved(p)' = Resolved(p) /\ IsDir(p)' = IsDir(p)
  BY DEF Real, Children, Resolved, IsDir
<1>2. \A call, o : Fails(call, o)' = Fails(call, o)
  BY DEF Fails
<1>3. \A o : Lost(o)' = Lost(o) /\ Real(o)' = Real(o)
  BY DEF Lost, Examined, Fails, Real
<1>4. Within(p)' = Within(p) /\ Followed(p)' = Followed(p)
  BY DEF Within, Real, Followed
<1>5. Loop(p)' = Loop(p) /\ Unopened(p)' = Unopened(p)
  BY <1>1, <1>2, <1>3, <1>4 DEF Loop, Unopened
<1>6. Error(p)' = Error(p)
  BY <1>2, <1>3, <1>4, <1>5 DEF Error
<1>7. Undecided(p)' = Undecided(p)
  BY <1>1, <1>2 DEF Undecided
<1>8. Entered(p)' = Entered(p)
  BY <1>1, <1>2, <1>6, <1>7 DEF Entered, Depth
<1> QED
  BY <1>1, <1>6, <1>7, <1>8 DEF Goes

LEMMA IgnoredKept ==
    ASSUME fs' = fs, opt' = opt, NEW p
    PROVE  Ignored(p)' = Ignored(p)
<1>1. \A d : Above(d)' = Above(d) /\ Real(d)' = Real(d)
  BY DEF Above, Real
<1>2. Within(p)' = Within(p)
  BY <1>1 DEF Within
<1>3. Chain(p)' = Chain(p) /\ InRepository(p)' = InRepository(p)
  BY <1>1, <1>2 DEF Chain, InRepository, EveryDir
<1>4. \A kind, place, o : Says(kind, place, o)' = Says(kind, place, o)
  BY DEF Says
<1>5. \A kind, k : Counts(kind, p, k)' = Counts(kind, p, k)
  BY <1>3 DEF Counts
<1>6. ASSUME NEW kind PROVE Nearest(kind, p)' = Nearest(kind, p)
  <2> DEFINE S == {k \in DOMAIN Chain(p) : Counts(kind, p, k) /\ Says(kind, Chain(p)[k], Last(p)) # "none"}
  <2>1. S' = S
    BY <1>3, <1>4, <1>5
  <2>2. Nearest(kind, p) = IF S = {} THEN "none" ELSE Says(kind, Chain(p)[CHOOSE k \in S : \A j \in S : k <= j], Last(p))
    BY DEF Nearest
  <2>3. Nearest(kind, p)' = (IF S = {} THEN "none" ELSE Says(kind, Chain(p)[CHOOSE k \in S : \A j \in S : k <= j], Last(p)))'
    BY DEF Nearest
  <2> HIDE DEF S
  <2> QED BY <2>1, <2>2, <2>3, <1>3, <1>4
<1>7. \A kind : Elsewhere(kind, p)' = Elsewhere(kind, p)
  BY <1>3, <1>4 DEF Elsewhere
<1>8. ByRules(p)' = ByRules(p)
  <2> DEFINE x == [k \in DOMAIN DirKind |-> Nearest(DirKind[k], p)]
             y == <<Elsewhere("global", p), Elsewhere("explicit", p)>>
  <2>1. x' = x /\ y' = y
    BY <1>6, <1>7
  <2>2. ByRules(p) = FirstMatch(x \o y)
    BY DEF ByRules
  <2>3. ByRules(p)' = FirstMatch(x' \o y')
    BY DEF ByRules
  <2> HIDE DEF x, y
  <2> QED BY <2>1, <2>2, <2>3
<1> QED
  BY <1>7, <1>8 DEF Ignored

LEMMA BelowKept ==
    ASSUME fs' = fs, opt' = opt, NEW p
    PROVE  Below(p)' = Below(p)
<1>1. Children(Resolved(p))' = Children(Resolved(p)) /\ Goes(p)' = Goes(p)
  BY EntryKept DEF Children
<1>2. \A q : Error(q)' = Error(q) /\ Undecided(q)' = Undecided(q) /\ Resolved(q)' = Resolved(q) /\ Ignored(q)' = Ignored(q)
  BY EntryKept, IgnoredKept
<1> QED
  BY <1>1, <1>2 DEF Below, Goes

LEMMA ReachedKept ==
    ASSUME fs' = fs, opt' = opt, NEW o
    PROVE  Reached(o)' = Reached(o)
<1>1. \A p : Below(p)' = Below(p)
  BY BelowKept
<1> QED
  BY <1>1 DEF Reached, Pre

LEMMA OwedKept ==
    ASSUME fs' = fs, opt' = opt, NEW k
    PROVE  Owed(k)' = Owed(k)
<1>1. \A o : Reached(o)' = Reached(o) /\ Real(o)' = Real(o)
  BY ReachedKept, EntryKept
<1>2. \A p : New(p, k)' = New(p, k)
  <2>1. \A p, w : Right(w, p)' = Right(w, p)
    <3> SUFFICES ASSUME NEW p, NEW w PROVE Right(w, p)' = Right(w, p)
      OBVIOUS
    <3>1. /\ Error(p)' = Error(p) /\ Undecided(p)' = Undecided(p) /\ Entered(p)' = Entered(p)
          /\ Resolved(p)' = Resolved(p) /\ IsDir(p)' = IsDir(p)
      BY EntryKept
    <3>2. ParentsFail(Real(p[1]))' = ParentsFail(Real(p[1]))
      BY DEF ParentsFail, NoParents, Above, Malformed, Fails, Real
    <3>3. Fails("same", Resolved(p))' = Fails("same", Resolved(p))
      BY <3>1 DEF Fails
    <3> QED BY <3>1, <3>2, <3>3 DEF Right, Depth
  <2> QED BY <2>1 DEF New
<1> QED
  BY <1>1, <1>2 DEF Owed

LEMMA OwedSoFarKept ==
    ASSUME fs' = fs, opt' = opt, NEW n, NEW later
    PROVE  OwedSoFar(n, later)' = OwedSoFar(n, later)
<1>1. \A k : Owed(k)' = Owed(k)
  BY OwedKept
<1> QED
  BY <1>1 DEF OwedSoFar

LEMMA FrameKept ==
    ASSUME fs' = fs, opt' = opt, NEW ig, NEW p
    PROVE  FrameReached(ig, p)' = FrameReached(ig, p)
<1>1. Reached(p[1])' = Reached(p[1])
  BY ReachedKept
<1>2. Goes(p)' = Goes(p)
  BY EntryKept
<1>3. ChainHolds(ig, p)' = ChainHolds(ig, p)
  BY DEF ChainHolds, Above, Divided, Stands, HasGit, Real
<1> QED
  BY <1>1, <1>2, <1>3 DEF FrameReached

\* What is due, with the paths of the walk.
LEMMA OwedIsDue ==
    ASSUME Given, Tree, IsFiniteSet(Obj), Stdin \notin Obj, NEW k \in 1 .. Len(opt.roots)
    PROVE  Due(k) = Owed(k)
<1> DEFINE root == opt.roots[k]
           Say(what, paths) == {[what |-> what, root |-> k, path |-> p] : p \in paths}
           all == Come(root)
           sound == {p \in all : Error(p) = "none"}
           entries == {p \in sound : ~Undecided(p)}
           errors == {[what |-> Error(p), root |-> k, path |-> p] : p \in all \ sound}
           parents == {p \in {<<root>>} : IsDir(p) /\ ParentsFail(Real(root))}
           device == {p \in entries : IsDir(p) /\ opt.oneDevice /\ Fails("same", Resolved(p))}
           deep == {p \in entries : Depth(p) >= opt.min}
           unread == {p \in entries : Entered(p) /\ Resolved(p) \in fs.unreadable}
<1>1. root \in Obj \cup {Stdin}
  BY DEF Given
<1>2. CASE root = Stdin
  BY <1>2 DEF Due, Owed
<1>3. CASE root # Stdin
  <2>1. all = Reached(root)
    BY <1>1, <1>3, ComeIs
  <2>2. Due(k) = errors \cup Say("undecided", sound \ entries) \cup Say("parents", parents)
                 \cup Say("device", device) \cup Say("entry", deep) \cup Say("unreadable", unread)
    BY <1>3 DEF Due
  <2>3. Owed(k) = UNION {New(p, k) : p \in all}
    BY <1>3, <2>1 DEF Owed
  <2>4. \A p \in all : p[1] = root /\ (Len(p) = 1 => p = <<root>>)
    <3>1. ASSUME NEW p \in Seq(Obj), Len(p) = 1, p[1] = root PROVE p = <<root>>
      <4>1. PICK s \in Seq(Obj) : s = <<root>> /\ Len(s) = 1 /\ s[1] = root
        <5>1. root \in Obj
          BY <1>1, <1>3
        <5> HIDE DEF root
        <5>2. <<root>> \in Seq(Obj) /\ Len(<<root>>) = 1 /\ <<root>>[1] = root
          BY <5>1
        <5> QED BY <5>2
      <4>2. \A i \in 1 .. Len(p) : p[i] = s[i]
        BY <3>1, <4>1
      <4> QED BY <3>1, <4>1, <4>2, SeqEqual
    <3> QED BY <3>1, <2>1 DEF Reached
  <2>5. <<root>> \in all /\ <<root>>[1] = root /\ Len(<<root>>) = 1
    <3>1. <<root>> \in Reached(root)
      <4>1. 2 .. 1 = {} /\ <<root>> \in Seq(Obj)
        BY <1>1, <1>3
      <4> QED BY <4>1 DEF Reached
    <3> QED BY <3>1, <2>1
  <2> HIDE DEF all, root
  <2>6. ASSUME NEW r \in Due(k) PROVE r \in Owed(k)
    <3>1. PICK w \in Whats, p \in all : r = [what |-> w, root |-> k, path |-> p] /\ Right(w, p)
      <4>1. CASE r \in errors
        <5>1. PICK p \in all : r = [what |-> Error(p), root |-> k, path |-> p] /\ Error(p) # "none"
          BY <4>1
        <5>2. Error(p) \in Whats
          BY <5>1 DEF Error, Whats
        <5> QED BY <5>1, <5>2 DEF Right
      <4>2. CASE r \in Say("undecided", sound \ entries)
        BY <4>2 DEF Whats, Right
      <4>3. CASE r \in Say("parents", parents)
        BY <4>3, <2>5 DEF Whats, Right
      <4>4. CASE r \in Say("device", device)
        BY <4>4 DEF Whats, Right
      <4>5. CASE r \in Say("entry", deep)
        BY <4>5 DEF Whats, Right
      <4>6. CASE r \in Say("unreadable", unread)
        BY <4>6 DEF Whats, Right
      <4> HIDE DEF errors, sound, entries, parents, device, deep, unread, Say
      <4> QED BY <4>1, <4>2, <4>3, <4>4, <4>5, <4>6, <2>2
    <3>2. r \in New(p, k)
      BY <3>1 DEF New
    <3> QED BY <3>2, <2>3
  <2>7. ASSUME NEW r \in Owed(k) PROVE r \in Due(k)
    <3>1. PICK p \in all : r \in New(p, k)
      BY <2>3
    <3>2. PICK w \in Whats : r = [what |-> w, root |-> k, path |-> p] /\ Right(w, p)
      BY <3>1 DEF New
    <3>3. w # "none"
      BY DEF Whats
    <3>4. CASE w = Error(p)
      <4>1. r \in errors
        BY <3>2, <3>3, <3>4
      <4> HIDE DEF errors
      <4> QED BY <4>1, <2>2
    <3>5. CASE w # Error(p)
      <4>1. \/ w = "parents" /\ p \in parents
            \/ w = "undecided" /\ p \in sound \ entries
            \/ w = "device" /\ p \in device
            \/ w = "entry" /\ p \in deep
            \/ w = "unreadable" /\ p \in unread
        BY <3>2, <3>5, <2>4 DEF Right
      <4> HIDE DEF errors, sound, entries, parents, device, deep, unread
      <4> QED BY <3>2, <4>1, <2>2
    <3> QED BY <3>4, <3>5
  <2> QED BY <2>6, <2>7
<1> QED
  BY <1>2, <1>3

-----------------------------------------------------------------------------
\* The chain of a directory that is entered.

LEMMA AddChildIs ==
    ASSUME Given, RulesGiven, NEW ig \in Seq(Nodes), NEW d \in Obj
    PROVE  LET w == AddChild(ig, d)
           IN /\ w \in Seq(Nodes) /\ Len(w) = Len(ig) + 1 /\ Stands(w[1], d) /\ ~w[1].above
              /\ \A k \in 1 .. Len(ig) : w[k + 1] = ig[k]
<1> DEFINE node == Node(d, opt.requireGit /\ opt.kinds \cap GitKind # {} /\ d \in fs.git, FALSE)
           w == <<node>> \o ig
<1>1. node \in Nodes /\ node.dir = d /\ ~node.above
  BY DEF Node, Nodes
<1>2. node.hasGit <=> HasGit(d)
  <2>1. opt.kinds \cap GitKind # {} <=> "git" \in opt.kinds
    BY DEF GitKind, RulesGiven
  <2> QED BY <2>1 DEF Node, HasGit
<1>3. AddChild(ig, d) = w
  BY DEF AddChild
<1> HIDE DEF node
<1>4. w \in Seq(Nodes) /\ Len(w) = Len(ig) + 1 /\ w[1] = node /\ \A k \in 1 .. Len(ig) : w[k + 1] = ig[k]
  BY <1>1
<1> QED
  BY <1>1, <1>2, <1>3, <1>4 DEF Stands

LEMMA AddParentsIs ==
    ASSUME Given, Obj \subseteq Nat, IsFiniteSet(Obj), NEW d \in Obj
    PROVE  LET ig == AddParents(d)
               up == Above(d)
           IN /\ ig \in Seq(Nodes) /\ ig # <<>> /\ \A k \in 1 .. Len(ig) : ig[k].above
              /\ \/ Len(ig) = Len(up) + 1 /\ \A k \in 1 .. Len(up) : Stands(ig[k], up[k])
                 \/ Len(ig) = 1 /\ ~opt.parents /\ "git" \notin opt.kinds
              /\ ig[Len(ig)].dir = Nowhere /\ ~ig[Len(ig)].hasGit
<1> DEFINE p == Above(d)
           u == [k \in DOMAIN p |-> Node(p[k], HasGit(p[k]), TRUE)]
           w == u \o IgRoot
<1>1. IgRoot \in Seq(Nodes) /\ Len(IgRoot) = 1 /\ IgRoot[1].above /\ IgRoot[1].dir = Nowhere /\ ~IgRoot[1].hasGit
  BY DEF IgRoot, Node, Nodes
<1>2. p \in Seq(Obj)
  BY AboveIsASequence
<1>3. \/ AddParents(d) = w
      \/ AddParents(d) = IgRoot /\ ~opt.parents /\ "git" \notin opt.kinds
  BY DEF AddParents, NoParents, HasGit, GitKind
<1> HIDE DEF p
<1>4. u \in Seq(Nodes) /\ Len(u) = Len(p) /\ Len(p) \in Nat /\ \A k \in 1 .. Len(p) : u[k].above /\ Stands(u[k], p[k])
  <2>1. \A x : HasGit(x) \in BOOLEAN
    BY Zenon DEF HasGit
  <2>2. DOMAIN p = 1 .. Len(p) /\ Len(p) \in Nat
    BY <1>2
  <2>3. u = [k \in 1 .. Len(p) |-> Node(p[k], HasGit(p[k]), TRUE)]
    BY <2>2
  <2> HIDE DEF u
  <2>4. \A k \in 1 .. Len(p) : u[k] \in Nodes /\ u[k].above /\ u[k].dir = p[k] /\ u[k].hasGit = HasGit(p[k])
    BY <1>2, <2>1, <2>3 DEF Node, Nodes
  <2>5. u \in [1 .. Len(p) -> Nodes]
    BY <2>3, <2>4
  <2> QED BY <2>2, <2>4, <2>5 DEF Stands
<1> HIDE DEF u
<1>5. CASE AddParents(d) = w
  <2>0. w \in Seq(Nodes) /\ Len(w) = Len(u) + Len(IgRoot)
    BY <1>1, <1>4, ConcatProperties
  <2>1. w \in Seq(Nodes) /\ Len(w) = Len(p) + 1
    BY <2>0, <1>1, <1>4
  <2>2. \A k \in 1 .. Len(u) + Len(IgRoot) : w[k] = IF k <= Len(u) THEN u[k] ELSE IgRoot[k - Len(u)]
    BY <1>1, <1>4, ConcatProperties
  <2> HIDE DEF w
  <2>3. w[Len(p) + 1] = IgRoot[1] /\ \A k \in 1 .. Len(p) : w[k] = u[k]
    BY <2>2, <1>1, <1>4
  <2>4. \A k \in 1 .. Len(w) : w[k].above
    BY <2>1, <2>3, <1>1, <1>4
  <2>5. Len(w) = Len(p) + 1 /\ \A k \in 1 .. Len(p) : Stands(w[k], p[k])
    BY <2>1, <2>3, <1>4
  <2>6. w[Len(w)].dir = Nowhere /\ ~w[Len(w)].hasGit /\ w # <<>>
    BY <2>1, <2>3, <1>1, <1>4
  <2> QED BY <1>5, <2>1, <2>4, <2>5, <2>6 DEF p
<1>6. CASE AddParents(d) = IgRoot /\ ~opt.parents /\ "git" \notin opt.kinds
  <2>1. IgRoot # <<>> /\ \A k \in 1 .. Len(IgRoot) : IgRoot[k].above
    BY <1>1
  <2> QED BY <2>1, <1>1, <1>6
<1> QED
  BY <1>3, <1>5, <1>6

LEMMA ChainBegins ==
    ASSUME Given, RulesGiven, Obj \subseteq Nat, IsFiniteSet(Obj), NEW o \in Obj
    PROVE  ChainHolds(AddChild(AddParents(Real(o)), Real(o)), <<o>>)
<1> DEFINE d == Real(o)
           u == AddParents(d)
           w == AddChild(u, d)
           up == Above(d)
           p == <<o>>
<1>1. d \in Obj
  BY DEF Given, Real
<1>2. Len(p) = 1 /\ p[1] = o
  OBVIOUS
<1> HIDE DEF p
<1>3. up \in Seq(Obj)
  BY <1>1, AboveIsASequence
<1>4. /\ u \in Seq(Nodes) /\ u # <<>> /\ \A k \in 1 .. Len(u) : u[k].above
      /\ \/ Len(u) = Len(up) + 1 /\ \A k \in 1 .. Len(up) : Stands(u[k], up[k])
         \/ Len(u) = 1 /\ ~opt.parents /\ "git" \notin opt.kinds
      /\ u[Len(u)].dir = Nowhere /\ ~u[Len(u)].hasGit
  BY <1>1, AddParentsIs
<1> HIDE DEF u, d
<1>5. /\ w \in Seq(Nodes) /\ Len(w) = Len(u) + 1 /\ Stands(w[1], d) /\ ~w[1].above
      /\ \A k \in 1 .. Len(u) : w[k + 1] = u[k]
  BY <1>1, <1>4, AddChildIs
<1>6. Real(p[1]) = d
  BY <1>2 DEF d
<1> HIDE DEF w, up
<1>7. Len(u) \in Nat \ {0} /\ Len(up) \in Nat
  BY <1>3, <1>4
<1>8. Divided(w, 1)
  <2>1. ASSUME NEW k \in 1 .. Len(w) PROVE w[k].above <=> k > 1
    <3>1. CASE k = 1
      BY <3>1, <1>5
    <3>2. CASE k # 1
      <4>1. k - 1 \in 1 .. Len(u) /\ (k - 1) + 1 = k /\ k > 1
        BY <3>2, <1>5, <1>7
      <4>2. w[(k - 1) + 1] = u[k - 1]
        BY <4>1, <1>5
      <4> QED BY <4>1, <4>2, <1>4
    <3> QED BY <3>1, <3>2
  <2> QED BY <2>1, <1>5, <1>7 DEF Divided
<1>9. w[Len(w)].dir = Nowhere /\ ~w[Len(w)].hasGit
  BY <1>4, <1>5, <1>7
<1>10. \/ Len(w) = 1 + Len(up) + 1 /\ \A k \in 1 .. Len(up) : Stands(w[1 + k], up[k])
       \/ Len(w) = 1 + 1 /\ ~opt.parents /\ "git" \notin opt.kinds
  <2>1. ASSUME Len(u) = Len(up) + 1, \A k \in 1 .. Len(up) : Stands(u[k], up[k]), NEW k \in 1 .. Len(up)
        PROVE  Stands(w[1 + k], up[k])
    <3>1. k \in 1 .. Len(u) /\ 1 + k = k + 1
      BY <2>1, <1>7
    <3> QED BY <3>1, <2>1, <1>5
  <2> QED BY <2>1, <1>4, <1>5, <1>7
<1>11. \A k \in 1 .. 1 : Stands(w[k], Real(p[1 + 1 - k]))
  BY <1>5, <1>6
<1>12. ChainHolds(w, p)
  BY <1>2, <1>5, <1>6, <1>8, <1>9, <1>10, <1>11 DEF ChainHolds, up
<1> QED
  BY <1>12 DEF w, u, d, p

LEMMA ChainGrows ==
    ASSUME Given, RulesGiven, Obj \subseteq Nat, IsFiniteSet(Obj), NEW p \in Seq(Obj), p # <<>>, NEW c \in Obj,
           NEW ig, ChainHolds(ig, p)
    PROVE  ChainHolds(AddChild(ig, Real(c)), Append(p, c))
<1> DEFINE d == Real(c)
           w == AddChild(ig, d)
           n == Len(p)
           q == Append(p, c)
           up == Above(Real(p[1]))
<1>1. d \in Obj /\ n \in Nat \ {0}
  BY DEF Given, Real
<1>2. q \in Seq(Obj) /\ Len(q) = n + 1 /\ q[n + 1] = c /\ \A i \in 1 .. n : q[i] = p[i]
  BY AppendOne
<1>3. up \in Seq(Obj)
  <2>1. p[1] \in Obj
    OBVIOUS
  <2>2. Real(p[1]) \in Obj
    BY <2>1 DEF Given, Real
  <2> QED BY <2>2, AboveIsASequence
<1>4. q[1] = p[1]
  BY <1>1, <1>2
<1> HIDE DEF q, n, up
<1>5. /\ ig \in Seq(Nodes) /\ Divided(ig, n)
      /\ \A k \in 1 .. n : Stands(ig[k], Real(p[n + 1 - k]))
      /\ \/ Len(ig) = n + Len(up) + 1 /\ \A k \in 1 .. Len(up) : Stands(ig[n + k], up[k])
         \/ Len(ig) = n + 1 /\ ~opt.parents /\ "git" \notin opt.kinds
      /\ ig[Len(ig)].dir = Nowhere /\ ~ig[Len(ig)].hasGit
  BY DEF ChainHolds, n, up
<1>6. /\ w \in Seq(Nodes) /\ Len(w) = Len(ig) + 1 /\ Stands(w[1], d) /\ ~w[1].above
      /\ \A k \in 1 .. Len(ig) : w[k + 1] = ig[k]
  BY <1>1, <1>5, AddChildIs
<1>7. Real(q[n + 1]) = d
  BY <1>2
<1> HIDE DEF w, d
<1>8. Len(ig) \in Nat \ {0} /\ Len(up) \in Nat
  BY <1>1, <1>3, <1>5
<1>9. Divided(w, n + 1)
  <2>1. ASSUME NEW k \in 1 .. Len(w) PROVE w[k].above <=> k > n + 1
    <3>1. CASE k = 1
      BY <3>1, <1>1, <1>6
    <3>2. CASE k # 1
      <4>1. k - 1 \in 1 .. Len(ig) /\ (k - 1) + 1 = k /\ (k - 1 > n <=> k > n + 1)
        BY <3>2, <1>1, <1>6, <1>8
      <4>2. w[(k - 1) + 1] = ig[k - 1]
        BY <4>1, <1>6
      <4>3. ig[k - 1].above <=> k - 1 > n
        BY <4>1, <1>5 DEF Divided
      <4> QED BY <4>1, <4>2, <4>3
    <3> QED BY <3>1, <3>2
  <2> QED BY <2>1, <1>1, <1>5, <1>6, <1>8 DEF Divided
<1>10. w[Len(w)].dir = Nowhere /\ ~w[Len(w)].hasGit
  BY <1>5, <1>6, <1>8
<1>11. \/ Len(w) = (n + 1) + Len(up) + 1 /\ \A k \in 1 .. Len(up) : Stands(w[(n + 1) + k], up[k])
       \/ Len(w) = (n + 1) + 1 /\ ~opt.parents /\ "git" \notin opt.kinds
  <2>1. ASSUME Len(ig) = n + Len(up) + 1, \A k \in 1 .. Len(up) : Stands(ig[n + k], up[k]), NEW k \in 1 .. Len(up)
        PROVE  Stands(w[(n + 1) + k], up[k])
    <3>1. n + k \in 1 .. Len(ig) /\ (n + k) + 1 = (n + 1) + k
      BY <2>1, <1>1, <1>8
    <3>2. w[(n + k) + 1] = ig[n + k]
      BY <3>1, <1>6
    <3> QED BY <3>1, <3>2, <2>1
  <2>2. Len(ig) = n + Len(up) + 1 => Len(w) = (n + 1) + Len(up) + 1
    BY <1>1, <1>6, <1>8
  <2> QED BY <2>1, <2>2, <1>5, <1>6
<1>12. ASSUME NEW k \in 1 .. n + 1 PROVE Stands(w[k], Real(q[(n + 1) + 1 - k]))
  <2>1. CASE k = 1
    <3>1. (n + 1) + 1 - k = n + 1
      BY <2>1, <1>1
    <3> QED BY <2>1, <3>1, <1>6, <1>7
  <2>2. CASE k # 1
    <3>1. k - 1 \in 1 .. n /\ (k - 1) + 1 = k /\ k - 1 \in 1 .. Len(ig) /\ (n + 1) + 1 - k = n + 1 - (k - 1) /\ n + 1 - (k - 1) \in 1 .. n
      BY <2>2, <1>1, <1>5, <1>8
    <3>2. w[(k - 1) + 1] = ig[k - 1] /\ Stands(ig[k - 1], Real(p[n + 1 - (k - 1)]))
      BY <3>1, <1>5, <1>6
    <3>3. q[n + 1 - (k - 1)] = p[n + 1 - (k - 1)]
      BY <3>1, <1>2
    <3> QED BY <3>1, <3>2, <3>3
  <2> QED BY <2>1, <2>2
<1>13. ChainHolds(w, q)
  <2>1. up = Above(Real(q[1]))
    BY <1>4 DEF up
  <2> HIDE DEF up
  <2> QED BY <2>1, <1>2, <1>6, <1>9, <1>10, <1>11, <1>12 DEF ChainHolds
<1> QED
  BY <1>13 DEF w, d, q

-----------------------------------------------------------------------------
\* What a turn of the loop finds.

LEMMA EnqueueExact ==
    ASSUME Given, Obj \subseteq Nat, IsFiniteSet(Obj), rootIndex' \in Nat,
           NEW path \in Seq(Obj), path # <<>>, Error(path) = "none", NEW ig, NEW frames \in Seq(Frames),
           EnqueueEntry(path, ig, OneIf(Right("parents", path), Result("parents", path)), frames)
    PROVE  LET verdict == SkipEntry(ig, path)
           IN /\ Range(pending') = IF verdict = "skip" THEN {} ELSE New(path, rootIndex')
              /\ Len(stack') = Len(frames) + 1 <=> verdict # "skip" /\ Goes(path)
<1> DEFINE verdict == SkipEntry(ig, path)
           parents == Result("parents", path)
           before == OneIf(Right("parents", path), parents)
           Said(what) == Result(what, path)
<1>1. verdict \in {"keep", "skip", "error"}
  BY DEF SkipEntry
<1>2. /\ verdict = "error" => Undecided(path)
      /\ verdict = "keep" => ~Undecided(path)
  <2>1. PICK n \in Nat \ {0} : n = Len(path) /\ (n > 1 <=> n # 1)
    OBVIOUS
  <2> QED BY <2>1 DEF SkipEntry, Undecided
<1>3. verdict # "keep" => ~Right("parents", path)
  <2>1. verdict # "keep" => Len(path) # 1
    BY DEF SkipEntry
  <2> HIDE DEF verdict
  <2> QED BY <2>1 DEF Right
<1>4. path \in Seq(Obj \cup {Stdin})
  <2>1. Obj \subseteq Obj \cup {Stdin}
    OBVIOUS
  <2> QED BY <2>1, SeqMonotonic
<1>5. Right("parents", path) \in BOOLEAN
  BY DEF Right
<1>6. parents \in ResultSet
  BY <1>4 DEF Result, ResultSet, Whats
<1>7. before \in Seq(ResultSet) /\ Range(before) = IF Right("parents", path) THEN {parents} ELSE {}
  BY <1>5, <1>6, OneIfIs
<1>8. \A r : r \in New(path, rootIndex') <=> \E w \in Whats : Right(w, path) /\ r = Said(w)
  BY DEF New, Result
<1>9. Range(pending') = IF verdict = "skip" THEN {} ELSE New(path, rootIndex')
  <2> HIDE DEF verdict
  <2>1. CASE verdict = "skip"
    <3>1. before = <<>>
      <4>1. ~Right("parents", path)
        BY <2>1, <1>3
      <4> QED BY <4>1 DEF OneIf
    <3>2. pending' = before \o <<>>
      BY <2>1 DEF EnqueueEntry, verdict
    <3>3. Range(<<>>) = {} /\ pending' = before
      BY <3>2, <1>7, ConcatEmptySeq DEF Range
    <3> HIDE DEF before
    <3> QED BY <2>1, <3>1, <3>3
  <2>2. CASE verdict = "error"
    <3>1. ~Right("parents", path)
      BY <2>2, <1>3
    <3>2. pending' = before \o <<Said("undecided")>>
      BY <2>2 DEF EnqueueEntry, verdict
    <3>3. Said("undecided") \in ResultSet
      BY <1>4 DEF Result, ResultSet, Whats
    <3>4. <<Said("undecided")>> \in Seq(ResultSet) /\ Range(<<Said("undecided")>>) = {Said("undecided")}
      <4>1. ASSUME NEW r \in ResultSet PROVE <<r>> \in Seq(ResultSet)
        OBVIOUS
      <4> QED BY <4>1, <3>3, RangeOfOne
    <3>5. Range(pending') = {Said("undecided")}
      <4>1. Range(before) = {}
        BY <3>1, <1>7
      <4> HIDE DEF before, Said
      <4>2. Range(before \o <<Said("undecided")>>) = Range(before) \cup Range(<<Said("undecided")>>)
        BY <3>4, <1>7, ResultsConcat, Zenon
      <4> QED BY <4>1, <4>2, <3>2, <3>4
    <3>6. \A w \in Whats : Right(w, path) <=> w = "undecided"
      BY <2>2, <3>1, <1>2 DEF Right, Whats
    <3>7. New(path, rootIndex') = {Said("undecided")}
      <4>1. "undecided" \in Whats
        BY DEF Whats
      <4> HIDE DEF Said
      <4> QED BY <3>6, <4>1, <1>8
    <3> QED BY <2>2, <3>5, <3>7
  <2>3. CASE verdict = "keep"
    <3>1. pending' = before \o Pushed(path)
      BY <2>3 DEF EnqueueEntry, verdict
    <3>2. /\ Pushed(path) \in Seq(ResultSet)
          /\ \A r : r \in Range(Pushed(path)) <=>
                \/ IsDir(path) /\ opt.oneDevice /\ Fails("same", Resolved(path)) /\ r = Said("device")
                \/ Depth(path) >= opt.min /\ r = Said("entry")
                \/ Descends(path) /\ Resolved(path) \in fs.unreadable /\ r = Said("unreadable")
      BY <1>4, PushedIs
    <3>3. Range(pending') = Range(before) \cup Range(Pushed(path))
      <4> HIDE DEF before
      <4> QED BY <3>1, <3>2, <1>7, RangeOfConcat
    <3>4. Descends(path) <=> Entered(path)
      BY <2>3, <1>2 DEF Descends, Entered
    <3>5. \A w \in Whats : Right(w, path) <=>
                \/ w = "parents" /\ Right("parents", path)
                \/ w = "device" /\ IsDir(path) /\ opt.oneDevice /\ Fails("same", Resolved(path))
                \/ w = "entry" /\ Depth(path) >= opt.min
                \/ w = "unreadable" /\ Descends(path) /\ Resolved(path) \in fs.unreadable
      BY <2>3, <3>4, <1>2 DEF Right, Whats
    <3>6. {"parents", "device", "entry", "unreadable"} \subseteq Whats
      BY DEF Whats
    <3>7. \A r : r \in New(path, rootIndex') <=>
                \/ Right("parents", path) /\ r = Said("parents")
                \/ IsDir(path) /\ opt.oneDevice /\ Fails("same", Resolved(path)) /\ r = Said("device")
                \/ Depth(path) >= opt.min /\ r = Said("entry")
                \/ Descends(path) /\ Resolved(path) \in fs.unreadable /\ r = Said("unreadable")
      <4> HIDE DEF Said
      <4> QED BY <3>5, <3>6, <1>8
    <3>8. \A r : r \in Range(before) <=> Right("parents", path) /\ r = Said("parents")
      BY <1>7
    <3>9. \A r : r \in Range(pending') <=> r \in New(path, rootIndex')
      <4> HIDE DEF before, Said
      <4> QED BY <3>2, <3>3, <3>7, <3>8
    <3> QED BY <2>3, <3>9
  <2> QED BY <2>1, <2>2, <2>3, <1>1
<1>10. Len(stack') = Len(frames) + 1 <=> verdict # "skip" /\ Goes(path)
  <2> HIDE DEF verdict
  <2>1. verdict # "skip" /\ Goes(path) <=> verdict = "keep" /\ Descends(path) /\ Resolved(path) \notin fs.unreadable
    BY <1>1, <1>2 DEF Goes, Entered, Descends
  <2>2. CASE ~(verdict = "keep" /\ Descends(path) /\ Resolved(path) \notin fs.unreadable)
    <3>1. stack' = frames
      BY <2>2 DEF EnqueueEntry, verdict
    <3>2. Len(frames) \in Nat
      OBVIOUS
    <3> QED BY <2>1, <2>2, <3>1, <3>2
  <2>3. CASE verdict = "keep" /\ Descends(path) /\ Resolved(path) \notin fs.unreadable
    <3>1. \E f : stack' = Append(frames, f)
      BY <2>3 DEF EnqueueEntry, verdict
    <3>2. PICK f : stack' = Append(frames, f)
      BY <3>1
    <3>3. frames \in Seq(Frames \cup {f}) /\ f \in Frames \cup {f}
      <4>1. Frames \subseteq Frames \cup {f}
        OBVIOUS
      <4> QED BY <4>1, SeqMonotonic
    <3>4. Len(stack') = Len(frames) + 1
      BY <3>2, <3>3, AppendOne
    <3> QED BY <2>1, <2>3, <3>4
  <2> QED BY <2>2, <2>3
<1> QED
  BY <1>9, <1>10

\* The chain finds a loop, or what is in the way of finding it, where the path
\* has it.
LEMMA HandlesIs ==
    ASSUME Given, NEW p \in Seq(Obj), p # <<>>, NEW c \in Obj, NEW ig, ChainHolds(ig, p), NEW d
    PROVE  LET q == Append(p, c)
           IN HandleFails(ig, d) <=>
                \/ Fails("link", d)
                \/ \E k \in DOMAIN Within(q) : Fails("handle", Within(q)[k]) /\ \A j \in 1 .. k - 1 : Within(q)[j] # d
<1> DEFINE q == Append(p, c)
<1>1. PICK n \in Nat \ {0} : n = Len(p)
  OBVIOUS
<1>2. Len(q) = n + 1 /\ \A i \in 1 .. n : q[i] = p[i]
  BY <1>1, AppendOne
<1> HIDE DEF q
<1>3. PICK m \in Nat : m = Len(ig) /\ n <= m /\ DOMAIN ig = 1 .. m /\ \A k \in 1 .. m : ig[k].above <=> k > n
  BY <1>1 DEF ChainHolds, Divided
<1>4. \A k \in 1 .. n : ig[k].dir = Real(p[n + 1 - k])
  BY <1>1 DEF ChainHolds, Stands
<1>5. DOMAIN Within(q) = 1 .. n /\ \A k \in 1 .. n : Within(q)[k] = Real(q[n + 1 - k])
  BY <1>1, <1>2 DEF Within
<1>6. \A k \in 1 .. n : Within(q)[k] = ig[k].dir
  <2>1. \A k \in 1 .. n : n + 1 - k \in 1 .. n
    BY <1>1
  <2> QED BY <2>1, <1>2, <1>4, <1>5
<1>7. ASSUME NEW k \in 1 .. m
      PROVE  (\A j \in 1 .. k : ~ig[j].above /\ (j < k => ig[j].dir # d))
                <=> k \in 1 .. n /\ \A j \in 1 .. k - 1 : Within(q)[j] # d
  <2>1. ASSUME \A j \in 1 .. k : ~ig[j].above /\ (j < k => ig[j].dir # d)
        PROVE  k \in 1 .. n /\ \A j \in 1 .. k - 1 : Within(q)[j] # d
    <3>1. k \in 1 .. n
      <4>1. k \in 1 .. k
        OBVIOUS
      <4> QED BY <2>1, <4>1, <1>3
    <3>2. \A j \in 1 .. k - 1 : j \in 1 .. k /\ j < k /\ j \in 1 .. n
      BY <3>1
    <3> QED BY <2>1, <3>1, <3>2, <1>6
  <2>2. ASSUME k \in 1 .. n, \A j \in 1 .. k - 1 : Within(q)[j] # d
        PROVE  \A j \in 1 .. k : ~ig[j].above /\ (j < k => ig[j].dir # d)
    <3>1. \A j \in 1 .. k : j \in 1 .. m /\ j \in 1 .. n /\ ~(j > n) /\ (j < k => j \in 1 .. k - 1)
      BY <2>2, <1>3
    <3> QED BY <2>2, <3>1, <1>3, <1>6
  <2> QED BY <2>1, <2>2
<1>8. \A k \in 1 .. n : k \in 1 .. m
  BY <1>3
<1>9. (\E k \in DOMAIN ig : Fails("handle", ig[k].dir) /\ \A j \in 1 .. k : ~ig[j].above /\ (j < k => ig[j].dir # d))
        <=> \E k \in DOMAIN Within(q) : Fails("handle", Within(q)[k]) /\ \A j \in 1 .. k - 1 : Within(q)[j] # d
  BY <1>3, <1>5, <1>6, <1>7, <1>8
<1>10. HandleFails(ig, d) <=>
         \/ Fails("link", d)
         \/ \E k \in DOMAIN Within(q) : Fails("handle", Within(q)[k]) /\ \A j \in 1 .. k - 1 : Within(q)[j] # d
  BY <1>9 DEF HandleFails
<1> QED
  BY <1>10 DEF q

\* The next child: whether it is taken, what is said of it, and whether it is
\* entered.
LEMMA ChildExact ==
    ASSUME IInv, RulesGiven, FramesReached, Obj \subseteq Nat, IsFiniteSet(Obj), NextChild,
           NEW q \in Seq(Obj), q = Append(Last(stack).path, Last(stack).children[Last(stack).next]), ChildPath(q), ChildStack(q)
    PROVE  LET p == Last(stack).path
           IN /\ q \in Below(p) => Range(pending') = New(q, rootIndex)
              /\ q \notin Below(p) => Range(pending') = {}
              /\ Len(stack') = Len(stack) + 1 <=> q \in Below(p) /\ Goes(q)
<1> DEFINE frame == Last(stack)
           child == frame.children[frame.next]
           frames == [stack EXCEPT ![Len(stack)].next = @ + 1]
           followed == opt.follow /\ fs.kind[child] = "link"
           error == ChildError(frame.ig, child)
           K == Len(stack)
           p == frame.path
<1>1. /\ stack # <<>> /\ frame.next <= Len(frame.children)
      /\ rootIndex' = rootIndex /\ rootIndex' \in Nat
  BY DEF NextChild, IInv, Types
<1>2. \/ error # "none" /\ pending' = <<Result(error, q)>> /\ stack' = frames
      \/ error = "none" /\ EnqueueEntry(q, frame.ig, <<>>, frames)
  BY DEF NextChild
<1>3. K \in Nat \ {0} /\ frame = stack[K] /\ child \in Obj /\ DOMAIN stack = 1 .. K
  BY <1>1, ChildPathIs DEF IInv, Types
<1>4. frame \in Frames /\ FrameHolds(frame, K) /\ FrameReached(frame.ig, p)
  <2>1. K \in DOMAIN stack /\ stack[K] \in Frames
    BY <1>3 DEF IInv, Types
  <2>2. FrameHolds(stack[K], K) /\ FrameReached(stack[K].ig, stack[K].path)
    BY <2>1 DEF IInv, FramesHold, FramesReached
  <2> QED BY <2>1, <2>2, <1>3
<1>5. p \in Seq(Obj) /\ Len(p) = K /\ p # <<>> /\ p[K] \in Obj /\ Last(p) = p[K]
  <2> HIDE DEF frame
  <2>1. p \in Seq(Obj) /\ Len(p) = K
    BY <1>4 DEF FrameHolds, Frames
  <2> HIDE DEF p
  <2> QED BY <2>1, <1>3 DEF Last
<1> HIDE DEF K, child
<1>6. q \in Seq(Obj) /\ Len(q) = K + 1 /\ q # <<>> /\ q[K + 1] = child /\ Last(q) = child /\ \A i \in 1 .. K : q[i] = p[i]
  <2>1. Len(q) = K + 1 /\ q[K + 1] = child
    BY <1>3 DEF ChildPath, K, child
  <2>2. \A i \in 1 .. K : q[i] = p[i]
    BY <1>3 DEF ChildPath, K
  <2> QED BY <2>1, <2>2, <1>3 DEF Last
<1>7. q = Append(p, child)
  BY DEF child
<1> HIDE DEF frame, p
<1>8. frames \in Seq(Frames) /\ Len(frames) = K
  <2>1. Len(stack) = K /\ stack \in Seq(Frames) /\ stack[K] \in Frames
    BY <1>3, <1>4 DEF IInv, Types, K
  <2>2. [stack[K] EXCEPT !.next = @ + 1] \in Frames
    <3>1. ASSUME NEW s \in Frames PROVE [s EXCEPT !.next = @ + 1] \in Frames
      <4>1. s.next + 1 \in Nat \ {0}
        BY DEF Frames
      <4>2. [s EXCEPT !.next = s.next + 1] \in Frames
        <5> DEFINE n == s.next + 1
        <5> HIDE DEF n
        <5> QED BY <4>1 DEF Frames, n
      <4> QED BY <4>2
    <3> QED BY <3>1, <2>1
  <2>3. frames = [stack EXCEPT ![K] = [stack[K] EXCEPT !.next = @ + 1]]
    BY DEF K
  <2> QED BY <2>1, <2>2, <2>3, <1>3
<1> HIDE DEF frames
<1>9. Followed(q) <=> followed
  BY <1>3, <1>6 DEF Followed
<1>10. Error(q) = error
  <2>1. Real(child) \in Obj
    BY <1>3 DEF IInv, Given, Real, child
  <2>2. followed => (IsDir(q) <=> fs.kind[Real(child)] = "dir")
    BY <1>6 DEF IsDir, Resolved
  <2>3. Loop(q) <=> followed /\ fs.kind[Real(child)] = "dir" /\ SymlinkLoop(frame.ig, Real(child))
    <3>1. Range(Within(q)) = {Real(q[i]) : i \in 1 .. Len(q) - 1}
      BY <1>6, WithinIs
    <3>2. Len(q) - 1 = K
      BY <1>3, <1>6
    <3>3. SymlinkLoop(frame.ig, Real(child)) <=> \E i \in 1 .. K : Real(child) = Real(p[i])
      BY <2>1, <1>4 DEF FrameHolds, p
    <3>4. Real(child) \in Range(Within(q)) <=> SymlinkLoop(frame.ig, Real(child))
      BY <3>1, <3>2, <3>3, <1>6
    <3> QED BY <2>2, <3>4, <1>6, <1>9 DEF Loop
  <2>4. Unopened(q) <=> followed /\ fs.kind[Real(child)] = "dir" /\ HandleFails(frame.ig, Real(child))
    <3>1. ChainHolds(frame.ig, p) /\ child \in Obj
      BY <1>3, <1>4 DEF FrameReached, p, child
    <3>2. PICK d : d = Real(child)
      OBVIOUS
    <3>3. HandleFails(frame.ig, d) <=>
            \/ Fails("link", d)
            \/ \E k \in DOMAIN Within(q) : Fails("handle", Within(q)[k]) /\ \A j \in 1 .. k - 1 : Within(q)[j] # d
      BY <3>1, <1>5, <1>7, HandlesIs DEF IInv
    <3> QED BY <2>2, <3>2, <3>3, <1>6, <1>9 DEF Unopened
  <2>5. Len(q) > 1 /\ Len(q) # 1
    BY <1>3, <1>6
  <2> QED BY <2>2, <2>3, <2>4, <2>5, <1>6, <1>9 DEF Error, ChildError
<1>11. ShouldSkip(frame.ig, child) <=> Ignored(q)
  BY <1>3, <1>4, <1>5, <1>7, SkipIs DEF IInv, FrameReached, child
<1>12. q \in Below(p) <=> (error = "none" => SkipEntry(frame.ig, q) # "skip")
  <2>1. child \in Children(Resolved(p))
    <3>1. child \in Range(frame.children)
      <4>1. frame.children \in Seq(Obj) /\ frame.next \in 1 .. Len(frame.children)
        BY <1>1, <1>4 DEF Frames
      <4> QED BY <4>1 DEF Range, child
    <3>2. Range(frame.children) = Children(Real(p[K]))
      BY <1>4 DEF FrameHolds, p
    <3>3. Resolved(p) = Real(p[K])
      BY <1>4, <1>5, ResolvedIsReal DEF IInv, FrameReached, Goes, Entered
    <3> QED BY <3>1, <3>2, <3>3
  <2>2. Entered(p) /\ Resolved(p) \notin fs.unreadable
    BY <1>4 DEF FrameReached, Goes
  <2>3. SkipEntry(frame.ig, q) # "skip" <=> ~Ignored(q) /\ (Undecided(q) \/ Resolved(q) \notin fs.filtered)
    <3>1. Len(q) > 1 /\ Len(q) # 1
      BY <1>3, <1>6
    <3> QED BY <3>1, <1>6, <1>11 DEF SkipEntry, Undecided
  <2> HIDE DEF error
  <2> QED BY <2>1, <2>2, <2>3, <1>7, <1>10 DEF Below
<1> HIDE DEF error
<1>13. CASE error # "none"
  <2>1. pending' = <<Result(error, q)>> /\ stack' = frames
    BY <1>2, <1>13
  <2>2. error \in Whats
    BY <1>10, <1>13 DEF Error, Whats
  <2>3. \A w \in Whats : Right(w, q) <=> w = error
    <3>1. Len(q) # 1
      BY <1>3, <1>6
    <3> QED BY <3>1, <1>10, <1>13 DEF Right
  <2>4. New(q, rootIndex) = {Result(error, q)}
    BY <2>2, <2>3, <1>1 DEF New, Result
  <2>5. Range(pending') = {Result(error, q)}
    BY <2>1, RangeOfOne
  <2>6. ~Goes(q)
    BY <1>10, <1>13 DEF Goes, Entered
  <2>7. q \in Below(p) /\ Range(pending') = New(q, rootIndex) /\ Len(stack') # K + 1
    BY <2>1, <2>4, <2>5, <1>3, <1>8, <1>12, <1>13
  <2> QED BY <2>6, <2>7 DEF K, p, frame
<1>14. CASE error = "none"
  <2>1. OneIf(Right("parents", q), Result("parents", q)) = <<>>
    <3>1. Len(q) # 1 /\ Error(q) = "none"
      BY <1>3, <1>6, <1>10, <1>14
    <3>2. ~Right("parents", q)
      BY <3>1 DEF Right
    <3> QED BY <3>2 DEF OneIf
  <2>2. EnqueueEntry(q, frame.ig, OneIf(Right("parents", q), Result("parents", q)), frames)
    BY <2>1, <1>2, <1>14
  <2>3. LET verdict == SkipEntry(frame.ig, q)
        IN /\ Range(pending') = IF verdict = "skip" THEN {} ELSE New(q, rootIndex')
           /\ Len(stack') = Len(frames) + 1 <=> verdict # "skip" /\ Goes(q)
    BY <2>2, <1>1, <1>6, <1>8, <1>10, <1>14, EnqueueExact DEF IInv
  <2> QED BY <2>3, <1>1, <1>8, <1>12, <1>14 DEF K, p, frame
<1> QED
  BY <1>13, <1>14

LEMMA RootOfOwed ==
    ASSUME NEW k, NEW r \in Owed(k)
    PROVE  r.root = k
<1>1. \A p : \A s \in New(p, k) : s.root = k
  BY DEF New
<1> QED
  BY <1>1 DEF Owed

\* What a new path adds to what was found: itself, if the walk comes to it.
LEMMA FindsOne ==
    ASSUME NEW R \in Nat \ {0}, opt.roots[R] # Stdin,
           NEW q, NEW L, NEW M, q \notin M,
           \A p \in Reached(opt.roots[R]) : p \in L <=> p \in M \/ p = q
    PROVE  OwedSoFar(R, M) = OwedSoFar(R, L) \cup (IF q \in Reached(opt.roots[R]) THEN New(q, R) ELSE {})
<1> DEFINE U == UNION {Owed(k) : k \in 1 .. R}
           A == Reached(opt.roots[R])
           new == IF q \in A THEN New(q, R) ELSE {}
<1>0. R \in 1 .. R
  OBVIOUS
<1>1. Owed(R) = UNION {New(p, R) : p \in A}
  BY DEF Owed
<1>2. ASSUME NEW r \in U, r.root = R PROVE r.path \in A /\ r \in New(r.path, R)
  <2>1. PICK k \in 1 .. R : r \in Owed(k)
    OBVIOUS
  <2>2. k = R
    BY <1>2, <2>1, RootOfOwed
  <2>3. PICK p \in A : r \in New(p, R)
    BY <1>1, <2>1, <2>2
  <2>4. r.path = p
    BY <2>3 DEF New
  <2> QED BY <2>3, <2>4
<1>3. ASSUME NEW r \in new PROVE r \in U /\ r.root = R /\ r.path = q
  <2>1. q \in A /\ r \in New(q, R)
    BY <1>3
  <2>2. r \in Owed(R)
    BY <1>1, <2>1
  <2>3. r.root = R /\ r.path = q
    BY <2>1 DEF New
  <2> QED BY <1>0, <2>2, <2>3
<1> HIDE DEF U, A
<1>4. ASSUME NEW r \in U, r.root = R => r.path \notin M PROVE (r.root = R => r.path \notin L) \/ r \in new
  <2>1. ASSUME r.root = R, r.path \in L PROVE r \in new
    <3>1. r.path \in A /\ r \in New(r.path, R)
      BY <1>2, <2>1
    <3>2. r.path = q
      BY <1>4, <2>1, <3>1 DEF A
    <3> QED BY <3>1, <3>2 DEF A
  <2> QED BY <2>1
<1>5. ASSUME NEW r \in U, r.root = R => r.path \notin L PROVE r.root = R => r.path \notin M
  <2>1. ASSUME r.root = R PROVE r.path \notin M
    <3>1. r.path \in A
      BY <1>2, <2>1
    <3> QED BY <2>1, <1>5, <3>1 DEF A
  <2> QED BY <2>1
<1>6. \A r \in new : r \in U /\ (r.root = R => r.path \notin M)
  BY <1>3
<1>7. {r \in U : r.root = R => r.path \notin M} = {r \in U : r.root = R => r.path \notin L} \cup new
  BY <1>4, <1>5, <1>6
<1> QED
  BY <1>7 DEF OwedSoFar, U, A

\* The step at a child.
LEMMA ChildFinds ==
    ASSUME IInv, EInv, Obj \subseteq Nat, IsFiniteSet(Obj), NextChild
    PROVE  FramesReached' /\ Found'
<1> DEFINE frame == Last(stack)
           root == opt.roots[rootIndex]
           A == Reached(root)
<1>1. /\ pending = <<>> /\ stack # <<>> /\ frame.next <= Len(frame.children)
      /\ fs' = fs /\ opt' = opt /\ rootIndex' = rootIndex /\ delivered' = delivered
  BY DEF NextChild
<1>2. PICK q \in Seq(Obj) : /\ q = Append(frame.path, frame.children[frame.next])
                            /\ ChildPath(q) /\ ChildStack(q) /\ ResultsOf(q, rootIndex, pending')
  BY ChildTurn
<1>3. PICK K \in Nat \ {0} : K = Len(stack) /\ DOMAIN stack = 1 .. K /\ frame = stack[K] /\ frame.children[frame.next] \in Obj
  BY <1>1, ChildPathIs DEF IInv, Types
<1>4. K \in DOMAIN stack /\ frame \in Frames /\ FrameHolds(frame, K) /\ FrameReached(frame.ig, frame.path)
  <2>1. K \in DOMAIN stack
    BY <1>3
  <2>2. stack[K] \in Frames /\ FrameHolds(stack[K], K) /\ FrameReached(stack[K].ig, stack[K].path)
    BY <2>1 DEF IInv, Types, FramesHold, EInv, FramesReached
  <2> QED BY <2>1, <2>2, <1>3
<1>5. PICK p : p = frame.path /\ p \in Seq(Obj) /\ Len(p) = K /\ p # <<>> /\ p[1] = root /\ p \in A
  <2> HIDE DEF frame
  <2> QED BY <1>4 DEF FrameHolds, Frames, FrameReached
<1>6. PICK child \in Obj : child = frame.children[frame.next] /\ q = Append(p, child)
  BY <1>2, <1>3, <1>5
<1>7. /\ q \in Seq(Obj) /\ Len(q) = K + 1 /\ q[K + 1] = child /\ Last(q) = child /\ q # <<>>
      /\ \A i \in 1 .. K : q[i] = p[i]
      /\ \A m \in 1 .. K : \A i \in 1 .. m : q[i] = stack[m].path[i]
  <2>1. Len(q) = K + 1 /\ q[K + 1] = child /\ \A i \in 1 .. K : q[i] = p[i]
    BY <1>5, <1>6, AppendOne
  <2>2. \A m \in 1 .. K : \A i \in 1 .. m : q[i] = stack[m].path[i]
    BY <1>2, <1>3 DEF ChildPath
  <2>3. Last(q) = child /\ q # <<>>
    BY <2>1 DEF Last
  <2> QED BY <2>1, <2>2, <2>3
<1>8. /\ q \in Below(p) => Range(pending') = New(q, rootIndex)
      /\ q \notin Below(p) => Range(pending') = {}
      /\ Len(stack') = K + 1 <=> q \in Below(p) /\ Goes(q)
  BY <1>2, <1>3, <1>5, ChildExact DEF EInv
<1> HIDE DEF frame, A
<1>9. q \in A <=> q \in Below(p)
  <2>1. q \in Below(p) => q \in A
    BY <1>5, ReachedFurther DEF A
  <2>2. ASSUME q \in A PROVE q \in Below(p)
    <3>1. K \in 1 .. Len(q) /\ K < Len(q) /\ K + 1 = Len(q)
      BY <1>7
    <3>2. Pre(q, K + 1) \in Below(Pre(q, K))
      BY <2>2, <3>1, ReachedBefore DEF A
    <3>3. Pre(q, K + 1) = q
      BY <3>1, PreWhole
    <3>4. Pre(q, K) = p
      <4>1. K \in 0 .. Len(p) /\ K = Len(p)
        BY <1>5
      <4>2. Pre(q, K) = Pre(p, K)
        BY <4>1, <1>5, <1>6, PreAppend
      <4> QED BY <4>1, <4>2, <1>5, PreWhole
    <3> QED BY <3>2, <3>3, <3>4
  <2> QED BY <2>1, <2>2
<1>10. /\ stack' \in Seq(Frames) /\ Len(stack') \in {K, K + 1} /\ DOMAIN stack' = 1 .. Len(stack')
       /\ \A k \in 1 .. K :
            /\ stack'[k].path = stack[k].path /\ stack'[k].ig = stack[k].ig /\ stack'[k].children = stack[k].children
            /\ stack'[k].next = IF k = K THEN stack[k].next + 1 ELSE stack[k].next
       /\ Len(stack') = K + 1 => FrameOf(stack'[K + 1], q, frame.ig)
  <2>1. /\ stack' \in Seq(Frames) /\ Len(stack') \in {K, K + 1}
        /\ \A k \in 1 .. K :
             /\ stack'[k].path = stack[k].path /\ stack'[k].ig = stack[k].ig /\ stack'[k].children = stack[k].children
             /\ stack'[k].next = IF k = K THEN stack[k].next + 1 ELSE stack[k].next
        /\ Len(stack') = K + 1 => FrameOf(stack'[K + 1], q, stack[K].ig)
    <3>1. ChildStack(q)
      BY <1>2
    <3>2. K = Len(stack)
      BY <1>3
    <3> QED BY <3>1, <3>2, Zenon DEF ChildStack
  <2>2. DOMAIN stack' = 1 .. Len(stack')
    BY <2>1
  <2> QED BY <2>1, <2>2, <1>3, Zenon
<1>11. FramesReached'
  <2>1. Walked'
    BY <1>1 DEF EInv, FramesReached, Walked
  <2>2. ASSUME NEW m \in 1 .. K PROVE FrameReached(stack'[m].ig, stack'[m].path)
    BY <1>3, <1>10 DEF EInv, FramesReached
  <2>3. ASSUME Len(stack') = K + 1 PROVE FrameReached(stack'[K + 1].ig, stack'[K + 1].path)
    <3>1. stack'[K + 1].path = q /\ stack'[K + 1].ig = AddChild(frame.ig, Real(child))
      BY <2>3, <1>7, <1>10 DEF FrameOf
    <3>2. q[1] = root
      BY <1>3, <1>5, <1>7
    <3>3. q \in Reached(q[1]) /\ Goes(q)
      BY <2>3, <1>8, <1>9, <3>2 DEF A
    <3>4. ChainHolds(frame.ig, p)
      BY <1>4, <1>5 DEF FrameReached
    <3>5. ChainHolds(AddChild(frame.ig, Real(child)), q)
      BY <3>4, <1>5, <1>6, ChainGrows DEF IInv, EInv
    <3> QED BY <3>1, <3>3, <3>5 DEF FrameReached
  <2>4. ASSUME NEW m \in DOMAIN stack' PROVE FrameReached(stack[m].ig, stack[m].path)'
    <3>1. m \in 1 .. K \/ (m = K + 1 /\ Len(stack') = K + 1)
      <4>1. PICK n \in {K, K + 1} : n = Len(stack') /\ m \in 1 .. n
        BY <1>10
      <4> QED BY <4>1
    <3>2. PICK ig, path : ig = stack'[m].ig /\ path = stack'[m].path
      OBVIOUS
    <3>3. FrameReached(ig, path)
      BY <3>1, <3>2, <2>2, <2>3
    <3>4. FrameReached(ig, path)'
      BY <3>3, <1>1, FrameKept
    <3> QED BY <3>2, <3>4
  <2> QED BY <2>1, <2>4 DEF FramesReached
<1>12. \A m \in 1 .. K : m \in DOMAIN stack' /\ m \in DOMAIN stack /\ m <= K
  <2>1. PICK n \in {K, K + 1} : n = Len(stack')
    BY <1>10
  <2> QED BY <2>1, <1>3, <1>10
<1>13. ASSUME NEW m \in 1 .. K
       PROVE  stack[m].children \in Seq(Obj) /\ IsInjective(stack[m].children) /\ stack[m].next \in Nat \ {0}
              /\ Len(stack[m].path) = m
  <2>1. stack[m] \in Frames /\ FrameHolds(stack[m], m)
    BY <1>12 DEF IInv, Types, FramesHold
  <2> QED BY <2>1 DEF Frames, FrameHolds
<1>14. frame.next \in 1 .. Len(frame.children) /\ frame.children[frame.next] = child /\ frame = stack[K]
  BY <1>1, <1>3, <1>6, <1>13 DEF frame
<1>15. q \in Later
  <2>1. K \in DOMAIN stack /\ Len(q) > K /\ PathPrefix(stack[K].path, q)
    BY <1>5, <1>7, <1>12, <1>14 DEF PathPrefix
  <2>2. frame.next \in stack[K].next .. Len(stack[K].children) /\ q[K + 1] = stack[K].children[frame.next]
    BY <1>7, <1>13, <1>14
  <2> QED BY <2>1, <2>2 DEF Later
<1>16. ASSUME NEW x \in Later' PROVE x \in Later
  <2>0. PICK m \in DOMAIN stack' :
            /\ Len(x) > m /\ PathPrefix(stack'[m].path, x)
            /\ \E i \in stack'[m].next .. Len(stack'[m].children) : x[m + 1] = stack'[m].children[i]
    BY <1>16 DEF Later, PathPrefix
  <2>1. PICK i \in stack'[m].next .. Len(stack'[m].children) :
            Len(x) > m /\ PathPrefix(stack'[m].path, x) /\ x[m + 1] = stack'[m].children[i]
    BY <2>0
  <2>2. x \in Seq(Obj)
    BY <1>16 DEF Later
  <2>3. CASE m \in 1 .. K
    <3>1. i \in stack[m].next .. Len(stack[m].children)
      <4>1. stack'[m].children = stack[m].children /\ stack'[m].next \in {stack[m].next, stack[m].next + 1}
        BY <2>3, <1>10
      <4>2. \A a, b \in Nat : \A c \in {a, a + 1} : \A j \in c .. b : j \in a .. b
        OBVIOUS
      <4>3. stack[m].next \in Nat /\ Len(stack[m].children) \in Nat
        BY <2>3, <1>13
      <4>4. i \in stack'[m].next .. Len(stack[m].children)
        BY <4>1, Zenon
      <4> QED BY <4>1, <4>2, <4>3, <4>4
    <3>2. stack'[m].path = stack[m].path /\ stack'[m].children = stack[m].children /\ m \in DOMAIN stack
      BY <2>3, <1>10, <1>12
    <3>3. Len(x) > m /\ PathPrefix(stack[m].path, x) /\ x[m + 1] = stack[m].children[i]
      BY <2>1, <3>2, Zenon DEF PathPrefix
    <3> QED BY <2>2, <3>1, <3>2, <3>3, Zenon DEF Later
  <2>4. CASE m = K + 1 /\ Len(stack') = K + 1
    <3>1. PathPrefix(q, x)
      BY <2>1, <2>4, <1>10 DEF FrameOf
    <3>2. Len(x) > K /\ x[K + 1] = child /\ \A j \in 1 .. K : x[j] = p[j]
      BY <2>2, <3>1, <1>7 DEF PathPrefix
    <3>3. PathPrefix(stack[K].path, x)
      BY <2>2, <3>2, <1>5, <1>14 DEF PathPrefix
    <3>4. frame.next \in stack[K].next .. Len(stack[K].children) /\ x[K + 1] = stack[K].children[frame.next]
      BY <3>2, <1>13, <1>14
    <3> QED BY <2>2, <3>2, <3>3, <3>4, <1>4, <1>12 DEF Later
  <2>5. m \in 1 .. K \/ (m = K + 1 /\ Len(stack') = K + 1)
    <3>1. PICK n \in {K, K + 1} : n = Len(stack') /\ m \in 1 .. n
      BY <1>10
    <3> QED BY <3>1
  <2> QED BY <2>3, <2>4, <2>5
<1>17. ASSUME NEW x \in A, x \in Later PROVE x \in Later' \/ x = q
  <2>0. PICK m \in 1 .. K :
            /\ Len(x) > m /\ PathPrefix(stack[m].path, x)
            /\ \E i \in stack[m].next .. Len(stack[m].children) : x[m + 1] = stack[m].children[i]
    BY <1>3, <1>17 DEF Later
  <2>1. PICK i \in stack[m].next .. Len(stack[m].children) :
            Len(x) > m /\ PathPrefix(stack[m].path, x) /\ x[m + 1] = stack[m].children[i]
    BY <2>0
  <2>2. x \in Seq(Obj) /\ Len(x) \in Nat
    BY <1>17 DEF Later
  <2>3. CASE m < K \/ i # frame.next
    <3>1. i \in stack'[m].next .. Len(stack'[m].children)
      <4>1. stack'[m].children = stack[m].children
            /\ stack'[m].next = IF m = K THEN stack[m].next + 1 ELSE stack[m].next
        BY <1>10
      <4>2. m = K => i # stack[m].next
        BY <2>3, <1>3, <1>14
      <4> QED BY <2>1, <4>1, <4>2, <1>13
    <3> QED BY <2>1, <2>2, <3>1, <1>10, <1>12 DEF Later
  <2>4. CASE m = K /\ i = frame.next
    <3>1. Len(x) >= K + 1 /\ x[K + 1] = child /\ \A j \in 1 .. K : x[j] = p[j]
      <4>1. Len(x) > K /\ PathPrefix(p, x) /\ x[K + 1] = child
        BY <2>1, <2>4, <1>5, <1>14
      <4> QED BY <2>2, <4>1, <1>3, <1>5 DEF PathPrefix
    <3>2. \A j \in 1 .. K + 1 : x[j] = q[j]
      BY <3>1, <1>3, <1>7
    <3>3. CASE Len(x) = K + 1
      BY <2>2, <3>2, <3>3, <1>7, SeqEqual
    <3>4. CASE Len(x) > K + 1
      <4>1. K + 1 \in 0 .. Len(x) /\ K + 1 \in 1 .. Len(x) /\ K \in 1 .. Len(x) /\ K < Len(x) /\ (K + 1) + 1 \in 0 .. Len(x)
        BY <2>2, <3>4
      <4>2. Pre(x, K + 1) = q
        <5>1. /\ Pre(x, K + 1) \in Seq(Obj) /\ Len(Pre(x, K + 1)) = K + 1
              /\ \A j \in 1 .. K + 1 : Pre(x, K + 1)[j] = x[j]
          BY <2>2, <4>1, PreIs
        <5> QED BY <3>2, <5>1, <1>7, SeqEqual
      <4>3. q \in A /\ Pre(x, (K + 1) + 1) \in Below(q)
        <5>1. PICK n \in 1 .. Len(x) : n = K + 1
          BY <4>1
        <5>2. Pre(x, n) \in A /\ (n < Len(x) => Pre(x, n + 1) \in Below(Pre(x, n)))
          BY <1>17, ReachedBefore DEF A
        <5> QED BY <3>4, <4>2, <5>1, <5>2
      <4>4. Pre(x, (K + 1) + 1)[(K + 1) + 1] = x[(K + 1) + 1]
        <5>1. (K + 1) + 1 \in 1 .. (K + 1) + 1
          OBVIOUS
        <5> QED BY <2>2, <4>1, <5>1, PreIs
      <4>5. x[(K + 1) + 1] \in Children(Resolved(q)) /\ Goes(q)
        BY <4>3, <4>4, <1>7, BelowIs
      <4>6. Len(stack') = K + 1 /\ FrameOf(stack'[K + 1], q, frame.ig) /\ K + 1 \in DOMAIN stack'
        <5>1. Len(stack') = K + 1
          BY <4>3, <4>5, <1>8, <1>9
        <5>2. K + 1 \in 1 .. K + 1
          BY <1>3
        <5> QED BY <5>1, <5>2, <1>10
      <4>7. Resolved(q) = Real(Last(q))
        BY <4>5, <1>7, ResolvedIsReal DEF IInv, Goes, Entered
      <4>8. PICK j \in 1 .. Len(stack'[K + 1].children) : x[(K + 1) + 1] = stack'[K + 1].children[j]
        <5>1. stack'[K + 1].children \in Seq(Obj) /\ Range(stack'[K + 1].children) = Children(Real(Last(q)))
          BY <4>6 DEF FrameOf, Frames
        <5>2. DOMAIN stack'[K + 1].children = 1 .. Len(stack'[K + 1].children)
          BY <5>1
        <5>3. x[(K + 1) + 1] \in Range(stack'[K + 1].children)
          BY <4>5, <4>7, <5>1
        <5> QED BY <5>2, <5>3 DEF Range
      <4>9. stack'[K + 1].next = 1 /\ PathPrefix(stack'[K + 1].path, x)
        BY <2>2, <3>1, <3>2, <4>6, <1>7 DEF FrameOf, PathPrefix
      <4> QED BY <2>2, <3>4, <4>6, <4>8, <4>9 DEF Later
    <3> QED BY <2>2, <3>1, <3>3, <3>4
  <2> QED BY <2>1, <2>3, <2>4
<1>18. q \notin Later'
  <2> SUFFICES ASSUME NEW m \in DOMAIN stack', NEW i \in stack'[m].next .. Len(stack'[m].children),
                      Len(q) > m, q[m + 1] = stack'[m].children[i]
               PROVE  FALSE
    BY DEF Later
  <2>1. m \in 1 .. K
    <3>1. PICK n \in {K, K + 1} : n = Len(stack') /\ m \in 1 .. n
      BY <1>10
    <3> QED BY <3>1, <1>7
  <2>2. stack'[m].children = stack[m].children /\ stack[m].children \in Seq(Obj) /\ IsInjective(stack[m].children)
        /\ stack[m].next \in Nat \ {0}
    BY <2>1, <1>10, <1>13
  <2>3. CASE m = K
    <3>1. i \in frame.next + 1 .. Len(frame.children) /\ frame.children[i] = frame.children[frame.next]
      <4>1. stack'[m].next = frame.next + 1 /\ stack'[m].children = frame.children
        BY <2>1, <2>3, <1>10, <1>14
      <4>2. i \in frame.next + 1 .. Len(frame.children) /\ q[K + 1] = frame.children[i]
        BY <4>1, <2>3
      <4> QED BY <4>2, <1>7, <1>14
    <3>2. PICK s : s = frame.children /\ s \in Seq(Obj) /\ IsInjective(s)
      BY <2>2, <2>3, <1>14
    <3>3. frame.next \in 1 .. Len(s) /\ i \in frame.next + 1 .. Len(s) /\ s[i] = s[frame.next]
      BY <3>1, <3>2, <1>14
    <3>4. i \in 1 .. Len(s) /\ i # frame.next /\ DOMAIN s = 1 .. Len(s)
      BY <3>2, <3>3
    <3> QED BY <3>2, <3>3, <3>4, Zenon DEF IsInjective
  <2>4. CASE m < K
    <3>1. m + 1 \in 2 .. Len(stack) /\ (m + 1) - 1 = m /\ m + 1 \in 1 .. K /\ m + 1 \in 1 .. m + 1
      BY <2>1, <2>4, <1>3
    <3>2. stack[m].next > 1 /\ stack[m + 1].path = Append(stack[m].path, stack[m].children[stack[m].next - 1])
      BY <3>1 DEF IInv, Nested
    <3>3. stack[m].path \in Seq(Obj) /\ Len(stack[m].path) = m /\ stack[m].next <= Len(stack[m].children) + 1
      <4>1. stack[m] \in Frames /\ FrameHolds(stack[m], m)
        BY <2>1, <1>12 DEF IInv, Types, FramesHold
      <4> QED BY <4>1 DEF Frames, FrameHolds
    <3>4. PICK j \in 1 .. Len(stack[m].children) : j = stack[m].next - 1
      <4>1. Len(stack[m].children) \in Nat
        BY <2>2
      <4>2. \A a \in Nat \ {0}, b \in Nat : a > 1 /\ a <= b + 1 => a - 1 \in 1 .. b
        OBVIOUS
      <4>3. stack[m].next - 1 \in 1 .. Len(stack[m].children)
        BY <4>1, <4>2, <2>2, <3>2, <3>3
      <4> QED BY <4>3
    <3>5. stack[m + 1].path[m + 1] = stack[m].children[j]
      <4>1. stack[m].children[j] \in Obj
        BY <2>2, <3>4
      <4>2. stack[m + 1].path = Append(stack[m].path, stack[m].children[j])
        BY <3>2, <3>4
      <4>3. Append(stack[m].path, stack[m].children[j])[Len(stack[m].path) + 1] = stack[m].children[j]
        <5>1. PICK s \in Seq(Obj), u \in Obj : s = stack[m].path /\ u = stack[m].children[j]
          BY <3>3, <4>1
        <5>2. Append(s, u)[Len(s) + 1] = u
          BY AppendOne
        <5> QED BY <5>1, <5>2, Zenon
      <4> QED BY <3>3, <4>2, <4>3
    <3>6. q[m + 1] = stack[m].children[j]
      <4>1. m + 1 \in 1 .. K /\ m + 1 \in 1 .. m + 1
        BY <3>1
      <4>2. \A k \in 1 .. K : \A h \in 1 .. k : q[h] = stack[k].path[h]
        BY <1>7
      <4>3. q[m + 1] = stack[m + 1].path[m + 1]
        BY <4>1, <4>2
      <4> QED BY <4>3, <3>5
    <3>7. i \in 1 .. Len(stack[m].children) /\ i # j
      <4>1. stack'[m].next = stack[m].next
        <5>1. m # K
          BY <2>1, <2>4, <1>3
        <5> QED BY <2>1, <5>1, <1>10
      <4> QED BY <4>1, <2>2, <3>4
    <3> QED BY <2>2, <3>6, <3>7 DEF IsInjective
  <2> QED BY <2>1, <2>3, <2>4
<1>19. Found'
  <2>1. Range(Results) = Range(delivered) /\ Range(Results') = Range(delivered) \cup Range(pending')
    <3>1. Results = delivered /\ delivered \in Seq(ResultSet)
      BY <1>1, ResultsSoFar DEF IInv
    <3>2. pending' \in Seq(ResultSet) /\ Results' = delivered \o pending'
      BY <1>1, <1>2 DEF ResultsOf, Results
    <3> QED BY <3>1, <3>2, RangeOfConcat
  <2>2. PICK n \in Nat \ {0} : n = rootIndex
    BY <1>1, <1>3 DEF IInv, Types, FramesHold
  <2>3. PICK L, M : L = Later /\ M = Later'
    OBVIOUS
  <2>4. /\ opt.roots[n] # Stdin /\ q \notin M
        /\ \A x \in Reached(opt.roots[n]) : x \in L <=> x \in M \/ x = q
    <3>1. opt.roots[n] # Stdin
      BY <1>1, <2>2 DEF EInv, FramesReached, Walked
    <3> QED BY <3>1, <1>15, <1>16, <1>17, <1>18, <2>2, <2>3 DEF A
  <2>5. OwedSoFar(n, M) = OwedSoFar(n, L) \cup (IF q \in Reached(opt.roots[n]) THEN New(q, n) ELSE {})
    BY <2>4, FindsOne
  <2>6. Range(pending') = IF q \in Reached(opt.roots[n]) THEN New(q, n) ELSE {}
    BY <1>8, <1>9, <2>2 DEF A
  <2>7. OwedSoFar(n, M)' = OwedSoFar(n, M)
    BY <1>1, OwedSoFarKept
  <2>8. Range(Results) = OwedSoFar(n, L)
    BY <2>2, <2>3 DEF EInv, Found
  <2>9. Range(Results') = OwedSoFar(n, M)
    BY <2>1, <2>5, <2>6, <2>8
  <2> QED BY <2>2, <2>3, <2>7, <2>9, <1>1 DEF Found
<1> QED
  BY <1>11, <1>19

\* What changes neither the results nor what comes later keeps what was found.
LEMMA FoundKept ==
    ASSUME Found, fs' = fs, opt' = opt, rootIndex' = rootIndex, Results' = Results, Later' = Later
    PROVE  Found'
<1>1. PICK n, L : n = rootIndex /\ L = Later
  OBVIOUS
<1>2. OwedSoFar(n, L)' = OwedSoFar(n, L)
  BY OwedSoFarKept
<1>3. Range(Results) = OwedSoFar(n, L)
  BY <1>1 DEF Found
<1> QED
  BY <1>1, <1>2, <1>3 DEF Found

LEMMA FramesKept ==
    ASSUME FramesReached, fs' = fs, opt' = opt, rootIndex' = rootIndex, DOMAIN stack' \subseteq DOMAIN stack,
           stack' # <<>> => stack # <<>>, \A m \in DOMAIN stack' : stack'[m] = stack[m]
    PROVE  FramesReached'
<1>1. stack' # <<>> => Walked'
  BY DEF FramesReached, Walked
<1>2. ASSUME NEW m \in DOMAIN stack' PROVE FrameReached(stack[m].ig, stack[m].path)'
  <2>1. PICK ig, path : ig = stack'[m].ig /\ path = stack'[m].path
    OBVIOUS
  <2>2. FrameReached(ig, path)
    BY <2>1 DEF FramesReached
  <2>3. FrameReached(ig, path)'
    BY <2>2, FrameKept
  <2> QED BY <2>1, <2>3
<1> QED
  BY <1>1, <1>2 DEF FramesReached

LEMMA PopFinds ==
    ASSUME IInv, EInv, PopPending
    PROVE  FramesReached' /\ Found'
<1>1. fs' = fs /\ opt' = opt /\ rootIndex' = rootIndex /\ stack' = stack
      /\ pending # <<>> /\ delivered' = Append(delivered, Head(pending)) /\ pending' = Tail(pending)
  BY DEF PopPending
<1>2. pending \in Seq(ResultSet) /\ delivered \in Seq(ResultSet)
  BY DEF IInv, Types
<1>3. Results' = Results
  BY <1>1, <1>2, HandOver DEF Results
<1>4. Later' = Later
  BY <1>1 DEF Later
<1> QED
  BY <1>1, <1>3, <1>4, FramesKept, FoundKept DEF EInv

\* A directory that is left has nothing later.
LEMMA LeaveFinds ==
    ASSUME IInv, EInv, LeaveDir
    PROVE  FramesReached' /\ Found'
<1>1. /\ stack # <<>> /\ Last(stack).next > Len(Last(stack).children)
      /\ stack' = Front(stack) /\ fs' = fs /\ opt' = opt /\ rootIndex' = rootIndex /\ pending' = pending /\ delivered' = delivered
  BY DEF LeaveDir
<1>2. PICK K \in Nat \ {0} : K = Len(stack) /\ DOMAIN stack = 1 .. K /\ Last(stack) = stack[K]
  BY <1>1 DEF IInv, Types, Last
<1>3. DOMAIN stack' = 1 .. K - 1 /\ \A m \in 1 .. K - 1 : stack'[m] = stack[m]
  <2>1. stack \in Seq(Frames)
    BY DEF IInv, Types
  <2>2. stack' \in Seq(Frames) /\ Len(stack') = K - 1 /\ \A m \in 1 .. K - 1 : stack'[m] = stack[m]
    BY <1>1, <1>2, <2>1, FrontIs
  <2> QED BY <1>2, <2>2
<1>4. stack[K].children \in Seq(Obj) /\ stack[K].next \in Nat
  <2>1. stack[K] \in Frames
    BY <1>2 DEF IInv, Types
  <2> QED BY <2>1 DEF Frames
<1>5. stack[K].next .. Len(stack[K].children) = {}
  BY <1>1, <1>2, <1>4
<1>6. Later' = Later
  <2>1. ASSUME NEW p \in Later PROVE p \in Later'
    <3>1. PICK m \in 1 .. K : /\ Len(p) > m /\ PathPrefix(stack[m].path, p)
                              /\ \E i \in stack[m].next .. Len(stack[m].children) : p[m + 1] = stack[m].children[i]
      BY <1>2, <2>1 DEF Later
    <3>2. m \in 1 .. K - 1
      BY <1>2, <1>5, <3>1
    <3>3. p \in Seq(Obj)
      BY <2>1 DEF Later
    <3> QED BY <1>3, <3>1, <3>2, <3>3 DEF Later
  <2>2. ASSUME NEW p \in Later' PROVE p \in Later
    <3>1. PICK m \in 1 .. K - 1 : /\ Len(p) > m /\ PathPrefix(stack[m].path, p)
                                  /\ \E i \in stack[m].next .. Len(stack[m].children) : p[m + 1] = stack[m].children[i]
      <4>1. PICK m \in DOMAIN stack' :
              /\ Len(p) > m /\ PathPrefix(stack'[m].path, p)
              /\ \E i \in stack'[m].next .. Len(stack'[m].children) : p[m + 1] = stack'[m].children[i]
        BY <2>2 DEF Later, PathPrefix
      <4>2. m \in 1 .. K - 1 /\ stack'[m] = stack[m]
        BY <1>3, <4>1
      <4> QED BY <4>1, <4>2
    <3>2. m \in DOMAIN stack
      BY <1>2
    <3>3. p \in Seq(Obj)
      BY <2>2 DEF Later
    <3> QED BY <3>1, <3>2, <3>3 DEF Later
  <2> QED BY <2>1, <2>2
<1>7. Results' = Results
  BY <1>1 DEF Results
<1>8. DOMAIN stack' \subseteq DOMAIN stack /\ \A m \in DOMAIN stack' : stack'[m] = stack[m]
  BY <1>2, <1>3
<1> QED
  BY <1>1, <1>6, <1>7, <1>8, FramesKept, FoundKept DEF EInv

LEMMA SoFarSplits ==
    ASSUME NEW R \in Nat \ {0}, NEW later
    PROVE  OwedSoFar(R, later) = OwedSoFar(R - 1, {}) \cup {r \in Owed(R) : r.path \notin later}
<1>1. 1 .. R = (1 .. R - 1) \cup {R} /\ R \notin 1 .. R - 1
  OBVIOUS
<1>2. \A k : \A r \in Owed(k) : r.root = k
  BY RootOfOwed
<1>3. OwedSoFar(R - 1, {}) = UNION {Owed(k) : k \in 1 .. R - 1}
  BY DEF OwedSoFar
<1>4. UNION {Owed(k) : k \in 1 .. R} = OwedSoFar(R - 1, {}) \cup Owed(R)
  BY <1>1, <1>3
<1>5. \A r \in OwedSoFar(R - 1, {}) : r.root # R
  BY <1>1, <1>2, <1>3
<1>6. \A r \in Owed(R) : r.root = R
  BY <1>2
<1> QED
  BY <1>4, <1>5, <1>6 DEF OwedSoFar

\* The next path.
LEMMA RootFinds ==
    ASSUME IInv, EInv, IInv', Obj \subseteq Nat, IsFiniteSet(Obj), Stdin \notin Obj, NextRoot
    PROVE  FramesReached' /\ Found'
<1>1. /\ pending = <<>> /\ stack = <<>> /\ rootIndex < Len(opt.roots)
      /\ fs' = fs /\ opt' = opt /\ rootIndex' = rootIndex + 1 /\ delivered' = delivered
  BY DEF NextRoot
<1>2. PICK R \in Nat \ {0} : R = rootIndex' /\ rootIndex = R - 1 /\ rootIndex + 1 = R /\ R \in 1 .. Len(opt.roots)
  BY <1>1 DEF IInv, Types, Given
<1>3. PICK o \in Obj \cup {Stdin} : o = opt.roots[R]
  <2>1. opt.roots \in Seq(Obj \cup {Stdin})
    BY DEF IInv, Given
  <2>2. opt.roots[R] \in Obj \cup {Stdin}
    BY <1>2, <2>1
  <2> QED BY <2>2
<1> DEFINE q == <<o>>
           ig == IF IsDir(q) THEN AddParents(Real(o)) ELSE IgRoot
           parents == OneIf(IsDir(q) /\ ParentsFail(Real(o)), Result("parents", q))
           Fresh == Range(pending') = {r \in Owed(R) : r.path \notin Later'}
<1>4. ASSUME Fresh PROVE Found'
  <2>1. Range(Results) = Range(delivered) /\ Range(Results') = Range(delivered) \cup Range(pending')
    <3>1. Results = delivered /\ delivered \in Seq(ResultSet)
      BY <1>1, ResultsSoFar DEF IInv
    <3>2. pending' \in Seq(ResultSet) /\ Results' = delivered \o pending'
      BY <1>1 DEF IInv, Types, Results
    <3> QED BY <3>1, <3>2, RangeOfConcat
  <2>2. Later = {}
    BY <1>1 DEF Later
  <2>3. PICK M : M = Later'
    OBVIOUS
  <2>4. Range(Results) = OwedSoFar(R - 1, {})
    BY <1>2, <2>2 DEF EInv, Found
  <2>5. OwedSoFar(R, M) = OwedSoFar(R - 1, {}) \cup {r \in Owed(R) : r.path \notin M}
    BY SoFarSplits
  <2>6. Range(Results') = OwedSoFar(R, M)
    BY <1>4, <2>1, <2>3, <2>4, <2>5
  <2>7. OwedSoFar(R, M)' = OwedSoFar(R, M)
    BY <1>1, OwedSoFarKept
  <2> QED BY <1>2, <2>3, <2>6, <2>7 DEF Found
<1>5. ASSUME stack' = <<>> PROVE FramesReached' /\ Later' = {}
  BY <1>5 DEF FramesReached, Later
<1>6. CASE o = Stdin
  <2>1. pending' = <<Result("entry", q)>> /\ stack' = <<>>
    BY <1>2, <1>3, <1>6 DEF NextRoot
  <2>2. Owed(R) = {Result("entry", q)}
    BY <1>2, <1>3, <1>6 DEF Owed, Result
  <2>3. Range(pending') = {Result("entry", q)}
    BY <2>1 DEF Range
  <2> QED BY <1>4, <1>5, <2>1, <2>2, <2>3
<1>7. CASE o # Stdin
  <2>1. IF fs.kind[Real(o)] = "missing" THEN pending' = <<Result("broken", q)>> /\ stack' = <<>>
        ELSE IF opt.oneDevice /\ Fails("device", Real(o)) THEN pending' = Append(parents, Result("device", q)) /\ stack' = <<>>
        ELSE EnqueueEntry(q, ig, parents, <<>>)
    BY <1>2, <1>3, <1>7, Zenon DEF NextRoot
  <2>2. /\ q \in Seq(Obj) /\ Len(q) = 1 /\ q[1] = o /\ Last(q) = o /\ q # <<>> /\ o \in Obj /\ Real(o) \in Obj
    <3>1. o \in Obj
      BY <1>7
    <3>2. q \in Seq(Obj) /\ Len(q) = 1 /\ q[1] = o /\ Last(q) = o /\ q # <<>>
      BY <3>1 DEF Last
    <3>3. Real(o) \in Obj
      BY <3>1 DEF IInv, Given, Real
    <3> QED BY <3>1, <3>2, <3>3
  <2>3. ig \in Seq(Nodes)
    <3>1. IgRoot \in Seq(Nodes)
      BY DEF IgRoot, Node, Nodes
    <3>2. AddParents(Real(o)) \in Seq(Nodes)
      BY <2>2, AddParentsAbove DEF IInv
    <3> QED BY <3>1, <3>2
  <2>4. IsDir(q) => ig = AddParents(Real(o))
    OBVIOUS
  <2>5. PICK p \in Seq(Obj) : p = q /\ Len(p) = 1 /\ p[1] = o /\ Last(p) = o /\ p # <<>>
    BY <2>2
  <2>6a. Right("parents", p) <=> IsDir(p) /\ ParentsFail(Real(o))
    BY <2>5 DEF Right, Error
  <2>6b. parents = OneIf(Right("parents", p), Result("parents", p)) /\ parents \in {<<>>, <<Result("parents", p)>>}
    <3>1. p = q
      BY <2>5
    <3> HIDE DEF q
    <3>2. parents = OneIf(IsDir(p) /\ ParentsFail(Real(o)), Result("parents", p))
      BY <3>1
    <3> HIDE DEF parents
    <3> QED BY <3>2, <2>6a DEF OneIf
  <2> HIDE DEF q, ig, parents
  <2>6. /\ p # <<>>
        /\ Error(p) = IF fs.kind[Real(o)] = "missing" THEN "broken"
                      ELSE IF opt.oneDevice /\ Fails("device", Real(o)) THEN "device"
                      ELSE "none"
    <3>1. ~Unopened(p) /\ ~Loop(p) /\ ~(Len(p) > 1)
      BY <2>5 DEF Unopened, Loop, Followed
    <3> QED BY <3>1, <2>5 DEF Error
  <2>7. <<>> \in Seq(Frames) /\ Len(<<>>) = 0
    OBVIOUS
  <2>8. /\ Range(pending') = New(p, R) /\ (Len(stack') = 1 <=> Goes(p))
        /\ stack' = <<>> \/ \E frame : FrameOf(frame, p, ig) /\ stack' = Append(<<>>, frame)
    <3>1. CASE fs.kind[Real(o)] = "missing"
      <4>1. pending' = <<Result("broken", p)>> /\ stack' = <<>>
        BY <2>1, <2>5, <3>1
      <4>2. ~IsDir(p) /\ Error(p) = "broken"
        BY <2>5, <2>6, <3>1 DEF IsDir, Resolved
      <4>3. \A w \in Whats : Right(w, p) <=> w = "broken"
        BY <4>2 DEF Right
      <4>4. New(p, R) = {Result("broken", p)}
        <5>1. "broken" \in Whats
          BY DEF Whats
        <5> QED BY <4>3, <5>1, <1>2 DEF New, Result
      <4>5. Range(pending') = New(p, R)
        BY <4>1, <4>4, RangeOfOne
      <4>6. ~Goes(p)
        BY <4>2 DEF Goes, Entered
      <4> QED BY <4>1, <4>5, <4>6, <2>7
    <3>2. CASE fs.kind[Real(o)] # "missing" /\ opt.oneDevice /\ Fails("device", Real(o))
      <4>1. pending' = Append(parents, Result("device", p)) /\ stack' = <<>>
        BY <2>1, <2>5, <3>2
      <4>2. Error(p) = "device"
        BY <2>6, <3>2
      <4>3. \A w \in Whats : Right(w, p) <=> w = "device" \/ (w = "parents" /\ Right("parents", p))
        BY <4>2 DEF Right
      <4>4. \A r : r \in New(p, R) <=> r = Result("device", p) \/ (Right("parents", p) /\ r = Result("parents", p))
        <5>1. "device" \in Whats /\ "parents" \in Whats
          BY DEF Whats
        <5>2. \A r : r \in New(p, R) <=> \E w \in Whats : Right(w, p) /\ r = Result(w, p)
          BY <1>2 DEF New, Result
        <5>3. \A r : (\E w \in Whats : Right(w, p) /\ r = Result(w, p))
                       <=> r = Result("device", p) \/ (Right("parents", p) /\ r = Result("parents", p))
          BY <4>3, <5>1, Zenon
        <5> QED BY <5>2, <5>3
      <4>5. Result("device", p) \in ResultSet /\ Result("parents", p) \in ResultSet /\ Right("parents", p) \in BOOLEAN
        <5>1. p \in Seq(Obj \cup {Stdin})
          <6>1. Obj \subseteq Obj \cup {Stdin}
            OBVIOUS
          <6> QED BY <6>1, SeqMonotonic
        <5> QED BY <5>1, <1>2 DEF Result, ResultSet, Whats, Right
      <4>6. parents \in Seq(ResultSet) /\ Range(parents) = IF Right("parents", p) THEN {Result("parents", p)} ELSE {}
        BY <2>6b, <4>5, OneIfIs
      <4>7. PICK u \in ResultSet : u = Result("device", p)
        BY <4>5
      <4>8. Range(pending') = Range(parents) \cup {u}
        <5>1. pending' = parents \o <<u>>
          BY <4>1, <4>6, <4>7, AppendIsConcat
        <5>2. <<u>> \in Seq(ResultSet)
          OBVIOUS
        <5>3. Range(<<u>>) = {u}
          BY RangeOfOne
        <5>4. Range(parents \o <<u>>) = Range(parents) \cup Range(<<u>>)
          BY <5>2, <4>6, ResultsConcat, Zenon
        <5> QED BY <5>1, <5>3, <5>4
      <4>9. Range(pending') = New(p, R)
        BY <4>4, <4>6, <4>7, <4>8
      <4>10. ~Goes(p)
        BY <4>2 DEF Goes, Entered
      <4> QED BY <4>1, <4>9, <4>10, <2>7
    <3>3. CASE fs.kind[Real(o)] # "missing" /\ ~(opt.oneDevice /\ Fails("device", Real(o)))
      <4>1. EnqueueEntry(p, ig, parents, <<>>) /\ Error(p) = "none"
        BY <2>1, <2>5, <2>6, <3>3
      <4>2. LET verdict == SkipEntry(ig, p)
            IN /\ Range(pending') = IF verdict = "skip" THEN {} ELSE New(p, rootIndex')
               /\ Len(stack') = Len(<<>>) + 1 <=> verdict # "skip" /\ Goes(p)
        BY <4>1, <2>6, <2>7, <2>6b, <1>2, EnqueueExact DEF IInv
      <4>3. SkipEntry(ig, p) # "skip"
        BY <2>5 DEF SkipEntry
      <4>4. stack' = <<>> \/ \E frame : FrameOf(frame, p, ig) /\ stack' = Append(<<>>, frame)
        BY <4>1, <2>3, <2>6, <2>6b, <1>2, EnqueueShape DEF IInv
      <4> QED BY <4>2, <4>3, <4>4, <2>7, <1>2
    <3> QED BY <3>1, <3>2, <3>3
  <2>10. Owed(R) = UNION {New(x, R) : x \in Reached(o)} /\ p \in Reached(o)
    <3>1. p \in Reached(o)
      <4>1. 2 .. 1 = {}
        OBVIOUS
      <4> QED BY <2>5, <4>1 DEF Reached
    <3> QED BY <3>1, <1>3, <1>7 DEF Owed
  <2>11. \A x \in Reached(o) : x \in Seq(Obj) /\ Len(x) \in Nat \ {0} /\ (Len(x) = 1 => x = p)
    <3>1. \A x \in Reached(o) : x \in Seq(Obj) /\ x # <<>> /\ x[1] = o
      BY DEF Reached
    <3>2. ASSUME NEW x \in Reached(o), Len(x) = 1 PROVE x = p
      <4>1. x \in Seq(Obj) /\ x[1] = p[1] /\ Len(x) = Len(p)
        BY <3>1, <3>2, <2>5
      <4>2. \A i \in 1 .. Len(x) : x[i] = p[i]
        BY <3>2, <4>1
      <4> QED BY <4>1, <4>2, SeqEqual
    <3>3. \A x \in Reached(o) : Len(x) \in Nat \ {0}
      BY <3>1
    <3> QED BY <3>1, <3>2, <3>3
  <2>12. ASSUME NEW x \in Reached(o), Len(x) # 1
         PROVE  x[2] \in Children(Real(o)) /\ Goes(p) /\ \A i \in 1 .. 1 : x[i] = p[i]
    <3>0. Len(x) \in Nat \ {0} /\ x \in Seq(Obj)
      BY <2>11
    <3>1. 1 \in 1 .. Len(x) /\ 1 < Len(x) /\ 1 \in 0 .. Len(x) /\ 1 + 1 = 2 /\ 2 \in 0 .. Len(x)
      <4>1. PICK n \in Nat \ {0} : n = Len(x) /\ n # 1
        BY <2>12, <3>0
      <4>2. 1 \in 1 .. n /\ 1 < n /\ 1 \in 0 .. n /\ 1 + 1 = 2 /\ 2 \in 0 .. n
        BY <4>1
      <4> QED BY <4>1, <4>2
    <3>2. Pre(x, 1) \in Reached(o) /\ Len(Pre(x, 1)) = 1 /\ Pre(x, 2) \in Below(Pre(x, 1))
      BY <3>1, ReachedBefore
    <3>3. Pre(x, 1) = p
      BY <2>11, <3>2
    <3>4. Pre(x, 2)[2] = x[2] /\ p[1] = x[1]
      <4>1. \A i \in 1 .. 2 : Pre(x, 2)[i] = x[i]
        BY <2>11, <3>1, PreIs
      <4>2. p[1] = o /\ x[1] = o
        BY <2>5, <2>12 DEF Reached
      <4>3. 2 \in 1 .. 2
        OBVIOUS
      <4> QED BY <4>1, <4>2, <4>3
    <3>5. x[2] \in Children(Resolved(p)) /\ Goes(p)
      <4>1. Len(p) + 1 = 2
        BY <2>5
      <4> QED BY <3>2, <3>3, <3>4, <4>1, BelowIs
    <3>6. Resolved(p) = Real(o)
      BY <2>2, <2>5, <2>6, <3>5, ResolvedIsReal DEF IInv, Goes, Entered
    <3> QED BY <3>4, <3>5, <3>6
  <2>13. CASE stack' = <<>>
    <3>1. ~Goes(p)
      BY <2>7, <2>8, <2>13
    <3>2. \A x \in Reached(o) : x = p
      BY <2>11, <2>12, <3>1
    <3>3. Owed(R) = New(p, R)
      BY <2>10, <3>2
    <3> QED BY <1>4, <1>5, <2>8, <2>13, <3>3
  <2>14. ASSUME NEW frame, FrameOf(frame, p, ig), stack' = Append(<<>>, frame) PROVE FramesReached' /\ Found'
    <3>1. stack' \in Seq(Frames) /\ Len(stack') = 1 /\ stack'[1] = frame /\ DOMAIN stack' = {1}
      <4>1. frame \in Frames
        BY <2>14 DEF FrameOf
      <4>2. stack' \in Seq(Frames) /\ Len(stack') = Len(<<>>) + 1 /\ stack'[Len(<<>>) + 1] = frame
        BY <2>7, <2>14, <4>1, AppendOne
      <4>3. Len(stack') = 1 /\ stack'[1] = frame
        BY <2>7, <4>2
      <4> QED BY <4>2, <4>3
    <3>2. /\ frame.path = p /\ frame.next = 1 /\ frame.children \in Seq(Obj) /\ Range(frame.children) = Children(Real(o))
          /\ IsDir(p) /\ frame.ig = AddChild(ig, Real(o))
      BY <2>2, <2>5, <2>14 DEF FrameOf, Frames
    <3>3. FrameReached(frame.ig, p)
      <4>1. frame.ig = AddChild(AddParents(Real(o)), Real(o))
        BY <2>4, <2>5, <3>2
      <4>2. p = <<o>>
        BY <2>5 DEF q
      <4>3. ChainHolds(frame.ig, p)
        BY <2>2, <4>1, <4>2, ChainBegins DEF IInv, EInv
      <4>4. p[1] = o
        BY <2>2, <2>5
      <4> QED BY <4>3, <4>4, <2>8, <2>10, <3>1 DEF FrameReached
    <3>4. FramesReached'
      <4>1. Walked'
        <5>1. opt.roots[R] # Stdin
          BY <1>3, <1>7
        <5> QED BY <5>1, <1>1, <1>2 DEF Walked
      <4>2. FrameReached(stack[1].ig, stack[1].path)'
        <5>1. PICK g : g = frame.ig
          OBVIOUS
        <5>2. FrameReached(g, p)'
          BY <3>3, <5>1, <1>1, FrameKept
        <5> QED BY <3>1, <3>2, <5>1, <5>2
      <4> QED BY <3>1, <4>1, <4>2 DEF FramesReached
    <3>5. ASSUME NEW x \in Reached(o) PROVE x \in Later' <=> x # p
      <4>1. ASSUME x # p PROVE x \in Later'
        <5>1. Len(x) > 1 /\ x \in Seq(Obj) /\ x[2] \in Children(Real(o)) /\ x[1] = p[1]
          <6>1. Len(x) # 1 /\ Len(x) \in Nat \ {0} /\ x \in Seq(Obj)
            BY <2>11, <4>1
          <6>2. x[2] \in Children(Real(o)) /\ \A i \in 1 .. 1 : x[i] = p[i]
            BY <2>12, <6>1
          <6>3. x[1] = p[1]
            <7>1. 1 \in 1 .. 1
              OBVIOUS
            <7> QED BY <6>2, <7>1
          <6>4. PICK n \in Nat \ {0} : n = Len(x) /\ n # 1
            BY <6>1
          <6>5. n > 1
            BY <6>4
          <6> QED BY <6>1, <6>2, <6>3, <6>4, <6>5
        <5>2. PICK i \in 1 .. Len(frame.children) : x[2] = frame.children[i]
          BY <3>2, <5>1 DEF Range
        <5>3. PathPrefix(p, x)
          BY <2>5, <5>1 DEF PathPrefix
        <5>4. 1 + 1 = 2
          OBVIOUS
        <5> QED BY <3>1, <3>2, <5>1, <5>2, <5>3, <5>4 DEF Later
      <4>2. ASSUME x = p PROVE x \notin Later'
        <5>1. \A m \in DOMAIN stack' : ~(Len(x) > m)
          <6>1. Len(x) = 1 /\ ~(1 > 1)
            BY <2>5, <4>2
          <6> QED BY <3>1, <6>1
        <5> QED BY <5>1 DEF Later
      <4> QED BY <4>1, <4>2
    <3>6. {r \in Owed(R) : r.path \notin Later'} = New(p, R)
      <4>1. \A x : \A r \in New(x, R) : r.path = x
        BY DEF New
      <4> QED BY <2>10, <3>5, <4>1
    <3> QED BY <1>4, <2>8, <3>4, <3>6
  <2> QED BY <2>8, <2>13, <2>14
<1> QED
  BY <1>6, <1>7

LEMMA InitFinds ==
    ASSUME Init
    PROVE  EInv
<1>1. PICK case \in Cases :
          /\ \E base \in case.fs, git \in case.git, rules \in case.rules :
                fs = [base EXCEPT !.git = git, !.rules = rules]
          /\ opt \in case.opt
  BY DEF Init
<1>2. PICK base \in case.fs, git \in case.git, rules \in case.rules : fs = [base EXCEPT !.git = git, !.rules = rules]
  BY <1>1
<1>3. /\ {"kind", "parent", "target"} \subseteq DOMAIN base /\ {"git", "rules"} \subseteq DOMAIN base
      /\ \A set \in SUBSET Obj : set # {} => \E o \in set : base.parent[o] \notin set
      /\ \A r \in DOMAIN rules : rules[r] \in Answers /\ (r[2] = Nowhere => r[1] \in GlobalKind)
  BY FileSystemAssumption, RulesAssumption DEF Answers
<1>4. fs.parent = base.parent /\ fs.rules = rules
  BY <1>2, <1>3
<1>5. Tree
  BY <1>3, <1>4 DEF Tree
<1>6. RulesGiven
  BY <1>1, <1>3, <1>4, KindsAssumption DEF RulesGiven
<1>7. rootIndex = 0 /\ stack = <<>> /\ pending = <<>> /\ delivered = <<>>
  BY DEF Init
<1>8. FramesReached
  BY <1>7 DEF FramesReached
<1>9. Found
  <2>1. Results = <<>>
    BY <1>7, InitHolds, ResultsSoFar DEF IInv
  <2>2. 1 .. rootIndex = {}
    BY <1>7
  <2> QED BY <2>1, <2>2 DEF Found, OwedSoFar, Range
<1> QED
  BY <1>5, <1>6, <1>8, <1>9 DEF EInv

LEMMA StepFinds ==
    ASSUME IInv, EInv, [Next]_vars
    PROVE  EInv'
<1>1. fs' = fs /\ opt' = opt
  BY DEF Next, PopPending, LeaveDir, NextChild, NextRoot, Ended, vars
<1>2. Tree' /\ RulesGiven'
  BY <1>1 DEF EInv, Tree, RulesGiven
<1>3. CASE PopPending
  BY <1>2, <1>3, PopFinds DEF EInv
<1>4. CASE LeaveDir
  BY <1>2, <1>4, LeaveFinds DEF EInv
<1>5. CASE NextChild
  BY <1>2, <1>5, ChildFinds, ObjAssumption DEF EInv
<1>6. CASE NextRoot
  BY <1>2, <1>6, RootFinds, StepKeeps, ObjAssumption DEF EInv
<1>7. CASE UNCHANGED vars
  <2>1. stack' = stack /\ Results' = Results /\ Later' = Later /\ rootIndex' = rootIndex
    BY <1>7 DEF vars, Results, Later
  <2>2. FramesReached' /\ Found'
    BY <1>1, <2>1, FramesKept, FoundKept DEF EInv
  <2> QED BY <1>2, <2>2 DEF EInv
<1> QED
  BY <1>3, <1>4, <1>5, <1>6, <1>7 DEF Next, Ended

\* What is delivered is exactly what is due, each result once: the rules of
\* ignore/dir.v decide as documented at every depth and through every link,
\* every call that fails is told of in the place of its entry or beside it, and
\* neither it, nor an end of a directory, nor a link back into the walk hides
\* anything else (Walk.next, enqueue_root_path, enqueue_child, enqueue_entry,
\* matched_ignore, check_symlink_loop).
THEOREM SerialDeliveredExact == Spec => []DeliveredExact
<1>1. Init => IInv /\ EInv
  BY InitHolds, InitFinds
<1>2. IInv /\ EInv /\ [Next]_vars => (IInv /\ EInv)'
  BY StepKeeps, StepFinds
<1>3. ASSUME IInv, EInv PROVE DeliveredExact
  <2> SUFFICES ASSUME Finished
               PROVE  /\ Range(delivered) = UNION {Due(k) : k \in 1 .. Len(opt.roots)}
                      /\ IsInjective(delivered)
    BY DEF DeliveredExact
  <2>1. pending = <<>> /\ stack = <<>> /\ rootIndex = Len(opt.roots)
    BY DEF Finished
  <2>2. Results = delivered /\ Later = {}
    BY <1>3, <2>1, ResultsSoFar DEF IInv, Later
  <2>3. \A k \in 1 .. Len(opt.roots) : Due(k) = Owed(k)
    BY <1>3, OwedIsDue, ObjAssumption DEF IInv, EInv
  <2>4. Range(delivered) = UNION {Owed(k) : k \in 1 .. Len(opt.roots)}
    BY <1>3, <2>1, <2>2 DEF EInv, Found, OwedSoFar
  <2>5. IsInjective(delivered)
    BY <1>3, <2>2 DEF IInv, Once
  <2> QED BY <2>3, <2>4, <2>5
<1> QED
  BY <1>1, <1>2, <1>3, PTL DEF Spec
=============================================================================
