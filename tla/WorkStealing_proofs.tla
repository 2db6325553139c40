------------------------ MODULE WorkStealing_proofs -------------------------
(***************************************************************************)
(* The parallel walk implements Traversal, for every tree, every number of *)
(* workers and every answer of the visitors.  At the end, the account of   *)
(* the walk: what was done for each entry, how many workers are counted,   *)
(* and how many begin an item after the stop.  That the walk implements    *)
(* Traversal carries most of it: an invariant of Traversal is one of the   *)
(* walk.                                                                   *)
(***************************************************************************)
EXTENDS WorkStealingInv, SequenceTheorems, FiniteSetTheorems, TLAPS

-----------------------------------------------------------------------------
(***************************************************************************)
(* What a pop, a push, a steal and the deal of the queues do to the items  *)
(* a queue holds (WorkStealingQueue).                                      *)
(***************************************************************************)

\* pop_back_unlocked takes the last item and leaves the others.
LEMMA PopBack ==
    ASSUME NEW S, NEW s \in Seq(S), s # <<>>
    PROVE  LET x == s[Len(s)]
               t == SubSeq(s, 1, Len(s) - 1)
           IN /\ t \in Seq(S)
              /\ x \in S
              /\ Range(s) = Range(t) \cup {x}
              /\ IsInjective(s) => IsInjective(t) /\ x \notin Range(t)
<1> DEFINE x == s[Len(s)]
           t == SubSeq(s, 1, Len(s) - 1)
<1>1. Len(s) \in Nat /\ Len(s) > 0
  OBVIOUS
<1>2. t \in Seq(S) /\ Len(t) = Len(s) - 1 /\ \A i \in 1 .. Len(s) - 1 : t[i] = s[i]
  <2>1. PICK n \in Nat : n = Len(s) - 1
    BY <1>1
  <2>2. \A i \in 1 .. n : s[i] \in S
    BY <2>1, <1>1, ElementOfSeq
  <2>3. /\ SubSeq(s, 1, n) \in Seq(S)
        /\ Len(SubSeq(s, 1, n)) = n
        /\ \A i \in 1 .. n : SubSeq(s, 1, n)[i] = s[i]
    BY <2>1, <2>2, SubSeqProperties
  <2> QED BY <2>1, <2>3
<1>3. x \in S /\ DOMAIN s = 1 .. Len(s) /\ DOMAIN t = 1 .. Len(s) - 1
  BY <1>1, <1>2
<1> HIDE DEF t
<1>4. Range(s) = Range(t) \cup {x}
  BY <1>1, <1>2, <1>3 DEF Range
<1>5. IsInjective(s) => IsInjective(t) /\ x \notin Range(t)
  BY <1>1, <1>2, <1>3 DEF Range, IsInjective
<1> QED
  BY <1>2, <1>3, <1>4, <1>5 DEF t

\* push_unlocked adds the item.
LEMMA PushBack ==
    ASSUME NEW S, NEW s \in Seq(S), NEW x \in S
    PROVE  /\ Append(s, x) \in Seq(S)
           /\ Range(Append(s, x)) = Range(s) \cup {x}
           /\ IsInjective(s) /\ x \notin Range(s) => IsInjective(Append(s, x))
<1> DEFINE t == Append(s, x)
<1>1. t \in Seq(S) /\ Len(t) = Len(s) + 1 /\ t[Len(s) + 1] = x /\ \A i \in 1 .. Len(s) : t[i] = s[i]
  OBVIOUS
<1>2. DOMAIN s = 1 .. Len(s) /\ DOMAIN t = 1 .. Len(s) + 1 /\ Len(s) \in Nat
  BY <1>1
<1> HIDE DEF t
<1>3. Range(t) = Range(s) \cup {x}
  BY <1>1, <1>2 DEF Range
<1>4. IsInjective(s) /\ x \notin Range(s) => IsInjective(t)
  BY <1>1, <1>2 DEF Range, IsInjective
<1> QED
  BY <1>1, <1>3, <1>4 DEF t

\* A steal splits the victim's queue in the thief's work, the items that go to
\* the thief's queue and those that stay.
LEMMA Split ==
    ASSUME NEW S, NEW s \in Seq(S), NEW k \in 1 .. Len(s)
    PROVE  LET a == SubSeq(s, 2, k)
               b == SubSeq(s, k + 1, Len(s))
           IN /\ a \in Seq(S) /\ b \in Seq(S) /\ s[1] \in S
              /\ Range(s) = {s[1]} \cup Range(a) \cup Range(b)
              /\ IsInjective(s) => /\ IsInjective(a) /\ IsInjective(b)
                                 /\ Range(a) \cap Range(b) = {}
                                 /\ s[1] \notin Range(a) \cup Range(b)
<1> DEFINE a == SubSeq(s, 2, k)
           b == SubSeq(s, k + 1, Len(s))
<1>1. Len(s) \in Nat /\ Len(s) > 0 /\ DOMAIN s = 1 .. Len(s) /\ s[1] \in S
  OBVIOUS
<1>2. a \in Seq(S) /\ DOMAIN a = 1 .. k - 1 /\ \A i \in 1 .. k - 1 : a[i] = s[i + 1]
  BY <1>1
<1>3. b \in Seq(S) /\ DOMAIN b = 1 .. Len(s) - k /\ \A i \in 1 .. Len(s) - k : b[i] = s[i + k]
  BY <1>1
<1> HIDE DEF a, b
<1>4. Range(s) = {s[1]} \cup Range(a) \cup Range(b)
  <2>1. Range(a) \subseteq Range(s)
    BY <1>1, <1>2 DEF Range
  <2>2. Range(b) \subseteq Range(s)
    <3>1. \A i \in 1 .. Len(s) - k : i + k \in 1 .. Len(s)
      BY <1>1
    <3> QED BY <3>1, <1>1, <1>3 DEF Range
  <2>3. s[1] \in Range(s)
    BY <1>1 DEF Range
  <2>4. ASSUME NEW i \in 1 .. Len(s) PROVE s[i] \in {s[1]} \cup Range(a) \cup Range(b)
    <3>1. CASE i = 1 BY <3>1
    <3>2. CASE i \in 2 .. k
      <4>1. i - 1 \in 1 .. k - 1 /\ a[i - 1] = s[i] BY <3>2, <1>1, <1>2
      <4> QED BY <4>1, <1>2 DEF Range
    <3>3. CASE i \in k + 1 .. Len(s)
      <4>1. i - k \in 1 .. Len(s) - k /\ b[i - k] = s[i] BY <3>3, <1>1, <1>3
      <4> QED BY <4>1, <1>3 DEF Range
    <3> QED BY <3>1, <3>2, <3>3, <1>1
  <2>5. Range(s) \subseteq {s[1]} \cup Range(a) \cup Range(b)
    BY <2>4, <1>1 DEF Range
  <2> QED BY <2>1, <2>2, <2>3, <2>5
<1>5. ASSUME IsInjective(s)
      PROVE  /\ IsInjective(a) /\ IsInjective(b)
             /\ Range(a) \cap Range(b) = {}
             /\ s[1] \notin Range(a) \cup Range(b)
  <2>1. \A i, j \in 1 .. Len(s) : s[i] = s[j] => i = j
    BY <1>1, <1>5 DEF IsInjective
  <2>2. IsInjective(a)
    BY SMTT(30), <2>1, <1>1, <1>2 DEF IsInjective
  <2>3. IsInjective(b)
    BY <2>1, <1>1, <1>3 DEF IsInjective
  <2>4. ASSUME NEW i \in 1 .. k - 1, NEW j \in 1 .. Len(s) - k PROVE a[i] # b[j]
    <3>1. a[i] = s[i + 1] /\ b[j] = s[j + k] BY <1>2, <1>3
    <3>2. i + 1 \in 1 .. Len(s) /\ j + k \in 1 .. Len(s) /\ i + 1 # j + k BY <1>1
    <3> QED BY <3>1, <3>2, <2>1
  <2>5. ASSUME NEW i \in 1 .. k - 1 PROVE s[1] # a[i]
    <3>1. a[i] = s[i + 1] /\ i + 1 \in 1 .. Len(s) /\ i + 1 # 1 BY <1>1, <1>2
    <3> QED BY <3>1, <2>1, <1>1
  <2>6. ASSUME NEW j \in 1 .. Len(s) - k PROVE s[1] # b[j]
    <3>1. b[j] = s[j + k] /\ j + k \in 1 .. Len(s) /\ j + k # 1 BY <1>1, <1>3
    <3> QED BY <3>1, <2>1, <1>1
  <2>7. Range(a) \cap Range(b) = {}
    BY <2>4, <1>2, <1>3 DEF Range
  <2>8. s[1] \notin Range(a) \cup Range(b)
    BY <2>5, <2>6, <1>2, <1>3 DEF Range
  <2> QED BY <2>2, <2>3, <2>7, <2>8
<1> QED
  BY <1>1, <1>2, <1>3, <1>4, <1>5 DEF a, b

(***************************************************************************)
(* The round-robin deal of WorkStealingStacks.new.                         *)
(***************************************************************************)

\* The arithmetic of division that the deal rests on.
LEMMA Division ==
    ASSUME NEW k \in Nat, k > 0, NEW n \in Nat
    PROVE  n \div k \in Nat /\ n % k \in 0 .. k - 1 /\ n = (n \div k) * k + (n % k)
BY SMT

\* A multiple of k grows by at least k.
LEMMA MultipleMonotonic ==
    ASSUME NEW k \in Nat, k > 0, NEW a \in Int, NEW b \in Int, a < b
    PROVE  a * k + k <= b * k
<1>1. b - a >= 1
  OBVIOUS
<1>2. (b - a) * k >= k
  BY <1>1, SMT
<1> QED
  BY <1>2, SMT

\* Quotient and remainder are unique.
LEMMA DivisionUnique ==
    ASSUME NEW k \in Nat, k > 0, NEW a \in Nat, NEW b \in Nat,
           NEW r \in 0 .. k - 1, NEW s \in 0 .. k - 1, a * k + r = b * k + s
    PROVE  a = b /\ r = s
<1>1. ~(a < b)
  BY MultipleMonotonic, SMT
<1>2. ~(b < a)
  BY MultipleMonotonic, SMT
<1> QED
  BY <1>1, <1>2, SMT

\* The j-th round reaches worker w exactly if there is an item left for it.
LEMMA RoundReaches ==
    ASSUME NEW k \in Nat, k > 0, NEW n \in Nat, NEW w \in 0 .. k - 1, NEW j \in Nat, j > 0
    PROVE  j <= (n + k - 1 - w) \div k <=> (j - 1) * k + w < n
<1> DEFINE q == (n + k - 1 - w) \div k
           r == (n + k - 1 - w) % k
<1>1. q \in Nat /\ r \in 0 .. k - 1 /\ n + k - 1 - w = q * k + r
  BY Division, SMT
<1> HIDE DEF q, r
<1>2. ASSUME j <= q PROVE (j - 1) * k + w < n
  <2>1. j * k <= q * k
    BY MultipleMonotonic, <1>1, <1>2, SMT
  <2> QED BY <2>1, <1>1, SMT
<1>3. ASSUME j > q PROVE (j - 1) * k + w >= n
  <2>1. q * k + k <= j * k
    BY MultipleMonotonic, <1>1, <1>3, SMT
  <2> QED BY <2>1, <1>1, SMT
<1> QED
  BY <1>1, <1>2, <1>3, SMT DEF q

\* An offset below k, and not 0, leads modulo k to another worker.
LEMMA OffsetModulo ==
    ASSUME NEW k \in Nat, k > 0, NEW w \in 0 .. k - 1, NEW o \in 1 .. k - 1
    PROVE  (w + o) % k \in 0 .. k - 1 /\ (w + o) % k # w
<1> DEFINE q == (w + o) \div k
           r == (w + o) % k
<1>1. q \in Nat /\ r \in 0 .. k - 1 /\ w + o = q * k + r
  BY Division, SMT
<1> HIDE DEF q, r
<1>2. ASSUME r = w PROVE FALSE
  <2>1. CASE q <= 0
    BY <2>1, <1>1, <1>2, SMT
  <2>2. CASE q > 0
    <3>1. 0 * k + k <= q * k
      BY <2>2, <1>1, MultipleMonotonic, SMT
    <3> QED BY <3>1, <1>1, <1>2, SMT
  <2> QED BY <2>1, <2>2, <1>1, SMT
<1> QED
  BY <1>1, <1>2 DEF r

\* Every place of the list belongs to one round of one worker.
LEMMA RoundOf ==
    ASSUME NEW k \in Nat, k > 0, NEW m \in Nat
    PROVE  \E w \in 0 .. k - 1, j \in Nat : j > 0 /\ m = (j - 1) * k + w
<1>1. m % k \in 0 .. k - 1 /\ m \div k \in Nat /\ m = (m \div k) * k + (m % k)
  BY Division
<1>2. PICK q \in Nat, r \in 0 .. k - 1 : m = q * k + r
  BY <1>1
<1>3. q + 1 \in Nat /\ q + 1 > 0 /\ m = ((q + 1) - 1) * k + r
  BY <1>2
<1> QED
  BY <1>3

-----------------------------------------------------------------------------
(***************************************************************************)
(* Helpers of the specification.                                           *)
(***************************************************************************)

LEMMA WorkerFacts ==
    /\ WorkerCount \in Nat /\ WorkerCount >= 2
    /\ Workers = 0 .. WorkerCount - 1
    /\ NoLock = WorkerCount
    /\ NoLock \notin Workers
BY WorkerAssumption DEF Workers, NoLock

LEMMA RootFacts ==
    /\ Len(Roots) \in Nat
    /\ DOMAIN Roots = 1 .. Len(Roots)
    /\ \A i \in 1 .. Len(Roots) : Roots[i] \in Entry /\ Roots[i] \in RootSet
    /\ \A i, j \in 1 .. Len(Roots) : Roots[i] = Roots[j] => i = j
BY TreeAssumption DEF RootSet

\* A steal's victim is another worker.
LEMMA VictimOther ==
    ASSUME TypeOK, NEW w \in Workers
    PROVE  Victim(w) \in Workers /\ Victim(w) # w
<1>1. offset[w] \in 1 .. WorkerCount - 1 /\ w \in 0 .. WorkerCount - 1
  BY WorkerFacts DEF TypeOK
<1>2. WorkerCount \in Nat /\ WorkerCount > 0
  BY WorkerFacts
<1>3. (w + offset[w]) % WorkerCount \in 0 .. WorkerCount - 1 /\ (w + offset[w]) % WorkerCount # w
  BY <1>1, <1>2, OffsetModulo
<1> QED
  BY <1>3, WorkerFacts DEF Victim

\* A steal takes at least one item and no more than there are.
LEMMA StealCountBound ==
    ASSUME NEW n \in Nat, n > 0
    PROVE  StealCount(n) \in 1 .. n
<1>1. n \div 2 \in Nat /\ n % 2 \in 0 .. 1 /\ n = (n \div 2) * 2 + (n % 2)
  BY Division, SMT
<1>2. CASE n = 1
  BY <1>2 DEF StealCount
<1>3. CASE n > 1
  <2>1. n \div 2 \in 1 .. n
    BY <1>1, <1>3, SMT
  <2> QED BY <1>3, <2>1 DEF StealCount
<1> QED
  BY <1>2, <1>3

\* The deal gives every prepared root to exactly one worker.
LEMMA DealFacts ==
    ASSUME NEW S, NEW list \in Seq(S)
    PROVE  /\ \A w \in Workers : Dealt(list, w) \in Seq(S)
           /\ (UNION {Range(Dealt(list, w)) : w \in Workers}) = Range(list)
           /\ IsInjective(list) =>
                 /\ \A w \in Workers : IsInjective(Dealt(list, w))
                 /\ \A u, w \in Workers : u # w => Range(Dealt(list, u)) \cap Range(Dealt(list, w)) = {}
<1> DEFINE k == WorkerCount
           n == Len(list)
           rounds(w) == (n + k - 1 - w) \div k
           place(w, j) == n - ((j - 1) * k + w)
<1>1. k \in Nat /\ k > 0 /\ Workers = 0 .. k - 1 /\ n \in Nat /\ DOMAIN list = 1 .. n
  BY WorkerFacts
<1>2. \A w \in Workers : rounds(w) \in Nat
  BY <1>1, Division
<1>3. \A w \in Workers : /\ DOMAIN Dealt(list, w) = 1 .. rounds(w)
                          /\ \A j \in 1 .. rounds(w) : Dealt(list, w)[j] = list[place(w, j)]
  BY DEF Dealt
<1>4. ASSUME NEW w \in Workers, NEW j \in 1 .. rounds(w)
      PROVE  place(w, j) \in 1 .. n /\ (j - 1) * k + w \in 0 .. n - 1
  <2>1. j \in Nat /\ j > 0 /\ j <= rounds(w) /\ w \in 0 .. k - 1
    BY <1>1, <1>2
  <2>2. (j - 1) * k + w < n
    BY <2>1, <1>1, RoundReaches
  <2>3. (j - 1) * k >= 0
    BY <2>1, <1>1, SMT
  <2>4. (j - 1) * k \in Int
    BY <2>1, <1>1
  <2> QED BY <2>2, <2>3, <2>4, <1>1
<1>5. ASSUME NEW i \in 1 .. n PROVE \E w \in Workers : \E j \in 1 .. rounds(w) : place(w, j) = i
  <2>1. n - i \in Nat
    BY <1>1
  <2>2. PICK w \in 0 .. k - 1, j \in Nat : j > 0 /\ n - i = (j - 1) * k + w
    BY <2>1, <1>1, RoundOf
  <2>3. j <= rounds(w)
    BY <2>1, <2>2, <1>1, RoundReaches
  <2>4. place(w, j) = i
    BY <2>2, <1>1
  <2>5. w \in Workers /\ j \in 1 .. rounds(w)
    BY <2>2, <2>3, <1>1, <1>2
  <2> QED BY <2>4, <2>5
<1>6. ASSUME NEW u \in Workers, NEW w \in Workers, NEW i \in 1 .. rounds(u), NEW j \in 1 .. rounds(w),
             place(u, i) = place(w, j)
      PROVE  u = w /\ i = j
  <2>1. (i - 1) * k + u \in 0 .. n - 1 /\ (j - 1) * k + w \in 0 .. n - 1
    BY <1>4
  <2>2. (i - 1) * k + u = (j - 1) * k + w
    BY <2>1, <1>6, <1>1
  <2>3. i - 1 \in Nat /\ j - 1 \in Nat /\ u \in 0 .. k - 1 /\ w \in 0 .. k - 1
    BY <1>1, <1>2
  <2>4. i - 1 = j - 1 /\ u = w
    BY <2>2, <2>3, <1>1, DivisionUnique
  <2> QED BY <2>4, <1>1, <1>2
<1> HIDE DEF k, n, rounds, place
<1>7. ASSUME NEW w \in Workers PROVE Dealt(list, w) \in Seq(S)
  <2>1. Dealt(list, w) = [j \in 1 .. rounds(w) |-> list[place(w, j)]]
    BY DEF Dealt, rounds, place, k, n
  <2>2. \A j \in 1 .. rounds(w) : list[place(w, j)] \in S
    BY <1>1, <1>4, ElementOfSeq DEF n
  <2> QED BY <2>1, <2>2, <1>2
<1>8. (UNION {Range(Dealt(list, w)) : w \in Workers}) = Range(list)
  <2>1. ASSUME NEW w \in Workers, NEW x \in Range(Dealt(list, w)) PROVE x \in Range(list)
    <3>1. PICK j \in DOMAIN Dealt(list, w) : x = Dealt(list, w)[j]
      BY DEF Range
    <3>2. j \in 1 .. rounds(w) /\ x = list[place(w, j)]
      BY <3>1, <1>3
    <3> QED BY <3>2, <1>1, <1>4 DEF Range
  <2>2. ASSUME NEW x \in Range(list) PROVE \E w \in Workers : x \in Range(Dealt(list, w))
    <3>1. PICK i \in 1 .. n : x = list[i]
      BY <1>1 DEF Range
    <3>2. PICK w \in Workers : \E j \in 1 .. rounds(w) : place(w, j) = i
      BY <1>5
    <3>4. PICK j \in 1 .. rounds(w) : place(w, j) = i
      BY <3>2
    <3>3. j \in DOMAIN Dealt(list, w) /\ Dealt(list, w)[j] = x
      BY <3>1, <3>4, <1>3
    <3> QED BY <3>3 DEF Range
  <2> QED BY <2>1, <2>2
<1>9. ASSUME IsInjective(list)
      PROVE  /\ \A w \in Workers : IsInjective(Dealt(list, w))
             /\ \A u, w \in Workers : u # w => Range(Dealt(list, u)) \cap Range(Dealt(list, w)) = {}
  <2>1. ASSUME NEW u \in Workers, NEW w \in Workers, NEW i \in 1 .. rounds(u), NEW j \in 1 .. rounds(w),
               list[place(u, i)] = list[place(w, j)]
        PROVE  u = w /\ i = j
    BY <2>1, <1>1, <1>4, <1>6, <1>9 DEF IsInjective
  <2>2. ASSUME NEW w \in Workers PROVE IsInjective(Dealt(list, w))
    <3>1. ASSUME NEW i \in 1 .. rounds(w), NEW j \in 1 .. rounds(w), Dealt(list, w)[i] = Dealt(list, w)[j]
          PROVE  i = j
      BY <3>1, <2>1, <1>3
    <3> QED BY <3>1, <1>3 DEF IsInjective
  <2>3. ASSUME NEW u \in Workers, NEW w \in Workers, u # w, NEW x \in Range(Dealt(list, u))
        PROVE  x \notin Range(Dealt(list, w))
    <3>1. ASSUME x \in Range(Dealt(list, w)) PROVE FALSE
      <4>1. PICK i \in DOMAIN Dealt(list, u) : x = Dealt(list, u)[i]
        BY DEF Range
      <4>2. PICK j \in DOMAIN Dealt(list, w) : x = Dealt(list, w)[j]
        BY <3>1 DEF Range
      <4>3. i \in 1 .. rounds(u) /\ j \in 1 .. rounds(w) /\ list[place(u, i)] = list[place(w, j)]
        BY <4>1, <4>2, <1>3
      <4> QED BY <4>3, <2>1, <2>3
    <3> QED BY <3>1
  <2> QED BY <2>2, <2>3
<1> QED
  BY <1>7, <1>8, <1>9
-----------------------------------------------------------------------------
(***************************************************************************)
(* The invariant holds initially.                                          *)
(***************************************************************************)

LEMMA InitInv == Init => IInv
<1> SUFFICES ASSUME Init PROVE IInv
  OBVIOUS
<1>1. TypeOK
  <2>1. 1 \in 1 .. Len(Roots) + 1 /\ 1 \in 1 .. WorkerCount - 1
    BY RootFacts, WorkerFacts
  <2>2. nextRoot \in 1 .. Len(Roots) + 1 /\ offset \in [Workers -> 1 .. WorkerCount - 1]
    BY <2>1 DEF Init
  <2>3. initial \in Seq(Entry) /\ queue \in [Workers -> Seq(Entry)]
    BY DEF Init
  <2>4. /\ lock \in [Workers -> Workers \cup {NoLock}]
        /\ idle \in [Workers -> BOOLEAN]
        /\ work \in [Workers -> Entry \cup {NoEntry}]
        /\ todo \in [Workers -> SUBSET Entry]
        /\ late \in [Workers -> Nat]
    BY DEF Init
  <2>5. delivered \in [Entry -> Nat] /\ errors \in [Entry -> Nat]
    BY DEF Init
  <2>6. pc = [w \in Workers |-> "unborn"]
    BY DEF Init
  <2>7. fate \in FateFunctions /\ mainPc = "prepare" /\ active = 0 /\ stop = FALSE /\ pruned = {}
        /\ listed = {} /\ quit = FALSE /\ earlyQuit = FALSE
    BY DEF Init
  <2>8. pruned \subseteq Entry /\ listed \subseteq Entry
    BY <2>7
  <2>9. pc \in [Workers -> {"unborn", "loop", "take", "steal", "pair", "leave", "idle", "idleStop",
                            "wake", "run", "visit", "list", "push", "quit", "exited"}]
    BY <2>6
  <2>10. mainPc \in {"prepare", "deal", "walking", "joined"} /\ active \in Int
    BY <2>7
  <2>11. stop \in BOOLEAN /\ quit \in BOOLEAN /\ earlyQuit \in BOOLEAN
    BY Zenon DEF Init
  <2> QED BY <2>2, <2>3, <2>4, <2>5, <2>7, <2>8, <2>9, <2>10, <2>11 DEF TypeOK
<1>2. Phase
  BY DEF Init, Phase
<1>3. initial = <<>> /\ Range(initial) = {} /\ \A w \in Workers : Range(queue[w]) = {}
  BY DEF Init, Range
<1>4. Unprepared \subseteq Entry
  BY TreeAssumption DEF Init, Unprepared
<1>5. OnePlace
  <2>1. IsInjective(initial) /\ \A w \in Workers : IsInjective(queue[w])
    BY DEF Init, IsInjective
  <2> QED BY <1>3, <1>4, <2>1, TreeAssumption DEF Init, OnePlace
<1>6. Waiting
  BY <1>3, <1>4 DEF Init, Waiting, Fresh, Untouched
<1>7. Undiscovered
  BY <1>3, TreeAssumption DEF Init, Undiscovered, Fresh, Untouched
<1>8. \A w \in Workers : Handling(w) /\ EmptyHanded(w) /\ IdlePlace(w)
  BY DEF Init, Handling, EmptyHanded, IdlePlace
<1> QED
  BY <1>1, <1>2, <1>5, <1>6, <1>7, <1>8 DEF IInv

-----------------------------------------------------------------------------
(***************************************************************************)
(* Steps that move a thread and no entry.                                  *)
(***************************************************************************)

LEMMA DataKept ==
    ASSUME IInv,
           UNCHANGED <<fate, nextRoot, initial, queue, work, todo, delivered, errors, pruned, listed>>
    PROVE  OnePlace' /\ Waiting' /\ Undiscovered'
<1>1. OnePlace'
  BY DEF IInv, OnePlace, Unprepared
<1>2. Waiting'
  BY DEF IInv, Waiting, Unprepared, Fresh, Ready, Untouched
<1>3. Undiscovered'
  BY DEF IInv, Undiscovered, Fresh, Untouched
<1> QED
  BY <1>1, <1>2, <1>3

\* The last root has been prepared.
LEMMA PreparationDoneInv ==
    ASSUME IInv, PreparationDone
    PROVE  IInv'
<1>1. TypeOK'
  BY DEF IInv, TypeOK, PreparationDone, Goto, fsVars, mainVars, queueVars, seenVars, runVars, workerVars
<1>2. Phase'
  BY RootFacts DEF IInv, TypeOK, Phase, PreparationDone, Goto, fsVars, mainVars, queueVars, seenVars, runVars, workerVars
<1>3. OnePlace' /\ Waiting' /\ Undiscovered'
  BY DataKept DEF PreparationDone, fsVars, mainVars, queueVars, seenVars, runVars, workerVars
<1>4. ASSUME NEW u \in Workers PROVE (Handling(u) /\ EmptyHanded(u) /\ IdlePlace(u))'
  BY DEF IInv, TypeOK, Phase, Handling, EmptyHanded, IdlePlace, Ready, Untouched, Settled, PreparationDone, Goto,
         fsVars, mainVars, queueVars, seenVars, runVars, workerVars
<1> QED
  BY <1>1, <1>2, <1>3, <1>4 DEF IInv

\* Every worker has left.
LEMMA JoinInv ==
    ASSUME IInv, Join
    PROVE  IInv'
<1>1. TypeOK'
  BY DEF IInv, TypeOK, Join, Goto, fsVars, mainVars, queueVars, seenVars, runVars, workerVars
<1>2. Phase'
  BY DEF IInv, TypeOK, Phase, Join, Goto, fsVars, mainVars, queueVars, seenVars, runVars, workerVars
<1>3. OnePlace' /\ Waiting' /\ Undiscovered'
  BY DataKept DEF Join, fsVars, mainVars, queueVars, seenVars, runVars, workerVars
<1>4. ASSUME NEW u \in Workers PROVE (Handling(u) /\ EmptyHanded(u) /\ IdlePlace(u))'
  BY DEF IInv, TypeOK, Phase, Handling, EmptyHanded, IdlePlace, Ready, Untouched, Settled, Join, Goto,
         fsVars, mainVars, queueVars, seenVars, runVars, workerVars
<1> QED
  BY <1>1, <1>2, <1>3, <1>4 DEF IInv

\* A thief takes its first mutex.
LEMMA LockFirstInv ==
    ASSUME IInv, NEW w \in Workers, LockFirst(w)
    PROVE  IInv'
<1>1. TypeOK'
  BY DEF IInv, TypeOK, LockFirst, Goto, fsVars, mainVars, queueVars, seenVars, runVars, workerVars
<1>2. Phase'
  BY DEF IInv, TypeOK, Phase, LockFirst, Goto, fsVars, mainVars, queueVars, seenVars, runVars, workerVars
<1>3. OnePlace' /\ Waiting' /\ Undiscovered'
  BY DataKept DEF LockFirst, fsVars, mainVars, queueVars, seenVars, runVars, workerVars
<1>4. ASSUME NEW u \in Workers PROVE (Handling(u) /\ EmptyHanded(u) /\ IdlePlace(u))'
  BY DEF IInv, TypeOK, Phase, Handling, EmptyHanded, IdlePlace, Ready, Untouched, Settled, LockFirst, Goto,
         fsVars, mainVars, queueVars, seenVars, runVars, workerVars
<1> QED
  BY <1>1, <1>2, <1>3, <1>4 DEF IInv

\* A worker stops counting itself.
LEMMA LeaveInv ==
    ASSUME IInv, NEW w \in Workers, Leave(w)
    PROVE  IInv'
<1>1. TypeOK'
  BY DEF IInv, TypeOK, Leave, Goto, fsVars, mainVars, queueVars, seenVars, runVars, workerVars
<1>2. Phase'
  BY DEF IInv, TypeOK, Phase, Leave, Goto, fsVars, mainVars, queueVars, seenVars, runVars, workerVars
<1>3. OnePlace' /\ Waiting' /\ Undiscovered'
  BY DataKept DEF Leave, fsVars, mainVars, queueVars, seenVars, runVars, workerVars
<1>4. ASSUME NEW u \in Workers PROVE (Handling(u) /\ EmptyHanded(u) /\ IdlePlace(u))'
  BY DEF IInv, TypeOK, Phase, Handling, EmptyHanded, IdlePlace, Ready, Untouched, Settled, Leave, Goto,
         fsVars, mainVars, queueVars, seenVars, runVars, workerVars
<1> QED
  BY <1>1, <1>2, <1>3, <1>4 DEF IInv

\* An idle worker reads the counter.
LEMMA CheckActiveInv ==
    ASSUME IInv, NEW w \in Workers, CheckActive(w)
    PROVE  IInv'
<1>1. TypeOK'
  BY DEF IInv, TypeOK, CheckActive, Goto, fsVars, mainVars, queueVars, seenVars, runVars, workerVars
<1>2. Phase'
  BY DEF IInv, TypeOK, Phase, CheckActive, Goto, fsVars, mainVars, queueVars, seenVars, runVars, workerVars
<1>3. OnePlace' /\ Waiting' /\ Undiscovered'
  BY DataKept DEF CheckActive, fsVars, mainVars, queueVars, seenVars, runVars, workerVars
<1>4. ASSUME NEW u \in Workers PROVE (Handling(u) /\ EmptyHanded(u) /\ IdlePlace(u))'
  BY DEF IInv, TypeOK, Phase, Handling, EmptyHanded, IdlePlace, Ready, Untouched, Settled, CheckActive, Goto,
         fsVars, mainVars, queueVars, seenVars, runVars, workerVars
<1> QED
  BY <1>1, <1>2, <1>3, <1>4 DEF IInv

\* An idle worker reads the stop flag.
LEMMA CheckStopIdleInv ==
    ASSUME IInv, NEW w \in Workers, CheckStopIdle(w)
    PROVE  IInv'
<1>1. TypeOK'
  BY DEF IInv, TypeOK, CheckStopIdle, Goto, fsVars, mainVars, queueVars, seenVars, runVars, workerVars
<1>2. Phase'
  BY DEF IInv, TypeOK, Phase, CheckStopIdle, Goto, fsVars, mainVars, queueVars, seenVars, runVars, workerVars
<1>3. OnePlace' /\ Waiting' /\ Undiscovered'
  BY DataKept DEF CheckStopIdle, fsVars, mainVars, queueVars, seenVars, runVars, workerVars
<1>4. ASSUME NEW u \in Workers PROVE (Handling(u) /\ EmptyHanded(u) /\ IdlePlace(u))'
  BY DEF IInv, TypeOK, Phase, Handling, EmptyHanded, IdlePlace, Ready, Untouched, Settled, CheckStopIdle, Goto,
         fsVars, mainVars, queueVars, seenVars, runVars, workerVars
<1> QED
  BY <1>1, <1>2, <1>3, <1>4 DEF IInv

\* An idle worker that took work counts itself again.
LEMMA WakeInv ==
    ASSUME IInv, NEW w \in Workers, Wake(w)
    PROVE  IInv'
<1>1. TypeOK'
  BY SMTT(30) DEF IInv, TypeOK, Wake, Goto, fsVars, mainVars, queueVars, seenVars, runVars, workerVars
<1>2. Phase'
  BY DEF IInv, TypeOK, Phase, Wake, Goto, fsVars, mainVars, queueVars, seenVars, runVars, workerVars
<1>3. OnePlace' /\ Waiting' /\ Undiscovered'
  BY DataKept DEF Wake, fsVars, mainVars, queueVars, seenVars, runVars, workerVars
<1>4. ASSUME NEW u \in Workers PROVE (Handling(u) /\ EmptyHanded(u) /\ IdlePlace(u))'
  BY DEF IInv, TypeOK, Phase, Handling, EmptyHanded, IdlePlace, Ready, Untouched, Settled, Wake, Goto,
         fsVars, mainVars, queueVars, seenVars, runVars, workerVars
<1> QED
  BY <1>1, <1>2, <1>3, <1>4 DEF IInv

\* Every child was handled.
LEMMA ChildrenDoneInv ==
    ASSUME IInv, NEW w \in Workers, ChildrenDone(w)
    PROVE  IInv'
<1>1. TypeOK'
  BY DEF IInv, TypeOK, ChildrenDone, Goto, fsVars, mainVars, queueVars, seenVars, runVars, workerVars
<1>2. Phase'
  BY DEF IInv, TypeOK, Phase, ChildrenDone, Goto, fsVars, mainVars, queueVars, seenVars, runVars, workerVars
<1>3. OnePlace' /\ Waiting' /\ Undiscovered'
  BY DataKept DEF ChildrenDone, fsVars, mainVars, queueVars, seenVars, runVars, workerVars
<1>4. ASSUME NEW u \in Workers PROVE (Handling(u) /\ EmptyHanded(u) /\ IdlePlace(u))'
  BY DEF IInv, TypeOK, Phase, Handling, EmptyHanded, IdlePlace, Ready, Untouched, Settled, ChildrenDone, Goto,
         fsVars, mainVars, queueVars, seenVars, runVars, workerVars
<1> QED
  BY <1>1, <1>2, <1>3, <1>4 DEF IInv

-----------------------------------------------------------------------------
(***************************************************************************)
(* Steps that move an entry from a place to another.                       *)
(***************************************************************************)

\* What the places hold are entries.
LEMMA PlacesTyped ==
    ASSUME TypeOK
    PROVE  /\ Unprepared \subseteq RootSet /\ RootSet \subseteq Entry
           /\ Range(initial) \subseteq Entry
           /\ \A w \in Workers : Range(queue[w]) \subseteq Entry /\ todo[w] \subseteq Entry
           /\ NoEntry \notin Entry
<1>1. Unprepared \subseteq RootSet /\ RootSet \subseteq Entry
  BY RootFacts DEF TypeOK, Unprepared, RootSet
<1>2. Range(initial) \subseteq Entry
  BY DEF TypeOK, Range
<1>3. ASSUME NEW w \in Workers PROVE Range(queue[w]) \subseteq Entry /\ todo[w] \subseteq Entry
  <2>1. queue[w] \in Seq(Entry) /\ todo[w] \in SUBSET Entry
    BY DEF TypeOK
  <2> QED BY <2>1 DEF Range
<1> QED
  BY <1>1, <1>2, <1>3, TreeAssumption

\* A worker lets go of its entry.
LEMMA WorkReleased ==
    ASSUME IInv, NEW w \in Workers,
           work' = [work EXCEPT ![w] = NoEntry],
           UNCHANGED <<fate, nextRoot, initial, queue, todo, delivered, errors, pruned, listed>>
    PROVE  OnePlace' /\ Waiting' /\ Undiscovered'
<1>1. /\ work'[w] = NoEntry
      /\ \A u \in Workers : u # w => work'[u] = work[u]
  BY DEF IInv, TypeOK
<1>2. OnePlace'
  BY ZenonT(40), <1>1, PlacesTyped DEF IInv, OnePlace, Unprepared
<1>3. Waiting'
  BY DEF IInv, Waiting, Unprepared, Fresh, Ready, Untouched
<1>4. Undiscovered'
  BY <1>1, PlacesTyped DEF IInv, Undiscovered, Fresh, Untouched
<1> QED
  BY <1>2, <1>3, <1>4

\* The worker's loop starts over.
LEMMA CheckStopInv ==
    ASSUME IInv, NEW w \in Workers, CheckStop(w)
    PROVE  IInv'
<1>1. TypeOK'
  BY DEF IInv, TypeOK, CheckStop, Goto, fsVars, mainVars, queueVars, seenVars
<1>2. Phase'
  BY DEF IInv, TypeOK, Phase, CheckStop, Goto, fsVars, mainVars, queueVars, seenVars
<1>3. OnePlace' /\ Waiting' /\ Undiscovered'
  BY WorkReleased DEF CheckStop, fsVars, mainVars, queueVars, seenVars
<1>4. ASSUME NEW u \in Workers PROVE (Handling(u) /\ EmptyHanded(u) /\ IdlePlace(u))'
  BY DEF IInv, TypeOK, Phase, Handling, EmptyHanded, IdlePlace, Ready, Untouched, Settled, CheckStop, Goto,
         fsVars, mainVars, queueVars, seenVars
<1> QED
  BY <1>1, <1>2, <1>3, <1>4 DEF IInv

\* The visitor's quit reaches the flag.
LEMMA StoreStopInv ==
    ASSUME IInv, NEW w \in Workers, StoreStop(w)
    PROVE  IInv'
<1>1. TypeOK'
  BY DEF IInv, TypeOK, StoreStop, Goto, fsVars, mainVars, queueVars, seenVars
<1>2. Phase'
  BY DEF IInv, TypeOK, Phase, Handling, StoreStop, Goto, fsVars, mainVars, queueVars, seenVars
<1>3. OnePlace' /\ Waiting' /\ Undiscovered'
  BY WorkReleased DEF StoreStop, fsVars, mainVars, queueVars, seenVars
<1>4. ASSUME NEW u \in Workers PROVE (Handling(u) /\ EmptyHanded(u) /\ IdlePlace(u))'
  BY DEF IInv, TypeOK, Phase, Handling, EmptyHanded, IdlePlace, Ready, Untouched, Settled, StoreStop, Goto,
         fsVars, mainVars, queueVars, seenVars
<1> QED
  BY <1>1, <1>2, <1>3, <1>4 DEF IInv

\* A worker that does not move keeps its place if nothing was done for its entry.
LEMMA HandlingKept ==
    ASSUME IInv, NEW u \in Workers, fate' = fate, quit => quit',
           pc'[u] = pc[u], work'[u] = work[u], todo'[u] = todo[u],
           work[u] \in Entry => /\ delivered'[work[u]] = delivered[work[u]]
                                /\ errors'[work[u]] = errors[work[u]]
                                /\ work[u] \in pruned' <=> work[u] \in pruned
                                /\ work[u] \in listed' <=> work[u] \in listed
    PROVE  Handling(u)'
<1>1. CASE work[u] \in Entry
  <2>1. Settled(work[u]) => Settled(work[u])'
    BY <1>1 DEF Settled, ErrorsDue, ListingDue
  <2>2. Untouched(work[u]) => Untouched(work[u])'
    BY <1>1 DEF Untouched
  <2>3. Ready(work[u]) => Ready(work[u])'
    BY <1>1, <2>2 DEF Ready
  <2>4. /\ errors'[work'[u]] = errors[work[u]] /\ delivered'[work'[u]] = delivered[work[u]]
        /\ work'[u] \in pruned' <=> work[u] \in pruned
        /\ work'[u] \in listed' <=> work[u] \in listed
    BY <1>1
  <2> QED BY <2>1, <2>2, <2>3, <2>4 DEF IInv, Handling
<1>2. CASE work[u] \notin Entry
  <2>1. work[u] = NoEntry /\ NoEntry \notin Entry
    BY <1>2, TreeAssumption DEF IInv, TypeOK
  <2> QED BY <2>1 DEF IInv, Handling
<1> QED
  BY <1>1, <1>2

\* A worker takes e out of the queues, and the other items keep to the queues.
LEMMA WorkTaken ==
    ASSUME IInv, NEW w \in Workers, NEW e \in Entry,
           work' = [work EXCEPT ![w] = e],
           UNCHANGED <<fate, nextRoot, initial, todo, delivered, errors, pruned, listed>>,
           \A u \in Workers : IsInjective(queue'[u]),
           \A u, v \in Workers : u # v => Range(queue'[u]) \cap Range(queue'[v]) = {},
           \A u \in Workers : e \notin Range(queue'[u]),
           \A u \in Workers : \A x \in Range(queue'[u]) : \E v \in Workers : x \in Range(queue[v]),
           \E v \in Workers : e \in Range(queue[v])
    PROVE  OnePlace' /\ Waiting' /\ Undiscovered' /\ Ready(e)
<1>1. /\ work'[w] = e
      /\ \A u \in Workers : u # w => work'[u] = work[u]
  BY DEF IInv, TypeOK
<1>2. Unprepared' = Unprepared
  BY DEF Unprepared
<1>3. /\ \A u \in Workers : e \notin Unprepared /\ e \notin todo[u] /\ e # work[u]
      /\ \A u, v \in Workers : \A x \in Range(queue'[u]) :
            x \notin Unprepared /\ x \notin todo[v] /\ x # work[v]
  BY DEF IInv, OnePlace
<1>4. OnePlace'
  <2>1. IsInjective(initial)' /\ \A x \in Range(initial)' : x \in RootSet /\ x \notin Unprepared'
    BY <1>2 DEF IInv, OnePlace
  <2>2. ASSUME NEW u \in Workers
        PROVE  /\ IsInjective(queue'[u])
               /\ Unprepared' \cap Range(queue'[u]) = {}
               /\ work'[u] \notin Unprepared'
               /\ todo'[u] \cap RootSet = {}
    BY <1>1, <1>2, <1>3 DEF IInv, OnePlace
  <2>3. ASSUME NEW u \in Workers, NEW v \in Workers
        PROVE  /\ Range(queue'[u]) \cap todo'[v] = {}
               /\ work'[v] \notin Range(queue'[u])
               /\ work'[v] \notin todo'[u]
               /\ u # v => /\ Range(queue'[u]) \cap Range(queue'[v]) = {}
                           /\ todo'[u] \cap todo'[v] = {}
                           /\ work'[u] = NoEntry \/ work'[u] # work'[v]
    BY <1>1, <1>3 DEF IInv, OnePlace
  <2> QED BY <2>1, <2>2, <2>3 DEF OnePlace
<1>5. Waiting'
  BY <1>2 DEF IInv, Waiting, Fresh, Ready, Untouched
<1>6. Undiscovered'
  BY <1>1 DEF IInv, Undiscovered, Fresh, Untouched
<1> QED
  BY <1>4, <1>5, <1>6 DEF IInv, Waiting

\* The worker's own queue is popped, or found empty.
LEMMA TakeOwnInv ==
    ASSUME IInv, NEW w \in Workers, TakeOwn(w)
    PROVE  IInv'
<1> USE DEF fsVars, mainVars, seenVars, FirstOffset
<1>1. CASE queue[w] # <<>>
  <2> DEFINE e == queue[w][Len(queue[w])]
             q == SubSeq(queue[w], 1, Len(queue[w]) - 1)
  <2>1. /\ pc[w] = "take"
        /\ work' = [work EXCEPT ![w] = e]
        /\ queue' = [queue EXCEPT ![w] = q]
        /\ pc' = [pc EXCEPT ![w] = IF idle[w] THEN "wake" ELSE "run"]
        /\ late' = [late EXCEPT ![w] = IF stop THEN @ + 1 ELSE @]
        /\ UNCHANGED <<fate, mainPc, nextRoot, initial, earlyQuit, offset, lock, idle, todo, active, stop,
                       delivered, errors, pruned, listed, quit>>
    BY <1>1 DEF TakeOwn, Take, Goto
  <2>2. queue[w] \in Seq(Entry)
    BY DEF IInv, TypeOK
  <2>3. /\ q \in Seq(Entry) /\ e \in Entry
        /\ Range(queue[w]) = Range(q) \cup {e}
        /\ IsInjective(q) /\ e \notin Range(q)
    BY <1>1, <2>2, PopBack DEF IInv, OnePlace
  <2> HIDE DEF e, q
  <2>4. queue'[w] = q /\ \A u \in Workers : u # w => queue'[u] = queue[u]
    BY <2>1 DEF IInv, TypeOK
  <2>5. TypeOK'
    <3>1. TypeOK
      BY DEF IInv
    <3>2. queue' \in [Workers -> Seq(Entry)] /\ work' \in [Workers -> Entry \cup {NoEntry}]
      BY <2>1, <2>3, <3>1 DEF TypeOK
    <3>3. late' \in [Workers -> Nat]
      BY <2>1, <3>1 DEF TypeOK
    <3> QED BY <2>1, <3>1, <3>2, <3>3 DEF TypeOK
  <2>6. Phase'
    BY <2>1 DEF IInv, TypeOK, Phase
  <2>7. OnePlace' /\ Waiting' /\ Undiscovered' /\ Ready(e)
    <3>1. \A u \in Workers : IsInjective(queue'[u])
      BY <2>3, <2>4 DEF IInv, OnePlace
    <3>2. \A u, v \in Workers : u # v => Range(queue'[u]) \cap Range(queue'[v]) = {}
      BY <2>3, <2>4 DEF IInv, OnePlace
    <3>3. \A u \in Workers : e \notin Range(queue'[u])
      BY <2>3, <2>4 DEF IInv, OnePlace
    <3>4. \A u \in Workers : \A x \in Range(queue'[u]) : \E v \in Workers : x \in Range(queue[v])
      BY <2>3, <2>4
    <3>5. \E v \in Workers : e \in Range(queue[v])
      BY <2>3
    <3> QED BY <2>1, <2>3, <3>1, <3>2, <3>3, <3>4, <3>5, WorkTaken
  <2>8. ASSUME NEW u \in Workers PROVE (Handling(u) /\ EmptyHanded(u) /\ IdlePlace(u))'
    <3>1. CASE u = w
      <4>1. pc'[u] = (IF idle[u] THEN "wake" ELSE "run") /\ work'[u] = e /\ idle'[u] = idle[u] /\ todo'[u] = {}
        BY <2>1, <3>1 DEF IInv, TypeOK, Handling
      <4> QED BY <2>1, <2>3, <2>7, <3>1, <4>1 DEF Handling, EmptyHanded, IdlePlace, Ready, Untouched
    <3>2. CASE u # w
      <4>1. pc'[u] = pc[u] /\ work'[u] = work[u] /\ todo'[u] = todo[u]
        BY <2>1, <3>2 DEF IInv, TypeOK
      <4>2. Handling(u)'
        BY <2>1, <4>1, HandlingKept
      <4> QED BY <2>1, <2>4, <3>2, <4>1, <4>2 DEF IInv, EmptyHanded, IdlePlace
    <3> QED BY <3>1, <3>2
  <2> QED BY <2>5, <2>6, <2>7, <2>8 DEF IInv
<1>2. CASE queue[w] = <<>>
  <2>1. /\ pc[w] = "take"
        /\ pc' = [pc EXCEPT ![w] = "steal"]
        /\ offset' = [offset EXCEPT ![w] = 1]
        /\ UNCHANGED <<fate, mainPc, nextRoot, initial, earlyQuit, queue, lock, idle, work, todo, active, stop,
                       delivered, errors, pruned, listed, quit, late>>
    BY <1>2 DEF TakeOwn, Goto
  <2>2. TypeOK'
    <3>1. 1 \in 1 .. WorkerCount - 1
      BY WorkerFacts
    <3> QED BY <2>1, <3>1 DEF IInv, TypeOK
  <2>3. Phase'
    BY <2>1 DEF IInv, TypeOK, Phase
  <2>4. OnePlace' /\ Waiting' /\ Undiscovered'
    BY <2>1, DataKept
  <2>5. ASSUME NEW u \in Workers PROVE (Handling(u) /\ EmptyHanded(u) /\ IdlePlace(u))'
    BY <1>2, <2>1 DEF IInv, TypeOK, Phase, Handling, EmptyHanded, IdlePlace, Ready, Untouched, Settled
  <2> QED BY <2>2, <2>3, <2>4, <2>5 DEF IInv
<1> QED
  BY <1>1, <1>2

\* Half of the victim's queue changes hands, or the scan goes on.
LEMMA StealInv ==
    ASSUME IInv, NEW w \in Workers, Steal(w)
    PROVE  IInv'
<1> USE DEF fsVars, mainVars, seenVars
<1> DEFINE v == Victim(w)
           n == Len(queue[v])
<1>1. v \in Workers /\ v # w /\ pc[w] = "pair" /\ queue[w] = <<>> /\ n \in Nat /\ queue[v] \in Seq(Entry)
  BY VictimOther DEF IInv, TypeOK, EmptyHanded, Steal
<1>2. lock' = [lock EXCEPT ![First(w)] = NoLock]
  BY DEF Steal
<1>3. lock' \in [Workers -> Workers \cup {NoLock}]
  BY <1>2 DEF IInv, TypeOK
<1>4. CASE n > 0
  <2> DEFINE k == StealCount(n)
             e == queue[v][1]
             a == SubSeq(queue[v], 2, k)
             b == SubSeq(queue[v], k + 1, n)
  <2>1. k \in 1 .. n
    BY <1>1, <1>4, StealCountBound
  <2>2. /\ work' = [work EXCEPT ![w] = e]
        /\ queue' = [queue EXCEPT ![w] = queue[w] \o a, ![v] = b]
        /\ pc' = [pc EXCEPT ![w] = IF idle[w] THEN "wake" ELSE "run"]
        /\ late' = [late EXCEPT ![w] = IF stop THEN @ + 1 ELSE @]
        /\ UNCHANGED <<fate, mainPc, nextRoot, initial, earlyQuit, offset, idle, todo, active, stop,
                       delivered, errors, pruned, listed, quit>>
    BY <1>1, <1>4 DEF Steal, Take, Goto, IInv, TypeOK
  <2>3. /\ a \in Seq(Entry) /\ b \in Seq(Entry) /\ e \in Entry
        /\ Range(queue[v]) = {e} \cup Range(a) \cup Range(b)
        /\ IsInjective(a) /\ IsInjective(b)
        /\ Range(a) \cap Range(b) = {}
        /\ e \notin Range(a) \cup Range(b)
    BY <1>1, <2>1, Split DEF IInv, OnePlace
  <2> HIDE DEF v, n, k, e, a, b
  <2>4. queue[w] \o a = a
    BY <1>1, <2>3
  <2>5. queue'[w] = a /\ queue'[v] = b /\ \A u \in Workers : u # w /\ u # v => queue'[u] = queue[u]
    BY <1>1, <2>2, <2>4 DEF IInv, TypeOK
  <2>6. TypeOK'
    <3>1. queue' \in [Workers -> Seq(Entry)]
      BY <1>1, <2>2, <2>3, <2>4 DEF IInv, TypeOK
    <3>2. pc' \in [Workers -> {"unborn", "loop", "take", "steal", "pair", "leave", "idle", "idleStop",
                              "wake", "run", "visit", "list", "push", "quit", "exited"}]
      BY <2>2 DEF IInv, TypeOK
    <3>3. work' \in [Workers -> Entry \cup {NoEntry}] /\ late' \in [Workers -> Nat]
      BY <2>2, <2>3 DEF IInv, TypeOK
    <3> QED BY <1>3, <2>2, <3>1, <3>2, <3>3 DEF IInv, TypeOK
  <2>7. Phase'
    BY <1>1, <2>2 DEF IInv, TypeOK, Phase
  <2>8. OnePlace' /\ Waiting' /\ Undiscovered' /\ Ready(e)
    <3>1. \A u \in Workers : IsInjective(queue'[u])
      BY <2>3, <2>5 DEF IInv, OnePlace
    <3>2. \A u, x \in Workers : u # x => Range(queue'[u]) \cap Range(queue'[x]) = {}
      BY ZenonT(40), <1>1, <2>3, <2>5 DEF IInv, OnePlace
    <3>3. \A u \in Workers : e \notin Range(queue'[u])
      BY <1>1, <2>3, <2>5 DEF IInv, OnePlace
    <3>4. \A u \in Workers : \A x \in Range(queue'[u]) : \E y \in Workers : x \in Range(queue[y])
      BY <1>1, <2>3, <2>5
    <3>5. \E y \in Workers : e \in Range(queue[y])
      BY <1>1, <2>3
    <3> QED BY <2>2, <2>3, <3>1, <3>2, <3>3, <3>4, <3>5, WorkTaken
  <2>9. queue[v] # <<>>
    BY <1>1, <1>4 DEF n
  <2>10. ASSUME NEW u \in Workers PROVE (Handling(u) /\ EmptyHanded(u) /\ IdlePlace(u))'
    <3>1. CASE u = w
      <4>2. pc'[u] = (IF idle[u] THEN "wake" ELSE "run") /\ work'[u] = e /\ idle'[u] = idle[u]
        BY <2>2, <3>1 DEF IInv, TypeOK
      <4> QED BY <1>1, <2>2, <2>3, <2>8, <4>2, <3>1
              DEF IInv, Handling, EmptyHanded, IdlePlace, Ready, Untouched
    <3>2. CASE u # w
      <4>1. pc'[u] = pc[u] /\ work'[u] = work[u] /\ idle'[u] = idle[u] /\ todo'[u] = todo[u] /\ stop' = stop
        BY <2>2, <3>2 DEF IInv, TypeOK
      <4>2. queue[u] = <<>> => queue'[u] = <<>>
        BY <2>5, <2>9, <3>2
      <4>3. Handling(u)'
        BY <2>2, <4>1 DEF IInv, Handling, Ready, Untouched, Settled
      <4> QED BY <4>1, <4>2, <4>3 DEF IInv, EmptyHanded, IdlePlace
    <3> QED BY <3>1, <3>2
  <2> QED BY <2>6, <2>7, <2>8, <2>10 DEF IInv
<1>5. CASE n = 0
  <2>1. /\ offset' \in [Workers -> 1 .. WorkerCount - 1]
        /\ UNCHANGED <<fate, mainPc, nextRoot, initial, earlyQuit, queue, idle, work, todo, active, stop,
                       delivered, errors, pruned, listed, quit, late>>
    <3>1. UNCHANGED <<fate, mainPc, nextRoot, initial, earlyQuit, idle, todo, active, stop,
                      delivered, errors, pruned, listed, quit>>
      BY DEF Steal
    <3>2. UNCHANGED <<queue, work, late>>
      BY <1>5 DEF Steal, FindNothing
    <3>3. CASE offset[w] < WorkerCount - 1
      <4>1. offset' = [offset EXCEPT ![w] = offset[w] + 1]
        BY <1>5, <3>3 DEF Steal
      <4>3. offset[w] \in 1 .. WorkerCount - 1
        BY DEF IInv, TypeOK
      <4>2. offset[w] + 1 \in 1 .. WorkerCount - 1
        BY <3>3, <4>3, WorkerFacts
      <4> QED BY <3>1, <3>2, <4>1, <4>2 DEF IInv, TypeOK
    <3>4. CASE ~(offset[w] < WorkerCount - 1)
      <4>1. offset' = offset
        BY <1>5, <3>4 DEF Steal
      <4> QED BY <3>1, <3>2, <4>1 DEF IInv, TypeOK
    <3> QED BY <3>3, <3>4
  <2>2. PICK l \in {"steal", "idle", "leave"} : pc' = [pc EXCEPT ![w] = l] /\ (idle[w] => l # "leave")
    BY <1>5 DEF Steal, FindNothing, Goto
  <2>3. TypeOK'
    BY <1>3, <2>1, <2>2 DEF IInv, TypeOK
  <2>4. Phase'
    BY <1>1, <2>1, <2>2 DEF IInv, TypeOK, Phase
  <2>5. OnePlace' /\ Waiting' /\ Undiscovered'
    BY <2>1, DataKept
  <2>6. ASSUME NEW u \in Workers PROVE (Handling(u) /\ EmptyHanded(u) /\ IdlePlace(u))'
    BY <1>1, <2>1, <2>2 DEF IInv, TypeOK, Phase, Handling, EmptyHanded, IdlePlace, Ready, Untouched, Settled
  <2> QED BY <2>3, <2>4, <2>5, <2>6 DEF IInv
<1> QED
  BY <1>1, <1>4, <1>5

\* The next root is prepared, so it was not prepared before and waits nowhere.
LEMMA NextRoot ==
    ASSUME IInv, nextRoot <= Len(Roots), nextRoot' = nextRoot + 1
    PROVE  /\ Roots[nextRoot] \in Unprepared
           /\ Roots[nextRoot] \in RootSet
           /\ Roots[nextRoot] \in Entry
           /\ nextRoot' \in 1 .. Len(Roots) + 1
           /\ Unprepared = Unprepared' \cup {Roots[nextRoot]}
           /\ Roots[nextRoot] \notin Unprepared'
<1>1. nextRoot \in 1 .. Len(Roots) /\ Len(Roots) \in Nat
  BY RootFacts DEF IInv, TypeOK
<1>2. nextRoot .. Len(Roots) = (nextRoot + 1 .. Len(Roots)) \cup {nextRoot}
  BY <1>1
<1>3. Roots[nextRoot] \notin Unprepared'
  BY <1>1, RootFacts DEF Unprepared
<1>4. Unprepared' = {Roots[i] : i \in nextRoot + 1 .. Len(Roots)}
  BY DEF Unprepared
<1>5. Unprepared = Unprepared' \cup {Roots[nextRoot]}
  BY <1>2, <1>4 DEF Unprepared
<1>6. nextRoot' \in 1 .. Len(Roots) + 1
  BY <1>1
<1> QED
  BY <1>1, <1>3, <1>5, <1>6, RootFacts

\* A root is added to the prepared ones, and an error about it may have been
\* reported.
LEMMA RootAdded ==
    ASSUME IInv, nextRoot <= Len(Roots), nextRoot' = nextRoot + 1,
           initial' = Append(initial, Roots[nextRoot]),
           ~NeverQueued(fate, Roots[nextRoot]),
           errors' \in [Entry -> Nat],
           errors'[Roots[nextRoot]] = (IF fate[Roots[nextRoot]] = "partial" THEN 1 ELSE 0),
           \A x \in Entry : x # Roots[nextRoot] => errors'[x] = errors[x],
           UNCHANGED <<fate, queue, work, todo, delivered, pruned, listed>>
    PROVE  OnePlace' /\ Waiting' /\ Undiscovered' /\ initial' \in Seq(Entry)
<1>1. PICK r : r = Roots[nextRoot]
  OBVIOUS
<1>2. /\ r \in Unprepared /\ r \in RootSet /\ r \in Entry
      /\ Unprepared = Unprepared' \cup {r} /\ r \notin Unprepared'
  BY <1>1, NextRoot
<1>3. /\ initial' \in Seq(Entry)
      /\ Range(initial') = Range(initial) \cup {r}
      /\ IsInjective(initial')
  <2>1. initial \in Seq(Entry) /\ IsInjective(initial) /\ r \notin Range(initial)
    BY <1>2 DEF IInv, TypeOK, OnePlace
  <2> QED BY <1>1, <1>2, <2>1, PushBack
<1>4. OnePlace'
  BY <1>2, <1>3, PlacesTyped DEF IInv, OnePlace
<1>5. Waiting'
  <2>1. ASSUME NEW x \in Unprepared' PROVE Fresh(x)'
    BY <1>1, <1>2, <2>1, PlacesTyped DEF IInv, Waiting, Fresh, Untouched
  <2>2. ASSUME NEW x \in Range(initial)' PROVE Ready(x)'
    <3>1. CASE x = r
      BY <1>1, <1>2, <3>1 DEF IInv, Waiting, Fresh, Ready, Untouched
    <3>2. CASE x # r
      BY <1>1, <1>3, <2>2, <3>2, PlacesTyped DEF IInv, Waiting, Ready, Untouched
    <3> QED BY <3>1, <3>2
  <2>3. ASSUME NEW u \in Workers
        PROVE  (\A x \in Range(queue[u]) : Ready(x))' /\ (\A x \in todo[u] : Fresh(x))'
    <3>1. r \notin Range(queue[u]) /\ r \notin todo[u]
      BY <1>2 DEF IInv, OnePlace
    <3> QED BY <1>1, <3>1, PlacesTyped DEF IInv, Waiting, Fresh, Ready, Untouched
  <2> QED BY <2>1, <2>2, <2>3 DEF Waiting
<1>6. Undiscovered'
  BY <1>1, <1>2 DEF IInv, Undiscovered, Fresh, Untouched
<1> QED
  BY <1>3, <1>4, <1>5, <1>6

\* A root was looked at and is not added.
LEMMA RootDropped ==
    ASSUME IInv, nextRoot <= Len(Roots), nextRoot' = nextRoot + 1,
           initial' = initial,
           \A x \in Entry : x # Roots[nextRoot] => errors'[x] = errors[x],
           UNCHANGED <<fate, queue, work, todo, delivered, pruned, listed>>
    PROVE  OnePlace' /\ Waiting' /\ Undiscovered'
<1>1. PICK r : r = Roots[nextRoot]
  OBVIOUS
<1>2. /\ r \in Unprepared /\ r \in RootSet /\ r \in Entry
      /\ Unprepared = Unprepared' \cup {r} /\ r \notin Unprepared'
  BY <1>1, NextRoot
<1>3. OnePlace'
  BY <1>2 DEF IInv, OnePlace
<1>4. Waiting'
  <2>1. ASSUME NEW x \in Unprepared' PROVE Fresh(x)'
    BY <1>1, <1>2, <2>1, PlacesTyped DEF IInv, Waiting, Fresh, Untouched
  <2>2. ASSUME NEW x \in Range(initial)' PROVE Ready(x)'
    BY <1>1, <1>2, <2>2, PlacesTyped DEF IInv, OnePlace, Waiting, Ready, Untouched
  <2>3. ASSUME NEW u \in Workers
        PROVE  (\A x \in Range(queue[u]) : Ready(x))' /\ (\A x \in todo[u] : Fresh(x))'
    <3>1. r \notin Range(queue[u]) /\ r \notin todo[u]
      BY <1>2 DEF IInv, OnePlace
    <3> QED BY <1>1, <3>1, PlacesTyped DEF IInv, Waiting, Fresh, Ready, Untouched
  <2> QED BY <2>1, <2>2, <2>3 DEF Waiting
<1>5. Undiscovered'
  BY <1>1, <1>2 DEF IInv, Undiscovered, Fresh, Untouched
<1> QED
  BY <1>3, <1>4, <1>5

\* While the main thread prepares roots, no worker has anything.
LEMMA WorkersUnborn ==
    ASSUME IInv, mainPc \in {"prepare", "deal"}, mainPc' \in {"prepare", "deal"},
           UNCHANGED <<queue, pc, idle, work, todo, stop>>
    PROVE  \A u \in Workers : (Handling(u) /\ EmptyHanded(u) /\ IdlePlace(u))'
BY DEF IInv, Phase, Handling, EmptyHanded, IdlePlace

\* The next root is prepared.
LEMMA PrepareRootInv ==
    ASSUME IInv, PrepareRoot
    PROVE  IInv'
<1> USE DEF fsVars, mainVars, queueVars, seenVars, workerVars
<1>1. /\ nextRoot <= Len(Roots) /\ nextRoot' = nextRoot + 1
      /\ initial' = Append(initial, Roots[nextRoot])
      /\ mainPc = "prepare"
      /\ UNCHANGED <<fate, mainPc, earlyQuit, queue, lock, pc, offset, idle, work, todo, active, stop, late,
                     delivered, errors, pruned, listed, quit>>
  BY DEF PrepareRoot
<1>2. fate[Roots[nextRoot]] \in {"file", "dir", "unreadable"}
  <2>1. fate[Roots[nextRoot]] \in RootFate
    BY <1>1, NextRoot, FateAssumption DEF IInv, TypeOK, FateFunctions
  <2> QED BY <2>1 DEF PrepareRoot, RootFate
<1>3. errors[Roots[nextRoot]] = 0 /\ errors \in [Entry -> Nat]
  BY <1>1, NextRoot DEF IInv, TypeOK, Waiting, Fresh
<1>4. OnePlace' /\ Waiting' /\ Undiscovered' /\ initial' \in Seq(Entry)
  BY <1>1, <1>2, <1>3, RootAdded DEF NeverQueued
<1>5. TypeOK'
  BY <1>1, <1>4, NextRoot DEF IInv, TypeOK
<1>6. Phase'
  BY <1>1 DEF IInv, Phase
<1>7. \A u \in Workers : (Handling(u) /\ EmptyHanded(u) /\ IdlePlace(u))'
  BY <1>1, WorkersUnborn
<1> QED
  BY <1>4, <1>5, <1>6, <1>7 DEF IInv

\* The next root has an error.
LEMMA PrepareFailingRootInv ==
    ASSUME IInv, PrepareFailingRoot
    PROVE  IInv'
<1> USE DEF fsVars, queueVars, workerVars
<1>r. PICK r : r = Roots[nextRoot]
  OBVIOUS
<1>1. PICK answer \in Answers :
        /\ r = Roots[nextRoot]
        /\ mainPc = "prepare" /\ nextRoot <= Len(Roots) /\ nextRoot' = nextRoot + 1
        /\ fate[r] \in {"broken", "nodev", "partial"}
        /\ errors' = [errors EXCEPT ![r] = errors[r] + 1]
        /\ quit' = (quit \/ answer = "quit")
        /\ mainPc' = IF answer = "quit" THEN "deal" ELSE mainPc
        /\ initial' = IF fate[r] = "partial" /\ answer # "quit" THEN Append(initial, r) ELSE initial
        /\ earlyQuit' = (answer = "quit")
        /\ UNCHANGED <<fate, queue, lock, pc, offset, idle, work, todo, active, stop, late,
                       delivered, pruned, listed>>
  BY <1>r DEF PrepareFailingRoot, VisitError
<1>2. r \in Entry /\ errors[r] = 0 /\ errors \in [Entry -> Nat]
  BY <1>1, NextRoot DEF IInv, TypeOK, Waiting, Fresh
<1>3. /\ errors' \in [Entry -> Nat] /\ errors'[r] = 1
      /\ \A x \in Entry : x # r => errors'[x] = errors[x]
  BY <1>1, <1>2
<1>4. OnePlace' /\ Waiting' /\ Undiscovered' /\ initial' \in Seq(Entry)
  <2>1. CASE fate[r] = "partial" /\ answer # "quit"
    BY <1>1, <1>3, <2>1, RootAdded DEF NeverQueued
  <2>2. CASE ~(fate[r] = "partial" /\ answer # "quit")
    BY <1>1, <1>3, <2>2, RootDropped DEF IInv, TypeOK
  <2> QED BY <2>1, <2>2
<1>5. quit' \in BOOLEAN /\ earlyQuit' \in BOOLEAN
  <2>1. quit' = (quit \/ answer = "quit") /\ earlyQuit' = (answer = "quit")
    BY <1>1
  <2> QED BY <2>1, Zenon
<1>6. TypeOK'
  BY <1>1, <1>3, <1>4, <1>5, NextRoot DEF IInv, TypeOK
<1>7. Phase'
  BY <1>1 DEF IInv, Phase
<1>8. \A u \in Workers : (Handling(u) /\ EmptyHanded(u) /\ IdlePlace(u))'
  BY <1>1, WorkersUnborn
<1> QED
  BY <1>4, <1>6, <1>7, <1>8 DEF IInv

\* The prepared roots are dealt and the workers started, or there are none.
LEMMA DealInv ==
    ASSUME IInv, Deal
    PROVE  IInv'
<1> USE DEF fsVars, seenVars
<1>1. /\ mainPc = "deal" /\ initial' = <<>>
      /\ UNCHANGED <<fate, nextRoot, earlyQuit, lock, offset, idle, work, todo, stop, late,
                     delivered, errors, pruned, listed, quit>>
  BY DEF Deal
<1>2. /\ initial \in Seq(Entry) /\ initial' \in Seq(Entry)
      /\ Range(initial') = {} /\ IsInjective(initial')
  BY <1>1 DEF IInv, TypeOK, Range, IsInjective
<1>3. \A u \in Workers : /\ pc[u] = "unborn" /\ ~idle[u] /\ queue[u] = <<>> /\ todo[u] = {}
                         /\ work[u] = NoEntry
  BY <1>1 DEF IInv, Phase, Handling
<1>4. Unprepared' = Unprepared
  BY <1>1 DEF Unprepared
<1>5. CASE initial = <<>>
  <2>1. mainPc' = "joined" /\ UNCHANGED <<initial, queue, pc, active>>
    BY <1>1, <1>5 DEF Deal
  <2>2. TypeOK'
    BY <1>1, <2>1 DEF IInv, TypeOK
  <2>3. Phase'
    BY <1>1, <2>1 DEF IInv, Phase
  <2>4. OnePlace' /\ Waiting' /\ Undiscovered'
    BY <1>1, <2>1, DataKept
  <2>5. \A u \in Workers : (Handling(u) /\ EmptyHanded(u) /\ IdlePlace(u))'
    BY <1>1, <1>3, <2>1 DEF Handling, EmptyHanded, IdlePlace
  <2> QED BY <2>2, <2>3, <2>4, <2>5 DEF IInv
<1>6. CASE initial # <<>>
  <2>1. /\ mainPc' = "walking"
        /\ queue' = [w \in Workers |-> Dealt(initial, w)]
        /\ pc' = [w \in Workers |-> "loop"]
        /\ active' = WorkerCount
    BY <1>6 DEF Deal
  <2>2. /\ \A u \in Workers : queue'[u] = Dealt(initial, u) /\ queue'[u] \in Seq(Entry) /\ IsInjective(queue'[u])
        /\ (UNION {Range(queue'[u]) : u \in Workers}) = Range(initial)
        /\ \A u, w \in Workers : u # w => Range(queue'[u]) \cap Range(queue'[w]) = {}
    <3>1. /\ \A w \in Workers : Dealt(initial, w) \in Seq(Entry) /\ IsInjective(Dealt(initial, w))
          /\ (UNION {Range(Dealt(initial, w)) : w \in Workers}) = Range(initial)
          /\ \A u, w \in Workers : u # w => Range(Dealt(initial, u)) \cap Range(Dealt(initial, w)) = {}
      BY <1>2, DealFacts DEF IInv, OnePlace
    <3>2. \A u \in Workers : queue'[u] = Dealt(initial, u)
      BY <2>1
    <3> QED BY <3>1, <3>2
  <2>3. \A u \in Workers : Range(queue'[u]) \subseteq Range(initial)
    BY <2>2
  <2>4. TypeOK'
    <3>1. queue' \in [Workers -> Seq(Entry)]
      BY <2>1, <2>2
    <3>2. active' \in Int
      BY <2>1, WorkerFacts
    <3> QED BY <1>1, <1>2, <2>1, <3>1, <3>2 DEF IInv, TypeOK
  <2>5. Phase'
    BY <1>1, <2>1 DEF IInv, Phase
  <2>6. OnePlace'
    <3>1. \A u \in Workers : work'[u] = NoEntry /\ todo'[u] = {}
      BY <1>1, <1>3
    <3>2. \A x \in Range(initial) : x \in Entry /\ x # NoEntry /\ x \notin Unprepared
      BY PlacesTyped DEF IInv, OnePlace
    <3>3. NoEntry \notin Unprepared'
      BY <1>4, PlacesTyped DEF IInv
    <3>4. ASSUME NEW u \in Workers
          PROVE  /\ IsInjective(queue'[u])
                 /\ Unprepared' \cap Range(queue'[u]) = {}
                 /\ work'[u] \notin Unprepared'
                 /\ todo'[u] \cap RootSet = {}
      BY <1>4, <2>2, <2>3, <3>1, <3>2, <3>3
    <3>5. ASSUME NEW u \in Workers, NEW v \in Workers
          PROVE  /\ Range(queue'[u]) \cap todo'[v] = {}
                 /\ work'[v] \notin Range(queue'[u])
                 /\ work'[v] \notin todo'[u]
                 /\ u # v => /\ Range(queue'[u]) \cap Range(queue'[v]) = {}
                             /\ todo'[u] \cap todo'[v] = {}
                             /\ work'[u] = NoEntry \/ work'[u] # work'[v]
      BY ZenonT(40), <2>2, <2>3, <3>1, <3>2
    <3> QED BY <1>2, <3>4, <3>5 DEF OnePlace
  <2>7. Waiting'
    BY <1>1, <1>2, <1>3, <1>4, <2>3 DEF IInv, Waiting, Fresh, Ready, Untouched
  <2>8. Undiscovered'
    BY <1>1, <1>3, <2>3 DEF IInv, OnePlace, Undiscovered, Fresh, Untouched
  <2>9. \A u \in Workers : (Handling(u) /\ EmptyHanded(u) /\ IdlePlace(u))'
    BY <1>1, <1>3, <2>1 DEF Handling, EmptyHanded, IdlePlace
  <2> QED BY <2>4, <2>5, <2>6, <2>7, <2>8, <2>9 DEF IInv
<1> QED
  BY <1>5, <1>6

-----------------------------------------------------------------------------
(***************************************************************************)
(* run_one: something is done for the entry in hand.                       *)
(***************************************************************************)

\* The entry in hand is delivered or reported.
LEMMA WorkServed ==
    ASSUME IInv, NEW w \in Workers, work[w] \in Entry,
           UNCHANGED <<fate, nextRoot, initial, queue, work, todo, listed>>,
           \A x \in Entry : x # work[w] => /\ delivered'[x] = delivered[x] /\ errors'[x] = errors[x]
                                           /\ x \in pruned' <=> x \in pruned
    PROVE  OnePlace' /\ Waiting' /\ Undiscovered'
<1>1. Unprepared' = Unprepared
  BY DEF Unprepared
<1>2. OnePlace'
  BY <1>1 DEF IInv, OnePlace
<1>3. ASSUME NEW x \in Entry, x # work[w]
      PROVE  (Fresh(x) => Fresh(x)') /\ (Ready(x) => Ready(x)')
  BY <1>3 DEF Fresh, Ready, Untouched
<1>4. Waiting'
  <2>1. ASSUME NEW x \in Unprepared PROVE Fresh(x)'
    BY <1>3, PlacesTyped DEF IInv, OnePlace, Waiting
  <2>2. ASSUME NEW x \in Range(initial) PROVE Ready(x)'
    <3>1. mainPc \in {"prepare", "deal"}
      BY <2>2 DEF IInv, TypeOK, Phase, Range
    <3>2. pc[w] = "unborn"
      BY <3>1 DEF IInv, Phase
    <3> QED BY <3>2, TreeAssumption DEF IInv, Handling
  <2>3. ASSUME NEW u \in Workers
        PROVE  (\A x \in Range(queue[u]) : Ready(x)') /\ (\A x \in todo[u] : Fresh(x)')
    BY <1>3, PlacesTyped DEF IInv, OnePlace, Waiting
  <2> QED BY <1>1, <2>1, <2>2, <2>3 DEF Waiting
<1>5. Undiscovered'
  BY <1>3 DEF IInv, Undiscovered
<1> QED
  BY <1>2, <1>4, <1>5

\* Nobody else is disturbed by it.
LEMMA OthersUndisturbed ==
    ASSUME IInv, NEW w \in Workers, NEW l, work[w] \in Entry,
           UNCHANGED <<fate, queue, work, todo, listed, idle, stop>>,
           quit => quit', pc' = [pc EXCEPT ![w] = l],
           \A x \in Entry : x # work[w] => /\ delivered'[x] = delivered[x] /\ errors'[x] = errors[x]
                                           /\ x \in pruned' <=> x \in pruned
    PROVE  \A u \in Workers : u # w => (Handling(u) /\ EmptyHanded(u) /\ IdlePlace(u))'
<1> SUFFICES ASSUME NEW u \in Workers, u # w PROVE (Handling(u) /\ EmptyHanded(u) /\ IdlePlace(u))'
  OBVIOUS
<1>1. pc'[u] = pc[u] /\ work'[u] = work[u]
  BY DEF IInv, TypeOK
<1>2. work[u] \in Entry => work[u] # work[w]
  BY TreeAssumption DEF IInv, OnePlace
<1>3. Handling(u)'
  BY <1>1, <1>2, HandlingKept
<1> QED
  BY <1>1, <1>3 DEF IInv, EmptyHanded, IdlePlace

\* The device of the entry in hand is looked up.
LEMMA CheckDeviceInv ==
    ASSUME IInv, NEW w \in Workers, CheckDevice(w)
    PROVE  IInv'
<1> USE DEF runVars, mainVars, queueVars
<1> DEFINE e == work[w]
<1>1. /\ pc[w] = "run"
      /\ UNCHANGED <<fate, mainPc, nextRoot, initial, earlyQuit, queue, lock, offset, idle, work, todo, active,
                     stop, late, delivered, pruned, listed>>
  BY DEF CheckDevice, VisitError, seenVars
<1>2. e \in Entry /\ Ready(e)
  BY <1>1 DEF IInv, Handling
<1>3. CASE fate[e] # "nodev"
  <2>1. pc' = [pc EXCEPT ![w] = "visit"] /\ errors' = errors /\ quit' = quit
    BY <1>3 DEF CheckDevice, Goto, seenVars
  <2>2. TypeOK'
    BY <1>1, <2>1 DEF IInv, TypeOK
  <2>3. Phase'
    BY <1>1, <2>1 DEF IInv, TypeOK, Phase
  <2>4. OnePlace' /\ Waiting' /\ Undiscovered'
    BY <1>1, <2>1, DataKept
  <2>5. \A u \in Workers : u # w => (Handling(u) /\ EmptyHanded(u) /\ IdlePlace(u))'
    BY <1>1, <1>2, <2>1, OthersUndisturbed
  <2>6. (Handling(w) /\ EmptyHanded(w) /\ IdlePlace(w))'
    BY <1>1, <1>2, <1>3, <2>1
       DEF IInv, TypeOK, Handling, EmptyHanded, IdlePlace, Ready, Untouched
  <2> QED BY <2>2, <2>3, <2>4, <2>5, <2>6 DEF IInv
<1>4. CASE fate[e] = "nodev"
  <2>1. PICK answer \in Answers :
          /\ errors' = [errors EXCEPT ![e] = errors[e] + 1]
          /\ quit' = (quit \/ answer = "quit")
          /\ pc' = [pc EXCEPT ![w] = IF answer = "quit" THEN "quit" ELSE "visit"]
    BY <1>4 DEF CheckDevice, VisitError, Goto
  <2>2. errors \in [Entry -> Nat] /\ errors[e] = 0
    BY <1>2, <1>4 DEF IInv, TypeOK, Ready
  <2>3. errors' \in [Entry -> Nat] /\ errors'[e] = 1 /\ \A x \in Entry : x # e => errors'[x] = errors[x]
    BY <1>2, <2>1, <2>2
  <2>4. quit' \in BOOLEAN
    BY <2>1, Zenon
  <2>5. TypeOK'
    BY <1>1, <2>1, <2>3, <2>4 DEF IInv, TypeOK
  <2>6. Phase'
    BY <1>1, <2>1 DEF IInv, TypeOK, Phase
  <2>7. OnePlace' /\ Waiting' /\ Undiscovered'
    BY <1>1, <1>2, <2>3, WorkServed
  <2>8. \A u \in Workers : u # w => (Handling(u) /\ EmptyHanded(u) /\ IdlePlace(u))'
    BY <1>1, <1>2, <2>1, <2>3, OthersUndisturbed
  <2>9. (Handling(w) /\ EmptyHanded(w) /\ IdlePlace(w))'
    <3>1. pc'[w] = (IF answer = "quit" THEN "quit" ELSE "visit") /\ (answer = "quit" => quit')
      BY <2>1 DEF IInv, TypeOK
    <3>2. ~idle[w] /\ todo[w] = {}
      BY <1>1 DEF IInv, Handling, IdlePlace
    <3> QED BY <1>1, <1>2, <1>4, <2>3, <3>1, <3>2 DEF Handling, EmptyHanded, IdlePlace, Ready, Untouched
  <2> QED BY <2>5, <2>6, <2>7, <2>8, <2>9 DEF IInv
<1> QED
  BY <1>3, <1>4

\* The entry in hand is given to the visitor, or is above min_depth.
LEMMA VisitInv ==
    ASSUME IInv, NEW w \in Workers, Visit(w)
    PROVE  IInv'
<1> USE DEF runVars, mainVars, queueVars
<1> DEFINE e == work[w]
<1>1. /\ pc[w] = "visit"
      /\ UNCHANGED <<fate, mainPc, nextRoot, initial, earlyQuit, queue, lock, offset, idle, work, todo, active,
                     stop, late, errors, listed>>
  BY DEF Visit, VisitEntry, seenVars
<1>2. /\ e \in Entry /\ Untouched(e) /\ ~NeverQueued(fate, e)
      /\ errors[e] = IF fate[e] \in {"partial", "nodev"} THEN 1 ELSE 0
  BY <1>1 DEF IInv, Handling
<1>3. todo[w] = {} /\ ~idle[w]
  BY <1>1 DEF IInv, Handling, IdlePlace
<1>4. CASE ~ShouldVisit(e)
  <2>1. /\ pc' = [pc EXCEPT ![w] = AfterVisit(e)]
        /\ delivered' = delivered /\ pruned' = pruned /\ quit' = quit
    BY <1>4 DEF Visit, Goto, seenVars
  <2>2. AfterVisit(e) \in {"list", "loop"}
    BY DEF AfterVisit
  <2>3. TypeOK'
    BY <1>1, <2>1, <2>2 DEF IInv, TypeOK
  <2>4. Phase'
    BY <1>1, <2>1, <2>2 DEF IInv, TypeOK, Phase
  <2>5. OnePlace' /\ Waiting' /\ Undiscovered'
    BY <1>1, <2>1, DataKept
  <2>6. \A u \in Workers : u # w => (Handling(u) /\ EmptyHanded(u) /\ IdlePlace(u))'
    BY <1>1, <1>2, <2>1, OthersUndisturbed
  <2>7. (Handling(w) /\ EmptyHanded(w) /\ IdlePlace(w))'
    <3>1. pc'[w] = AfterVisit(e)
      BY <2>1 DEF IInv, TypeOK
    <3>2. CASE Descends(fate, e)
      BY <1>1, <1>2, <1>3, <1>4, <2>1, <3>1, <3>2
         DEF AfterVisit, Handling, EmptyHanded, IdlePlace, Untouched, DeliveriesDue, Descends
    <3>3. CASE ~Descends(fate, e)
      BY <1>1, <1>2, <1>3, <1>4, <2>1, <3>1, <3>3
         DEF AfterVisit, Handling, EmptyHanded, IdlePlace, Untouched, Settled, DeliveriesDue, ErrorsDue,
             ListingDue, NeverQueued
    <3> QED BY <3>2, <3>3
  <2> QED BY <2>3, <2>4, <2>5, <2>6, <2>7 DEF IInv
<1>5. CASE ShouldVisit(e)
  <2>1. PICK answer \in Answers :
          /\ delivered' = [delivered EXCEPT ![e] = delivered[e] + 1]
          /\ pruned' = IF answer = "skip" THEN pruned \cup {e} ELSE pruned
          /\ quit' = (quit \/ answer = "quit")
          /\ pc' = [pc EXCEPT ![w] = CASE answer = "quit" -> "quit"
                                       [] answer = "skip" -> "loop"
                                       [] OTHER -> AfterVisit(e)]
    BY <1>5 DEF Visit, VisitEntry, Goto
  <2>2. delivered \in [Entry -> Nat] /\ delivered[e] = 0
    BY <1>2 DEF IInv, TypeOK, Untouched
  <2>3. /\ delivered' \in [Entry -> Nat] /\ delivered'[e] = 1
        /\ \A x \in Entry : x # e => delivered'[x] = delivered[x]
    BY <1>2, <2>1, <2>2
  <2>4. /\ pruned' \subseteq Entry
        /\ \A x \in Entry : x # e => (x \in pruned' <=> x \in pruned)
        /\ e \in pruned' <=> answer = "skip"
    BY <1>2, <2>1 DEF IInv, TypeOK, Untouched
  <2>5. PICK l \in {"quit", "loop", "list"} :
          /\ pc' = [pc EXCEPT ![w] = l]
          /\ answer = "quit" => l = "quit"
          /\ answer = "skip" => l = "loop"
          /\ answer \notin {"quit", "skip"} => l = AfterVisit(e)
    <3>1. CASE answer = "quit"
      BY <2>1, <3>1
    <3>2. CASE answer = "skip"
      BY <2>1, <3>2
    <3>3. CASE answer \notin {"quit", "skip"}
      BY <2>1, <3>3 DEF AfterVisit
    <3> QED BY <3>1, <3>2, <3>3
  <2>6. quit' \in BOOLEAN
    BY <2>1, Zenon
  <2>7. TypeOK'
    BY <1>1, <2>3, <2>4, <2>5, <2>6 DEF IInv, TypeOK
  <2>8. Phase'
    BY <1>1, <2>1, <2>5 DEF IInv, TypeOK, Phase
  <2>9. OnePlace' /\ Waiting' /\ Undiscovered'
    BY <1>1, <1>2, <2>3, <2>4, WorkServed
  <2>10. \A u \in Workers : u # w => (Handling(u) /\ EmptyHanded(u) /\ IdlePlace(u))'
    BY <1>1, <1>2, <2>1, <2>3, <2>4, <2>5, OthersUndisturbed
  <2>11. (Handling(w) /\ EmptyHanded(w) /\ IdlePlace(w))'
    <3>1. pc'[w] = l /\ DeliveriesDue(fate, e) = 1 /\ e \notin listed
      BY <1>2, <1>5, <2>5 DEF IInv, TypeOK, DeliveriesDue, Untouched
    <3>2. CASE answer = "quit"
      BY <1>1, <1>2, <1>3, <2>1, <2>5, <3>1, <3>2 DEF Handling, EmptyHanded, IdlePlace
    <3>3. CASE answer = "skip"
      BY <1>1, <1>2, <1>3, <2>1, <2>3, <2>4, <2>5, <3>1, <3>3
         DEF Handling, EmptyHanded, IdlePlace, Settled, ErrorsDue, ListingDue, NeverQueued
    <3>4. CASE answer \notin {"quit", "skip"} /\ Descends(fate, e)
      BY <1>1, <1>2, <1>3, <2>1, <2>3, <2>4, <2>5, <3>1, <3>4
         DEF AfterVisit, Handling, EmptyHanded, IdlePlace, Descends
    <3>5. CASE answer \notin {"quit", "skip"} /\ ~Descends(fate, e)
      BY <1>1, <1>2, <1>3, <2>1, <2>3, <2>4, <2>5, <3>1, <3>5
         DEF AfterVisit, Handling, EmptyHanded, IdlePlace, Settled, ErrorsDue, ListingDue, NeverQueued
    <3> QED BY <3>2, <3>3, <3>4, <3>5
  <2> QED BY <2>7, <2>8, <2>9, <2>10, <2>11 DEF IInv
<1> QED
  BY <1>4, <1>5

\* The directory in hand is listed: its children are discovered.
LEMMA ChildrenListed ==
    ASSUME IInv, NEW w \in Workers, NEW e \in Entry, e = work[w], e \notin listed, todo[w] = {},
           todo' = [todo EXCEPT ![w] = Children(e)],
           listed' = listed \cup {e},
           UNCHANGED <<fate, nextRoot, initial, queue, work, delivered, errors, pruned>>
    PROVE  OnePlace' /\ Waiting' /\ Undiscovered'
<1>1. /\ todo'[w] = Children(e) /\ \A u \in Workers : u # w => todo'[u] = todo[u]
      /\ Unprepared' = Unprepared
  BY DEF IInv, TypeOK, Unprepared
<1>2. ASSUME NEW x \in Children(e)
      PROVE  /\ x \in Entry /\ x \notin RootSet /\ Parent[x] = e /\ Fresh(x) /\ x # e
             /\ \A u \in Workers : x \notin Range(queue[u]) /\ x \notin todo[u] /\ x # work[u]
  <2>1. x \in Entry /\ Parent[x] = e
    BY DEF Children
  <2>2. x \notin RootSet
    BY <2>1, TreeAssumption
  <2>3. Fresh(x) /\ \A u \in Workers : x \notin Range(queue[u]) /\ x \notin todo[u] /\ x # work[u]
    BY <2>1, <2>2 DEF IInv, Undiscovered
  <2> QED BY <2>1, <2>2, <2>3
<1>3. OnePlace'
  <2>1. IsInjective(initial') /\ \A x \in Range(initial') : x \in RootSet /\ x \notin Unprepared'
    BY <1>1 DEF IInv, OnePlace
  <2>2. ASSUME NEW u \in Workers
        PROVE  /\ IsInjective(queue'[u])
               /\ Unprepared' \cap Range(queue'[u]) = {}
               /\ work'[u] \notin Unprepared'
               /\ todo'[u] \cap RootSet = {}
    BY <1>1, <1>2 DEF IInv, OnePlace
  <2>3. ASSUME NEW u \in Workers, NEW v \in Workers
        PROVE  /\ Range(queue'[u]) \cap todo'[v] = {}
               /\ work'[v] \notin Range(queue'[u])
               /\ work'[v] \notin todo'[u]
               /\ u # v => /\ Range(queue'[u]) \cap Range(queue'[v]) = {}
                           /\ todo'[u] \cap todo'[v] = {}
                           /\ work'[u] = NoEntry \/ work'[u] # work'[v]
    BY <1>1, <1>2 DEF IInv, OnePlace
  <2> QED BY <2>1, <2>2, <2>3 DEF OnePlace
<1>4. ASSUME NEW x \in Entry, x # e
      PROVE  (Fresh(x) => Fresh(x)') /\ (Ready(x) => Ready(x)')
  BY <1>4 DEF Fresh, Ready, Untouched
<1>5. Waiting'
  <2>1. ASSUME NEW x \in Unprepared PROVE Fresh(x)'
    BY <1>4, PlacesTyped DEF IInv, OnePlace, Waiting
  <2>2. ASSUME NEW x \in Range(initial) PROVE Ready(x)'
    <3>1. mainPc \in {"prepare", "deal"}
      BY <2>2 DEF IInv, TypeOK, Phase, Range
    <3>2. pc[w] = "unborn"
      BY <3>1 DEF IInv, Phase
    <3> QED BY <3>2, TreeAssumption DEF IInv, Handling
  <2>3. ASSUME NEW u \in Workers
        PROVE  (\A x \in Range(queue[u]) : Ready(x)') /\ (\A x \in todo'[u] : Fresh(x)')
    BY <1>1, <1>2, <1>4, PlacesTyped DEF IInv, OnePlace, Waiting
  <2> QED BY <1>1, <2>1, <2>2, <2>3 DEF Waiting
<1>6. Undiscovered'
  <2> SUFFICES ASSUME NEW x \in Entry, x \notin RootSet, Parent[x] \notin listed'
               PROVE  /\ Fresh(x)'
                      /\ \A u \in Workers : x \notin Range(queue'[u]) /\ x \notin todo'[u] /\ x # work'[u]
    BY DEF Undiscovered
  <2>1. x \notin Children(e) /\ Parent[x] \notin listed
    BY DEF Children
  <2>2. Fresh(x) /\ \A u \in Workers : x \notin Range(queue[u]) /\ x \notin todo[u] /\ x # work[u]
    BY <2>1 DEF IInv, Undiscovered
  <2> QED BY <1>1, <1>4, <2>1, <2>2
<1> QED
  BY <1>3, <1>5, <1>6

\* The directory in hand is read, or cannot be.
LEMMA ReadDirInv ==
    ASSUME IInv, NEW w \in Workers, ReadDir(w)
    PROVE  IInv'
<1> USE DEF runVars, mainVars, queueVars
<1> DEFINE e == work[w]
<1>1. /\ pc[w] = "list"
      /\ UNCHANGED <<fate, mainPc, nextRoot, initial, earlyQuit, queue, lock, offset, idle, work, active,
                     stop, late, delivered, pruned>>
  BY DEF ReadDir, VisitError
<1>2. /\ e \in Entry /\ e \notin listed /\ e \notin pruned /\ Descends(fate, e)
      /\ delivered[e] = DeliveriesDue(fate, e)
      /\ errors[e] = IF fate[e] = "partial" THEN 1 ELSE 0
  BY <1>1 DEF IInv, Handling
<1>3. todo[w] = {} /\ ~idle[w]
  BY <1>1 DEF IInv, Handling, IdlePlace
<1>4. CASE fate[e] = "unreadable"
  <2>1. PICK answer \in Answers :
          /\ errors' = [errors EXCEPT ![e] = errors[e] + 1]
          /\ quit' = (quit \/ answer = "quit")
          /\ pc' = [pc EXCEPT ![w] = IF answer = "quit" THEN "quit" ELSE "loop"]
          /\ listed' = listed /\ todo' = todo
    BY <1>4 DEF ReadDir, VisitError, Goto
  <2>2. errors \in [Entry -> Nat] /\ errors[e] = 0
    BY <1>2, <1>4 DEF IInv, TypeOK
  <2>3. errors' \in [Entry -> Nat] /\ errors'[e] = 1 /\ \A x \in Entry : x # e => errors'[x] = errors[x]
    BY <1>2, <2>1, <2>2
  <2>4. quit' \in BOOLEAN
    BY <2>1, Zenon
  <2>5. TypeOK'
    BY <1>1, <2>1, <2>3, <2>4 DEF IInv, TypeOK
  <2>6. Phase'
    BY <1>1, <2>1 DEF IInv, TypeOK, Phase
  <2>7. OnePlace' /\ Waiting' /\ Undiscovered'
    BY <1>1, <1>2, <2>1, <2>3, WorkServed
  <2>8. \A u \in Workers : u # w => (Handling(u) /\ EmptyHanded(u) /\ IdlePlace(u))'
    BY <1>1, <1>2, <2>1, <2>3, OthersUndisturbed
  <2>9. (Handling(w) /\ EmptyHanded(w) /\ IdlePlace(w))'
    <3>1. pc'[w] = (IF answer = "quit" THEN "quit" ELSE "loop") /\ (answer = "quit" => quit')
      BY <2>1 DEF IInv, TypeOK
    <3>2. listed' = listed /\ todo' = todo
      BY <2>1
    <3> QED BY <1>1, <1>2, <1>3, <1>4, <2>3, <3>1, <3>2
            DEF Handling, EmptyHanded, IdlePlace, Settled, ErrorsDue, ListingDue, DeliveriesDue, NeverQueued
  <2> QED BY <2>5, <2>6, <2>7, <2>8, <2>9 DEF IInv
<1>5. CASE fate[e] # "unreadable"
  <2>1. /\ todo' = [todo EXCEPT ![w] = Children(e)]
        /\ listed' = listed \cup {e}
        /\ pc' = [pc EXCEPT ![w] = "push"]
        /\ UNCHANGED <<errors, quit>>
    BY <1>5 DEF ReadDir, Goto
  <2>2. Children(e) \subseteq Entry
    BY DEF Children
  <2>3. TypeOK'
    BY <1>1, <1>2, <2>1, <2>2 DEF IInv, TypeOK
  <2>4. Phase'
    BY <1>1, <2>1 DEF IInv, TypeOK, Phase
  <2>5. todo[w] = {}
    BY <1>3
  <2>6. OnePlace' /\ Waiting' /\ Undiscovered'
    BY <1>1, <1>2, <2>1, <2>5, ChildrenListed
  <2>7. ASSUME NEW u \in Workers, u # w PROVE (Handling(u) /\ EmptyHanded(u) /\ IdlePlace(u))'
    <3>1. pc'[u] = pc[u] /\ work'[u] = work[u] /\ todo'[u] = todo[u]
      BY <1>1, <2>1, <2>7 DEF IInv, TypeOK
    <3>2. work[u] \in Entry => (work[u] \in listed' <=> work[u] \in listed)
      BY <2>1, <2>7, TreeAssumption DEF IInv, OnePlace
    <3>3. Handling(u)'
      BY <1>1, <2>1, <3>1, <3>2, HandlingKept
    <3> QED BY <1>1, <3>1, <3>3 DEF IInv, EmptyHanded, IdlePlace
  <2>8. (Handling(w) /\ EmptyHanded(w) /\ IdlePlace(w))'
    <3>1. pc'[w] = "push" /\ work'[w] = e /\ idle' = idle
      BY <1>1, <2>1 DEF IInv, TypeOK
    <3>2. Settled(e)'
      BY <1>1, <1>2, <1>5, <2>1 DEF Settled, DeliveriesDue, ErrorsDue, ListingDue, Descends, NeverQueued
    <3> QED BY <1>1, <1>2, <1>3, <3>1, <3>2 DEF Handling, EmptyHanded, IdlePlace
  <2> QED BY <2>3, <2>4, <2>6, <2>7, <2>8 DEF IInv
<1> QED
  BY <1>4, <1>5

-----------------------------------------------------------------------------
(***************************************************************************)
(* run_one: the children of a listed directory.                            *)
(***************************************************************************)

\* A child leaves the listing, with or without an error.
LEMMA ChildHandled ==
    ASSUME IInv, NEW w \in Workers, NEW c \in todo[w],
           todo' = [todo EXCEPT ![w] = todo[w] \ {c}],
           \A x \in Entry : x # c => errors'[x] = errors[x],
           UNCHANGED <<fate, nextRoot, initial, queue, work, delivered, pruned, listed>>
    PROVE  OnePlace' /\ Waiting' /\ Undiscovered'
<1>1. /\ todo'[w] = todo[w] \ {c} /\ \A u \in Workers : u # w => todo'[u] = todo[u]
      /\ Unprepared' = Unprepared
  BY DEF IInv, TypeOK, Unprepared
<1>2. /\ c \in Entry /\ c \notin RootSet /\ Parent[c] \in listed
      /\ \A u \in Workers : /\ c \notin Range(queue[u]) /\ c # work[u]
                            /\ u # w => c \notin todo[u]
  BY PlacesTyped DEF IInv, OnePlace, Undiscovered
<1>3. ASSUME NEW x \in Entry, x # c
      PROVE  (Fresh(x) => Fresh(x)') /\ (Ready(x) => Ready(x)')
  BY <1>3 DEF Fresh, Ready, Untouched
<1>4. OnePlace'
  <2>1. IsInjective(initial') /\ \A x \in Range(initial') : x \in RootSet /\ x \notin Unprepared'
    BY <1>1 DEF IInv, OnePlace
  <2>2. ASSUME NEW u \in Workers
        PROVE  /\ IsInjective(queue'[u])
               /\ Unprepared' \cap Range(queue'[u]) = {}
               /\ work'[u] \notin Unprepared'
               /\ todo'[u] \cap RootSet = {}
    BY <1>1 DEF IInv, OnePlace
  <2>3. ASSUME NEW u \in Workers, NEW v \in Workers
        PROVE  /\ Range(queue'[u]) \cap todo'[v] = {}
               /\ work'[v] \notin Range(queue'[u])
               /\ work'[v] \notin todo'[u]
               /\ u # v => /\ Range(queue'[u]) \cap Range(queue'[v]) = {}
                           /\ todo'[u] \cap todo'[v] = {}
                           /\ work'[u] = NoEntry \/ work'[u] # work'[v]
    BY <1>1 DEF IInv, OnePlace
  <2> QED BY <2>1, <2>2, <2>3 DEF OnePlace
<1>5. Waiting'
  <2>1. ASSUME NEW x \in Unprepared PROVE Fresh(x)'
    BY <1>2, <1>3, PlacesTyped DEF IInv, Waiting
  <2>2. ASSUME NEW x \in Range(initial) PROVE Ready(x)'
    BY <1>2, <1>3, PlacesTyped DEF IInv, OnePlace, Waiting
  <2>3. ASSUME NEW u \in Workers
        PROVE  (\A x \in Range(queue[u]) : Ready(x)') /\ (\A x \in todo'[u] : Fresh(x)')
    BY <1>1, <1>2, <1>3, PlacesTyped DEF IInv, Waiting
  <2> QED BY <1>1, <2>1, <2>2, <2>3 DEF Waiting
<1>6. Undiscovered'
  BY <1>1, <1>2, <1>3 DEF IInv, Undiscovered
<1> QED
  BY <1>4, <1>5, <1>6

\* skip_entry drops a child.
LEMMA SkipChildInv ==
    ASSUME IInv, NEW w \in Workers, NEW c \in Entry, SkipChild(w, c)
    PROVE  IInv'
<1> USE DEF runVars, mainVars, queueVars, seenVars
<1>1. /\ pc[w] = "push" /\ c \in todo[w]
      /\ todo' = [todo EXCEPT ![w] = todo[w] \ {c}]
      /\ UNCHANGED <<fate, mainPc, nextRoot, initial, earlyQuit, queue, lock, pc, offset, idle, work, active,
                     stop, late, delivered, errors, pruned, listed, quit>>
  BY DEF SkipChild
<1>2. TypeOK'
  BY <1>1 DEF IInv, TypeOK
<1>3. Phase'
  BY <1>1 DEF IInv, TypeOK, Phase
<1>4. OnePlace' /\ Waiting' /\ Undiscovered'
  BY <1>1, ChildHandled
<1>5. ASSUME NEW u \in Workers PROVE (Handling(u) /\ EmptyHanded(u) /\ IdlePlace(u))'
  BY <1>1 DEF IInv, TypeOK, Handling, EmptyHanded, IdlePlace, Ready, Untouched, Settled
<1> QED
  BY <1>2, <1>3, <1>4, <1>5 DEF IInv

\* A child that cannot be examined is reported.
LEMMA BrokenChildInv ==
    ASSUME IInv, NEW w \in Workers, NEW c \in Entry, BrokenChild(w, c)
    PROVE  IInv'
<1> USE DEF runVars, mainVars, queueVars
<1>1. PICK answer \in Answers :
        /\ pc[w] = "push" /\ c \in todo[w] /\ fate[c] = "broken"
        /\ todo' = [todo EXCEPT ![w] = todo[w] \ {c}]
        /\ errors' = [errors EXCEPT ![c] = errors[c] + 1]
        /\ quit' = (quit \/ answer = "quit")
        /\ IF answer = "quit" THEN pc' = [pc EXCEPT ![w] = "quit"] ELSE pc' = pc
        /\ UNCHANGED <<fate, mainPc, nextRoot, initial, earlyQuit, queue, lock, offset, idle, work, active,
                       stop, late, delivered, pruned, listed>>
  BY DEF BrokenChild, VisitError, Goto
<1>2. errors \in [Entry -> Nat] /\ errors[c] = 0
  BY <1>1 DEF IInv, TypeOK, Waiting, Fresh
<1>3. errors' \in [Entry -> Nat] /\ errors'[c] = 1 /\ \A x \in Entry : x # c => errors'[x] = errors[x]
  BY <1>1, <1>2
<1>4. quit' \in BOOLEAN
  <2>1. quit' = (quit \/ answer = "quit")
    BY <1>1
  <2> QED BY <2>1, Zenon
<1>5. quit => quit'
  BY <1>1
<1>6. PICK l \in {"push", "quit"} : pc' = [pc EXCEPT ![w] = l] /\ (l = "quit" => quit')
  <2>1. pc = [pc EXCEPT ![w] = "push"]
    BY <1>1 DEF IInv, TypeOK
  <2> QED BY <1>1, <2>1
<1>7. TypeOK'
  BY <1>1, <1>3, <1>4, <1>6 DEF IInv, TypeOK
<1>8. Phase'
  BY <1>1, <1>5, <1>6 DEF IInv, TypeOK, Phase
<1>9. OnePlace' /\ Waiting' /\ Undiscovered'
  BY <1>1, <1>3, ChildHandled
<1>10. ASSUME NEW u \in Workers, u # w PROVE (Handling(u) /\ EmptyHanded(u) /\ IdlePlace(u))'
  <2>1. pc'[u] = pc[u] /\ todo'[u] = todo[u] /\ work'[u] = work[u]
    BY <1>1, <1>6, <1>10 DEF IInv, TypeOK
  <2>2. work[u] \in Entry => errors'[work[u]] = errors[work[u]]
    BY <1>1, <1>3 DEF IInv, OnePlace
  <2>3. Handling(u)'
    BY <1>1, <1>5, <2>1, <2>2, HandlingKept
  <2> QED BY <1>1, <2>1, <2>3 DEF IInv, EmptyHanded, IdlePlace
<1>11. (Handling(w) /\ EmptyHanded(w) /\ IdlePlace(w))'
  <2>1. pc'[w] = l /\ work'[w] = work[w] /\ idle'[w] = idle[w]
    BY <1>1, <1>6 DEF IInv, TypeOK
  <2>2. work[w] \in Entry /\ Settled(work[w]) /\ ~idle[w]
    BY <1>1 DEF IInv, Handling, IdlePlace
  <2>3. Settled(work[w])'
    <3>1. errors'[work[w]] = errors[work[w]]
      BY <1>1, <1>3, <2>2 DEF IInv, OnePlace
    <3> QED BY <1>1, <2>2, <3>1 DEF Settled, ErrorsDue, ListingDue
  <2> QED BY <1>6, <2>1, <2>2, <2>3 DEF Handling, EmptyHanded, IdlePlace
<1> QED
  BY <1>7, <1>8, <1>9, <1>10, <1>11 DEF IInv

\* A child is pushed.
LEMMA PushChildInv ==
    ASSUME IInv, NEW w \in Workers, NEW c \in Entry, PushChild(w, c)
    PROVE  IInv'
<1> USE DEF runVars, mainVars, queueVars, seenVars
<1>1. /\ pc[w] = "push" /\ c \in todo[w] /\ fate[c] \notin {"skipped", "broken"}
      /\ queue' = [queue EXCEPT ![w] = Append(queue[w], c)]
      /\ todo' = [todo EXCEPT ![w] = todo[w] \ {c}]
      /\ UNCHANGED <<fate, mainPc, nextRoot, initial, earlyQuit, lock, pc, offset, idle, work, active,
                     stop, late, delivered, errors, pruned, listed, quit>>
  BY DEF PushChild
<1>2. /\ c \notin RootSet /\ Parent[c] \in listed /\ Fresh(c)
      /\ \A u \in Workers : /\ c \notin Range(queue[u]) /\ c # work[u]
                            /\ u # w => c \notin todo[u]
  BY <1>1 DEF IInv, OnePlace, Undiscovered, Waiting
<1>3. fate[c] # "partial"
  <2>1. fate[c] \in Fates[c]
    BY DEF IInv, TypeOK, FateFunctions
  <2> QED BY <1>2, <2>1, FateAssumption
<1>4. Ready(c)
  BY <1>1, <1>2, <1>3 DEF Fresh, Ready, NeverQueued
<1>5. /\ queue'[w] \in Seq(Entry)
      /\ Range(queue'[w]) = Range(queue[w]) \cup {c}
      /\ IsInjective(queue'[w])
      /\ \A u \in Workers : u # w => queue'[u] = queue[u]
  <2>1. queue[w] \in Seq(Entry) /\ IsInjective(queue[w]) /\ c \notin Range(queue[w])
    BY <1>2 DEF IInv, TypeOK, OnePlace
  <2>2. queue'[w] = Append(queue[w], c) /\ \A u \in Workers : u # w => queue'[u] = queue[u]
    BY <1>1 DEF IInv, TypeOK
  <2> QED BY <2>1, <2>2, PushBack
<1>6. /\ todo'[w] = todo[w] \ {c} /\ \A u \in Workers : u # w => todo'[u] = todo[u]
      /\ Unprepared' = Unprepared
  BY <1>1 DEF IInv, TypeOK, Unprepared
<1>7. TypeOK'
  <2>1. queue' \in [Workers -> Seq(Entry)]
    BY <1>1 DEF IInv, TypeOK
  <2> QED BY <1>1, <2>1 DEF IInv, TypeOK
<1>8. Phase'
  BY <1>1 DEF IInv, TypeOK, Phase
<1>9. OnePlace'
  <2>1. IsInjective(initial') /\ \A x \in Range(initial') : x \in RootSet /\ x \notin Unprepared'
    BY <1>1, <1>6 DEF IInv, OnePlace
  <2>2. c \notin Unprepared
    BY <1>2, PlacesTyped DEF IInv
  <2>3. ASSUME NEW u \in Workers
        PROVE  /\ IsInjective(queue'[u])
               /\ Unprepared' \cap Range(queue'[u]) = {}
               /\ work'[u] \notin Unprepared'
               /\ todo'[u] \cap RootSet = {}
    BY <1>1, <1>5, <1>6, <2>2 DEF IInv, OnePlace
  <2>4. ASSUME NEW u \in Workers, NEW v \in Workers
        PROVE  /\ Range(queue'[u]) \cap todo'[v] = {}
               /\ work'[v] \notin Range(queue'[u])
               /\ work'[v] \notin todo'[u]
               /\ u # v => /\ Range(queue'[u]) \cap Range(queue'[v]) = {}
                           /\ todo'[u] \cap todo'[v] = {}
                           /\ work'[u] = NoEntry \/ work'[u] # work'[v]
    BY <1>1, <1>2, <1>5, <1>6 DEF IInv, OnePlace
  <2> QED BY <2>1, <2>3, <2>4 DEF OnePlace
<1>10. Waiting'
  BY <1>1, <1>4, <1>5, <1>6 DEF IInv, Waiting, Fresh, Ready, Untouched
<1>11. Undiscovered'
  BY <1>1, <1>2, <1>5, <1>6 DEF IInv, Undiscovered, Fresh, Untouched
<1>12. ASSUME NEW u \in Workers PROVE (Handling(u) /\ EmptyHanded(u) /\ IdlePlace(u))'
  BY <1>1, <1>5, <1>6 DEF IInv, TypeOK, Handling, EmptyHanded, IdlePlace, Ready, Untouched, Settled
<1> QED
  BY <1>7, <1>8, <1>9, <1>10, <1>11, <1>12 DEF IInv

-----------------------------------------------------------------------------
(***************************************************************************)
(* The invariant, and what the runs check of it.                           *)
(***************************************************************************)

LEMMA StepInv ==
    ASSUME IInv, [Next]_vars
    PROVE  IInv'
<1>1. CASE UNCHANGED vars
  <2>1. TypeOK'
    BY <1>1 DEF vars, IInv, TypeOK
  <2>2. Phase'
    BY <1>1 DEF vars, IInv, Phase
  <2>3. OnePlace' /\ Waiting' /\ Undiscovered'
    BY <1>1, DataKept DEF vars
  <2>4. ASSUME NEW u \in Workers PROVE (Handling(u) /\ EmptyHanded(u) /\ IdlePlace(u))'
    BY <1>1, HandlingKept DEF vars, IInv, EmptyHanded, IdlePlace
  <2> QED BY <2>1, <2>2, <2>3, <2>4 DEF IInv
<1>2. CASE MainStep
  BY <1>2, PrepareRootInv, PrepareFailingRootInv, PreparationDoneInv, DealInv, JoinInv DEF MainStep
<1>3. ASSUME NEW w \in Workers, FreeStep(w) PROVE IInv'
  BY <1>3, CheckStopInv, LeaveInv, CheckActiveInv, CheckStopIdleInv, WakeInv, CheckDeviceInv, VisitInv,
     ReadDirInv, ChildrenDoneInv, StoreStopInv, SkipChildInv, BrokenChildInv DEF FreeStep
<1>4. ASSUME NEW w \in Workers, LockStep(w) PROVE IInv'
  BY <1>4, TakeOwnInv, LockFirstInv, StealInv, PushChildInv DEF LockStep
<1> QED
  BY <1>1, <1>2, <1>3, <1>4 DEF Next, Terminated

\* No step loses an entry, hands it out twice or forgets what is due to it:
\* the invariant of WorkStealingInv holds for every tree and number of workers.
THEOREM Invariance == Spec => []IInv
<1>1. Init => IInv
  BY InitInv
<1>2. IInv /\ [Next]_vars => IInv'
  BY StepInv
<1> QED
  BY <1>1, <1>2, PTL DEF Spec

\* Every variable keeps to its type.
THEOREM TypeCorrect == Spec => []TypeOK
<1>1. IInv => TypeOK
  BY DEF IInv
<1> QED
  BY <1>1, Invariance, PTL

\* A worker that leaves without having been told to stop leaves no work in its
\* queue (take_work), for every tree and number of workers.
THEOREM NothingAbandoned == Spec => []NoWorkAbandoned
<1>1. IInv => NoWorkAbandoned
  BY DEF IInv, EmptyHanded, NoWorkAbandoned
<1> QED
  BY <1>1, Invariance, PTL

-----------------------------------------------------------------------------
(***************************************************************************)
(* Each step is a step of Traversal or changes nothing a visitor can see.  *)
(***************************************************************************)

\* Threads move, entries do not.
LEMMA EntriesKept ==
    ASSUME UNCHANGED <<fate, nextRoot, initial, queue, work, todo, delivered, errors, pruned, listed, quit>>,
           (mainPc = "joined") <=> (mainPc' = "joined")
    PROVE  UNCHANGED T!vars
<1>1. waitingEntries' = waitingEntries /\ openEntries' = openEntries
  BY DEF waitingEntries, openEntries
<1>2. (mainPc = "joined")' = (mainPc = "joined")
  OBVIOUS
<1> QED
  BY <1>1, <1>2 DEF T!vars

\* An entry waits where it is unprepared, prepared, queued or listed.
LEMMA WaitingIs ==
    /\ \A x : x \in waitingEntries <=> \/ x \in Unprepared \cup Range(initial)
                                       \/ \E w \in Workers : x \in Range(queue[w]) \cup todo[w]
    /\ \A x : x \in waitingEntries' <=> \/ x \in Unprepared' \cup Range(initial')
                                        \/ \E w \in Workers : x \in Range(queue'[w]) \cup todo'[w]
<1>1. waitingEntries = Unprepared \cup Range(initial) \cup (UNION {Range(queue[w]) : w \in Workers})
                                  \cup (UNION {todo[w] : w \in Workers})
  BY DEF waitingEntries, Unprepared
<1>2. waitingEntries' = Unprepared' \cup Range(initial') \cup (UNION {Range(queue'[w]) : w \in Workers})
                                    \cup (UNION {todo'[w] : w \in Workers})
  BY DEF waitingEntries, Unprepared
<1>3. \A x : x \in (UNION {Range(queue[w]) : w \in Workers}) <=> \E w \in Workers : x \in Range(queue[w])
  OBVIOUS
<1>4. \A x : x \in (UNION {todo[w] : w \in Workers}) <=> \E w \in Workers : x \in todo[w]
  OBVIOUS
<1>5. \A x : x \in (UNION {Range(queue'[w]) : w \in Workers}) <=> \E w \in Workers : x \in Range(queue'[w])
  OBVIOUS
<1>6. \A x : x \in (UNION {todo'[w] : w \in Workers}) <=> \E w \in Workers : x \in todo'[w]
  OBVIOUS
<1>7. ASSUME NEW x
      PROVE  x \in waitingEntries <=> \/ x \in Unprepared \cup Range(initial)
                                      \/ \E w \in Workers : x \in Range(queue[w]) \cup todo[w]
  BY <1>1, <1>3, <1>4, Zenon
<1>8. ASSUME NEW x
      PROVE  x \in waitingEntries' <=> \/ x \in Unprepared' \cup Range(initial')
                                       \/ \E w \in Workers : x \in Range(queue'[w]) \cup todo'[w]
  BY <1>2, <1>5, <1>6, Zenon
<1> QED
  BY <1>7, <1>8

\* A root is prepared.
LEMMA PrepareRootStep ==
    ASSUME IInv, PrepareRoot
    PROVE  UNCHANGED T!vars
<1> USE DEF fsVars, mainVars, queueVars, seenVars, workerVars
<1>1. PICK r : r = Roots[nextRoot]
  OBVIOUS
<1>2. /\ nextRoot <= Len(Roots) /\ nextRoot' = nextRoot + 1 /\ initial' = Append(initial, r)
      /\ UNCHANGED <<fate, mainPc, queue, work, todo, delivered, errors, pruned, listed, quit>>
  BY <1>1 DEF PrepareRoot
<1>3. Unprepared = Unprepared' \cup {r} /\ r \in Entry
  BY <1>1, <1>2, NextRoot
<1>4. Range(initial') = Range(initial) \cup {r}
  <2>1. initial \in Seq(Entry) /\ IsInjective(initial) /\ r \notin Range(initial)
    BY <1>3 DEF IInv, TypeOK, OnePlace
  <2> QED BY <1>2, <1>3, <2>1, PushBack
<1>5. waitingEntries' = waitingEntries
  <2>1. \A x : x \in waitingEntries' <=> x \in waitingEntries
    BY <1>2, <1>3, <1>4, WaitingIs
  <2> QED BY <2>1 DEF waitingEntries
<1>6. openEntries' = openEntries
  BY <1>2 DEF openEntries
<1>7. UNCHANGED <<fate, mainPc, delivered, errors, pruned, listed, quit>>
  BY <1>2
<1> QED
  BY <1>5, <1>6, <1>7 DEF T!vars

\* Traversal runs over the same tree.
LEMMA SameTree ==
    /\ T!RootSet = RootSet /\ T!FateFunctions = FateFunctions
    /\ \A e : T!Children(e) = Children(e) /\ (T!ShouldVisit(e) <=> ShouldVisit(e))
    /\ \A f, e : /\ T!NeverQueued(f, e) <=> NeverQueued(f, e)
                 /\ T!Descends(f, e) <=> Descends(f, e)
                 /\ T!DeliveriesDue(f, e) = DeliveriesDue(f, e)
    /\ \A f, p, e : /\ T!ErrorsDue(f, p, e) = ErrorsDue(f, p, e)
                    /\ T!ListingDue(f, p, e) <=> ListingDue(f, p, e)
<1> USE DEF T!RootSet, RootSet, T!NeverQueued, NeverQueued, T!Descends, Descends, T!ShouldVisit, ShouldVisit
<1>1. T!FateFunctions = FateFunctions
  BY DEF T!FateFunctions, FateFunctions, T!Fate, Fate
<1>2. \A e : T!Children(e) = Children(e)
  BY DEF T!Children, Children
<1>3. \A f, e : T!DeliveriesDue(f, e) = DeliveriesDue(f, e)
  BY DEF T!DeliveriesDue, DeliveriesDue
<1>4. \A f, p, e : T!ErrorsDue(f, p, e) = ErrorsDue(f, p, e)
  BY DEF T!ErrorsDue, ErrorsDue
<1>5. \A f, p, e : T!ListingDue(f, p, e) <=> ListingDue(f, p, e)
  BY DEF T!ListingDue, ListingDue
<1> QED
  BY <1>1, <1>2, <1>3, <1>4, <1>5

\* What makes a step of the walk a report.
LEMMA ReportStep ==
    ASSUME NEW e \in Entry, e \in waitingEntries \cup openEntries,
           ErrorsDue(fate, pruned, e) = 1, errors[e] = 0, errors' = [errors EXCEPT ![e] = 1],
           waitingEntries' \in {waitingEntries, waitingEntries \ {e}},
           e \in waitingEntries \ waitingEntries' => NeverQueued(fate, e) \/ quit',
           quit' \in {quit, TRUE}, openEntries' = openEntries,
           UNCHANGED <<fate, delivered, pruned, listed>>,
           (mainPc = "joined")' = (mainPc = "joined")
    PROVE  T!Report(e)
BY SameTree, Zenon DEF T!Report

\* A root with an error is looked at: the error is reported.
LEMMA PrepareFailingRootStep ==
    ASSUME IInv, PrepareFailingRoot
    PROVE  \E e \in Entry : T!Report(e)
<1> USE DEF fsVars, queueVars, workerVars
<1>0. PICK r : r = Roots[nextRoot]
  OBVIOUS
<1>1. PICK answer \in Answers :
        /\ mainPc = "prepare" /\ nextRoot <= Len(Roots) /\ nextRoot' = nextRoot + 1
        /\ fate[r] \in {"broken", "nodev", "partial"}
        /\ errors' = [errors EXCEPT ![r] = errors[r] + 1]
        /\ quit' = (quit \/ answer = "quit")
        /\ mainPc' = IF answer = "quit" THEN "deal" ELSE mainPc
        /\ initial' = IF fate[r] = "partial" /\ answer # "quit" THEN Append(initial, r) ELSE initial
        /\ UNCHANGED <<fate, queue, work, todo, delivered, pruned, listed>>
  BY <1>0 DEF PrepareFailingRoot, VisitError
<1>2. /\ r \in Entry /\ r \in RootSet /\ r \in Unprepared /\ errors[r] = 0
      /\ Unprepared = Unprepared' \cup {r} /\ r \notin Unprepared'
  BY <1>0, <1>1, NextRoot DEF IInv, Waiting, Fresh
<1>3. r \in waitingEntries
  BY <1>2, WaitingIs
<1>4. errors' = [errors EXCEPT ![r] = 1]
  BY <1>1, <1>2
<1>5. openEntries' = openEntries
  BY <1>1 DEF openEntries
<1>6. ErrorsDue(fate, pruned, r) = 1
  BY <1>1 DEF ErrorsDue
<1>7. quit' \in {quit, TRUE}
  <2>1. quit' = (quit \/ answer = "quit") /\ quit \in BOOLEAN
    BY <1>1 DEF IInv, TypeOK
  <2> QED BY <2>1, Zenon
<1>8. UNCHANGED <<fate, delivered, pruned, listed>> /\ UNCHANGED (mainPc = "joined")
  BY <1>1
<1>9. \A w \in Workers : r \notin Range(queue[w]) /\ r \notin todo[w]
  BY <1>2 DEF IInv, OnePlace
<1>10. r \notin Range(initial) /\ initial \in Seq(Entry) /\ IsInjective(initial)
  BY <1>2 DEF IInv, TypeOK, OnePlace
<1>11. CASE fate[r] = "partial" /\ answer # "quit"
  <2>1. Range(initial') = Range(initial) \cup {r}
    BY <1>1, <1>2, <1>10, <1>11, PushBack
  <2>2. \A x : x \in waitingEntries' <=> x \in waitingEntries
    BY <1>1, <1>2, <2>1, WaitingIs
  <2>3. waitingEntries' = waitingEntries
    BY <2>2 DEF waitingEntries
  <2>4. waitingEntries' \in {waitingEntries, waitingEntries \ {r}} /\ r \notin waitingEntries \ waitingEntries'
    BY <1>3, <2>3
  <2> QED BY <1>2, <1>3, <1>4, <1>5, <1>6, <1>7, <1>8, <2>4, ReportStep
<1>12. CASE ~(fate[r] = "partial" /\ answer # "quit")
  <2>1. initial' = initial
    BY <1>1, <1>12
  <2>2. \A x : x \in waitingEntries' <=> x \in waitingEntries /\ x # r
    BY <1>1, <1>2, <1>9, <1>10, <2>1, WaitingIs
  <2>3. waitingEntries' = waitingEntries \ {r}
    BY <2>2 DEF waitingEntries
  <2>4. NeverQueued(fate, r) \/ quit'
    BY <1>1, <1>2, <1>12 DEF NeverQueued
  <2> QED BY <1>2, <1>3, <1>4, <1>5, <1>6, <1>7, <1>8, <2>3, <2>4, ReportStep
<1> QED
  BY <1>11, <1>12

\* The deal moves what waits, or ends a walk in which nothing does.
LEMMA DealStep ==
    ASSUME IInv, Deal
    PROVE  T!Finish \/ UNCHANGED T!vars
<1> USE DEF fsVars, seenVars
<1>1. /\ mainPc = "deal" /\ initial' = <<>>
      /\ UNCHANGED <<fate, nextRoot, work, todo, delivered, errors, pruned, listed, quit>>
  BY DEF Deal
<1>2. Range(initial') = {} /\ Unprepared' = Unprepared /\ openEntries' = openEntries
  BY <1>1 DEF Range, Unprepared, openEntries
<1>3. \A u \in Workers : /\ queue[u] = <<>> /\ todo[u] = {} /\ work[u] = NoEntry
                         /\ Range(queue[u]) = {}
  BY <1>1 DEF IInv, Phase, Handling, Range
<1>4. CASE initial = <<>>
  <2>1. mainPc' = "joined" /\ queue' = queue /\ initial' = initial
    BY <1>1, <1>4 DEF Deal
  <2>2. waitingEntries' = waitingEntries
    BY <1>1, <2>1 DEF waitingEntries
  <2>3. ~quit => waitingEntries = {} /\ openEntries = {}
    <3> SUFFICES ASSUME ~quit PROVE waitingEntries = {} /\ openEntries = {}
      OBVIOUS
    <3>1. nextRoot = Len(Roots) + 1
      BY <1>1 DEF IInv, Phase
    <3>2. Unprepared = {}
      BY <3>1, RootFacts DEF Unprepared
    <3>3. \A x : x \notin waitingEntries
      BY <1>2, <1>3, <2>1, <3>2, WaitingIs
    <3>4. openEntries = {}
      BY <1>3 DEF openEntries
    <3> QED BY <3>3, <3>4
  <2>4. (mainPc = "joined") = FALSE /\ (mainPc' = "joined") = TRUE
    BY <1>1, <2>1
  <2> QED BY <1>1, <1>2, <2>2, <2>3, <2>4 DEF T!Finish
<1>5. CASE initial # <<>>
  <2>1. mainPc' = "walking" /\ queue' = [w \in Workers |-> Dealt(initial, w)]
    BY <1>5 DEF Deal
  <2>2. (UNION {Range(queue'[u]) : u \in Workers}) = Range(initial)
    <3>1. (UNION {Range(Dealt(initial, w)) : w \in Workers}) = Range(initial)
      BY DealFacts DEF IInv, TypeOK
    <3> QED BY <2>1, <3>1
  <2>3. \A x : x \in Range(initial) <=> \E w \in Workers : x \in Range(queue'[w])
    BY <2>2
  <2>4. \A x : x \in waitingEntries' <=> x \in waitingEntries
    BY <1>1, <1>2, <1>3, <2>3, WaitingIs
  <2>5. waitingEntries' = waitingEntries
    BY <2>4 DEF waitingEntries
  <2>6. (mainPc = "joined")' = (mainPc = "joined")
    BY <1>1, <2>1
  <2>7. UNCHANGED T!vars
    BY <1>1, <1>2, <2>5, <2>6 DEF T!vars
  <2> QED BY <2>7
<1> QED
  BY <1>4, <1>5

\* The workers left with nothing to do, or the visitor quit.
LEMMA JoinStep ==
    ASSUME IInv, Join
    PROVE  T!Finish
<1>1. /\ mainPc = "walking" /\ mainPc' = "joined"
      /\ \A w \in Workers : pc[w] = "exited"
      /\ UNCHANGED <<fate, nextRoot, initial, queue, work, todo, delivered, errors, pruned, listed, quit>>
  BY DEF Join, fsVars, queueVars, workerVars, seenVars
<1>2. waitingEntries' = waitingEntries /\ openEntries' = openEntries
  BY <1>1 DEF waitingEntries, openEntries
<1>3. ~quit => waitingEntries = {} /\ openEntries = {}
  <2> SUFFICES ASSUME ~quit PROVE waitingEntries = {} /\ openEntries = {}
    OBVIOUS
  <2>1. nextRoot = Len(Roots) + 1 /\ initial = <<>> /\ ~stop
    BY <1>1 DEF IInv, Phase
  <2>2. Unprepared = {} /\ Range(initial) = {}
    BY <2>1, RootFacts DEF Unprepared, Range
  <2>3. \A w \in Workers : queue[w] = <<>> /\ todo[w] = {} /\ work[w] = NoEntry
    BY <1>1, <2>1 DEF IInv, Handling, EmptyHanded
  <2>4. \A w \in Workers : Range(queue[w]) = {}
    BY <2>3 DEF Range
  <2>5. \A x : x \notin waitingEntries
    BY <2>2, <2>3, <2>4, WaitingIs
  <2>6. openEntries = {}
    BY <2>3 DEF openEntries
  <2> QED BY <2>5, <2>6
<1>4. (mainPc = "joined") = FALSE /\ (mainPc' = "joined") = TRUE
  BY <1>1
<1> QED
  BY <1>1, <1>2, <1>3, <1>4 DEF T!Finish

\* A worker lets go of its entry: all was done for it, or the visitor quit.
LEMMA CloseStep ==
    ASSUME IInv, NEW w \in Workers, work' = [work EXCEPT ![w] = NoEntry], work[w] \in Entry,
           Settled(work[w]) \/ quit,
           UNCHANGED <<fate, mainPc, nextRoot, initial, queue, todo, delivered, errors, pruned, listed, quit>>
    PROVE  \E e \in Entry : T!Close(e)
<1> DEFINE e == work[w]
<1>1. waitingEntries' = waitingEntries
  BY DEF waitingEntries
<1>2. work'[w] = NoEntry /\ \A u \in Workers : u # w => work'[u] = work[u] /\ work[u] # e
  BY TreeAssumption DEF IInv, TypeOK, OnePlace
<1>3. \A x : x \in openEntries' <=> x \in openEntries \ {e}
  BY <1>2 DEF openEntries
<1>4. openEntries' = openEntries \ {e} /\ e \in openEntries
  BY <1>3, TreeAssumption DEF openEntries
<1>5. T!Settled(e) \/ quit
  BY SameTree DEF T!Settled, Settled
<1>6. (mainPc = "joined")' = (mainPc = "joined")
  OBVIOUS
<1> QED
  BY <1>1, <1>4, <1>5, <1>6 DEF T!Close

LEMMA CheckStopStep ==
    ASSUME IInv, NEW w \in Workers, CheckStop(w)
    PROVE  (\E e \in Entry : T!Close(e)) \/ UNCHANGED T!vars
<1> USE DEF fsVars, mainVars, queueVars, seenVars
<1>1. /\ work' = [work EXCEPT ![w] = NoEntry]
      /\ work[w] = NoEntry \/ Settled(work[w])
      /\ UNCHANGED <<fate, mainPc, nextRoot, initial, queue, todo, delivered, errors, pruned, listed, quit>>
  BY DEF CheckStop, IInv, Handling
<1>2. CASE work[w] = NoEntry
  <2>1. work' = work
    BY <1>1, <1>2 DEF IInv, TypeOK
  <2> QED BY <1>1, <2>1, EntriesKept
<1>3. CASE work[w] # NoEntry
  <2>1. work[w] \in Entry
    BY <1>3 DEF IInv, TypeOK
  <2> QED BY <1>1, <1>3, <2>1, CloseStep
<1> QED
  BY <1>2, <1>3

LEMMA StoreStopStep ==
    ASSUME IInv, NEW w \in Workers, StoreStop(w)
    PROVE  \E e \in Entry : T!Close(e)
<1>1. /\ work' = [work EXCEPT ![w] = NoEntry] /\ work[w] \in Entry /\ quit
      /\ UNCHANGED <<fate, mainPc, nextRoot, initial, queue, todo, delivered, errors, pruned, listed, quit>>
  BY DEF StoreStop, IInv, Handling, fsVars, mainVars, queueVars, seenVars
<1> QED
  BY <1>1, CloseStep

\* A worker takes an entry out of the queues.
LEMMA BeginStep ==
    ASSUME IInv, NEW w \in Workers, NEW e \in Entry, work[w] = NoEntry,
           work' = [work EXCEPT ![w] = e], Ready(e),
           \E u \in Workers : e \in Range(queue[u]),
           \A x : (\E u \in Workers : x \in Range(queue'[u])) <=> x # e /\ \E u \in Workers : x \in Range(queue[u]),
           UNCHANGED <<fate, mainPc, nextRoot, initial, todo, delivered, errors, pruned, listed, quit>>
    PROVE  T!Begin(e)
<1>1. work'[w] = e /\ \A u \in Workers : u # w => work'[u] = work[u]
  BY DEF IInv, TypeOK
<1>2. e \notin Unprepared /\ \A u \in Workers : e \notin todo[u]
  BY DEF IInv, OnePlace
<1>3. e \notin Range(initial)
  <2>1. ASSUME e \in Range(initial) PROVE FALSE
    <3>1. mainPc \in {"prepare", "deal"}
      BY <2>1 DEF IInv, TypeOK, Phase, Range
    <3> QED BY <3>1 DEF IInv, Phase, Range
  <2> QED BY <2>1
<1>4. Unprepared' = Unprepared
  BY DEF Unprepared
<1>5. e \in waitingEntries
  BY WaitingIs
<1>6. \A x : x \in waitingEntries' <=> x \in waitingEntries /\ x # e
  BY <1>2, <1>3, <1>4, WaitingIs
<1>7. waitingEntries' = waitingEntries \ {e}
  BY <1>6 DEF waitingEntries
<1>8. \A x : x \in openEntries' <=> x \in openEntries \/ x = e
  BY <1>1, TreeAssumption DEF openEntries
<1>9. openEntries' = openEntries \cup {e}
  BY <1>8 DEF openEntries
<1>10. ~T!NeverQueued(fate, e)
  BY SameTree DEF Ready
<1>11. (mainPc = "joined")' = (mainPc = "joined")
  OBVIOUS
<1> QED
  BY <1>5, <1>7, <1>9, <1>10, <1>11 DEF T!Begin

LEMMA TakeOwnStep ==
    ASSUME IInv, NEW w \in Workers, TakeOwn(w)
    PROVE  (\E e \in Entry : T!Begin(e)) \/ UNCHANGED T!vars
<1> USE DEF fsVars, mainVars, seenVars
<1>1. CASE queue[w] # <<>>
  <2> DEFINE e == queue[w][Len(queue[w])]
             q == SubSeq(queue[w], 1, Len(queue[w]) - 1)
  <2>1. /\ work[w] = NoEntry
        /\ work' = [work EXCEPT ![w] = e]
        /\ queue' = [queue EXCEPT ![w] = q]
        /\ UNCHANGED <<fate, mainPc, nextRoot, initial, todo, delivered, errors, pruned, listed, quit>>
    BY <1>1 DEF TakeOwn, Take, IInv, Handling
  <2>2. queue[w] \in Seq(Entry)
    BY DEF IInv, TypeOK
  <2>3. /\ e \in Entry /\ Range(queue[w]) = Range(q) \cup {e} /\ e \notin Range(q)
    BY <1>1, <2>2, PopBack DEF IInv, OnePlace
  <2> HIDE DEF e, q
  <2>4. queue'[w] = q /\ \A u \in Workers : u # w => queue'[u] = queue[u] /\ e \notin Range(queue[u])
    BY <2>1, <2>3 DEF IInv, TypeOK, OnePlace
  <2>5. \A x : (\E u \in Workers : x \in Range(queue'[u])) <=> x # e /\ \E u \in Workers : x \in Range(queue[u])
    BY <2>3, <2>4
  <2>6. Ready(e)
    BY <2>3 DEF IInv, Waiting
  <2> QED BY <2>1, <2>3, <2>5, <2>6, BeginStep
<1>2. CASE queue[w] = <<>>
  <2>1. UNCHANGED <<fate, mainPc, nextRoot, initial, queue, work, todo, delivered, errors, pruned, listed, quit>>
    BY <1>2 DEF TakeOwn
  <2> QED BY <2>1, EntriesKept
<1> QED
  BY <1>1, <1>2

LEMMA StealStep ==
    ASSUME IInv, NEW w \in Workers, Steal(w)
    PROVE  (\E e \in Entry : T!Begin(e)) \/ UNCHANGED T!vars
<1> USE DEF fsVars, mainVars, seenVars
<1> DEFINE v == Victim(w)
           n == Len(queue[v])
<1>1. /\ v \in Workers /\ v # w /\ queue[w] = <<>> /\ work[w] = NoEntry
      /\ n \in Nat /\ queue[v] \in Seq(Entry)
  BY VictimOther DEF IInv, TypeOK, EmptyHanded, Handling, Steal
<1>2. CASE n > 0
  <2> DEFINE k == StealCount(n)
             e == queue[v][1]
             a == SubSeq(queue[v], 2, k)
             b == SubSeq(queue[v], k + 1, n)
  <2>1. k \in 1 .. n
    BY <1>1, <1>2, StealCountBound
  <2>2. /\ work' = [work EXCEPT ![w] = e]
        /\ queue' = [queue EXCEPT ![w] = queue[w] \o a, ![v] = b]
        /\ UNCHANGED <<fate, mainPc, nextRoot, initial, todo, delivered, errors, pruned, listed, quit>>
    BY <1>1, <1>2 DEF Steal, Take, IInv, TypeOK
  <2>3. /\ a \in Seq(Entry) /\ e \in Entry
        /\ Range(queue[v]) = {e} \cup Range(a) \cup Range(b)
        /\ e \notin Range(a) \cup Range(b)
    BY <1>1, <2>1, Split DEF IInv, OnePlace
  <2> HIDE DEF v, n, k, e, a, b
  <2>4. queue[w] \o a = a /\ Range(queue[w]) = {}
    BY <1>1, <2>3 DEF Range
  <2>5. /\ queue'[w] = a /\ queue'[v] = b
        /\ \A u \in Workers : u # w /\ u # v => queue'[u] = queue[u] /\ e \notin Range(queue[u])
    BY <1>1, <2>2, <2>3, <2>4 DEF IInv, TypeOK, OnePlace
  <2>6. \A x : (\E u \in Workers : x \in Range(queue'[u])) <=> x # e /\ \E u \in Workers : x \in Range(queue[u])
    BY <1>1, <2>3, <2>4, <2>5
  <2>7. Ready(e)
    BY <1>1, <2>3 DEF IInv, Waiting
  <2> QED BY <1>1, <2>2, <2>3, <2>6, <2>7, BeginStep
<1>3. CASE n = 0
  <2>1. UNCHANGED <<fate, mainPc, nextRoot, initial, queue, work, todo, delivered, errors, pruned, listed, quit>>
    BY <1>3 DEF Steal, FindNothing
  <2> QED BY <2>1, EntriesKept
<1> QED
  BY <1>1, <1>2, <1>3

\* A device that cannot be read is reported.
LEMMA CheckDeviceStep ==
    ASSUME IInv, NEW w \in Workers, CheckDevice(w)
    PROVE  (\E e \in Entry : T!Report(e)) \/ UNCHANGED T!vars
<1> USE DEF runVars, mainVars, queueVars
<1> DEFINE e == work[w]
<1>1. UNCHANGED <<fate, mainPc, nextRoot, initial, queue, work, todo, delivered, pruned, listed>>
  BY DEF CheckDevice, VisitError, seenVars
<1>2. e \in Entry /\ Ready(e)
  BY DEF CheckDevice, IInv, Handling
<1>3. CASE fate[e] # "nodev"
  <2>1. errors' = errors /\ quit' = quit
    BY <1>3 DEF CheckDevice, seenVars
  <2> QED BY <1>1, <2>1, EntriesKept
<1>4. CASE fate[e] = "nodev"
  <2>1. PICK answer \in Answers : /\ errors' = [errors EXCEPT ![e] = errors[e] + 1]
                                  /\ quit' = (quit \/ answer = "quit")
    BY <1>4 DEF CheckDevice, VisitError
  <2>2. errors[e] = 0 /\ errors' = [errors EXCEPT ![e] = 1]
    <3>1. errors[e] = 0
      BY <1>2, <1>4 DEF Ready
    <3>2. errors[e] + 1 = 1
      BY <3>1
    <3> QED BY <2>1, <3>1, <3>2
  <2>3. quit' \in {quit, TRUE}
    <3>1. quit' = (quit \/ answer = "quit") /\ quit \in BOOLEAN
      BY <2>1 DEF IInv, TypeOK
    <3> QED BY <3>1, Zenon
  <2>4. waitingEntries' = waitingEntries /\ openEntries' = openEntries /\ e \in openEntries
    BY <1>1, <1>2, TreeAssumption DEF waitingEntries, openEntries
  <2>5. ErrorsDue(fate, pruned, e) = 1
    BY <1>4 DEF ErrorsDue
  <2>6. (mainPc = "joined")' = (mainPc = "joined")
    BY <1>1
  <2>7. e \in waitingEntries \cup openEntries /\ waitingEntries' \in {waitingEntries, waitingEntries \ {e}}
        /\ e \notin waitingEntries \ waitingEntries'
    BY <2>4
  <2> QED BY <1>1, <1>2, <2>2, <2>3, <2>4, <2>5, <2>6, <2>7, ReportStep
<1> QED
  BY <1>3, <1>4

\* The entry in hand is delivered.
LEMMA VisitStep ==
    ASSUME IInv, NEW w \in Workers, Visit(w)
    PROVE  (\E e \in Entry : T!Deliver(e)) \/ UNCHANGED T!vars
<1> USE DEF runVars, mainVars, queueVars
<1> DEFINE e == work[w]
<1>1. UNCHANGED <<fate, mainPc, nextRoot, initial, queue, work, todo, errors, listed>>
  BY DEF Visit, VisitEntry, seenVars
<1>2. e \in Entry /\ Untouched(e)
  BY DEF Visit, IInv, Handling
<1>3. CASE ~ShouldVisit(e)
  <2>1. delivered' = delivered /\ pruned' = pruned /\ quit' = quit
    BY <1>3 DEF Visit, seenVars
  <2> QED BY <1>1, <2>1, EntriesKept
<1>4. CASE ShouldVisit(e)
  <2>1. PICK answer \in Answers :
          /\ delivered' = [delivered EXCEPT ![e] = delivered[e] + 1]
          /\ pruned' = IF answer = "skip" THEN pruned \cup {e} ELSE pruned
          /\ quit' = (quit \/ answer = "quit")
    BY <1>4 DEF Visit, VisitEntry
  <2>2. delivered[e] = 0 /\ delivered' = [delivered EXCEPT ![e] = 1] /\ e \notin listed
    BY <1>2, <2>1 DEF Untouched
  <2>3. pruned' \in {pruned, pruned \cup {e}}
    BY <2>1
  <2>4. quit' \in {quit, TRUE}
    <3>1. quit' = (quit \/ answer = "quit") /\ quit \in BOOLEAN
      BY <2>1 DEF IInv, TypeOK
    <3> QED BY <3>1, Zenon
  <2>5. waitingEntries' = waitingEntries /\ openEntries' = openEntries /\ e \in openEntries
    BY <1>1, <1>2, TreeAssumption DEF waitingEntries, openEntries
  <2>6. (mainPc = "joined")' = (mainPc = "joined")
    BY <1>1
  <2>7. T!ShouldVisit(e)
    BY <1>4, SameTree
  <2>8. T!Deliver(e)
    <3>1. UNCHANGED <<fate, errors, listed>>
      BY <1>1
    <3> QED BY <2>2, <2>3, <2>4, <2>5, <2>6, <2>7, <3>1, Zenon DEF T!Deliver
  <2> QED BY <1>2, <2>8
<1> QED
  BY <1>3, <1>4

\* The directory in hand is listed, or reported.
LEMMA ReadDirStep ==
    ASSUME IInv, NEW w \in Workers, ReadDir(w)
    PROVE  \E e \in Entry : T!Report(e) \/ T!List(e)
<1> USE DEF runVars, mainVars, queueVars
<1> DEFINE e == work[w]
<1>1. /\ pc[w] = "list"
      /\ UNCHANGED <<fate, mainPc, nextRoot, initial, queue, work, delivered, pruned>>
  BY DEF ReadDir, VisitError
<1>2. /\ e \in Entry /\ e \notin listed /\ e \notin pruned /\ Descends(fate, e)
      /\ delivered[e] = DeliveriesDue(fate, e)
      /\ errors[e] = IF fate[e] = "partial" THEN 1 ELSE 0
      /\ todo[w] = {}
  BY <1>1 DEF IInv, Handling
<1>3. openEntries' = openEntries /\ e \in openEntries
  BY <1>1, <1>2, TreeAssumption DEF openEntries
<1>4. (mainPc = "joined")' = (mainPc = "joined")
  BY <1>1
<1>5. CASE fate[e] = "unreadable"
  <2>1. PICK answer \in Answers : /\ errors' = [errors EXCEPT ![e] = errors[e] + 1]
                                  /\ quit' = (quit \/ answer = "quit")
                                  /\ listed' = listed /\ todo' = todo
    BY <1>5 DEF ReadDir, VisitError
  <2>2. errors[e] = 0 /\ errors' = [errors EXCEPT ![e] = 1]
    <3>1. errors[e] = 0
      BY <1>2, <1>5
    <3>2. errors[e] + 1 = 1
      BY <3>1
    <3> QED BY <2>1, <3>1, <3>2
  <2>3. quit' \in {quit, TRUE}
    <3>1. quit' = (quit \/ answer = "quit") /\ quit \in BOOLEAN
      BY <2>1 DEF IInv, TypeOK
    <3> QED BY <3>1, Zenon
  <2>4. waitingEntries' = waitingEntries
    BY <1>1, <2>1 DEF waitingEntries
  <2>5. ErrorsDue(fate, pruned, e) = 1
    BY <1>2, <1>5 DEF ErrorsDue
  <2>6. e \in waitingEntries \cup openEntries /\ waitingEntries' \in {waitingEntries, waitingEntries \ {e}}
        /\ e \notin waitingEntries \ waitingEntries'
    BY <1>3, <2>4
  <2>7. UNCHANGED <<fate, delivered, pruned, listed>>
    BY <1>1, <2>1
  <2> QED BY <1>2, <1>3, <1>4, <2>2, <2>3, <2>5, <2>6, <2>7, ReportStep
<1>6. CASE fate[e] # "unreadable"
  <2>1. /\ todo' = [todo EXCEPT ![w] = Children(e)]
        /\ listed' = listed \cup {e}
        /\ UNCHANGED <<errors, quit>>
    BY <1>6 DEF ReadDir
  <2>2. todo'[w] = Children(e) /\ \A u \in Workers : u # w => todo'[u] = todo[u]
    BY <2>1 DEF IInv, TypeOK
  <2>3. Unprepared' = Unprepared
    BY <1>1 DEF Unprepared
  <2>4. \A x : x \in waitingEntries' <=> x \in waitingEntries \cup Children(e)
    BY <1>1, <1>2, <2>2, <2>3, WaitingIs
  <2>5. waitingEntries' = waitingEntries \cup Children(e)
    BY <2>4 DEF waitingEntries
  <2>6. ListingDue(fate, pruned, e)
    BY <1>2, <1>6 DEF ListingDue, Descends
  <2>7. T!Children(e) = Children(e) /\ T!ListingDue(fate, pruned, e) /\ delivered[e] = T!DeliveriesDue(fate, e)
    BY <1>2, <2>6, SameTree
  <2>8. UNCHANGED <<fate, delivered, errors, pruned, quit>>
    BY <1>1, <2>1
  <2>9. T!List(e)
    BY <1>2, <1>3, <1>4, <2>1, <2>5, <2>7, <2>8 DEF T!List
  <2> QED BY <1>2, <2>9
<1> QED
  BY <1>5, <1>6

\* A child leaves the listing for good.
LEMMA ChildGone ==
    ASSUME IInv, NEW w \in Workers, NEW c \in todo[w], todo' = [todo EXCEPT ![w] = todo[w] \ {c}],
           UNCHANGED <<nextRoot, initial, queue>>
    PROVE  c \in Entry /\ c \in waitingEntries /\ waitingEntries' = waitingEntries \ {c}
<1>1. todo'[w] = todo[w] \ {c} /\ \A u \in Workers : u # w => todo'[u] = todo[u] /\ c \notin todo[u]
  BY DEF IInv, TypeOK, OnePlace
<1>2. c \in Entry /\ c \notin RootSet
  BY PlacesTyped DEF IInv, OnePlace
<1>3. c \notin Unprepared \cup Range(initial) /\ \A u \in Workers : c \notin Range(queue[u])
  BY <1>2, PlacesTyped DEF IInv, OnePlace
<1>4. Unprepared' = Unprepared
  BY DEF Unprepared
<1>5. c \in waitingEntries
  BY WaitingIs
<1>6. \A x : x \in waitingEntries' <=> x \in waitingEntries /\ x # c
  BY <1>1, <1>3, <1>4, WaitingIs
<1>7. waitingEntries' = waitingEntries \ {c}
  BY <1>6 DEF waitingEntries
<1> QED
  BY <1>2, <1>5, <1>7

LEMMA SkipChildStep ==
    ASSUME IInv, NEW w \in Workers, NEW c \in Entry, SkipChild(w, c)
    PROVE  T!Discard(c)
<1>1. /\ c \in todo[w] /\ fate[c] = "skipped"
      /\ todo' = [todo EXCEPT ![w] = todo[w] \ {c}]
      /\ UNCHANGED <<fate, mainPc, nextRoot, initial, queue, work, delivered, errors, pruned, listed, quit>>
  BY DEF SkipChild, runVars, mainVars, queueVars, seenVars
<1>2. c \in waitingEntries /\ waitingEntries' = waitingEntries \ {c}
  BY <1>1, ChildGone
<1>3. openEntries' = openEntries
  BY <1>1 DEF openEntries
<1>4. (mainPc = "joined")' = (mainPc = "joined")
  BY <1>1
<1> QED
  BY <1>1, <1>2, <1>3, <1>4 DEF T!Discard

LEMMA BrokenChildStep ==
    ASSUME IInv, NEW w \in Workers, NEW c \in Entry, BrokenChild(w, c)
    PROVE  T!Report(c)
<1>1. PICK answer \in Answers :
        /\ c \in todo[w] /\ fate[c] = "broken"
        /\ todo' = [todo EXCEPT ![w] = todo[w] \ {c}]
        /\ errors' = [errors EXCEPT ![c] = errors[c] + 1]
        /\ quit' = (quit \/ answer = "quit")
        /\ UNCHANGED <<fate, mainPc, nextRoot, initial, queue, work, delivered, pruned, listed>>
  BY DEF BrokenChild, VisitError, runVars, mainVars, queueVars
<1>2. errors[c] = 0 /\ errors' = [errors EXCEPT ![c] = 1]
  <2>1. errors[c] = 0
    BY <1>1 DEF IInv, Waiting, Fresh
  <2>2. errors[c] + 1 = 1
    BY <2>1
  <2> QED BY <1>1, <2>1, <2>2
<1>3. c \in waitingEntries /\ waitingEntries' = waitingEntries \ {c}
  BY <1>1, ChildGone
<1>4. quit' \in {quit, TRUE}
  <2>1. quit' = (quit \/ answer = "quit") /\ quit \in BOOLEAN
    BY <1>1 DEF IInv, TypeOK
  <2> QED BY <2>1, Zenon
<1>5. NeverQueued(fate, c) /\ ErrorsDue(fate, pruned, c) = 1
  BY <1>1 DEF NeverQueued, ErrorsDue
<1>6. openEntries' = openEntries
  BY <1>1 DEF openEntries
<1>7. (mainPc = "joined")' = (mainPc = "joined")
  BY <1>1
<1>8. UNCHANGED <<fate, delivered, pruned, listed>>
  BY <1>1
<1>9. c \in waitingEntries \cup openEntries /\ waitingEntries' \in {waitingEntries, waitingEntries \ {c}}
  BY <1>3
<1> QED
  BY <1>2, <1>4, <1>5, <1>6, <1>7, <1>8, <1>9, ReportStep

\* A child moves from the listing to the queue.
LEMMA PushChildStep ==
    ASSUME IInv, NEW w \in Workers, NEW c \in Entry, PushChild(w, c)
    PROVE  UNCHANGED T!vars
<1>1. /\ c \in todo[w]
      /\ queue' = [queue EXCEPT ![w] = Append(queue[w], c)]
      /\ todo' = [todo EXCEPT ![w] = todo[w] \ {c}]
      /\ UNCHANGED <<fate, mainPc, nextRoot, initial, work, delivered, errors, pruned, listed, quit>>
  BY DEF PushChild, runVars, mainVars, seenVars
<1>2. /\ Range(queue'[w]) = Range(queue[w]) \cup {c}
      /\ \A u \in Workers : u # w => queue'[u] = queue[u]
  <2>1. queue[w] \in Seq(Entry) /\ IsInjective(queue[w]) /\ c \notin Range(queue[w])
    BY <1>1 DEF IInv, TypeOK, OnePlace
  <2>2. queue'[w] = Append(queue[w], c) /\ \A u \in Workers : u # w => queue'[u] = queue[u]
    BY <1>1 DEF IInv, TypeOK
  <2> QED BY <2>1, <2>2, PushBack
<1>3. /\ todo'[w] = todo[w] \ {c} /\ \A u \in Workers : u # w => todo'[u] = todo[u]
      /\ Unprepared' = Unprepared
  BY <1>1 DEF IInv, TypeOK, Unprepared
<1>4. \A x : x \in waitingEntries' <=> x \in waitingEntries
  BY <1>1, <1>2, <1>3, WaitingIs
<1>5. waitingEntries' = waitingEntries
  BY <1>4 DEF waitingEntries
<1>6. openEntries' = openEntries
  BY <1>1 DEF openEntries
<1>7. (mainPc = "joined")' = (mainPc = "joined")
  BY <1>1
<1> QED
  BY <1>1, <1>5, <1>6, <1>7 DEF T!vars

-----------------------------------------------------------------------------
(***************************************************************************)
(* The refinement.                                                         *)
(***************************************************************************)

LEMMA InitRefines == Init => T!Init
<1> SUFFICES ASSUME Init PROVE T!Init
  OBVIOUS
<1>1. initial = <<>> /\ Range(initial) = {} /\ \A w \in Workers : Range(queue[w]) = {} /\ todo[w] = {}
  BY DEF Init, Range
<1>2. Unprepared = RootSet
  BY RootFacts DEF Init, Unprepared, RootSet
<1>3. \A x : x \in waitingEntries <=> x \in RootSet
  BY <1>1, <1>2, WaitingIs
<1>4. waitingEntries = T!RootSet
  BY <1>3, SameTree DEF waitingEntries, RootSet
<1>5. openEntries = {}
  BY DEF Init, openEntries
<1>6. fate \in T!FateFunctions
  BY SameTree DEF Init
<1>7. (mainPc = "joined") = FALSE
  BY DEF Init
<1> QED
  BY <1>4, <1>5, <1>6, <1>7 DEF Init, T!Init

\* A worker's step.
LEMMA WorkerRefines ==
    ASSUME IInv, NEW w \in Workers, FreeStep(w) \/ LockStep(w)
    PROVE  [T!Next]_(T!vars)
<1>1. CASE Leave(w) \/ CheckActive(w) \/ CheckStopIdle(w) \/ Wake(w) \/ ChildrenDone(w) \/ LockFirst(w)
  BY <1>1, EntriesKept
     DEF Leave, CheckActive, CheckStopIdle, Wake, ChildrenDone, LockFirst,
         fsVars, mainVars, queueVars, seenVars, runVars
<1>2. CASE CheckStop(w) \/ StoreStop(w)
  BY <1>2, CheckStopStep, StoreStopStep DEF T!Next
<1>3. CASE CheckDevice(w) \/ Visit(w) \/ ReadDir(w)
  BY <1>3, CheckDeviceStep, VisitStep, ReadDirStep DEF T!Next
<1>4. CASE \E c \in Entry : SkipChild(w, c) \/ BrokenChild(w, c) \/ PushChild(w, c)
  BY <1>4, SkipChildStep, BrokenChildStep, PushChildStep DEF T!Next
<1>5. CASE TakeOwn(w) \/ Steal(w)
  BY <1>5, TakeOwnStep, StealStep DEF T!Next
<1> QED
  BY <1>1, <1>2, <1>3, <1>4, <1>5 DEF FreeStep, LockStep

LEMMA StepRefines ==
    ASSUME IInv, [Next]_vars
    PROVE  [T!Next]_(T!vars)
<1>1. CASE UNCHANGED vars
  BY <1>1, EntriesKept DEF vars
<1>2. CASE PreparationDone
  BY <1>2, EntriesKept DEF PreparationDone, fsVars, queueVars, workerVars, seenVars
<1>3. CASE PrepareRoot \/ PrepareFailingRoot \/ Deal \/ Join
  BY <1>3, PrepareRootStep, PrepareFailingRootStep, DealStep, JoinStep DEF T!Next
<1>4. CASE \E w \in Workers : FreeStep(w) \/ LockStep(w)
  BY <1>4, WorkerRefines
<1> QED
  BY <1>1, <1>2, <1>3, <1>4 DEF Next, MainStep, Terminated

\* The parallel walk implements Traversal, for every tree, every number of
\* workers, every interleaving and every answer of the visitors: an entry is
\* taken up once, delivered and reported as is due to it, and the walk ends with
\* nothing left to do unless a visitor quit (WalkParallel.run).
THEOREM Refinement == Spec => Refines
<1>1. Init => T!Init
  BY InitRefines
<1>2. IInv /\ [Next]_vars => [T!Next]_(T!vars)
  BY StepRefines
<1> QED
  BY <1>1, <1>2, Invariance, PTL DEF Spec, Refines, T!Spec

-----------------------------------------------------------------------------
\* A worker that took an item after the flag was set does not come back to
\* the queues: its loop reads the flag.
LatePlace(w) ==
    late[w] # 0 => late[w] = 1 /\ stop /\ pc[w] \in {"wake", "run", "visit", "list", "push", "quit", "loop", "exited"}

LEMMA LatePlaceKept ==
    ASSUME IInv, [Next]_vars, \A w \in Workers : LatePlace(w), NEW u \in Workers
    PROVE  LatePlace(u)'
<1> USE DEF IInv, TypeOK, LatePlace, Goto, fsVars, mainVars, queueVars, seenVars, runVars, workerVars
<1>1. CASE PrepareRoot \/ PrepareFailingRoot \/ PreparationDone \/ Join
  BY <1>1 DEF PrepareRoot, PrepareFailingRoot, PreparationDone, Join
<1>2. CASE Deal
  BY <1>2 DEF Deal, Phase
<1>3. ASSUME NEW w \in Workers, CheckStop(w) \/ Leave(w) \/ CheckActive(w) \/ CheckStopIdle(w) \/ Wake(w) PROVE LatePlace(u)'
  BY <1>3 DEF CheckStop, Leave, CheckActive, CheckStopIdle, Wake
<1>4. ASSUME NEW w \in Workers, CheckDevice(w) \/ Visit(w) \/ ReadDir(w) \/ ChildrenDone(w) \/ StoreStop(w) PROVE LatePlace(u)'
  BY <1>4 DEF CheckDevice, Visit, AfterVisit, ReadDir, ChildrenDone, StoreStop
<1>5. ASSUME NEW w \in Workers, NEW c \in Entry, SkipChild(w, c) \/ BrokenChild(w, c) \/ PushChild(w, c) PROVE LatePlace(u)'
  BY <1>5 DEF SkipChild, BrokenChild, PushChild
<1>6. ASSUME NEW w \in Workers, TakeOwn(w) \/ LockFirst(w) \/ Steal(w) PROVE LatePlace(u)'
  <2>1. /\ pc[w] \in {"take", "steal", "pair"} /\ stop' = stop
        /\ pc' = [pc EXCEPT ![w] = pc'[w]]
        /\ \/ UNCHANGED late
           \/ pc'[w] \in {"wake", "run"} /\ late' = [late EXCEPT ![w] = IF stop THEN @ + 1 ELSE @]
    BY SMTT(30), <1>6 DEF TakeOwn, LockFirst, Steal, Take, FindNothing
  <2>a. late[w] = 0 /\ late \in [Workers -> Nat] /\ stop \in BOOLEAN
    BY <2>1
  <2>b. late' = late \/ late' = [late EXCEPT ![w] = 0] \/ (stop /\ late' = [late EXCEPT ![w] = 1])
    BY <2>1, <2>a
  <2>2. late'[w] \in {0, 1} /\ (~stop => late'[w] = 0) /\ \A v \in Workers : v # w => late'[v] = late[v]
    BY <2>a, <2>b
  <2>3. late'[w] # 0 => stop /\ pc'[w] \in {"wake", "run"}
    BY <2>1, <2>a, <2>2
  <2>4. CASE u = w
    BY <2>1, <2>2, <2>3, <2>4
  <2>5. CASE u # w
    BY <2>1, <2>2, <2>5
  <2> QED
    BY <2>4, <2>5
<1>7. CASE UNCHANGED vars
  BY <1>7 DEF vars
<1> QED
  BY <1>1, <1>2, <1>3, <1>4, <1>5, <1>6, <1>7 DEF Next, MainStep, FreeStep, LockStep, Terminated

\* Once the stop flag is set every worker begins at most one more item,
\* whatever the tree, the workers and the answers.
THEOREM WalkAtMostOneLate == Spec => []AtMostOneLate
<1> DEFINE L == \A w \in Workers : LatePlace(w)
<1>1. Init => L
  BY DEF Init, LatePlace
<1>2. IInv /\ L /\ [Next]_vars => L'
  BY LatePlaceKept
<1>3. L => AtMostOneLate
  BY DEF LatePlace, AtMostOneLate
<1> QED
  BY <1>1, <1>2, <1>3, Invariance, PTL DEF Spec

-----------------------------------------------------------------------------
Working == {w \in Workers : ~idle[w]}

\* The counter, and that only a waiting worker counts itself again.
Counted ==
    /\ ActiveExact
    /\ \A w \in Workers : pc[w] = "wake" => idle[w]

LEMMA WorkingFinite == IsFiniteSet(Working) /\ IsFiniteSet(Workers) /\ Cardinality(Workers) = WorkerCount
<1>1. IsFiniteSet(Workers) /\ Cardinality(Workers) = WorkerCount
  BY WorkerFacts, FS_Interval
<1>2. Working \in SUBSET Workers
  BY DEF Working
<1> QED
  BY <1>1, <1>2, FS_Subset

LEMMA CountedKept == IInv /\ Counted /\ [Next]_vars => Counted'
<1> SUFFICES ASSUME IInv, Counted, [Next]_vars PROVE Counted'
  OBVIOUS
<1> USE DEF IInv, TypeOK, Counted, Goto, fsVars, mainVars, queueVars, seenVars, runVars, workerVars
<1>0. ActiveExact <=> (mainPc = "walking" => active = Cardinality(Working))
  BY DEF ActiveExact, Working
<1>0a. ActiveExact' <=> (mainPc' = "walking" => active' = Cardinality(Working'))
  BY DEF ActiveExact, Working
<1>a. ASSUME UNCHANGED <<mainPc, active, idle>>, \A w \in Workers : pc'[w] = "wake" => idle[w] PROVE Counted'
  BY <1>a DEF ActiveExact
<1>1. CASE PrepareRoot \/ PrepareFailingRoot \/ PreparationDone \/ Join
  BY <1>1 DEF PrepareRoot, PrepareFailingRoot, PreparationDone, Join, ActiveExact, Phase
<1>2. CASE Deal
  <2>1. CASE initial = <<>>
    BY <1>2, <2>1 DEF Deal, ActiveExact
  <2>2. CASE initial # <<>>
    <3>1. active' = WorkerCount /\ \A w \in Workers : ~idle'[w] /\ pc'[w] = "loop"
      BY <1>2, <2>2 DEF Deal, Phase
    <3>2. Working' = Workers
      BY <3>1 DEF Working
    <3> QED
      BY <1>0a, <3>1, <3>2, WorkingFinite
  <2> QED
    BY <2>1, <2>2
<1>3. ASSUME NEW w \in Workers, Leave(w) PROVE Counted'
  <2>1. /\ active' = active - 1 /\ idle' = [idle EXCEPT ![w] = TRUE] /\ UNCHANGED mainPc
        /\ ~idle[w] /\ \A v \in Workers : pc'[v] = "wake" => v # w /\ pc[v] = "wake"
    BY <1>3 DEF Leave, IdlePlace
  <2>2. Working' = Working \ {w} /\ w \in Working
    BY <2>1 DEF Working
  <2>3. Cardinality(Working') = Cardinality(Working) - 1
    BY <2>2, WorkingFinite, FS_RemoveElement
  <2> QED
    BY <1>0, <1>0a, <2>1, <2>3
<1>4. ASSUME NEW w \in Workers, Wake(w) PROVE Counted'
  <2>1. /\ active' = active + 1 /\ idle' = [idle EXCEPT ![w] = FALSE] /\ UNCHANGED mainPc
        /\ idle[w] /\ \A v \in Workers : pc'[v] = "wake" => v # w /\ pc[v] = "wake"
    BY <1>4 DEF Wake
  <2>2. Working' = Working \cup {w} /\ w \notin Working
    BY <2>1 DEF Working
  <2>3. Cardinality(Working') = Cardinality(Working) + 1
    BY <2>2, WorkingFinite, FS_AddElement
  <2> QED
    BY <1>0, <1>0a, <2>1, <2>3
<1>5. ASSUME NEW w \in Workers, CheckStop(w) \/ CheckActive(w) \/ CheckStopIdle(w) PROVE Counted'
  BY <1>5, <1>a DEF CheckStop, CheckActive, CheckStopIdle
<1>6. ASSUME NEW w \in Workers, CheckDevice(w) \/ Visit(w) \/ ReadDir(w) \/ ChildrenDone(w) \/ StoreStop(w) PROVE Counted'
  BY <1>6, <1>a DEF CheckDevice, Visit, AfterVisit, ReadDir, ChildrenDone, StoreStop
<1>7. ASSUME NEW w \in Workers, NEW c \in Entry, SkipChild(w, c) \/ BrokenChild(w, c) \/ PushChild(w, c) PROVE Counted'
  BY <1>7, <1>a DEF SkipChild, BrokenChild, PushChild
<1>8. ASSUME NEW w \in Workers, TakeOwn(w) \/ LockFirst(w) \/ Steal(w) PROVE Counted'
  <2>1. /\ UNCHANGED <<mainPc, active, idle>>
        /\ pc' = [pc EXCEPT ![w] = pc'[w]]
        /\ pc'[w] = "wake" => idle[w]
    BY <1>8 DEF TakeOwn, LockFirst, Steal, Take, FindNothing
  <2> QED
    BY <1>a, <2>1
<1>9. CASE UNCHANGED vars
  BY <1>9, <1>a DEF vars
<1> QED
  BY <1>1, <1>2, <1>3, <1>4, <1>5, <1>6, <1>7, <1>8, <1>9 DEF Next, MainStep, FreeStep, LockStep, Terminated

LEMMA CountedAlways == Spec => []Counted
<1>1. Init => Counted
  BY DEF Init, Counted, ActiveExact
<1> QED
  BY <1>1, CountedKept, Invariance, PTL DEF Spec

-----------------------------------------------------------------------------
\* What Traversal keeps: an entry that was discovered and is neither waiting
\* nor open got all that is due to it, unless the visitor quit.
Found(e) == e \in RootSet \/ Parent[e] \in listed
Gone(e) == e \notin waitingEntries /\ e \notin openEntries
Tally ==
    /\ \A e \in Entry : Found(e) /\ Gone(e) /\ ~quit => Settled(e)
    /\ mainPc = "joined" /\ ~quit => \A e \in Entry : Gone(e)

LEMMA WaitingClean ==
    ASSUME IInv, NEW e \in Entry, e \in waitingEntries
    PROVE  delivered[e] = 0 /\ e \notin listed /\ e \notin pruned /\ (NeverQueued(fate, e) => errors[e] = 0)
<1>1. \/ e \in Unprepared \cup Range(initial)
      \/ \E w \in Workers : e \in Range(queue[w]) \cup todo[w]
  BY WaitingIs
<1> QED
  BY <1>1 DEF IInv, Waiting, Fresh, Ready, Untouched

LEMMA Owing ==
    ASSUME NEW e \in Entry, NeverQueued(fate, e)
    PROVE  /\ DeliveriesDue(fate, e) = 0 /\ ~ListingDue(fate, pruned, e)
           /\ ErrorsDue(fate, pruned, e) = IF fate[e] = "skipped" THEN 0 ELSE 1
BY DEF NeverQueued, DeliveriesDue, ListingDue, ErrorsDue

LEMMA TallyKept ==
    ASSUME IInv, Tally, [Next]_vars
    PROVE  Tally'
<1>0. IInv' /\ [T!Next]_(T!vars)
  BY StepInv, StepRefines
<1>1. CASE UNCHANGED T!vars
  <2>1. UNCHANGED <<fate, waitingEntries, openEntries, delivered, errors, pruned, listed, quit>> /\ ((mainPc = "joined") <=> (mainPc' = "joined"))
    BY <1>1 DEF T!vars
  <2> QED
    BY <2>1 DEF Tally, Found, Gone, Settled
<1>2. ASSUME NEW e \in Entry, T!Begin(e) PROVE Tally'
  <2>1. /\ e \in waitingEntries /\ waitingEntries' = waitingEntries \ {e} /\ openEntries' = openEntries \cup {e}
        /\ UNCHANGED <<fate, delivered, errors, pruned, listed, quit>> /\ ((mainPc = "joined") <=> (mainPc' = "joined"))
    BY <1>2 DEF T!Begin
  <2> QED
    BY <2>1 DEF Tally, Found, Gone, Settled
<1>3. ASSUME NEW e \in Entry, T!Discard(e) PROVE Tally'
  <2>1. /\ e \in waitingEntries /\ waitingEntries' = waitingEntries \ {e} /\ fate[e] = "skipped"
        /\ UNCHANGED <<fate, openEntries, delivered, errors, pruned, listed, quit>> /\ ((mainPc = "joined") <=> (mainPc' = "joined"))
    BY <1>3 DEF T!Discard
  <2>2. Settled(e)
    BY <2>1, WaitingClean, Owing DEF NeverQueued, Settled
  <2> QED
    BY <2>1, <2>2 DEF Tally, Found, Gone, Settled
<1>4. ASSUME NEW e \in Entry, T!Deliver(e) PROVE Tally'
  <2>1. /\ e \in openEntries /\ delivered' = [delivered EXCEPT ![e] = 1] /\ pruned' \in {pruned, pruned \cup {e}}
        /\ quit' \in {quit, TRUE}
        /\ UNCHANGED <<fate, waitingEntries, openEntries, errors, listed>> /\ ((mainPc = "joined") <=> (mainPc' = "joined"))
    BY <1>4 DEF T!Deliver
  <2>2. \A x \in Entry : x # e /\ Settled(x) => Settled(x)'
    BY <2>1 DEF Settled, ErrorsDue, ListingDue, IInv, TypeOK
  <2>3. \A x \in Entry : (Found(x)' <=> Found(x)) /\ (Gone(x)' <=> Gone(x)) /\ (Gone(x) => x # e)
    BY <2>1 DEF Found, Gone
  <2>4. ~quit' => ~quit
    BY <2>1
  <2> QED
    BY <2>1, <2>2, <2>3, <2>4 DEF Tally
<1>5. ASSUME NEW e \in Entry, T!Report(e) PROVE Tally'
  <2>1. /\ e \in waitingEntries \cup openEntries /\ ErrorsDue(fate, pruned, e) = 1
        /\ errors' = [errors EXCEPT ![e] = 1] /\ quit' \in {quit, TRUE}
        /\ waitingEntries' \in {waitingEntries, waitingEntries \ {e}}
        /\ e \in waitingEntries \ waitingEntries' => NeverQueued(fate, e) \/ quit'
        /\ UNCHANGED <<fate, openEntries, delivered, pruned, listed>> /\ ((mainPc = "joined") <=> (mainPc' = "joined"))
    BY <1>5, SameTree DEF T!Report
  <2>2. \A x \in Entry : x # e /\ Settled(x) => Settled(x)'
    BY <2>1 DEF Settled, IInv, TypeOK
  <2>3. \A x \in Entry : (Found(x)' <=> Found(x)) /\ (Gone(x) => x # e) /\ (x # e => (Gone(x)' <=> Gone(x)))
    BY <2>1 DEF Found, Gone
  <2>4. ~quit' => ~quit
    BY <2>1
  <2>5. ASSUME Gone(e)', ~quit' PROVE Settled(e)'
    <3>1. e \in waitingEntries /\ NeverQueued(fate, e)
      BY <2>1, <2>5 DEF Gone
    <3>2. delivered[e] = 0 /\ e \notin listed /\ DeliveriesDue(fate, e) = 0 /\ ~ListingDue(fate, pruned, e)
      BY <3>1, WaitingClean, Owing
    <3>3. errors'[e] = 1
      BY <2>1 DEF IInv, TypeOK
    <3> QED
      BY <2>1, <3>2, <3>3 DEF Settled
  <2>6. mainPc' = "joined" /\ ~quit' => FALSE
    BY <2>1, <2>4 DEF Tally, Gone
  <2> QED
    BY <2>2, <2>3, <2>4, <2>5, <2>6 DEF Tally
<1>6. ASSUME NEW e \in Entry, T!List(e) PROVE Tally'
  <2>1. /\ e \in openEntries /\ listed' = listed \cup {e} /\ waitingEntries' = waitingEntries \cup Children(e)
        /\ UNCHANGED <<fate, openEntries, delivered, errors, pruned, quit>> /\ ((mainPc = "joined") <=> (mainPc' = "joined"))
    BY <1>6, SameTree DEF T!List
  <2>2. \A x \in Entry : x # e /\ Settled(x) => Settled(x)'
    BY <2>1 DEF Settled
  <2>3. \A x \in Entry : Gone(x)' => Gone(x) /\ x # e /\ (Found(x)' => Found(x))
    BY <2>1 DEF Found, Gone, Children
  <2>4. mainPc' = "joined" /\ ~quit' => FALSE
    BY <2>1 DEF Tally, Gone
  <2> QED
    BY <2>1, <2>2, <2>3, <2>4 DEF Tally
<1>7. ASSUME NEW e \in Entry, T!Close(e) PROVE Tally'
  <2>1. /\ openEntries' = openEntries \ {e} /\ (Settled(e) \/ quit)
        /\ UNCHANGED <<fate, waitingEntries, delivered, errors, pruned, listed, quit>> /\ ((mainPc = "joined") <=> (mainPc' = "joined"))
    BY <1>7, SameTree DEF T!Close, T!Settled, Settled
  <2> QED
    BY <2>1 DEF Tally, Found, Gone, Settled
<1>8. ASSUME T!Finish PROVE Tally'
  <2>1. /\ quit \/ (waitingEntries = {} /\ openEntries = {})
        /\ UNCHANGED <<fate, waitingEntries, openEntries, delivered, errors, pruned, listed, quit>>
    BY <1>8 DEF T!Finish
  <2> QED
    BY <2>1 DEF Tally, Found, Gone, Settled
<1> QED
  BY <1>0, <1>1, <1>2, <1>3, <1>4, <1>5, <1>6, <1>7, <1>8 DEF T!Next

LEMMA TallyAlways == Spec => []Tally
<1>1. Init => Tally
  <2> SUFFICES ASSUME Init PROVE Tally
    OBVIOUS
  <2>1. \A x : x \in RootSet => x \in waitingEntries
    BY InitRefines, SameTree DEF T!Init
  <2>2. \A e \in Entry : Found(e) => e \in RootSet
    BY DEF Init, Found
  <2> QED
    BY <2>1, <2>2 DEF Init, Tally, Gone
<1> QED
  BY <1>1, TallyKept, Invariance, PTL DEF Spec

-----------------------------------------------------------------------------
LEMMA PlacesAre ==
    ASSUME NEW e, NEW p
    PROVE  p \in Places(e) <=>
             \/ \E i \in DOMAIN initial : initial[i] = e /\ p = <<"initial", 0, i>>
             \/ \E w \in Workers : \E i \in DOMAIN queue[w] : queue[w][i] = e /\ p = <<"queue", w, i>>
             \/ \E w \in Workers : work[w] = e /\ p = <<"work", w, 0>>
             \/ \E w \in Workers : e \in todo[w] /\ p = <<"todo", w, 0>>
<1>1. p \in {<<"initial", 0, i>> : i \in {i \in DOMAIN initial : initial[i] = e}}
        <=> \E i \in DOMAIN initial : initial[i] = e /\ p = <<"initial", 0, i>>
  OBVIOUS
<1>2. p \in (UNION {{<<"queue", w, i>> : i \in {i \in DOMAIN queue[w] : queue[w][i] = e}} : w \in Workers})
        <=> \E w \in Workers : \E i \in DOMAIN queue[w] : queue[w][i] = e /\ p = <<"queue", w, i>>
  OBVIOUS
<1>3. p \in {<<"work", w, 0>> : w \in {w \in Workers : work[w] = e}} <=> \E w \in Workers : work[w] = e /\ p = <<"work", w, 0>>
  OBVIOUS
<1>4. p \in {<<"todo", w, 0>> : w \in {w \in Workers : e \in todo[w]}} <=> \E w \in Workers : e \in todo[w] /\ p = <<"todo", w, 0>>
  OBVIOUS
<1> QED
  BY <1>1, <1>2, <1>3, <1>4, Zenon DEF Places

LEMMA PlaceUnique ==
    ASSUME IInv, NEW e \in Entry, NEW p \in Places(e), NEW q \in Places(e)
    PROVE  p = q
<1> DEFINE InInitial(r) == \E i \in DOMAIN initial : initial[i] = e /\ r = <<"initial", 0, i>>
           InQueue(r) == \E w \in Workers : \E i \in DOMAIN queue[w] : queue[w][i] = e /\ r = <<"queue", w, i>>
           AtWork(r) == \E w \in Workers : work[w] = e /\ r = <<"work", w, 0>>
           InTodo(r) == \E w \in Workers : e \in todo[w] /\ r = <<"todo", w, 0>>
<1>1. /\ InInitial(p) \/ InQueue(p) \/ AtWork(p) \/ InTodo(p)
      /\ InInitial(q) \/ InQueue(q) \/ AtWork(q) \/ InTodo(q)
  BY PlacesAre
<1>2. e # NoEntry
  BY TreeAssumption
<1>3. \A w \in Workers : \A i \in DOMAIN queue[w] : queue[w][i] \in Range(queue[w])
  BY DEF Range
<1>4. ASSUME NEW i \in DOMAIN initial
      PROVE  \A w \in Workers : queue[w] = <<>> /\ work[w] = NoEntry /\ todo[w] = {}
  <2>1. initial # <<>>
    BY <1>4
  <2>2. mainPc \in {"prepare", "deal"}
    BY <2>1 DEF IInv, TypeOK, Phase
  <2> QED
    BY <2>2 DEF IInv, Phase, Handling
<1>5. ASSUME NEW i \in DOMAIN initial
      PROVE  \A r : ~InQueue(r) /\ ~AtWork(r) /\ ~InTodo(r)
  BY <1>2, <1>4, <1>5
<1>6. CASE InInitial(p) \/ InInitial(q)
  <2>1. InInitial(p) /\ InInitial(q)
    BY <1>1, <1>5, <1>6
  <2>2. PICK i \in DOMAIN initial : initial[i] = e /\ p = <<"initial", 0, i>>
    BY <2>1
  <2>3. PICK j \in DOMAIN initial : initial[j] = e /\ q = <<"initial", 0, j>>
    BY <2>1
  <2>4. i = j
    BY <2>2, <2>3 DEF IInv, OnePlace, IsInjective
  <2> QED
    BY <2>2, <2>3, <2>4
<1>7. CASE InQueue(p) \/ InQueue(q)
  <2>0. PICK w \in Workers : \E i \in DOMAIN queue[w] : queue[w][i] = e
    BY <1>7
  <2>1. PICK i \in DOMAIN queue[w] : queue[w][i] = e
    BY <2>0
  <2>2. e \in Range(queue[w]) /\ \A u \in Workers : e # work[u] /\ e \notin todo[u]
    BY <1>3, <2>1 DEF IInv, OnePlace
  <2>3. ASSUME NEW u \in Workers, NEW j \in DOMAIN queue[u], queue[u][j] = e PROVE u = w /\ i = j
    <3>1. u = w
      BY <1>3, <2>2, <2>3 DEF IInv, OnePlace
    <3> QED
      BY <2>1, <2>3, <3>1 DEF IInv, OnePlace, IsInjective
  <2>4. ~AtWork(p) /\ ~AtWork(q) /\ ~InTodo(p) /\ ~InTodo(q)
    BY <2>2
  <2>5. ASSUME NEW r, InQueue(r) PROVE r = <<"queue", w, i>>
    BY <2>3, <2>5
  <2>6. InQueue(p) \/ InInitial(p)
    BY <1>1, <2>4
  <2>7. InQueue(q) \/ InInitial(q)
    BY <1>1, <2>4
  <2> QED
    BY <1>6, <2>5, <2>6, <2>7
<1>8. CASE AtWork(p) /\ AtWork(q)
  BY <1>2, <1>8 DEF IInv, OnePlace
<1>9. CASE AtWork(p) /\ InTodo(q)
  BY <1>9 DEF IInv, OnePlace
<1>10. CASE InTodo(p) /\ AtWork(q)
  BY <1>10 DEF IInv, OnePlace
<1>11. CASE InTodo(p) /\ InTodo(q)
  <2>1. PICK u \in Workers : e \in todo[u] /\ p = <<"todo", u, 0>>
    BY <1>11
  <2>2. PICK w \in Workers : e \in todo[w] /\ q = <<"todo", w, 0>>
    BY <1>11
  <2>3. u = w
    BY <2>1, <2>2 DEF IInv, OnePlace
  <2> QED
    BY <2>1, <2>2, <2>3
<1> QED
  BY <1>1, <1>6, <1>7, <1>8, <1>9, <1>10, <1>11

LEMMA NowhereIsGone ==
    ASSUME IInv, NEW e \in Entry, Discovered(e), Places(e) = {}
    PROVE  Found(e) /\ Gone(e)
<1>1. Found(e) /\ e \notin Unprepared
  <2>1. CASE \E i \in 1 .. nextRoot - 1 : Roots[i] = e
    <3>1. PICK i \in 1 .. nextRoot - 1 : Roots[i] = e
      BY <2>1
    <3>2. i \in 1 .. Len(Roots) /\ nextRoot \in Nat
      BY RootFacts DEF IInv, TypeOK
    <3>3. \A j \in nextRoot .. Len(Roots) : j \in 1 .. Len(Roots) /\ j # i
      BY <3>2, RootFacts DEF IInv, TypeOK
    <3>4. \A j \in nextRoot .. Len(Roots) : Roots[j] # Roots[i]
      BY <3>2, <3>3, RootFacts
    <3> QED
      BY <3>1, <3>2, <3>4, RootFacts DEF Found, Unprepared
  <2>2. CASE Parent[e] \in listed
    <3>1. e \notin RootSet
      BY <2>2, TreeAssumption DEF IInv, TypeOK
    <3> QED
      BY <2>2, <3>1, PlacesTyped DEF Found, IInv
  <2> QED
    BY <2>1, <2>2 DEF Discovered
<1>2. /\ ~\E i \in DOMAIN initial : initial[i] = e
      /\ \A w \in Workers : /\ ~\E i \in DOMAIN queue[w] : queue[w][i] = e
                            /\ work[w] # e /\ e \notin todo[w]
  BY ZenonT(40), PlacesAre
<1>3. e \notin Range(initial) /\ \A w \in Workers : e \notin Range(queue[w])
  BY <1>2 DEF Range
<1>4. e \notin waitingEntries
  BY <1>1, <1>2, <1>3, WaitingIs
<1>5. e \notin openEntries
  BY <1>2 DEF openEntries
<1> QED
  BY <1>1, <1>4, <1>5 DEF Gone

\* Nothing is lost, handled twice or handled in part, and the counter of active
\* workers is exact, for every tree, number of workers, interleaving and answer.
THEOREM WalkAccounted == Spec => []Accounted
<1>1. IInv /\ Tally => Conservation
  BY PlaceUnique, NowhereIsGone DEF Tally, Conservation
<1>2. IInv /\ Tally => Complete
  BY DEF IInv, Undiscovered, Fresh, Untouched, Tally, Found, Complete
<1>3. IInv /\ Tally /\ Counted => Accounted
  BY <1>1, <1>2 DEF Counted, Accounted
<1> QED
  BY <1>3, Invariance, TallyAlways, CountedAlways, PTL
=============================================================================
