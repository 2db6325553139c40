------------------------- MODULE LineBuffer_proofs --------------------------
(***************************************************************************)
(* Proofs about LineBuffer, for every set of inputs, every capacity and    *)
(* every limit.                                                            *)
(***************************************************************************)
EXTENDS LineBuffer, TLAPS

\* What connects the phases of fill: the loop runs on a rolled buffer and
\* never after binary data ended the input; such data leaves no partial line;
\* fill only answers false on an empty buffer.
Phases ==
    /\ pc = "read" => pos = 0 /\ ~(mode = "quit" /\ binaryByteOffset # None)
    /\ (mode = "quit" /\ binaryByteOffset # None) => lastLineterm = Len(buf)
    /\ (pc = "idle" /\ result = "false") => pos = Len(buf)
    /\ pos <= absoluteByteOffset
    /\ Capacity <= size

\* The inductive invariant.
Inv ==
    /\ TypeOK
    /\ Window
    /\ ReachesReader
    /\ BinaryOffsetExact
    /\ WholeLines
    /\ EndIsEnd
    /\ LimitKept
    /\ Phases

\* What SubSeq and \o return, element by element.
LEMMA SuffixElements ==
    ASSUME NEW S, NEW s \in Seq(S), NEW p \in 0 .. Len(s)
    PROVE  LET t == SubSeq(s, p + 1, Len(s))
           IN t \in Seq(S) /\ Len(t) = Len(s) - p /\ \A i \in 1 .. Len(t) : t[i] = s[p + i]
  OBVIOUS

LEMMA ConcatElements ==
    ASSUME NEW S, NEW s \in Seq(S), NEW t \in Seq(S)
    PROVE  LET u == s \o t
           IN /\ u \in Seq(S)
              /\ Len(u) = Len(s) + Len(t)
              /\ \A i \in 1 .. Len(u) : u[i] = IF i <= Len(s) THEN s[i] ELSE t[i - Len(s)]
  OBVIOUS

LEMMA SliceElements ==
    ASSUME NEW S, NEW s \in Seq(S), NEW a \in Nat, NEW b \in Nat, a <= b, b <= Len(s)
    PROVE  LET t == SubSeq(s, a + 1, b)
           IN t \in Seq(S) /\ Len(t) = b - a /\ \A i \in 1 .. Len(t) : t[i] = s[a + i]
  OBVIOUS

LEMMA GrowthNat == TypeOK /\ Phases => Growth \in Nat
  BY AdditionalAssumption, CapacityAssumption DEF TypeOK, Phases, Growth, Doubled, Remaining

LEMMA InitInv == Init => Inv
<1> SUFFICES ASSUME Init PROVE Inv
  OBVIOUS
<1> USE DEF Init
<1>1. input \in Seq(Byte)
  BY InputsAssumption
<1>2. TypeOK
  BY <1>1, CapacityAssumption DEF TypeOK
<1>3. Window /\ ReachesReader /\ WholeLines /\ EndIsEnd
  BY <1>1, NoneAssumption DEF Window, ReachesReader, WholeLines, EndIsEnd
<1>4. BinaryOffsetExact
  BY <1>1 DEF BinaryOffsetExact
<1>5. LimitKept
  BY AdditionalAssumption, CapacityAssumption DEF LimitKept
<1>6. Phases
  BY CapacityAssumption DEF Phases
<1> QED
  BY <1>2, <1>3, <1>4, <1>5, <1>6 DEF Inv

LEMMA NewReaderInv == Inv /\ NewReader => Inv'
<1> SUFFICES ASSUME Inv, NewReader PROVE Inv'
  OBVIOUS
<1> USE DEF NewReader
<1>0. TypeOK /\ LimitKept /\ Phases
  BY DEF Inv
<1>1. input' \in Seq(Byte)
  BY InputsAssumption
<1>2. TypeOK'
  BY <1>0, <1>1 DEF TypeOK
<1>3. Window' /\ ReachesReader' /\ WholeLines' /\ EndIsEnd'
  BY <1>1, NoneAssumption DEF Window, ReachesReader, WholeLines, EndIsEnd
<1>4. BinaryOffsetExact'
  BY <1>1 DEF BinaryOffsetExact
<1>5. LimitKept'
  BY <1>0 DEF LimitKept
<1>6. Phases'
  BY <1>0 DEF Phases
<1> QED
  BY <1>2, <1>3, <1>4, <1>5, <1>6 DEF Inv

LEMMA ConsumeInv == ASSUME NEW amt \in 1 .. size PROVE Inv /\ Consume(amt) => Inv'
<1> SUFFICES ASSUME Inv, Consume(amt) PROVE Inv'
  OBVIOUS
<1> USE DEF Consume
<1>0. TypeOK /\ Window /\ ReachesReader /\ BinaryOffsetExact /\ WholeLines /\ EndIsEnd /\ LimitKept /\ Phases
  BY DEF Inv
<1>1. /\ size \in Nat /\ pos \in Nat /\ lastLineterm \in Nat /\ Len(buf) \in Nat
      /\ absoluteByteOffset \in Nat /\ buf \in Seq(Byte) /\ amt \in Nat
      /\ lastLineterm <= Len(buf) /\ pos <= lastLineterm
  BY <1>0 DEF TypeOK
<1>2. absoluteByteOffset' - pos' = absoluteByteOffset - pos
  BY <1>1
<1>3. Visible' = Visible /\ \A i : Shown(i)' = Shown(i)
  BY DEF inputVars, Visible, Binaries, Shown, Cleaned
<1>4. TypeOK'
  BY <1>0, <1>1 DEF TypeOK, inputVars
<1>5. Window'
  <2> SUFFICES ASSUME NEW i \in 1 .. Len(buf)
               PROVE  /\ absoluteByteOffset' - pos' + i \in Visible
                      /\ buf[i] = Shown(absoluteByteOffset' - pos' + i)
    BY <1>3 DEF Window
  <2> QED
    BY <1>0, <1>2 DEF Window
<1>6. ReachesReader'
  BY <1>0, <1>1, <1>2 DEF ReachesReader, inputVars
<1>7. BinaryOffsetExact'
  BY <1>0 DEF BinaryOffsetExact, inputVars
<1>8. WholeLines'
  BY <1>0, <1>2, <1>3 DEF WholeLines
<1>9. EndIsEnd' /\ Phases'
  BY <1>0, <1>1 DEF EndIsEnd, Phases, inputVars
<1>10. LimitKept'
  BY <1>0 DEF LimitKept
<1> QED
  BY <1>4, <1>5, <1>6, <1>7, <1>8, <1>9, <1>10 DEF Inv

LEMMA FillAfterQuitInv == Inv /\ FillAfterQuit => Inv'
<1> SUFFICES ASSUME Inv, FillAfterQuit PROVE Inv'
  OBVIOUS
<1> USE DEF FillAfterQuit, Return
<1>0. TypeOK /\ Window /\ ReachesReader /\ BinaryOffsetExact /\ WholeLines /\ EndIsEnd /\ LimitKept /\ Phases
  BY DEF Inv
<1>1. /\ pos \in Nat /\ Len(buf) \in Nat /\ absoluteByteOffset \in Nat /\ taken \in Nat
      /\ input \in Seq(Byte) /\ taken <= Len(input) /\ binaryByteOffset \in Nat
  BY <1>0, InputsAssumption DEF TypeOK
<1>2. Visible' = Visible /\ \A i : Shown(i)' = Shown(i)
  BY DEF inputVars, Visible, Binaries, Shown, Cleaned
<1>3. result' \in {"true", "false"} /\ (result' = "false" => lastLineterm = pos)
  BY DEF Nonempty
<1>4. TypeOK'
  BY <1>0, <1>3 DEF TypeOK, inputVars
<1>5. Window'
  BY <1>0, <1>2 DEF Window
<1>6. ReachesReader' /\ BinaryOffsetExact'
  BY <1>0 DEF ReachesReader, BinaryOffsetExact, inputVars
<1>7. absoluteByteOffset - pos + lastLineterm + 1 \notin Visible
  <2>1. lastLineterm = Len(buf) /\ absoluteByteOffset - pos + Len(buf) = binaryByteOffset
    BY <1>0 DEF Phases, ReachesReader
  <2>2. binaryByteOffset + 1 \in Binaries
    BY <1>0, <1>1 DEF BinaryOffsetExact, Binaries
  <2> QED
    BY <2>1, <2>2, <1>1 DEF Visible
<1>8. WholeLines'
  BY <1>2, <1>7 DEF WholeLines
<1>9. EndIsEnd'
  <2> SUFFICES ASSUME result' = "false" PROVE absoluteByteOffset + 1 \notin Visible
    BY <1>2 DEF EndIsEnd
  <2> QED
    BY <1>1, <1>3, <1>7
<1>10. LimitKept'
  BY <1>0, <1>3 DEF LimitKept
<1>11. Phases'
  BY <1>0, <1>3 DEF Phases, inputVars
<1> QED
  BY <1>4, <1>5, <1>6, <1>8, <1>9, <1>10, <1>11 DEF Inv

LEMMA RollInv == Inv /\ Roll => Inv'
<1> SUFFICES ASSUME Inv, Roll PROVE Inv'
  OBVIOUS
<1> USE DEF Roll, End
<1>0. TypeOK /\ Window /\ ReachesReader /\ BinaryOffsetExact /\ LimitKept /\ Phases
  BY DEF Inv
<1>1. /\ pos \in 0 .. Len(buf) /\ Len(buf) \in Nat /\ absoluteByteOffset \in Nat
      /\ buf \in Seq(Byte) /\ size \in Nat
  BY <1>0 DEF TypeOK
<1>2. Visible' = Visible /\ \A i : Shown(i)' = Shown(i)
  BY DEF inputVars, Visible, Binaries, Shown, Cleaned
<1>3. /\ buf' \in Seq(Byte)
      /\ Len(buf') = Len(buf) - pos
      /\ \A i \in 1 .. Len(buf') : buf'[i] = buf[pos + i]
  BY <1>1, SuffixElements
<1>4. TypeOK'
  BY <1>0, <1>1, <1>3 DEF TypeOK, inputVars
<1>5. Window'
  <2> SUFFICES ASSUME NEW i \in 1 .. Len(buf')
               PROVE  absoluteByteOffset + i \in Visible /\ buf'[i] = Shown(absoluteByteOffset + i)
    BY <1>1, <1>2 DEF Window
  <2>1. pos + i \in 1 .. Len(buf) /\ absoluteByteOffset - pos + (pos + i) = absoluteByteOffset + i
    BY <1>1, <1>3
  <2>2. /\ absoluteByteOffset - pos + (pos + i) \in Visible
        /\ buf[pos + i] = Shown(absoluteByteOffset - pos + (pos + i))
    BY <1>0, <2>1 DEF Window
  <2> QED
    BY <1>3, <2>1, <2>2
<1>6. ReachesReader'
  <2>1. absoluteByteOffset' - pos' + Len(buf') = absoluteByteOffset - pos + Len(buf)
    BY <1>1, <1>3
  <2> QED
    BY <1>0, <2>1 DEF ReachesReader, inputVars
<1>7. BinaryOffsetExact'
  BY <1>0 DEF BinaryOffsetExact, inputVars
<1>8. WholeLines' /\ EndIsEnd'
  BY DEF WholeLines, EndIsEnd
<1>9. LimitKept'
  BY <1>0 DEF LimitKept
<1>10. Phases'
  BY <1>0, <1>1, <1>3 DEF Phases, inputVars
<1> QED
  BY <1>4, <1>5, <1>6, <1>7, <1>8, <1>9, <1>10 DEF Inv

LEMMA GrowInv == Inv /\ Grow => Inv'
<1> SUFFICES ASSUME Inv, Grow PROVE Inv'
  OBVIOUS
<1> USE DEF Grow
<1>0. TypeOK /\ Window /\ ReachesReader /\ BinaryOffsetExact /\ LimitKept /\ Phases
  BY DEF Inv
<1>1. Growth \in Nat
  BY <1>0, GrowthNat
<1>2. Visible' = Visible /\ \A i : Shown(i)' = Shown(i)
  BY DEF inputVars, Visible, Binaries, Shown, Cleaned
<1>3. TypeOK'
  BY <1>0, <1>1 DEF TypeOK, inputVars
<1>4. Window'
  BY <1>0, <1>2 DEF Window
<1>5. ReachesReader' /\ BinaryOffsetExact'
  BY <1>0 DEF ReachesReader, BinaryOffsetExact, inputVars
<1>6. WholeLines' /\ EndIsEnd'
  BY DEF WholeLines, EndIsEnd
<1>7. LimitKept'
  <2> SUFFICES ASSUME Additional # Eager PROVE size + Growth <= Capacity + Additional
    BY DEF LimitKept
  <2>1. size \in Nat /\ Capacity <= size
    BY <1>0 DEF TypeOK, Phases
  <2>2. Additional \in Nat /\ size <= Capacity + Additional
    BY <1>0, AdditionalAssumption DEF LimitKept
  <2>3. Remaining \in Nat /\ size + Remaining <= Capacity + Additional
    BY <2>1, <2>2, CapacityAssumption DEF Remaining
  <2>4. Growth <= Remaining
    BY <2>1, <2>3 DEF Growth, Doubled
  <2> QED
    BY <1>1, <2>1, <2>2, <2>3, <2>4, CapacityAssumption
<1>8. Phases'
  BY <1>0, <1>1, CapacityAssumption DEF Phases, TypeOK, inputVars
<1> QED
  BY <1>3, <1>4, <1>5, <1>6, <1>7, <1>8 DEF Inv

\* A failing call leaves the rolled buffer, from which callers may go on.
LEMMA FailInv ==
    ASSUME Inv, AllocError \/ ReadError
    PROVE  Inv'
<1>0. TypeOK /\ Window /\ ReachesReader /\ BinaryOffsetExact /\ LimitKept /\ Phases
  BY DEF Inv
<1>1. /\ UNCHANGED <<inputVars, taken, buf, size, pos, lastLineterm, absoluteByteOffset, binaryByteOffset>>
      /\ pc' = "idle" /\ result' \in {"alloc_error", "read_error"}
      /\ result' = "alloc_error" => Len(buf) = size /\ Growth = 0
  BY DEF AllocError, ReadError, Return, End
<1>2. Visible' = Visible /\ \A i : Shown(i)' = Shown(i)
  BY <1>1 DEF inputVars, Visible, Binaries, Shown, Cleaned
<1>3. TypeOK'
  BY <1>0, <1>1 DEF TypeOK, inputVars
<1>4. Window'
  BY <1>0, <1>1, <1>2 DEF Window
<1>5. ReachesReader' /\ BinaryOffsetExact'
  BY <1>0, <1>1 DEF ReachesReader, BinaryOffsetExact, inputVars
<1>6. WholeLines' /\ EndIsEnd'
  BY <1>1 DEF WholeLines, EndIsEnd
<1>7. LimitKept'
  <2> SUFFICES ASSUME result' = "alloc_error"
               PROVE  Additional # Eager /\ Len(buf) = size /\ size = Capacity + Additional
    BY <1>0, <1>1 DEF LimitKept
  <2>1. size \in Nat /\ Capacity <= size
    BY <1>0 DEF TypeOK, Phases
  <2>2. Doubled \in Nat \ {0}
    BY <2>1 DEF Doubled
  <2>3. Additional # Eager /\ Additional \in Nat /\ Remaining = 0
    BY <1>1, <2>2, AdditionalAssumption DEF Growth
  <2>4. size <= Capacity + Additional
    BY <1>0, <2>3 DEF LimitKept
  <2> QED
    BY <1>1, <2>1, <2>3, <2>4, CapacityAssumption DEF Remaining
<1>8. Phases'
  BY <1>0, <1>1 DEF Phases, inputVars
<1> QED
  BY <1>3, <1>4, <1>5, <1>6, <1>7, <1>8 DEF Inv

LEMMA ReadEofInv == Inv /\ ReadEof => Inv'
<1> SUFFICES ASSUME Inv, ReadEof PROVE Inv'
  OBVIOUS
<1> USE DEF ReadEof, Return, End
<1>0. TypeOK /\ Window /\ ReachesReader /\ BinaryOffsetExact /\ LimitKept /\ Phases
  BY DEF Inv
<1>1. /\ pos = 0 /\ Len(buf) \in Nat /\ absoluteByteOffset \in Nat
      /\ input \in Seq(Byte) /\ Len(input) \in Nat
  BY <1>0, InputsAssumption DEF TypeOK, Phases
<1>2. Visible' = Visible /\ \A i : Shown(i)' = Shown(i)
  BY DEF inputVars, Visible, Binaries, Shown, Cleaned
<1>3. result' \in {"true", "false"} /\ (result' = "false" => Len(buf) = 0)
  BY <1>1 DEF Nonempty
<1>4. TypeOK'
  BY <1>0, <1>1, <1>3 DEF TypeOK, inputVars
<1>5. Window'
  BY <1>0, <1>2 DEF Window
<1>6. ReachesReader' /\ BinaryOffsetExact'
  BY <1>0 DEF ReachesReader, BinaryOffsetExact, inputVars
<1>7. absoluteByteOffset - pos + Len(buf) + 1 \notin Visible
  <2>1. absoluteByteOffset - pos + Len(buf) = Len(input)
    BY <1>0, <1>1 DEF ReachesReader, Phases
  <2>2. Visible \subseteq 1 .. Len(input)
    BY DEF Visible
  <2> QED
    BY <1>1, <2>1, <2>2
<1>8. WholeLines'
  BY <1>2, <1>7 DEF WholeLines
<1>9. EndIsEnd'
  <2> SUFFICES ASSUME result' = "false" PROVE absoluteByteOffset + 1 \notin Visible
    BY <1>2 DEF EndIsEnd
  <2> QED
    BY <1>1, <1>3, <1>7
<1>10. LimitKept'
  BY <1>0, <1>3 DEF LimitKept
<1>11. Phases'
  BY <1>0, <1>1, <1>3 DEF Phases, inputVars
<1> QED
  BY <1>4, <1>5, <1>6, <1>8, <1>9, <1>10, <1>11 DEF Inv

LEMMA ReadQuitInv == ASSUME NEW n \in 1 .. size PROVE Inv /\ ReadQuit(n) => Inv'
<1> SUFFICES ASSUME Inv, ReadQuit(n) PROVE Inv'
  OBVIOUS
<1>a. /\ pc = "read" /\ mode = "quit" /\ Len(buf) + n <= size /\ taken + n <= Len(input)
      /\ taken' = taken + n /\ UNCHANGED <<inputVars, size, pos, absoluteByteOffset>>
      /\ lastLineterm' = Len(buf') /\ pc' = "idle"
      /\ result' = IF pos < Len(buf') THEN "true" ELSE "false"
  BY DEF ReadQuit, ReadSome, Return, End
<1>b. /\ input' = input /\ mode' = mode /\ readers' = readers
      /\ size' = size /\ pos' = pos /\ absoluteByteOffset' = absoluteByteOffset
  BY <1>a DEF inputVars
<1>0. TypeOK /\ Window /\ ReachesReader /\ BinaryOffsetExact /\ LimitKept /\ Phases
  BY DEF Inv
<1>1. /\ pos = 0 /\ mode = "quit" /\ binaryByteOffset = None /\ n \in Nat /\ size \in Nat
      /\ absoluteByteOffset \in Nat /\ buf \in Seq(Byte) /\ Len(buf) \in Nat /\ taken \in Nat
      /\ input \in Seq(Byte) /\ Len(input) \in Nat
  BY <1>a, <1>b, <1>0, InputsAssumption DEF TypeOK, Phases
<1>2. Visible' = Visible /\ Binaries' = Binaries /\ \A i : Shown(i)' = Shown(i)
  BY <1>a, <1>b DEF inputVars, Visible, Binaries, Shown, Cleaned
<1>3. absoluteByteOffset + Len(buf) = taken
  BY <1>0, <1>1, NoneAssumption DEF ReachesReader
<1>4. PICK i \in At("binary", n) :
        /\ IsFirst(i, At("binary", n))
        /\ buf' = buf \o SubSeq(input, taken + 1, taken + i - 1)
        /\ binaryByteOffset' = absoluteByteOffset + Len(buf) + i - 1
  BY DEF ReadQuit, End
<1>5. i \in 1 .. n /\ input[taken + i] = "binary" /\ \A j \in 1 .. i - 1 : input[taken + j] # "binary"
  <2>1. i \in At("binary", n) /\ \A j \in At("binary", n) : i <= j
    BY <1>4 DEF IsFirst
  <2>2. i \in 1 .. n /\ input[taken + i] = "binary"
    BY <2>1 DEF At
  <2> SUFFICES ASSUME NEW j \in 1 .. i - 1, input[taken + j] = "binary" PROVE FALSE
    BY <2>2
  <2>3. j \in 1 .. n /\ ~(i <= j)
    BY <2>2, <1>1
  <2> QED
    BY <2>1, <2>3 DEF At
<1>6. binaryByteOffset' = taken + i - 1 /\ binaryByteOffset' \in Nat
  <2>1. i \in Nat /\ i >= 1
    BY <1>1, <1>5
  <2>2. binaryByteOffset' = absoluteByteOffset + Len(buf) + i - 1
    BY <1>4
  <2> QED
    BY <2>1, <2>2, <1>1, <1>3
<1> DEFINE new == SubSeq(input, taken + 1, taken + i - 1)
<1>7. /\ new \in Seq(Byte) /\ Len(new) = i - 1
      /\ \A j \in 1 .. Len(new) : new[j] = input[taken + j]
  <2>1. taken + i - 1 \in Nat /\ taken <= taken + i - 1 /\ taken + i - 1 <= Len(input)
    BY <1>a, <1>b, <1>1, <1>5
  <2> QED
    BY <1>1, <1>5, <2>1, SliceElements
<1> HIDE DEF new
<1>8. /\ buf' \in Seq(Byte) /\ Len(buf') = Len(buf) + i - 1
      /\ \A j \in 1 .. Len(buf') : buf'[j] = IF j <= Len(buf) THEN buf[j] ELSE new[j - Len(buf)]
  <2>1. buf' = buf \o new
    BY <1>4 DEF new
  <2>2. buf \in Seq(Byte) /\ new \in Seq(Byte)
    BY <1>1, <1>7
  <2>3. /\ buf' \in Seq(Byte) /\ Len(buf') = Len(buf) + Len(new)
        /\ \A j \in 1 .. Len(buf') : buf'[j] = IF j <= Len(buf) THEN buf[j] ELSE new[j - Len(buf)]
    BY <2>1, <2>2, ConcatElements
  <2>4. Len(buf) + Len(new) = Len(buf) + i - 1
    BY <1>1, <1>5, <1>7
  <2> QED
    BY <2>3, <2>4
<1>9. lastLineterm' = Len(buf') /\ Len(buf') <= size
  BY <1>a, <1>b, <1>1, <1>5, <1>8
<1>10. result' \in {"true", "false"} /\ (result' = "false" => Len(buf') = 0)
  BY <1>a, <1>b, <1>1, <1>8
<1>11. TypeOK'
  BY <1>a, <1>b, <1>0, <1>1, <1>6, <1>8, <1>9, <1>10 DEF TypeOK, inputVars
<1>12. \A j \in 1 .. taken + i - 1 : j \in 1 .. Len(input) /\ input[j] # "binary"
  <2> SUFFICES ASSUME NEW j \in 1 .. taken + i - 1, input[j] = "binary" PROVE FALSE
    BY <1>a, <1>b, <1>1, <1>5
  <2>1. CASE j <= taken
    BY <2>1, <1>0, <1>1 DEF BinaryOffsetExact
  <2>2. CASE j > taken
    <3>1. j - taken \in 1 .. i - 1 /\ taken + (j - taken) = j
      BY <2>2, <1>1, <1>5
    <3> QED
      BY <3>1, <1>5
  <2> QED
    BY <2>1, <2>2, <1>1
<1>13. taken + i \in Binaries
  BY <1>a, <1>b, <1>1, <1>5 DEF Binaries
<1>14. \A j \in 1 .. taken + i - 1 : j \in Visible
  <2> SUFFICES ASSUME NEW j \in 1 .. taken + i - 1, NEW k \in Binaries PROVE j < k
    BY <1>12, <1>13 DEF Visible
  <2>1. k \in Nat /\ ~(k <= taken + i - 1)
    BY <1>1, <1>5, <1>12 DEF Binaries
  <2> QED
    BY <2>1, <1>1, <1>5
<1>15. Window'
  <2> SUFFICES ASSUME NEW j \in 1 .. Len(buf')
               PROVE  absoluteByteOffset + j \in Visible /\ buf'[j] = Shown(absoluteByteOffset + j)
    BY <1>a, <1>b, <1>1, <1>2 DEF Window
  <2>1. absoluteByteOffset + j \in 1 .. taken + i - 1
    BY <1>1, <1>3, <1>5, <1>8
  <2>2. CASE j <= Len(buf)
    <3>1. buf[j] = Shown(absoluteByteOffset - pos + j)
      BY <2>2, <1>0 DEF Window
    <3> QED
      BY <3>1, <2>1, <2>2, <1>1, <1>8, <1>14
  <2>3. CASE j > Len(buf)
    <3>1. j - Len(buf) \in 1 .. Len(new) /\ taken + (j - Len(buf)) = absoluteByteOffset + j
      <4>1. Len(new) = i - 1 /\ Len(buf') = Len(buf) + i - 1 /\ i \in Nat /\ j \in Nat
        BY <1>1, <1>5, <1>7, <1>8
      <4>2. Len(buf) \in Nat /\ absoluteByteOffset \in Nat
        BY <1>1
      <4>3. j <= Len(buf')
        OBVIOUS
      <4> QED
        BY <4>1, <4>2, <4>3, <2>3, <1>3
    <3>2. buf'[j] = input[absoluteByteOffset + j]
      <4>1. ~(j <= Len(buf))
        BY <2>3, <1>1
      <4>2. buf'[j] = new[j - Len(buf)]
        BY <4>1, <1>8
      <4>3. new[j - Len(buf)] = input[taken + (j - Len(buf))]
        BY <3>1, <1>7
      <4> QED
        BY <4>2, <4>3, <3>1
    <3>3. Shown(absoluteByteOffset + j) = input[absoluteByteOffset + j]
      BY <1>1 DEF Shown, Cleaned
    <3> QED
      BY <3>2, <3>3, <2>1, <1>14
  <2> QED
    BY <2>2, <2>3, <1>1, <1>8
<1>16. ReachesReader'
  <2>1. absoluteByteOffset' - pos' + Len(buf') = binaryByteOffset'
    <3>1. Len(buf') = Len(buf) + i - 1 /\ i \in Nat
      BY <1>1, <1>5, <1>8
    <3>2. Len(buf) \in Nat /\ absoluteByteOffset \in Nat /\ pos' = 0
      BY <1>1, <1>b
    <3> QED
      BY <3>1, <3>2, <1>b, <1>3, <1>6
  <2> QED
    BY <2>1, <1>1, <1>6, <1>b, NoneAssumption DEF ReachesReader
<1>17. BinaryOffsetExact'
  <2>1. binaryByteOffset' # None /\ mode' = "quit" /\ input' = input /\ binaryByteOffset' + 1 = taken + i
    BY <1>a, <1>b, <1>1, <1>5, <1>6, NoneAssumption DEF inputVars
  <2>2. binaryByteOffset' < taken'
    BY <1>a, <1>b, <1>1, <1>5, <1>6
  <2> QED
    BY <2>1, <2>2, <1>5, <1>6, <1>12 DEF BinaryOffsetExact
<1>18. absoluteByteOffset + Len(buf') + 1 \notin Visible
  <2>1. absoluteByteOffset + Len(buf') + 1 = taken + i
    <3>1. Len(buf') = Len(buf) + i - 1 /\ i \in Nat
      BY <1>1, <1>5, <1>8
    <3>2. Len(buf) \in Nat /\ absoluteByteOffset \in Nat
      BY <1>1
    <3> QED
      BY <3>1, <3>2, <1>3
  <2> QED
    BY <2>1, <1>1, <1>5, <1>13 DEF Visible
<1>19. WholeLines'
  BY <1>a, <1>b, <1>1, <1>2, <1>9, <1>18 DEF WholeLines
<1>20. EndIsEnd'
  <2> SUFFICES ASSUME result' = "false" PROVE absoluteByteOffset + 1 \notin Visible
    BY <1>a, <1>b, <1>2 DEF EndIsEnd
  <2> QED
    BY <1>1, <1>10, <1>18
<1>21. LimitKept'
  BY <1>a, <1>b, <1>0, <1>10 DEF LimitKept
<1>22. Phases'
  BY <1>a, <1>b, <1>0, <1>1, <1>9, <1>10 DEF Phases
<1> QED
  BY <1>11, <1>15, <1>16, <1>17, <1>19, <1>20, <1>21, <1>22 DEF Inv

LEMMA ReadLinesInv == ASSUME NEW n \in 1 .. size PROVE Inv /\ ReadLines(n) => Inv'
<1> SUFFICES ASSUME Inv, ReadLines(n) PROVE Inv'
  OBVIOUS
<1>a. /\ pc = "read" /\ ~(mode = "quit" /\ At("binary", n) # {})
      /\ Len(buf) + n <= size /\ taken + n <= Len(input)
      /\ taken' = taken + n /\ UNCHANGED <<inputVars, size, pos, absoluteByteOffset>>
      /\ buf' = buf \o [i \in 1 .. n |-> Cleaned(input[taken + i])]
      /\ NoteBinary(n)
  BY DEF ReadLines, ReadSome, End
<1>b. /\ input' = input /\ mode' = mode /\ readers' = readers
      /\ size' = size /\ pos' = pos /\ absoluteByteOffset' = absoluteByteOffset
  BY <1>a DEF inputVars
<1>0. TypeOK /\ Window /\ ReachesReader /\ BinaryOffsetExact /\ LimitKept /\ Phases
  BY DEF Inv
<1>1. /\ pos = 0 /\ n \in Nat /\ size \in Nat /\ lastLineterm \in 0 .. Len(buf)
      /\ absoluteByteOffset \in Nat /\ buf \in Seq(Byte) /\ Len(buf) \in Nat /\ taken \in Nat
      /\ input \in Seq(Byte) /\ Len(input) \in Nat /\ taken + n <= Len(input)
      /\ mode = "quit" => binaryByteOffset = None
  BY <1>a, <1>b, <1>0, InputsAssumption DEF TypeOK, Phases
<1>2. Visible' = Visible /\ Binaries' = Binaries /\ \A i : Shown(i)' = Shown(i)
  BY <1>a, <1>b DEF inputVars, Visible, Binaries, Shown, Cleaned
<1>3. absoluteByteOffset + Len(buf) = taken
  BY <1>0, <1>1 DEF ReachesReader
<1> DEFINE new == [i \in 1 .. n |-> Cleaned(input[taken + i])]
<1>4. new \in Seq(Byte) /\ Len(new) = n /\ \A j \in 1 .. n : new[j] = Shown(taken + j)
  <2>1. \A i \in 1 .. n : Cleaned(input[taken + i]) \in Byte
    BY <1>1 DEF Cleaned, Byte
  <2> QED
    BY <2>1, <1>1 DEF Shown
<1> HIDE DEF new
<1>5. /\ buf' \in Seq(Byte) /\ Len(buf') = Len(buf) + n
      /\ \A j \in 1 .. Len(buf') : buf'[j] = IF j <= Len(buf) THEN buf[j] ELSE new[j - Len(buf)]
  <2>1. buf' = buf \o new
    BY <1>a, <1>b DEF new
  <2>2. buf \in Seq(Byte) /\ new \in Seq(Byte)
    BY <1>1, <1>4
  <2>3. /\ buf' \in Seq(Byte) /\ Len(buf') = Len(buf) + Len(new)
        /\ \A j \in 1 .. Len(buf') : buf'[j] = IF j <= Len(buf) THEN buf[j] ELSE new[j - Len(buf)]
    BY <2>1, <2>2, ConcatElements
  <2> QED
    BY <2>3, <1>4
<1>6. /\ pc' = "idle" => result' = "true" /\ lastLineterm' \in 1 .. Len(buf')
                          /\ Shown(absoluteByteOffset + lastLineterm') = "term"
                          /\ lastLineterm' > Len(buf)
      /\ pc' \in {"idle", "read"}
      /\ pc' = "read" => result' = result /\ lastLineterm' = lastLineterm
  <2>1. CASE Terminators(n) = {} /\ UNCHANGED <<lastLineterm, pc, result>>
    BY <2>1, <1>a
  <2>2. CASE \E i \in Terminators(n) : IsLast(i, Terminators(n)) /\ lastLineterm' = Len(buf) + i /\ pc' = "idle" /\ result' = "true"
    <3>1. PICK i \in Terminators(n) : lastLineterm' = Len(buf) + i /\ pc' = "idle" /\ result' = "true"
      BY <2>2
    <3>2. i \in 1 .. n /\ Cleaned(input[taken + i]) = "term"
      BY <3>1 DEF Terminators
    <3>3. absoluteByteOffset + lastLineterm' = taken + i
      BY <3>1, <3>2, <1>1, <1>3
    <3> QED
      BY SMTT(30), <3>1, <3>2, <3>3, <1>1, <1>5 DEF Shown
  <2> QED
    BY <2>1, <2>2 DEF ReadLines, Return, End
<1>7. mode = "quit" => \A j \in 1 .. taken + n : input[j] # "binary"
  <2> SUFFICES ASSUME mode = "quit", NEW j \in 1 .. taken + n, input[j] = "binary" PROVE FALSE
    OBVIOUS
  <2>1. CASE j <= taken
    BY <2>1, <1>0, <1>1 DEF BinaryOffsetExact
  <2>2. CASE j > taken
    <3>1. j - taken \in 1 .. n /\ taken + (j - taken) = j
      BY <2>2, <1>1
    <3> QED
      BY <1>a, <1>b, <3>1 DEF At
  <2> QED
    BY <2>1, <2>2, <1>1
<1>8. \A j \in 1 .. taken + n : j \in Visible
  <2> SUFFICES ASSUME NEW j \in 1 .. taken + n PROVE j \in Visible
    OBVIOUS
  <2>1. j \in 1 .. Len(input)
    BY <1>1
  <2>2. ASSUME mode = "quit", NEW k \in Binaries PROVE j < k
    <3>1. k \in Nat /\ k >= 1 /\ ~(k <= taken + n)
      BY <1>1, <1>7, <2>2 DEF Binaries
    <3> QED
      BY <3>1, <1>1
  <2> QED
    BY <2>1, <2>2 DEF Visible
<1>9. Window'
  <2> SUFFICES ASSUME NEW j \in 1 .. Len(buf')
               PROVE  absoluteByteOffset + j \in Visible /\ buf'[j] = Shown(absoluteByteOffset + j)
    BY <1>a, <1>b, <1>1, <1>2 DEF Window
  <2>1. absoluteByteOffset + j \in 1 .. taken + n
    BY <1>1, <1>3, <1>5
  <2>2. CASE j <= Len(buf)
    <3>1. buf[j] = Shown(absoluteByteOffset - pos + j)
      BY <2>2, <1>0 DEF Window
    <3> QED
      BY <3>1, <2>1, <2>2, <1>1, <1>5, <1>8
  <2>3. CASE j > Len(buf)
    <3>1. j - Len(buf) \in 1 .. n /\ taken + (j - Len(buf)) = absoluteByteOffset + j
      <4>1. Len(buf') = Len(buf) + n /\ n \in Nat /\ Len(buf) \in Nat /\ absoluteByteOffset \in Nat
        BY <1>1, <1>5
      <4>2. j \in 1 .. Len(buf')
        OBVIOUS
      <4> QED
        BY <4>1, <4>2, <2>3, <1>3
    <3>2. buf'[j] = new[j - Len(buf)]
      <4>1. ~(j <= Len(buf))
        BY <2>3, <1>1
      <4> QED
        BY <4>1, <1>5
    <3>3. new[j - Len(buf)] = Shown(taken + (j - Len(buf)))
      BY <3>1, <1>4
    <3>4. absoluteByteOffset + j \in Visible
      BY <2>1, <1>8
    <3> QED
      BY <3>1, <3>2, <3>3, <3>4
  <2> QED
    BY <2>2, <2>3, <1>1, <1>5
<1>10. binaryByteOffset' = binaryByteOffset
       \/ /\ mode = "convert" /\ binaryByteOffset = None
          /\ \E i \in 1 .. n : /\ binaryByteOffset' = taken + i - 1
                               /\ input[taken + i] = "binary"
                               /\ \A j \in 1 .. i - 1 : input[taken + j] # "binary"
  <2>1. CASE mode = "convert" /\ binaryByteOffset = None /\ At("binary", n) # {}
    <3>1. PICK i \in At("binary", n) : IsFirst(i, At("binary", n))
                                       /\ binaryByteOffset' = absoluteByteOffset + Len(buf) + i - 1
      BY <1>a, <1>b, <2>1 DEF NoteBinary, End
    <3>2. /\ i \in 1 .. n /\ input[taken + i] = "binary"
          /\ \A j \in 1 .. i - 1 : input[taken + j] # "binary"
      BY <3>1, <1>1 DEF At, IsFirst
    <3>3. binaryByteOffset' = taken + i - 1
      BY <3>1, <3>2, <1>1, <1>3
    <3> QED
      BY <2>1, <3>2, <3>3
  <2>2. CASE ~(mode = "convert" /\ binaryByteOffset = None /\ At("binary", n) # {})
    BY <1>a, <1>b, <2>2 DEF NoteBinary, End
  <2> QED
    BY <2>1, <2>2
<1>11. binaryByteOffset' \in Nat \cup {None} /\ (mode = "quit" => binaryByteOffset' = None)
  BY <1>0, <1>1, <1>10 DEF TypeOK
<1>12. TypeOK'
  <2>1. lastLineterm' \in 0 .. Len(buf') /\ Len(buf') <= size
    BY <1>a, <1>b, <1>1, <1>5, <1>6
  <2> QED
    BY <1>a, <1>b, <1>0, <1>1, <1>5, <1>6, <1>11, <2>1 DEF TypeOK, inputVars
<1>13. ReachesReader'
  <2>1. absoluteByteOffset' - pos' + Len(buf') = taken'
    <3>1. Len(buf') = Len(buf) + n /\ taken' = taken + n
      BY <1>a, <1>5
    <3>2. Len(buf) \in Nat /\ absoluteByteOffset \in Nat /\ n \in Nat /\ pos' = 0
      BY <1>1, <1>b
    <3> QED
      BY <3>1, <3>2, <1>b, <1>3
  <2> QED
    BY <1>a, <1>b, <2>1, <1>11 DEF ReachesReader, inputVars
<1>14. BinaryOffsetExact'
  <2>1. CASE binaryByteOffset' = binaryByteOffset /\ binaryByteOffset # None
    BY <1>a, <1>b, <2>1, <1>0, <1>1 DEF BinaryOffsetExact, TypeOK, inputVars
  <2>2. CASE binaryByteOffset' = binaryByteOffset /\ binaryByteOffset = None
    <3>1. SUFFICES ASSUME mode # "none", NEW j \in 1 .. taken + n, input[j] = "binary" PROVE FALSE
      BY <1>a, <1>b, <2>2, <1>1 DEF BinaryOffsetExact, inputVars
    <3>2. j > taken
      BY <3>1, <2>2, <1>0, <1>1 DEF BinaryOffsetExact
    <3>3. j - taken \in At("binary", n)
      BY <3>1, <3>2, <1>1 DEF At
    <3>4. mode = "convert"
      BY <3>1, <1>0, <1>7, ModesAssumption DEF TypeOK
    <3>5. \E i \in At("binary", n) : binaryByteOffset' = absoluteByteOffset + Len(buf) + i - 1
      BY <1>a, <1>b, <3>3, <3>4, <2>2 DEF NoteBinary, End
    <3>6. binaryByteOffset' \in Int /\ binaryByteOffset' >= 0
      BY <3>5, <1>1 DEF At
    <3> QED
      BY <3>6, <2>2, NoneAssumption
  <2>3. CASE mode = "convert" /\ binaryByteOffset = None
             /\ \E i \in 1 .. n : /\ binaryByteOffset' = taken + i - 1
                                  /\ input[taken + i] = "binary"
                                  /\ \A j \in 1 .. i - 1 : input[taken + j] # "binary"
    <3>1. PICK i \in 1 .. n : /\ binaryByteOffset' = taken + i - 1
                              /\ input[taken + i] = "binary"
                              /\ \A j \in 1 .. i - 1 : input[taken + j] # "binary"
      BY <2>3
    <3>2. /\ binaryByteOffset' \in Nat /\ binaryByteOffset' # None
          /\ binaryByteOffset' + 1 = taken + i /\ binaryByteOffset' < taken'
      BY <1>a, <1>b, <3>1, <1>1, NoneAssumption
    <3>3. \A j \in 1 .. binaryByteOffset' : input[j] # "binary"
      <4> SUFFICES ASSUME NEW j \in 1 .. binaryByteOffset', input[j] = "binary" PROVE FALSE
        OBVIOUS
      <4>1. CASE j <= taken
        BY <4>1, <2>3, <1>0, <1>1 DEF BinaryOffsetExact
      <4>2. CASE j > taken
        <5>1. j - taken \in 1 .. i - 1 /\ taken + (j - taken) = j
          BY <4>2, <3>1, <1>1
        <5> QED
          BY <5>1, <3>1
      <4> QED
        BY <4>1, <4>2, <3>1, <1>1
    <3> QED
      BY <1>a, <1>b, <3>1, <3>2, <3>3, <2>3 DEF BinaryOffsetExact, inputVars
  <2> QED
    BY <2>1, <2>2, <2>3, <1>10
<1>15. WholeLines'
  <2> SUFFICES ASSUME pc' = "idle" PROVE lastLineterm' > 0 /\ buf'[lastLineterm'] = "term"
    BY DEF WholeLines
  <2> QED
    <3>1. lastLineterm' \in 1 .. Len(buf') /\ Shown(absoluteByteOffset + lastLineterm') = "term"
      BY <1>6
    <3>2. buf'[lastLineterm'] = Shown(absoluteByteOffset' - pos' + lastLineterm')
      BY <3>1, <1>2, <1>9 DEF Window
    <3>3. lastLineterm' \in Nat /\ lastLineterm' > 0
      BY <3>1
    <3> QED
      BY <3>1, <3>2, <3>3, <1>1, <1>b
<1>16. EndIsEnd'
  BY <1>6 DEF EndIsEnd
<1>17. LimitKept'
  BY <1>a, <1>b, <1>0, <1>6 DEF LimitKept
<1>18. Phases'
  BY <1>a, <1>b, <1>0, <1>1, <1>6, <1>11 DEF Phases, inputVars
<1> QED
  BY <1>9, <1>12, <1>13, <1>14, <1>15, <1>16, <1>17, <1>18 DEF Inv

LEMMA StutterInv == Inv /\ UNCHANGED vars => Inv'
<1> SUFFICES ASSUME Inv, UNCHANGED vars PROVE Inv'
  OBVIOUS
<1> USE DEF vars
<1>1. Visible' = Visible /\ \A i : Shown(i)' = Shown(i)
  BY DEF Visible, Binaries, Shown, Cleaned
<1>2. TypeOK' /\ ReachesReader' /\ BinaryOffsetExact' /\ LimitKept' /\ Phases'
  BY DEF Inv, TypeOK, ReachesReader, BinaryOffsetExact, LimitKept, Phases
<1>3. Window' /\ WholeLines' /\ EndIsEnd'
  BY <1>1 DEF Inv, Window, WholeLines, EndIsEnd
<1> QED
  BY <1>2, <1>3 DEF Inv

LEMMA NextInv == Inv /\ [Next]_vars => Inv'
<1> SUFFICES ASSUME Inv, [Next]_vars PROVE Inv'
  OBVIOUS
<1>1. CASE NewReader
  BY <1>1, NewReaderInv
<1>2. ASSUME NEW amt \in 1 .. size, Consume(amt) PROVE Inv'
  BY <1>2, ConsumeInv
<1>3. CASE FillAfterQuit
  BY <1>3, FillAfterQuitInv
<1>4. CASE Roll
  BY <1>4, RollInv
<1>5. CASE Grow
  BY <1>5, GrowInv
<1>6. CASE AllocError \/ ReadError
  BY <1>6, FailInv
<1>7. CASE ReadEof
  BY <1>7, ReadEofInv
<1>8. ASSUME NEW n \in 1 .. size, ReadQuit(n) PROVE Inv'
  BY <1>8, ReadQuitInv
<1>9. ASSUME NEW n \in 1 .. size, ReadLines(n) PROVE Inv'
  BY <1>9, ReadLinesInv
<1>10. CASE UNCHANGED vars
  BY <1>10, StutterInv
<1> QED
  BY <1>1, <1>2, <1>3, <1>4, <1>5, <1>6, <1>7, <1>8, <1>9, <1>10 DEF Next, Step

\* The inductive invariant holds of every execution.
THEOREM BufferInvariance == Spec => []Inv
<1> QED
  BY InitInv, NextInv, PTL DEF Spec

\* Every variable keeps to its type; pos <= last_lineterm <= end <= buf.len,
\* so no slice expression of the code is out of bounds.
THEOREM BufferTypes == Spec => []TypeOK
<1>1. Inv => TypeOK
  BY DEF Inv
<1> QED
  BY <1>1, BufferInvariance, PTL

\* The bytes in the buffer are those of the input at the offsets reported for
\* them, and none is missing up to where the reader has been read.
THEOREM BufferFaithful == Spec => []Faithful
<1>1. Inv => Faithful
  BY DEF Inv, Faithful
<1> QED
  BY <1>1, BufferInvariance, PTL

\* What a successful fill shows ends with a whole line or with the input, and
\* fill announces the end only when everything visible was consumed.
THEOREM BufferShowsLines == Spec => []ShowsLines
<1>1. Inv => ShowsLines
  BY DEF Inv, ShowsLines
<1> QED
  BY <1>1, BufferInvariance, PTL

\* The binary offset is that of the first binary byte read.
THEOREM BufferBinaryOffset == Spec => []BinaryOffsetExact
<1>1. Inv => BinaryOffsetExact
  BY DEF Inv
<1> QED
  BY <1>1, BufferInvariance, PTL

\* The allocation limit holds over all readers, and only a buffer that has
\* reached it fails.
THEOREM BufferLimit == Spec => []LimitKept
<1>1. Inv => LimitKept
  BY DEF Inv
<1> QED
  BY <1>1, BufferInvariance, PTL
=============================================================================
