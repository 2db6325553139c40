----------------------------- MODULE LineBuffer -----------------------------
(***************************************************************************)
(* The line buffer of searcher/line_buffer.v: a buffer over a reader that  *)
(* shows its caller whole lines only.  The caller consumes any part of     *)
(* what it was shown and calls fill, which rolls the rest to the front,    *)
(* grows the buffer when it is full and reads until a line is complete.    *)
(*                                                                         *)
(* A byte is one of three: a line terminator, the byte that marks binary   *)
(* content, any other.  buf holds the bytes buf[0..end) of the code, size  *)
(* is the length of the allocation.  Each turn of fill's loop is a step,   *)
(* because what a read returns (how much, an error) is the reader's        *)
(* choice.                                                                 *)
(***************************************************************************)
EXTENDS Integers, Sequences

CONSTANTS
    Inputs,      \* what readers may hold
    Modes,       \* binary detections that are used
    Capacity,    \* config.capacity
    Additional,  \* config.buffer_alloc.additional, or Eager
    Eager,       \* the allocation has no limit
    None,        \* no binary byte was found
    MaxReaders   \* bound on how often the buffer is used for another reader

Byte == {"term", "binary", "text"}

ASSUME CapacityAssumption == Capacity \in Nat
ASSUME AdditionalAssumption == Eager \notin Nat /\ Additional \in Nat \cup {Eager}
ASSUME InputsAssumption == Inputs \subseteq Seq(Byte)
ASSUME ModesAssumption == Modes \subseteq {"none", "quit", "convert"}
ASSUME NoneAssumption == None \notin Nat

VARIABLES
    input,    \* what the current reader holds
    mode,     \* config.binary
    taken,    \* how much of the input the reader has handed out
    buf, size, pos, lastLineterm, absoluteByteOffset, binaryByteOffset,
    pc,       \* "idle", or "read" within the loop of fill
    result,   \* what the last call of fill returned
    readers   \* readers used so far

inputVars == <<input, mode, readers>>
vars == <<input, mode, taken, buf, size, pos, lastLineterm, absoluteByteOffset,
          binaryByteOffset, pc, result, readers>>

End == Len(buf)

Init ==
    /\ input \in Inputs
    /\ mode \in Modes
    /\ taken = 0
    /\ buf = <<>>
    /\ size = Capacity
    /\ pos = 0
    /\ lastLineterm = 0
    /\ absoluteByteOffset = 0
    /\ binaryByteOffset = None
    /\ pc = "idle"
    /\ result = "none"
    /\ readers = 1

\* Mutant: clear leaves the absolute offset of the previous reader.
NewReaderKeepsOffset ==
    /\ pc = "idle"
    /\ readers < MaxReaders
    /\ readers' = readers + 1
    /\ input' \in Inputs
    /\ mode' \in Modes
    /\ taken' = 0
    /\ buf' = <<>>
    /\ pos' = 0
    /\ lastLineterm' = 0
    /\ binaryByteOffset' = None
    /\ result' = "none"
    /\ UNCHANGED <<size, pc, absoluteByteOffset>>

\* clear, for a new reader: the allocation stays.
NewReader ==
    /\ pc = "idle"
    /\ readers < MaxReaders
    /\ readers' = readers + 1
    /\ input' \in Inputs
    /\ mode' \in Modes
    /\ taken' = 0
    /\ buf' = <<>>
    /\ pos' = 0
    /\ lastLineterm' = 0
    /\ absoluteByteOffset' = 0
    /\ binaryByteOffset' = None
    /\ result' = "none"
    /\ UNCHANGED <<size, pc>>

\* Mutant: consume without its assertion.
ConsumeUnchecked(amt) ==
    /\ pc = "idle"
    /\ pos' = pos + amt
    /\ absoluteByteOffset' = absoluteByteOffset + amt
    /\ UNCHANGED <<inputVars, taken, buf, size, lastLineterm, binaryByteOffset, pc, result>>

Consume(amt) ==
    /\ pc = "idle"
    /\ amt <= lastLineterm - pos
    /\ pos' = pos + amt
    /\ absoluteByteOffset' = absoluteByteOffset + amt
    /\ UNCHANGED <<inputVars, taken, buf, size, lastLineterm, binaryByteOffset, pc, result>>

Return(value) == pc' = "idle" /\ result' = value
\* What fill says about a buffer that ends at `end`.
Nonempty(end) == IF end # pos THEN "true" ELSE "false"

\* fill, when binary data has ended the input already.
FillAfterQuit ==
    /\ pc = "idle"
    /\ mode = "quit" /\ binaryByteOffset # None
    /\ Return(Nonempty(lastLineterm))
    /\ UNCHANGED <<inputVars, taken, buf, size, pos, lastLineterm, absoluteByteOffset, binaryByteOffset>>

\* The beginning of every other fill.
Roll ==
    /\ pc = "idle"
    /\ ~(mode = "quit" /\ binaryByteOffset # None)
    /\ buf' = SubSeq(buf, pos + 1, End)
    /\ pos' = 0
    /\ lastLineterm' = End - pos
    /\ pc' = "read"
    /\ UNCHANGED <<inputVars, taken, size, absoluteByteOffset, binaryByteOffset, result>>

\* ensure_capacity: how much is added to a full buffer.
Doubled == 2 * (IF size > 1 THEN size ELSE 1)
Remaining == IF Additional > size - Capacity THEN Additional - (size - Capacity) ELSE 0
\* Mutant: the limit is taken for each growth, not for all.
GrowthForgetsUsed ==
    IF Additional = Eager THEN Doubled
    ELSE IF Doubled < Additional THEN Doubled ELSE Additional

Growth ==
    IF Additional = Eager THEN Doubled
    ELSE IF Doubled < Remaining THEN Doubled ELSE Remaining

Grow ==
    /\ pc = "read"
    /\ End = size
    /\ Growth # 0
    /\ size' = size + Growth
    /\ UNCHANGED <<inputVars, taken, buf, pos, lastLineterm, absoluteByteOffset,
                   binaryByteOffset, pc, result>>

\* Mutant: the limit counts as exceeded only beyond it.
AllocErrorBeyond ==
    /\ pc = "read"
    /\ End = size
    /\ Growth = 0 /\ size > Capacity + Additional
    /\ Return("alloc_error")
    /\ UNCHANGED <<inputVars, taken, buf, size, pos, lastLineterm, absoluteByteOffset, binaryByteOffset>>

AllocError ==
    /\ pc = "read"
    /\ End = size
    /\ Growth = 0
    /\ Return("alloc_error")
    /\ UNCHANGED <<inputVars, taken, buf, size, pos, lastLineterm, absoluteByteOffset, binaryByteOffset>>

\* The read returned an error other than the end of the input.
ReadError ==
    /\ pc = "read"
    /\ End < size
    /\ Return("read_error")
    /\ UNCHANGED <<inputVars, taken, buf, size, pos, lastLineterm, absoluteByteOffset, binaryByteOffset>>

ReadEof ==
    /\ pc = "read"
    /\ End < size
    /\ taken = Len(input)
    /\ lastLineterm' = End
    /\ Return(Nonempty(End))
    /\ UNCHANGED <<inputVars, taken, buf, size, pos, absoluteByteOffset, binaryByteOffset>>

\* The positions of a byte among the n bytes read next, counted from 1.
At(byte, n) == {i \in 1 .. n : input[taken + i] = byte}
IsFirst(i, S) == i \in S /\ \A j \in S : i <= j
IsLast(i, S) == i \in S /\ \A j \in S : j <= i

\* A read of n bytes.
ReadSome(n) ==
    /\ pc = "read"
    /\ End + n <= size
    /\ taken + n <= Len(input)
    /\ taken' = taken + n
    /\ UNCHANGED <<inputVars, size, pos, absoluteByteOffset>>

\* The read holds a binary byte, and the buffer is cut before it.
ReadQuit(n) ==
    /\ ReadSome(n)
    /\ mode = "quit"
    /\ \E i \in At("binary", n) :
        /\ IsFirst(i, At("binary", n))
        /\ buf' = buf \o SubSeq(input, taken + 1, taken + i - 1)
        /\ binaryByteOffset' = absoluteByteOffset + End + i - 1
    /\ lastLineterm' = Len(buf')
    /\ Return(IF pos < Len(buf') THEN "true" ELSE "false")

\* replace_bytes, for the detection that converts.
Cleaned(byte) == IF mode = "convert" /\ byte = "binary" THEN "term" ELSE byte
Terminators(n) == {i \in 1 .. n : Cleaned(input[taken + i]) = "term"}

\* Mutant: every read with a binary byte overwrites the offset of the first.
NoteBinaryLast(n) ==
    IF mode = "convert" /\ At("binary", n) # {}
    THEN \E i \in At("binary", n) :
            /\ IsFirst(i, At("binary", n))
            /\ binaryByteOffset' = absoluteByteOffset + End + i - 1
    ELSE binaryByteOffset' = binaryByteOffset

NoteBinary(n) ==
    IF mode = "convert" /\ binaryByteOffset = None /\ At("binary", n) # {}
    THEN \E i \in At("binary", n) :
            /\ IsFirst(i, At("binary", n))
            /\ binaryByteOffset' = absoluteByteOffset + End + i - 1
    ELSE binaryByteOffset' = binaryByteOffset

\* Mutant: what was read is shown although no line is complete.
ReadLinesHasty(n) ==
    /\ ReadSome(n)
    /\ ~(mode = "quit" /\ At("binary", n) # {})
    /\ buf' = buf \o [i \in 1 .. n |-> Cleaned(input[taken + i])]
    /\ NoteBinary(n)
    /\ lastLineterm' = End + n
    /\ Return("true")

\* Any other read: the buffer is extended, and fill returns if it holds a line.
ReadLines(n) ==
    /\ ReadSome(n)
    /\ ~(mode = "quit" /\ At("binary", n) # {})
    /\ buf' = buf \o [i \in 1 .. n |-> Cleaned(input[taken + i])]
    /\ NoteBinary(n)
    /\ \/ \E i \in Terminators(n) :
            /\ IsLast(i, Terminators(n))
            /\ lastLineterm' = End + i
            /\ Return("true")
       \/ Terminators(n) = {} /\ UNCHANGED <<lastLineterm, pc, result>>

Step ==
    \/ Grow \/ AllocError \/ ReadEof
    \/ \E n \in 1 .. size : ReadQuit(n) \/ ReadLines(n)

Next ==
    \/ NewReader
    \/ \E amt \in 1 .. size : Consume(amt)
    \/ FillAfterQuit \/ Roll
    \/ ReadError
    \/ Step

\* fill is sequential code: once called, it goes on.
Spec == Init /\ [][Next]_vars /\ WF_vars(Step)

-----------------------------------------------------------------------------
\* The input as a caller must see it: cut at the first binary byte, or with
\* every binary byte made a terminator.
Binaries == {i \in 1 .. Len(input) : input[i] = "binary"}
Visible ==
    IF mode = "quit" /\ Binaries # {}
    THEN {i \in 1 .. Len(input) : \A j \in Binaries : i < j}
    ELSE 1 .. Len(input)
Shown(i) == Cleaned(input[i])

TypeOK ==
    /\ input \in Inputs
    /\ mode \in Modes
    /\ taken \in 0 .. Len(input)
    /\ buf \in Seq(Byte)
    /\ size \in Nat
    /\ pos \in 0 .. lastLineterm
    /\ lastLineterm \in 0 .. Len(buf)
    /\ Len(buf) <= size
    /\ absoluteByteOffset \in Nat
    /\ binaryByteOffset \in Nat \cup {None}
    /\ pc \in {"idle", "read"}
    /\ result \in {"none", "true", "false", "alloc_error", "read_error"}
    /\ readers \in Nat

\* Rolls, growth, errors, short reads and partial consumption never lose,
\* repeat or shift a byte: the byte at position i of the buffer is the one
\* of the input at the absolute offset the buffer reports for it (roll,
\* consume and the read in fill each move one side of this equation).
Window ==
    \A i \in 1 .. Len(buf) :
        /\ absoluteByteOffset - pos + i \in Visible
        /\ buf[i] = Shown(absoluteByteOffset - pos + i)

\* Nothing that was read is missing from the buffer's end: it reaches up to
\* what the reader has handed out, or up to the binary byte that ended the
\* search.
ReachesReader ==
    LET seen == absoluteByteOffset - pos + Len(buf)
    IN IF mode = "quit" /\ binaryByteOffset # None
       THEN seen = binaryByteOffset
       ELSE seen = taken

\* The binary offset is that of the first binary byte handed out, however the
\* input was cut into reads and wherever the buffer stood (fill, lines
\* 370-388); it is unknown exactly as long as none was.
BinaryOffsetExact ==
    IF binaryByteOffset = None
    THEN mode # "none" => \A i \in 1 .. taken : input[i] # "binary"
    ELSE /\ mode # "none"
         /\ binaryByteOffset < taken
         /\ input[binaryByteOffset + 1] = "binary"
         /\ \A i \in 1 .. binaryByteOffset : input[i] # "binary"

\* After a successful fill the buffer that is shown ends with a complete line,
\* or with the last byte there will ever be (line 210 ff.): no caller is given
\* half a line, though lines span reads, rolls and failed calls.
WholeLines ==
    (pc = "idle" /\ result = "true") =>
        \/ lastLineterm > 0 /\ buf[lastLineterm] = "term"
        \/ absoluteByteOffset - pos + lastLineterm + 1 \notin Visible

\* fill answers false only when the caller has consumed everything visible,
\* so that a search never ends early (the "We're only done reading for good"
\* branch, lines 354-359).
EndIsEnd == (pc = "idle" /\ result = "false") => absoluteByteOffset + 1 \notin Visible

\* The buffer holds the input where it says it does, none missing (fill, roll).
Faithful == Window /\ ReachesReader

\* A caller sees whole lines, and all of them before the end (fill).
ShowsLines == WholeLines /\ EndIsEnd

\* A limited buffer never grows past its limit, over all the readers it
\* serves, and fails only when it has reached it and is full of bytes the
\* caller did not consume (ensure_capacity).
LimitKept ==
    /\ Additional # Eager => size <= Capacity + Additional
    /\ (pc = "idle" /\ result = "alloc_error") =>
            /\ Additional # Eager
            /\ Len(buf) = size
            /\ size = Capacity + Additional

\* A call of fill returns, however short the reads are.
FillReturns == (pc = "read") ~> (pc = "idle")
=============================================================================
