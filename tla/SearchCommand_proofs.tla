------------------------ MODULE SearchCommand_proofs ------------------------
(***************************************************************************)
(* Proofs about SearchCommand, for any number of workers, any commands and *)
(* any size of pipes.                                                      *)
(***************************************************************************)
EXTENDS SearchCommand, SequenceTheorems, TLAPS

-----------------------------------------------------------------------------
\* The inductive invariant, one part for each thing that follows the command.

\* Where a worker is tells what became of its child.
Places(w) ==
    /\ pc[w] \in {"open", "fork"} => child[w] = "none"
    /\ pc[w] \in {"parent", "search", "read", "poll", "close", "wait"} => child[w] # "none"
    /\ pc[w] \in {"last", "stderr"} => child[w] = "reaped"
    /\ pc[w] = "done" => child[w] \in {"none", "reaped"}

\* The output is what the search was given followed by what the pipe holds;
\* its end is announced only when the pipe is empty and nobody can write.
Chunks(n) == [k \in 1 .. n |-> k]
Output(w) ==
    /\ got[w] \o stdout[w] = Chunks(wrote[w])
    /\ eof[w] => stdout[w] = <<>> /\ child[w] = "reaped" /\ pc[w] \in {"close", "wait", "stderr", "done"}

\* The same of stderr and the thread that drains it; while the child lives it
\* holds the write end, so the thread does not end before it.
Heard(w) ==
    /\ heard[w] \o stderr[w] = said[w]
    /\ drain[w] = "sent" => stderr[w] = <<>> /\ writers[w] = {}
    /\ drain[w] # "off" => pc[w] \notin {"open", "fork", "parent"}
    /\ child[w] = "running" => w \in writers[w]

\* What a search returns is decided by all the child said and did.
Returned(w) ==
    /\ pc[w] \in {"close", "wait", "stderr"} => found[w] # "open"
    /\ (pc[w] = "done" /\ child[w] # "none") =>
            /\ drain[w] = "sent"
            /\ outcome[w] = CASE found[w] = "epipe" -> "epipe"
                              [] found[w] = "error" \/ (found[w] = "result" /\ Blamed(w)) -> "failed"
                              [] OTHER -> "result"

Local(w) == Places(w) /\ Output(w) /\ Heard(w) /\ Returned(w)

IInv == TypeOK /\ \A w \in Worker : Local(w)

\* What the state of a worker is made of: if none of it changes, its part of
\* the invariant holds on.
Same(v) ==
    /\ pc'[v] = pc[v] /\ child'[v] = child[v] /\ code'[v] = code[v]
    /\ wrote'[v] = wrote[v] /\ said'[v] = said[v]
    /\ stdout'[v] = stdout[v] /\ stderr'[v] = stderr[v]
    /\ drain'[v] = drain[v] /\ heard'[v] = heard[v]
    /\ got'[v] = got[v] /\ eof'[v] = eof[v] /\ found'[v] = found[v] /\ outcome'[v] = outcome[v]

LEMMA WritersFrame ==
    ASSUME NEW v \in Worker, Local(v), Same(v),
           writers[v] = {} => writers'[v] = {}, v \in writers[v] => v \in writers'[v]
    PROVE  Local(v)'
<1>1. Places(v)'
  BY DEF Local, Places, Same
<1>2. Output(v)'
  BY DEF Local, Output, Same
<1>3. Heard(v)'
  BY DEF Local, Heard, Same
<1>4. Returned(v)'
  <2>1. Blamed(v)' = Blamed(v)
    BY DEF Blamed, Says, Same
  <2> QED
    BY <2>1 DEF Local, Returned, Same
<1> QED
  BY <1>1, <1>2, <1>3, <1>4 DEF Local

LEMMA LocalFrame ==
    ASSUME NEW v \in Worker, Local(v), Same(v), writers'[v] = writers[v]
    PROVE  Local(v)'
  BY WritersFrame

\* What is taken from a pipe goes behind what was taken before; what is put
\* into it goes behind the whole.
LEMMA Taken ==
    ASSUME NEW S, NEW a \in Seq(S), NEW b \in Seq(S), b # <<>>
    PROVE  /\ Append(a, Head(b)) \in Seq(S) /\ Tail(b) \in Seq(S)
           /\ Append(a, Head(b)) \o Tail(b) = a \o b
           /\ Len(b) \in Nat /\ Len(Tail(b)) = Len(b) - 1
<1>1. Head(b) \in S /\ Tail(b) \in Seq(S) /\ Len(b) \in Nat /\ Len(Tail(b)) = Len(b) - 1
  OBVIOUS
<1>2. <<Head(b)>> \in Seq(S) /\ <<Head(b)>> \o Tail(b) = b
  BY <1>1
<1>3. Append(a, Head(b)) = a \o <<Head(b)>>
  BY <1>1, AppendIsConcat
<1>4. (a \o <<Head(b)>>) \o Tail(b) = a \o (<<Head(b)>> \o Tail(b))
  BY <1>1, <1>2, ConcatAssociative
<1>5. Append(a, Head(b)) \in Seq(S)
  BY <1>1
<1> QED
  BY <1>1, <1>2, <1>3, <1>4, <1>5

LEMMA Put ==
    ASSUME NEW S, NEW a \in Seq(S), NEW b \in Seq(S), NEW x \in S
    PROVE  /\ Append(b, x) \in Seq(S)
           /\ a \o Append(b, x) = Append(a \o b, x)
           /\ Len(b) \in Nat /\ Len(Append(b, x)) = Len(b) + 1
<1>1. a \o b \in Seq(S) /\ <<x>> \in Seq(S)
  BY ConcatProperties
<1>2. Append(b, x) = b \o <<x>> /\ Append(a \o b, x) = (a \o b) \o <<x>>
  BY <1>1, AppendIsConcat
<1>3. (a \o b) \o <<x>> = a \o (b \o <<x>>)
  BY <1>1, ConcatAssociative
<1>4. Append(b, x) \in Seq(S) /\ Len(b) \in Nat /\ Len(Append(b, x)) = Len(b) + 1
  OBVIOUS
<1> QED
  BY <1>2, <1>3, <1>4

LEMMA ChunkPut ==
    ASSUME NEW n \in Nat
    PROVE  Append(Chunks(n), n + 1) = Chunks(n + 1)
<1>1. Chunks(n) \in Seq(Nat) /\ Len(Chunks(n)) = n /\ \A k \in 1 .. n : Chunks(n)[k] = k
  BY DEF Chunks
<1>2. Chunks(n + 1) \in Seq(Nat) /\ Len(Chunks(n + 1)) = n + 1 /\ \A k \in 1 .. n + 1 : Chunks(n + 1)[k] = k
  BY DEF Chunks
<1> DEFINE s == Append(Chunks(n), n + 1)
<1>3. s \in Seq(Nat) /\ Len(s) = n + 1 /\ \A k \in 1 .. n + 1 : s[k] = IF k <= n THEN Chunks(n)[k] ELSE n + 1
  BY <1>1
<1> HIDE DEF s
<1>4. \A k \in 1 .. n + 1 : s[k] = Chunks(n + 1)[k]
  BY <1>1, <1>2, <1>3
<1>5. s = Chunks(n + 1)
  BY <1>2, <1>3, <1>4, SeqEqual
<1> QED
  BY <1>5 DEF s

\* A chunk goes from the pipe to the search.
LEMMA ReceiveElements ==
    ASSUME IInv, NEW w \in Worker, Receive(w), stdout[w] # <<>>
    PROVE  /\ got' \in [Worker -> Seq(Nat)] /\ stdout' \in [Worker -> Seq(Nat)]
           /\ \A v \in Worker : Len(stdout'[v]) <= PipeSize
           /\ \A v \in Worker : v # w => got'[v] = got[v] /\ stdout'[v] = stdout[v]
           /\ got'[w] \o stdout'[w] = Chunks(wrote[w])
<1>1. /\ got[w] \in Seq(Nat) /\ stdout[w] \in Seq(Nat) /\ Len(stdout[w]) <= PipeSize
      /\ got[w] \o stdout[w] = Chunks(wrote[w])
  BY DEF IInv, TypeOK, Local, Output
<1>2. got'[w] = Append(got[w], Head(stdout[w])) /\ stdout'[w] = Tail(stdout[w])
  BY DEF IInv, TypeOK, Receive
<1>3. /\ got'[w] \in Seq(Nat) /\ stdout'[w] \in Seq(Nat)
      /\ got'[w] \o stdout'[w] = Chunks(wrote[w])
      /\ Len(stdout[w]) \in Nat /\ Len(stdout'[w]) = Len(stdout[w]) - 1
  <2>1. /\ Append(got[w], Head(stdout[w])) \in Seq(Nat) /\ Tail(stdout[w]) \in Seq(Nat)
        /\ Append(got[w], Head(stdout[w])) \o Tail(stdout[w]) = got[w] \o stdout[w]
        /\ Len(stdout[w]) \in Nat /\ Len(Tail(stdout[w])) = Len(stdout[w]) - 1
    BY <1>1, Taken
  <2> QED
    BY <1>1, <1>2, <2>1
<1>4. \A v \in Worker : v # w => got'[v] = got[v] /\ stdout'[v] = stdout[v]
  BY DEF IInv, TypeOK, Receive
<1>5. got' \in [Worker -> Seq(Nat)] /\ stdout' \in [Worker -> Seq(Nat)]
  BY <1>2, <1>3 DEF IInv, TypeOK, Receive
<1>6. Len(stdout'[w]) <= PipeSize
  BY <1>1, <1>3, PipeAssumption
<1>7. \A v \in Worker : Len(stdout'[v]) <= PipeSize
  BY <1>4, <1>6 DEF IInv, TypeOK
<1> QED
  BY <1>3, <1>4, <1>5, <1>7

LEMMA InitInv == Init => IInv
<1> SUFFICES ASSUME Init PROVE IInv
  OBVIOUS
<1>1. \A w \in Worker : case[w].script \in Seq(Written) /\ case[w].code \in {0, 1}
  BY CaseAssumption DEF Init, IsCase
<1>2. TypeOK
  BY <1>1, PipeAssumption DEF Init, TypeOK
<1>3. ASSUME NEW w \in Worker PROVE Local(w)
  <2>1. <<>> \o <<>> = <<>> /\ Chunks(0) = <<>>
    BY DEF Chunks
  <2> QED
    BY <2>1 DEF Init, Local, Places, Output, Heard, Returned
<1> QED
  BY <1>2, <1>3 DEF IInv

LEMMA OpenPipesInv ==
    ASSUME IInv, NEW w \in Worker, OpenPipes(w)
    PROVE  IInv'
<1> USE DEF OpenPipes, Goto, childVars, searchVars
<1>1. TypeOK'
  BY RgAssumption DEF IInv, TypeOK, Holder
<1>2. ASSUME NEW v \in Worker, v # w PROVE Local(v)'
  BY <1>2, LocalFrame DEF IInv, TypeOK, Same
<1>3. Local(w)'
  BY DEF IInv, TypeOK, Local, Places, Output, Heard, Returned
<1> QED
  BY <1>1, <1>2, <1>3 DEF IInv

LEMMA StartFailsInv ==
    ASSUME IInv, NEW w \in Worker, StartFails(w)
    PROVE  IInv'
<1> USE DEF StartFails, NotStarted, Goto, childVars
<1>1. TypeOK'
  BY DEF IInv, TypeOK
<1>2. ASSUME NEW v \in Worker, v # w PROVE Local(v)'
  BY <1>2, LocalFrame DEF IInv, TypeOK, Same
<1>3. Local(w)'
  BY DEF IInv, TypeOK, Local, Places, Output, Heard, Returned
<1> QED
  BY <1>1, <1>2, <1>3 DEF IInv

LEMMA StartDrainInv ==
    ASSUME IInv, NEW w \in Worker, StartDrain(w)
    PROVE  IInv'
<1> USE DEF StartDrain, Goto, childVars, searchVars
<1>1. TypeOK'
  BY DEF IInv, TypeOK
<1>2. ASSUME NEW v \in Worker, v # w PROVE Local(v)'
  BY <1>2, LocalFrame DEF IInv, TypeOK, Same
<1>3. Places(w)'
  BY DEF IInv, TypeOK, Local, Places
<1>4. Output(w)'
  BY DEF IInv, TypeOK, Local, Places, Output
<1>5. Heard(w)'
  BY RgAssumption DEF IInv, TypeOK, Local, Heard
<1>6. Returned(w)'
  BY DEF IInv, TypeOK, Local, Places, Returned
<1>7. Local(w)'
  BY <1>3, <1>4, <1>5, <1>6 DEF Local
<1> QED
  BY <1>1, <1>2, <1>7 DEF IInv

LEMMA WriteOutputInv ==
    ASSUME IInv, NEW w \in Worker, WriteOutput(w)
    PROVE  IInv'
<1>a. /\ stdout[w] \in Seq(Nat) /\ got[w] \in Seq(Nat) /\ wrote[w] \in Nat /\ Len(stdout[w]) < PipeSize
      /\ rest[w] \in Seq(Written) /\ rest[w] # <<>> /\ child[w] = "running"
      /\ stdout'[w] = Append(stdout[w], wrote[w] + 1) /\ rest'[w] = Tail(rest[w]) /\ wrote'[w] = wrote[w] + 1
      /\ UNCHANGED <<case, pc, child, code, said, stderr, readers, writers, drain, heard, got, eof, found, outcome>>
  BY DEF IInv, TypeOK, WriteOutput, searchVars
<1>b. /\ stdout'[w] \in Seq(Nat) /\ Len(stdout[w]) \in Nat /\ Len(stdout'[w]) = Len(stdout[w]) + 1
      /\ got[w] \o stdout'[w] = Append(got[w] \o stdout[w], wrote[w] + 1)
  <2>1. wrote[w] + 1 \in Nat
    BY <1>a
  <2> DEFINE a == got[w]  b == stdout[w]  x == wrote[w] + 1
  <2>a. a \in Seq(Nat) /\ b \in Seq(Nat) /\ x \in Nat
    BY <1>a, <2>1
  <2> HIDE DEF a, b, x
  <2>b. /\ Append(b, x) \in Seq(Nat) /\ a \o Append(b, x) = Append(a \o b, x)
        /\ Len(b) \in Nat /\ Len(Append(b, x)) = Len(b) + 1
    BY SMTT(30), <2>a, Put
  <2>2. /\ Append(stdout[w], wrote[w] + 1) \in Seq(Nat)
        /\ got[w] \o Append(stdout[w], wrote[w] + 1) = Append(got[w] \o stdout[w], wrote[w] + 1)
        /\ Len(stdout[w]) \in Nat /\ Len(Append(stdout[w], wrote[w] + 1)) = Len(stdout[w]) + 1
    BY <2>b DEF a, b, x
  <2> QED
    BY <1>a, <2>2
<1>c. rest'[w] \in Seq(Written)
  BY <1>a
<1>d. Len(stdout'[w]) <= PipeSize
  BY <1>a, <1>b, PipeAssumption
<1>1. TypeOK'
  <2>1. /\ stdout' = [stdout EXCEPT ![w] = Append(@, wrote[w] + 1)]
        /\ wrote' = [wrote EXCEPT ![w] = @ + 1] /\ rest' = [rest EXCEPT ![w] = Tail(@)]
    BY DEF WriteOutput
  <2>2. stdout' \in [Worker -> Seq(Nat)] /\ \A v \in Worker : Len(stdout'[v]) <= PipeSize
    BY <1>a, <1>b, <1>d, <2>1 DEF IInv, TypeOK
  <2>3. wrote' \in [Worker -> Nat] /\ rest' \in [Worker -> Seq(Written)]
    BY <1>a, <1>c, <2>1 DEF IInv, TypeOK
  <2> QED
    BY <1>a, <2>2, <2>3 DEF IInv, TypeOK
<1>2. ASSUME NEW v \in Worker, v # w PROVE Local(v)'
  BY <1>2, LocalFrame DEF IInv, TypeOK, Same, WriteOutput, searchVars
<1>3. Places(w)'
  BY <1>a DEF IInv, Local, Places
<1>4. Output(w)'
  <2>1. got[w] \o stdout[w] = Chunks(wrote[w]) /\ ~eof[w]
    BY <1>a DEF IInv, Local, Output
  <2>2. got'[w] \o stdout'[w] = Chunks(wrote'[w])
    BY <1>a, <1>b, <2>1, ChunkPut
  <2> QED
    BY <1>a, <2>1, <2>2 DEF Output
<1>5. Heard(w)'
  BY <1>a DEF IInv, Local, Heard
<1>6. Returned(w)'
  BY <1>a DEF IInv, Local, Returned, Blamed, Says
<1>7. Local(w)'
  BY <1>3, <1>4, <1>5, <1>6 DEF Local
<1> QED
  BY <1>1, <1>2, <1>7 DEF IInv

LEMMA WriteFailsInv ==
    ASSUME IInv, NEW w \in Worker, WriteFails(w)
    PROVE  IInv'
<1> USE DEF WriteFails, pipeVars, searchVars
<1>a. PICK last \in {<<>>, <<"text">>, <<"pipe">>} : rest' = [rest EXCEPT ![w] = last]
  OBVIOUS
<1>b. last \in Seq(Written)
  <2>1. "text" \in Written /\ "pipe" \in Written
    BY DEF Written
  <2>2. <<>> \in Seq(Written) /\ <<"text">> \in Seq(Written) /\ <<"pipe">> \in Seq(Written)
    BY <2>1
  <2> QED
    BY <2>2
<1>1. TypeOK'
  BY <1>a, <1>b DEF IInv, TypeOK
<1>2. ASSUME NEW v \in Worker, v # w PROVE Local(v)'
  BY <1>2, LocalFrame DEF IInv, TypeOK, Same
<1>3. Places(w)'
  BY DEF IInv, TypeOK, Local, Places
<1>4. Output(w)'
  BY DEF IInv, TypeOK, Local, Places, Output
<1>5. Heard(w)'
  BY DEF IInv, TypeOK, Local, Heard
<1>6. Returned(w)'
  BY DEF IInv, TypeOK, Local, Places, Returned
<1>7. Local(w)'
  BY <1>3, <1>4, <1>5, <1>6 DEF Local
<1> QED
  BY <1>1, <1>2, <1>7 DEF IInv

LEMMA WriteStderrInv ==
    ASSUME IInv, NEW w \in Worker, WriteStderr(w)
    PROVE  IInv'
<1> DEFINE x == Head(rest[w])
<1>a. /\ stderr[w] \in Seq(Written) /\ said[w] \in Seq(Written) /\ heard[w] \in Seq(Written) /\ Len(stderr[w]) < PipeSize
      /\ rest[w] \in Seq(Written) /\ rest[w] # <<>> /\ child[w] = "running"
      /\ stderr'[w] = Append(stderr[w], x) /\ said'[w] = Append(said[w], x) /\ rest'[w] = Tail(rest[w])
      /\ UNCHANGED <<case, pc, child, code, wrote, stdout, readers, writers, drain, heard, got, eof, found, outcome>>
  BY DEF IInv, TypeOK, WriteStderr, searchVars
<1>b. x \in Written /\ rest'[w] \in Seq(Written)
  BY <1>a
<1> HIDE DEF x
<1>c. /\ stderr'[w] \in Seq(Written) /\ Len(stderr[w]) \in Nat /\ Len(stderr'[w]) = Len(stderr[w]) + 1
      /\ heard[w] \o stderr'[w] = Append(heard[w] \o stderr[w], x)
      /\ said'[w] \in Seq(Written)
  <2> DEFINE a == heard[w]  b == stderr[w]
  <2>a. a \in Seq(Written) /\ b \in Seq(Written)
    BY <1>a
  <2> HIDE DEF a, b
  <2>b. /\ Append(b, x) \in Seq(Written) /\ a \o Append(b, x) = Append(a \o b, x)
        /\ Len(b) \in Nat /\ Len(Append(b, x)) = Len(b) + 1
    BY <1>b, <2>a, Put
  <2>1. /\ Append(stderr[w], x) \in Seq(Written)
        /\ heard[w] \o Append(stderr[w], x) = Append(heard[w] \o stderr[w], x)
        /\ Len(stderr[w]) \in Nat /\ Len(Append(stderr[w], x)) = Len(stderr[w]) + 1
    BY <2>b DEF a, b
  <2>2. Append(said[w], x) \in Seq(Written)
    BY <1>a, <1>b, AppendProperties
  <2> QED
    BY <1>a, <2>1, <2>2
<1>d. Len(stderr'[w]) <= PipeSize
  BY <1>a, <1>c, PipeAssumption
<1>1. TypeOK'
  BY SMTT(30), <1>a, <1>b, <1>c, <1>d DEF IInv, TypeOK, WriteStderr
<1>2. ASSUME NEW v \in Worker, v # w PROVE Local(v)'
  BY <1>2, LocalFrame DEF IInv, TypeOK, Same, WriteStderr, searchVars
<1>3. Places(w)'
  BY <1>a DEF IInv, Local, Places
<1>4. Output(w)'
  BY <1>a DEF IInv, Local, Output
<1>5. Heard(w)'
  <2>1. heard'[w] \o stderr'[w] = said'[w]
    BY <1>a, <1>c DEF IInv, Local, Heard
  <2>2. drain[w] # "sent"
    BY <1>a DEF IInv, Local, Heard
  <2> QED
    BY <1>a, <2>1, <2>2 DEF IInv, Local, Heard
<1>6. Returned(w)'
  <2>1. pc[w] # "done"
    BY <1>a DEF IInv, Local, Places
  <2> QED
    BY <1>a, <2>1 DEF IInv, Local, Returned
<1>7. Local(w)'
  BY <1>3, <1>4, <1>5, <1>6 DEF Local
<1> QED
  BY <1>1, <1>2, <1>7 DEF IInv

LEMMA DrainInv ==
    ASSUME IInv, NEW w \in Worker, Drain(w)
    PROVE  IInv'
<1>a. /\ stderr[w] \in Seq(Written) /\ heard[w] \in Seq(Written) /\ Len(stderr[w]) <= PipeSize
      /\ stderr[w] # <<>> /\ drain[w] = "reading"
      /\ heard'[w] = Append(heard[w], Head(stderr[w])) /\ stderr'[w] = Tail(stderr[w])
      /\ UNCHANGED <<case, pc, child, rest, code, wrote, said, stdout, readers, writers, drain, got, eof, found, outcome>>
  BY DEF IInv, TypeOK, Drain, childVars, searchVars
<1>b. /\ stderr'[w] \in Seq(Written) /\ heard'[w] \in Seq(Written)
      /\ heard'[w] \o stderr'[w] = heard[w] \o stderr[w]
      /\ Len(stderr[w]) \in Nat /\ Len(stderr'[w]) = Len(stderr[w]) - 1
  <2>1. /\ Append(heard[w], Head(stderr[w])) \in Seq(Written) /\ Tail(stderr[w]) \in Seq(Written)
        /\ Append(heard[w], Head(stderr[w])) \o Tail(stderr[w]) = heard[w] \o stderr[w]
        /\ Len(stderr[w]) \in Nat /\ Len(Tail(stderr[w])) = Len(stderr[w]) - 1
    BY <1>a, Taken
  <2> QED
    BY <1>a, <2>1
<1>c. Len(stderr'[w]) <= PipeSize
  BY <1>a, <1>b, PipeAssumption
<1>1. TypeOK'
  BY <1>a, <1>b, <1>c DEF IInv, TypeOK, Drain
<1>2. ASSUME NEW v \in Worker, v # w PROVE Local(v)'
  BY <1>2, LocalFrame DEF IInv, TypeOK, Same, Drain, childVars, searchVars
<1>3. Places(w)'
  BY <1>a DEF IInv, Local, Places
<1>4. Output(w)'
  BY <1>a DEF IInv, Local, Output
<1>5. Heard(w)'
  BY <1>a, <1>b DEF IInv, Local, Heard
<1>6. Returned(w)'
  BY <1>a DEF IInv, Local, Returned, Blamed, Says
<1>7. Local(w)'
  BY <1>3, <1>4, <1>5, <1>6 DEF Local
<1> QED
  BY <1>1, <1>2, <1>7 DEF IInv

LEMMA DrainEndsInv ==
    ASSUME IInv, NEW w \in Worker, DrainEnds(w)
    PROVE  IInv'
<1> USE DEF DrainEnds, childVars, searchVars
<1>1. TypeOK'
  BY DEF IInv, TypeOK
<1>2. ASSUME NEW v \in Worker, v # w PROVE Local(v)'
  BY <1>2, LocalFrame DEF IInv, TypeOK, Same
<1>3. Local(w)'
  BY DEF IInv, TypeOK, Local, Places, Output, Heard, Returned
<1> QED
  BY <1>1, <1>2, <1>3 DEF IInv

LEMMA SearchInv ==
    ASSUME IInv, NEW w \in Worker, Search(w)
    PROVE  IInv'
<1>a. /\ pc[w] = "search" /\ case[w] \in Case
      /\ UNCHANGED <<case, child, rest, code, wrote, said, stdout, stderr, readers, writers, drain, heard, got, eof, outcome>>
  BY DEF IInv, TypeOK, Search, childVars, pipeVars
<1>b. case[w].end \in {"eof", "match", "error", "epipe"}
  BY <1>a, CaseAssumption DEF IsCase
<1>c. \/ pc' = [pc EXCEPT ![w] = "read"] /\ found' = found
      \/ \E how \in {"result", "error", "epipe"} : pc' = [pc EXCEPT ![w] = "close"] /\ found' = [found EXCEPT ![w] = how]
  BY <1>b DEF Search, Ended, Goto
<1>d. found' \in [Worker -> {"open", "result", "error", "epipe"}]
  BY <1>c DEF IInv, TypeOK
<1>e. \A v \in Worker : v # w => found'[v] = found[v] /\ pc'[v] = pc[v]
  BY <1>c DEF IInv, TypeOK
<1>1. TypeOK'
  <2>1. CASE pc' = [pc EXCEPT ![w] = "read"]
    BY <2>1, <1>a, <1>d DEF IInv, TypeOK
  <2>2. CASE pc' = [pc EXCEPT ![w] = "close"]
    BY <2>2, <1>a, <1>d DEF IInv, TypeOK
  <2> QED
    BY <1>c, <2>1, <2>2
<1>2. ASSUME NEW v \in Worker, v # w PROVE Local(v)'
  BY <1>2, <1>a, <1>e, LocalFrame DEF IInv, Same
<1>3. Places(w)'
  BY <1>a, <1>c DEF IInv, TypeOK, Local, Places
<1>4. Output(w)'
  BY <1>a DEF IInv, Local, Output
<1>5. Heard(w)'
  BY SMTT(30), <1>a, <1>c DEF IInv, TypeOK, Local, Heard
<1>6. Returned(w)'
  BY <1>a, <1>c DEF IInv, TypeOK, Returned
<1>7. Local(w)'
  BY <1>3, <1>4, <1>5, <1>6 DEF Local
<1> QED
  BY <1>1, <1>2, <1>7 DEF IInv

LEMMA ReadInv ==
    ASSUME IInv, NEW w \in Worker, Read(w)
    PROVE  IInv'
<1> USE DEF Read, Goto, childVars
<1>0. CASE stdout[w] # <<>>
  <2> USE <1>0
  <2>a. Receive(w)
    OBVIOUS
  <2>b. /\ pc' = [pc EXCEPT ![w] = "search"] /\ pc[w] = "read"
        /\ UNCHANGED <<case, child, rest, code, wrote, said, stderr, readers, writers, drain, heard, eof, found, outcome>>
    BY <2>a DEF Receive
  <2>1. TypeOK'
    <3> HIDE DEF Read
    <3> QED
      BY <2>a, <2>b, ReceiveElements DEF IInv, TypeOK
  <2>2. ASSUME NEW v \in Worker, v # w PROVE Local(v)'
    BY <2>a, <2>2, LocalFrame DEF IInv, TypeOK, Same, Receive
  <2>3. Places(w)'
    BY <2>a DEF IInv, TypeOK, Local, Places, Receive
  <2>4. Output(w)'
    <3>1. ~eof[w]
      BY DEF IInv, Local, Output
    <3> HIDE DEF Read
    <3> QED
      BY <2>a, <2>b, <3>1, ReceiveElements DEF IInv, TypeOK, Output
  <2>5. Heard(w)'
    BY <2>a DEF IInv, TypeOK, Local, Heard, Receive
  <2>6. Returned(w)'
    BY <2>a DEF IInv, TypeOK, Local, Returned, Receive
  <2>7. Local(w)'
    BY <2>3, <2>4, <2>5, <2>6 DEF Local
  <2> QED
    BY <2>1, <2>2, <2>7 DEF IInv
<1>1. CASE stdout[w] = <<>>
  <2> USE <1>1
  <2>a. /\ pc' = [pc EXCEPT ![w] = "poll"] /\ pc[w] = "read"
        /\ UNCHANGED <<case, child, rest, code, wrote, said, stdout, stderr, readers, writers, drain, heard, got, outcome, eof, found>>
    OBVIOUS
  <2>1. TypeOK'
    <3> HIDE DEF Read
    <3> QED
      BY <2>a DEF IInv, TypeOK
  <2>2. ASSUME NEW v \in Worker, v # w PROVE Local(v)'
    BY <2>2, LocalFrame DEF IInv, TypeOK, Same
  <2>3. Places(w)'
    BY DEF IInv, TypeOK, Local, Places
  <2>4. Output(w)'
    BY DEF IInv, TypeOK, Local, Places, Output
  <2>5. Heard(w)'
    BY DEF IInv, TypeOK, Local, Heard
  <2>6. Returned(w)'
    BY DEF IInv, TypeOK, Local, Returned
  <2>7. Local(w)'
    BY <2>3, <2>4, <2>5, <2>6 DEF Local
  <2> QED
    BY <2>1, <2>2, <2>7 DEF IInv
<1> QED
  BY <1>0, <1>1

LEMMA PollInv ==
    ASSUME IInv, NEW w \in Worker, Poll(w)
    PROVE  IInv'
<1>a. /\ pc[w] = "poll"
      /\ \/ pc' = [pc EXCEPT ![w] = "read"] /\ child' = child
         \/ pc' = [pc EXCEPT ![w] = "last"] /\ child[w] # "running" /\ child' = [child EXCEPT ![w] = "reaped"]
      /\ UNCHANGED <<case, rest, code, wrote, said, stdout, stderr, readers, writers, drain, heard, got, eof, found, outcome>>
  BY DEF Poll, Goto, pipeVars, searchVars
<1>1. TypeOK'
  <2>1. CASE pc' = [pc EXCEPT ![w] = "read"] /\ child' = child
    BY <2>1, <1>a DEF IInv, TypeOK
  <2>2. CASE pc' = [pc EXCEPT ![w] = "last"] /\ child' = [child EXCEPT ![w] = "reaped"]
    BY <2>2, <1>a DEF IInv, TypeOK
  <2> QED
    BY <1>a, <2>1, <2>2
<1>2. ASSUME NEW v \in Worker, v # w PROVE Local(v)'
  BY <1>2, <1>a, LocalFrame DEF IInv, TypeOK, Same
<1>3. Places(w)'
  BY <1>a DEF IInv, TypeOK, Local, Places
<1>4. Output(w)'
  BY <1>a DEF IInv, TypeOK, Local, Output
<1>5. Heard(w)'
  BY <1>a DEF IInv, TypeOK, Local, Heard
<1>6. Returned(w)'
  BY <1>a DEF IInv, TypeOK, Returned
<1>7. Local(w)'
  BY <1>3, <1>4, <1>5, <1>6 DEF Local
<1> QED
  BY <1>1, <1>2, <1>7 DEF IInv

LEMMA LastReadInv ==
    ASSUME IInv, NEW w \in Worker, LastRead(w)
    PROVE  IInv'
<1> USE DEF LastRead, Goto, childVars, Ended
<1>0. CASE stdout[w] # <<>>
  <2> USE <1>0
  <2>a. Receive(w)
    OBVIOUS
  <2>b. /\ pc' = [pc EXCEPT ![w] = "search"] /\ pc[w] = "last"
        /\ UNCHANGED <<case, child, rest, code, wrote, said, stderr, readers, writers, drain, heard, eof, found, outcome>>
    BY <2>a DEF Receive
  <2>1. TypeOK'
    <3> HIDE DEF LastRead
    <3> QED
      BY <2>a, <2>b, ReceiveElements DEF IInv, TypeOK
  <2>2. ASSUME NEW v \in Worker, v # w PROVE Local(v)'
    BY <2>a, <2>2, LocalFrame DEF IInv, TypeOK, Same, Receive
  <2>3. Places(w)'
    BY <2>a DEF IInv, TypeOK, Local, Places, Receive
  <2>4. Output(w)'
    <3>1. ~eof[w]
      BY DEF IInv, Local, Output
    <3> HIDE DEF LastRead
    <3> QED
      BY <2>a, <2>b, <3>1, ReceiveElements DEF IInv, TypeOK, Output
  <2>5. Heard(w)'
    BY <2>a DEF IInv, TypeOK, Local, Heard, Receive
  <2>6. Returned(w)'
    BY <2>a DEF IInv, TypeOK, Local, Returned, Receive
  <2>7. Local(w)'
    BY <2>3, <2>4, <2>5, <2>6 DEF Local
  <2> QED
    BY <2>1, <2>2, <2>7 DEF IInv
<1>1. CASE stdout[w] = <<>>
  <2> USE <1>1
  <2>a. /\ pc' = [pc EXCEPT ![w] = "close"] /\ pc[w] = "last"
        /\ UNCHANGED <<case, child, rest, code, wrote, said, stdout, stderr, readers, writers, drain, heard, got, outcome>>
        /\ eof' = [eof EXCEPT ![w] = TRUE] /\ found' = [found EXCEPT ![w] = "result"]
    OBVIOUS
  <2>1. TypeOK'
    <3> HIDE DEF LastRead
    <3> QED
      BY <2>a DEF IInv, TypeOK
  <2>2. ASSUME NEW v \in Worker, v # w PROVE Local(v)'
    BY <2>2, LocalFrame DEF IInv, TypeOK, Same
  <2>3. Places(w)'
    BY DEF IInv, TypeOK, Local, Places
  <2>4. Output(w)'
    BY DEF IInv, TypeOK, Local, Places, Output
  <2>5. Heard(w)'
    BY DEF IInv, TypeOK, Local, Heard
  <2>6. Returned(w)'
    BY DEF IInv, TypeOK, Local, Returned
  <2>7. Local(w)'
    BY <2>3, <2>4, <2>5, <2>6 DEF Local
  <2> QED
    BY <2>1, <2>2, <2>7 DEF IInv
<1> QED
  BY <1>0, <1>1

LEMMA CloseStdoutInv ==
    ASSUME IInv, NEW w \in Worker, CloseStdout(w)
    PROVE  IInv'
<1> USE DEF CloseStdout, Goto, childVars, searchVars
<1>1. TypeOK'
  BY DEF IInv, TypeOK
<1>2. ASSUME NEW v \in Worker, v # w PROVE Local(v)'
  BY <1>2, LocalFrame DEF IInv, TypeOK, Same
<1>3. Local(w)'
  BY DEF IInv, TypeOK, Local, Places, Output, Heard, Returned
<1> QED
  BY <1>1, <1>2, <1>3 DEF IInv

LEMMA WaitInv ==
    ASSUME IInv, NEW w \in Worker, Wait(w)
    PROVE  IInv'
<1> USE DEF Wait, Goto, pipeVars, searchVars
<1>1. TypeOK'
  BY DEF IInv, TypeOK
<1>2. ASSUME NEW v \in Worker, v # w PROVE Local(v)'
  BY <1>2, LocalFrame DEF IInv, TypeOK, Same
<1>3. Local(w)'
  BY DEF IInv, TypeOK, Local, Places, Output, Heard, Returned
<1> QED
  BY <1>1, <1>2, <1>3 DEF IInv
LEMMA ForkInv ==
    ASSUME IInv, NEW w \in Worker, Fork(w)
    PROVE  IInv'
<1>a. /\ pc[w] = "fork" /\ pc' = [pc EXCEPT ![w] = "parent"] /\ child' = [child EXCEPT ![w] = "running"]
      /\ UNCHANGED <<case, rest, code, wrote, said, stdout, stderr, drain, heard, got, eof, found, outcome>>
  BY DEF Fork, Goto, searchVars
<1>b. \A v \in Worker : readers'[v] = IF v # w /\ Rg \in readers[v] THEN readers[v] \cup {w} ELSE readers[v]
  BY DEF Fork, Inherit
<1>c. \A v \in Worker : v # w => writers'[v] = IF Rg \in writers[v] THEN writers[v] \cup {w} ELSE writers[v]
  BY DEF Fork, Inherit
<1>d. writers'[w] = writers[w] \cup {w}
  BY DEF Fork, Inherit
<1>e. readers' \in [Worker -> SUBSET Holder] /\ writers' \in [Worker -> SUBSET Holder]
  <2>1. w \in Holder
    BY DEF Holder
  <2>2. \A v \in Worker : readers'[v] \in SUBSET Holder /\ writers'[v] \in SUBSET Holder
    <3>1. \A v \in Worker : readers[v] \subseteq Holder /\ writers[v] \subseteq Holder
      BY DEF IInv, TypeOK
    <3>2. \A v \in Worker : readers'[v] \subseteq readers[v] \cup {w} /\ writers'[v] \subseteq writers[v] \cup {w}
      BY <1>b, <1>c, <1>d
    <3> QED
      BY <2>1, <3>1, <3>2
  <2>3. /\ readers' = [v \in Worker |-> readers'[v]]
        /\ writers' = [v \in Worker |-> writers'[v]]
    BY DEF Fork, Inherit
  <2> QED
    BY <2>2, <2>3
<1>1. TypeOK'
  <2>1. \A v \in Worker : (Rg \in readers'[v] <=> Rg \in readers[v]) /\ (Rg \in writers'[v] <=> Rg \in writers[v])
    BY <1>b, <1>c, <1>d, RgAssumption
  <2> QED
    BY <1>a, <1>e, <2>1 DEF IInv, TypeOK
<1>2. ASSUME NEW v \in Worker, v # w PROVE Local(v)'
  BY <1>2, <1>a, <1>c, WritersFrame DEF IInv, TypeOK, Same
<1>3. Places(w)'
  BY <1>a DEF IInv, TypeOK, Local, Places
<1>4. Output(w)'
  BY <1>a DEF IInv, TypeOK, Local, Output
<1>5. Heard(w)'
  BY <1>a, <1>d DEF IInv, TypeOK, Local, Heard
<1>6. Returned(w)'
  BY <1>a DEF IInv, TypeOK, Returned
<1>7. Local(w)'
  BY <1>3, <1>4, <1>5, <1>6 DEF Local
<1> QED
  BY <1>1, <1>2, <1>7 DEF IInv

LEMMA ExitInv ==
    ASSUME IInv, NEW w \in Worker, Exit(w)
    PROVE  IInv'
<1>a. /\ child[w] = "running" /\ child' = [child EXCEPT ![w] = "zombie"]
      /\ UNCHANGED <<case, pc, rest, code, wrote, said, stdout, stderr, drain, heard, got, eof, found, outcome>>
  BY DEF Exit, searchVars
<1>b. \A v \in Worker : readers'[v] = readers[v] \ {w} /\ writers'[v] = writers[v] \ {w}
  BY DEF Exit
<1>c. readers' \in [Worker -> SUBSET Holder] /\ writers' \in [Worker -> SUBSET Holder]
  BY DEF Exit, IInv, TypeOK
<1>1. TypeOK'
  <2>1. \A v \in Worker : (Rg \in readers'[v] <=> Rg \in readers[v]) /\ (Rg \in writers'[v] <=> Rg \in writers[v])
    BY <1>b, RgAssumption
  <2> QED
    BY <1>a, <1>c, <2>1 DEF IInv, TypeOK
<1>2. ASSUME NEW v \in Worker, v # w PROVE Local(v)'
  BY <1>2, <1>a, <1>b, WritersFrame DEF IInv, TypeOK, Same
<1>3. Places(w)'
  BY <1>a DEF IInv, TypeOK, Local, Places
<1>4. Output(w)'
  BY <1>a DEF IInv, TypeOK, Local, Output
<1>5. Heard(w)'
  BY <1>a, <1>b DEF IInv, TypeOK, Local, Heard
<1>6. Returned(w)'
  BY <1>a DEF IInv, TypeOK, Local, Places, Returned
<1>7. Local(w)'
  BY <1>3, <1>4, <1>5, <1>6 DEF Local
<1> QED
  BY <1>1, <1>2, <1>7 DEF IInv

LEMMA FinishStderrInv ==
    ASSUME IInv, NEW w \in Worker, FinishStderr(w)
    PROVE  IInv'
<1>a. /\ pc[w] = "stderr" /\ drain[w] = "sent" /\ pc' = [pc EXCEPT ![w] = "done"]
      /\ outcome' = [outcome EXCEPT ![w] = Outcome(w)]
      /\ UNCHANGED <<case, child, rest, code, wrote, said, stdout, stderr, readers, writers, drain, heard, got, eof, found>>
  BY DEF FinishStderr, Goto, childVars, pipeVars
<1>b. Outcome(w) \in {"result", "failed", "epipe"}
  BY DEF Outcome
<1>1. TypeOK'
  BY <1>a, <1>b DEF IInv, TypeOK
<1>2. ASSUME NEW v \in Worker, v # w PROVE Local(v)'
  BY <1>2, <1>a, LocalFrame DEF IInv, TypeOK, Same
<1>3. Places(w)'
  BY <1>a DEF IInv, TypeOK, Local, Places
<1>4. Output(w)'
  BY <1>a DEF IInv, TypeOK, Local, Output
<1>5. Heard(w)'
  BY <1>a DEF IInv, TypeOK, Local, Heard
\* Here the thread has heard everything.
<1>6. Returned(w)'
  <2>1. heard[w] = said[w]
    <3>1. heard[w] \in Seq(Written) /\ stderr[w] = <<>> /\ heard[w] \o stderr[w] = said[w]
      BY <1>a DEF IInv, TypeOK, Local, Heard
    <3> QED
      BY <3>1, ConcatEmptySeq
  <2>2. found[w] \in {"result", "error", "epipe"} /\ code[w] \in {0, 1}
    BY <1>a DEF IInv, TypeOK, Local, Returned
  <2>3. Outcome(w) = CASE found[w] = "epipe" -> "epipe"
                       [] found[w] = "error" \/ (found[w] = "result" /\ Blamed(w)) -> "failed"
                       [] OTHER -> "result"
    BY <2>1, <2>2 DEF Outcome, CloseError, Blamed
  <2>4. Blamed(w)' = Blamed(w) /\ outcome'[w] = Outcome(w) /\ pc'[w] = "done"
    BY <1>a DEF IInv, TypeOK, Blamed, Says
  <2> QED
    BY <1>a, <2>3, <2>4 DEF Returned
<1>7. Local(w)'
  BY <1>3, <1>4, <1>5, <1>6 DEF Local
<1> QED
  BY <1>1, <1>2, <1>7 DEF IInv

-----------------------------------------------------------------------------
\* The invariant holds in every reachable state.
THEOREM CommandInvariance == Spec => []IInv
<1>1. IInv /\ [Next]_vars => IInv'
  <2> SUFFICES ASSUME IInv, [Next]_vars PROVE IInv'
    OBVIOUS
  <2>1. ASSUME NEW w \in Worker, WorkerStep(w) PROVE IInv'
    BY <2>1, OpenPipesInv, StartFailsInv, ForkInv, StartDrainInv, SearchInv, ReadInv, PollInv, LastReadInv,
       CloseStdoutInv, WaitInv, FinishStderrInv DEF WorkerStep
  <2>2. ASSUME NEW w \in Worker, ChildStep(w) PROVE IInv'
    BY <2>2, WriteOutputInv, WriteFailsInv, WriteStderrInv, ExitInv DEF ChildStep
  <2>3. ASSUME NEW w \in Worker, DrainStep(w) PROVE IInv'
    BY <2>3, DrainInv, DrainEndsInv DEF DrainStep
  <2>4. CASE UNCHANGED vars
    <3>1. TypeOK'
      BY <2>4 DEF IInv, TypeOK, vars, childVars, pipeVars, searchVars
    <3>2. ASSUME NEW v \in Worker PROVE Local(v)'
      BY <2>4, LocalFrame DEF IInv, Same, vars, childVars, pipeVars, searchVars
    <3> QED
      BY <3>1, <3>2 DEF IInv
  <2> QED
    BY <2>1, <2>2, <2>3, <2>4 DEF Next, Terminated
<1> QED
  BY <1>1, InitInv, PTL DEF Spec

\* Descriptors are opened and closed in step with the worker, whatever other
\* workers fork meanwhile, and no pipe overflows.
THEOREM CommandTypes == Spec => []TypeOK
<1>1. IInv => TypeOK
  BY DEF IInv
<1> QED
  BY <1>1, CommandInvariance, PTL

\* No output of a command is lost, doubled or reordered, whatever it writes and
\* however small the pipe (CommandReader.read_impl).
THEOREM CommandOutputWhole == Spec => []OutputWhole
<1>1. IInv => OutputWhole
  <2> SUFFICES ASSUME IInv, NEW w \in Worker
               PROVE  /\ \A k \in 1 .. Len(got[w]) : got[w][k] = k
                      /\ eof[w] => Len(got[w]) = wrote[w] /\ child[w] = "reaped"
    BY DEF OutputWhole
  <2>1. /\ got[w] \in Seq(Nat) /\ stdout[w] \in Seq(Nat) /\ wrote[w] \in Nat
        /\ got[w] \o stdout[w] = Chunks(wrote[w])
        /\ eof[w] => stdout[w] = <<>> /\ child[w] = "reaped"
    BY DEF IInv, TypeOK, Local, Output
  <2>2. Len(Chunks(wrote[w])) = wrote[w] /\ \A k \in 1 .. wrote[w] : Chunks(wrote[w])[k] = k
    BY <2>1 DEF Chunks
  <2>3. /\ Len(got[w]) \in Nat /\ Len(stdout[w]) \in Nat
        /\ Len(got[w]) + Len(stdout[w]) = wrote[w]
        /\ \A k \in 1 .. wrote[w] : Chunks(wrote[w])[k] = IF k <= Len(got[w]) THEN got[w][k] ELSE stdout[w][k - Len(got[w])]
    <3> DEFINE a == got[w]  b == stdout[w]  c == Chunks(wrote[w])  n == wrote[w]
    <3>1. a \in Seq(Nat) /\ b \in Seq(Nat) /\ a \o b = c /\ Len(c) = n
      BY <2>1, <2>2
    <3> HIDE DEF a, b, c, n
    <3>2. Len(a) \in Nat /\ Len(b) \in Nat
      BY <3>1
    <3>3. Len(a) + Len(b) = n /\ \A k \in 1 .. n : c[k] = IF k <= Len(a) THEN a[k] ELSE b[k - Len(a)]
      BY <3>1, <3>2, ConcatProperties
    <3> QED
      BY <3>2, <3>3 DEF a, b, c, n
  <2>4. ASSUME NEW k \in 1 .. Len(got[w]) PROVE got[w][k] = k
    <3>1. k \in 1 .. wrote[w] /\ k <= Len(got[w])
      <4> DEFINE a == Len(got[w])  b == Len(stdout[w])  n == wrote[w]
      <4>1. a \in Nat /\ b \in Nat /\ a + b = n /\ k \in 1 .. a
        BY <2>3
      <4> HIDE DEF a, b, n
      <4>2. k \in 1 .. n /\ k <= a
        BY <4>1
      <4> QED
        BY <4>2 DEF a, n
    <3> QED
      BY <3>1, <2>2, <2>3
  <2>5. ASSUME eof[w] PROVE Len(got[w]) = wrote[w]
    <3> DEFINE a == Len(got[w])  b == Len(stdout[w])  n == wrote[w]
    <3>1. a \in Nat /\ b = 0 /\ a + b = n
      BY <2>1, <2>3, <2>5
    <3> HIDE DEF a, b, n
    <3>2. a = n
      BY <3>1
    <3> QED
      BY <3>2 DEF a, n
  <2> QED
    BY <2>1, <2>4, <2>5
<1> QED
  BY <1>1, CommandInvariance, PTL

\* One outcome, decided by everything the child did and said, whichever of the
\* search, the child and the thread on stderr ended first.
THEOREM CommandOutcomeExact == Spec => []OutcomeExact
<1>1. IInv => OutcomeExact
  BY DEF IInv, Local, Returned, OutcomeExact
<1> QED
  BY <1>1, CommandInvariance, PTL

\* Every path through search and close leaves nothing behind.
THEOREM CommandNothingLeft == Spec => []NothingLeft
<1>1. IInv => NothingLeft
  BY DEF IInv, TypeOK, Local, Places, Returned, NothingLeft
<1> QED
  BY <1>1, CommandInvariance, PTL
=============================================================================
