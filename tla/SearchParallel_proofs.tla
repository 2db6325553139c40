------------------------ MODULE SearchParallel_proofs ------------------------
(***************************************************************************)
(* Proofs about SearchParallel, for any number of workers and results, any *)
(* verdicts, and writes that fail anywhere.                                *)
(***************************************************************************)
EXTENDS SearchParallel, SequenceTheorems, TLAPS

-----------------------------------------------------------------------------
\* Where a worker has a result in hand, where its search succeeded, where its
\* output is still to be written, and where it has the writer to itself.
Place == {"check", "take", "visit", "search", "match", "stats", "add", "output", "separator",
          "head", "tail", "unlock", "answer", "quit", "exited"}
Searched == {"match", "stats", "add", "output", "separator", "head", "tail", "unlock", "answer"}
InHand == {"visit", "search"} \cup Searched
Unprinted == {"match", "stats", "add", "output", "separator", "head"}
Printing == {"separator", "head", "tail", "unlock"}

Chunk == {<<"separator">>, <<"stats">>} \cup ({"head", "tail"} \X Result)

Types ==
    /\ verdict \in [Result -> Verdict] /\ verdict \in Verdicts
    /\ cfg \in Config /\ cfg \in Configs
    /\ pending \subseteq Result
    /\ pc \in [Worker -> Place]
    /\ result \in [Worker -> Result]
    /\ buffer \in [Worker -> Seq(Result)]
    /\ stats \in [Result -> 0 .. 1]
    /\ seen \in [Worker -> [Result -> 0 .. 1]]
    /\ stop \in BOOLEAN /\ matched \in BOOLEAN /\ brokenPipe \in BOOLEAN /\ errored \in BOOLEAN
    /\ printed \in BOOLEAN /\ searched \in BOOLEAN /\ done \in BOOLEAN
    /\ statsLock \in Worker \cup {NoWorker} /\ outputLock \in Worker \cup {NoWorker}
    /\ out \in Seq(Chunk)
    /\ completed \subseteq Result /\ failed \subseteq completed
    /\ late \in [Worker -> Nat]

\* A result is in the hands of one worker, and then no longer of the walk.
Hands ==
    /\ \A w \in Worker : pc[w] \in InHand => result[w] \notin pending
    /\ \A v, w \in Worker : (v # w /\ pc[v] \in InHand /\ pc[w] \in InHand) => result[v] # result[w]
    /\ \A r \in completed : r \notin pending /\ verdict[r].kind = "searched"
    /\ \A w \in Worker : pc[w] \in {"visit", "search"} => result[w] \notin completed
    /\ \A w \in Worker : pc[w] = "search" => verdict[result[w]].kind \in {"fails", "searched"}
    /\ \A w \in Worker : pc[w] \in Searched => result[w] \in completed

\* A buffer holds what the search in hand left in it, nothing of another one.
Buffers ==
    \A w \in Worker :
        /\ pc[w] = "search" => buffer[w] = <<>>
        /\ pc[w] \in Searched \cup {"quit"} => buffer[w] = Output(result[w])
        /\ pc[w] \in {"separator", "head", "tail"} => buffer[w] # <<>>

\* The lock is held by the worker about to add, whose copy is the last sum;
\* a result counts from when its worker has added it.
Counted ==
    /\ \A w \in Worker : pc[w] \in {"stats", "add"} => cfg.stats
    /\ \A w \in Worker : pc[w] = "add" <=> statsLock = w
    /\ \A w \in Worker : pc[w] = "add" => seen[w] = stats
    /\ cfg.stats =>
        \A r \in Result :
            stats[r] = IF r \in completed /\ \A w \in Worker : result[w] = r => pc[w] \notin {"match", "stats", "add"}
                       THEN 1 ELSE 0

Holder == \A w \in Worker : pc[w] \in Printing <=> outputLock = w

\* What is printed of a result: at most one head and one tail, after its
\* search and not before its worker wrote it.
Has(part, r) == \E k \in 1 .. Len(out) : out[k] = <<part, r>>
Printed ==
    /\ \A r \in Result : Has("head", r) => r \in completed /\ Due(r)
    /\ \A r \in Result : Has("tail", r) => r \in completed /\ r \notin failed /\ Due(r)
    /\ \A w \in Worker : pc[w] \in Unprinted => ~Has("head", result[w])
    /\ \A w \in Worker : pc[w] \in Unprinted \cup {"tail"} => ~Has("tail", result[w]) /\ result[w] \notin failed
    /\ \A j, k \in 1 .. Len(out) : (out[j] = out[k] /\ out[j][1] \in {"head", "tail"}) => j = k

\* Where the writer is: between two blocks, or where the worker in its section
\* left it.
EndsWith(part) == out # <<>> /\ out[Len(out)][1] = part
Between == IF printed THEN EndsWith("tail") ELSE out = <<>>
Whole ==
    (failed = {} /\ ~done) =>
        /\ (\A w \in Worker : pc[w] \notin {"head", "tail"}) => Between
        /\ \A w \in Worker :
            /\ pc[w] = "separator" => printed /\ cfg.separator
            /\ pc[w] = "head" => IF printed /\ cfg.separator THEN EndsWith("separator") ELSE Between
            /\ pc[w] = "tail" => out # <<>> /\ out[Len(out)] = <<"head", result[w]>>

\* A result waits, is in hand, or all was done for it.
Settled(r) ==
    /\ verdict[r].kind = "searched" => r \in completed
    /\ (verdict[r].kind = "searched" /\ verdict[r].hit) => matched
    /\ verdict[r].kind \in {"error", "fails"} => errored
    /\ (Due(r) /\ r \notin failed) => Has("tail", r)
Handled ==
    /\ \A r \in Result : r \in pending \/ (\E w \in Worker : pc[w] \in InHand /\ result[w] = r) \/ Settled(r)
    /\ \A w \in Worker : (pc[w] \in Searched \ {"match"} /\ verdict[result[w]].hit) => matched
    /\ \A w \in Worker :
        (pc[w] \in {"unlock", "answer"} /\ Due(result[w]) /\ result[w] \notin failed) => Has("tail", result[w])
    /\ \A w \in Worker : (pc[w] = "exited" /\ ~stop) => pending = {}

\* Each flag has a reason.
Signals ==
    /\ brokenPipe => failed # {}
    /\ matched => \E r \in Result : verdict[r].kind = "searched" /\ verdict[r].hit
    /\ errored => \/ failed # {} \/ \E r \in Result : verdict[r].kind \in {"error", "fails"}
                  \/ done /\ cfg.implicit /\ ~searched
    /\ done /\ cfg.implicit /\ ~searched => errored
    /\ stop => MayEnd
    /\ \A w \in Worker : pc[w] = "quit" => MayEnd
    /\ done => \A w \in Worker : pc[w] = "exited"

\* A file was met exactly if one was begun; before that, all there are wait.
Haystack(r) == verdict[r].kind \in {"fails", "searched"}
Begun ==
    /\ searched => \E r \in Result : Haystack(r)
    /\ \A w \in Worker : pc[w] \in {"search", "quit"} \cup Searched => searched
    /\ stop => searched
    /\ \A r \in Result : Haystack(r) => r \in pending \/ (\E w \in Worker : pc[w] = "visit" /\ result[w] = r) \/ searched

\* A search that began when the end was due is its worker's last.
Lateness ==
    \A w \in Worker :
        late[w] # 0 => /\ late[w] = 1 /\ MayEnd
                       /\ pc[w] \in {"search", "quit", "exited"} \cup Searched
                       /\ pc[w] = "search" => verdict[result[w]].kind = "searched"

IInv ==
    /\ Types /\ Hands /\ Buffers /\ Counted /\ Holder /\ Printed /\ Whole /\ BlocksWhole /\ Handled /\ Signals /\ Begun /\ Lateness

-----------------------------------------------------------------------------
LEMMA InitHolds == Init => IInv
<1> SUFFICES ASSUME Init PROVE IInv
  OBVIOUS
<1>1. (CHOOSE r \in Result : TRUE) \in Result
  BY ResultAssumption
<1>2. Types
  <2>1. buffer \in [Worker -> Seq(Result)] /\ out \in Seq(Chunk)
    BY DEF Init
  <2>2. /\ verdict \in [Result -> Verdict] /\ verdict \in Verdicts /\ cfg \in Config /\ cfg \in Configs
        /\ pending \subseteq Result /\ completed \subseteq Result /\ failed \subseteq completed
    BY VerdictAssumption, ConfigAssumption DEF Init
  <2>3. pc \in [Worker -> Place] /\ result \in [Worker -> Result] /\ late \in [Worker -> Nat]
    BY <1>1 DEF Init, Place
  <2>4. stats \in [Result -> 0 .. 1] /\ seen \in [Worker -> [Result -> 0 .. 1]]
    BY DEF Init
  <2> QED
    BY <2>1, <2>2, <2>3, <2>4 DEF Init, Types
<1>3. \A w \in Worker : pc[w] = "check" /\ late[w] = 0
  BY DEF Init
<1>4. Hands /\ Buffers /\ Lateness
  BY <1>3 DEF Init, Hands, Buffers, Lateness, InHand, Searched
<1>5. Counted /\ Holder
  BY <1>3, WorkerAssumption DEF Init, Counted, Holder, Printing
<1>6. Printed /\ Whole /\ BlocksWhole
  BY <1>3 DEF Init, Printed, Has, Whole, Between, BlocksWhole, Unprinted
<1>7. Handled
  BY <1>3 DEF Init, Handled, Searched
<1>8. Signals /\ Begun
  BY <1>3 DEF Init, Signals, Begun, Searched
<1> QED
  BY <1>2, <1>4, <1>5, <1>6, <1>7, <1>8 DEF IInv

\* The chunks of a block in a buffer with one result.
LEMMA OneBlock ==
    ASSUME Types, Buffers, NEW w \in Worker, pc[w] \in {"head", "tail"}, NEW part
    PROVE  buffer[w] = <<result[w]>> /\ Blocks(w, part) = <<<<part, result[w]>>>>
<1>1. buffer[w] = <<result[w]>>
  BY DEF Types, Buffers, Searched, Output
<1> QED
  BY <1>1 DEF Blocks

LEMMA TypesKept == Types /\ Hands /\ Buffers /\ Counted /\ [Next]_vars => Types'
<1> SUFFICES ASSUME Types, Hands, Buffers, Counted, [Next]_vars PROVE Types'
  OBVIOUS
<1>1. ASSUME NEW w \in Worker, CheckStop(w) \/ Leave(w) \/ StoreStop(w) \/ Answer(w) PROVE Types'
  <2>1. pc' \in [Worker -> Place]
    BY <1>1 DEF CheckStop, Leave, StoreStop, Answer, Goto, Types, Place
  <2>2. /\ UNCHANGED <<verdict, cfg, pending, result, buffer, matched, brokenPipe, errored, statsVars, outputVars, searched,
                      done, completed, late>>
        /\ stop' \in BOOLEAN
    BY <1>1 DEF CheckStop, Leave, StoreStop, Answer, Types, sharedVars
  <2> QED
    BY <2>1, <2>2 DEF Types, statsVars, outputVars
<1>2. ASSUME NEW w \in Worker, NEW r \in Result, Take(w, r) PROVE Types'
  BY <1>2 DEF Take, Goto, Types, Place, sharedVars, statsVars, outputVars
<1>3. ASSUME NEW w \in Worker, Build(w) PROVE Types'
  BY <1>3 DEF Build, Goto, Types, Place, sharedVars, statsVars, outputVars
<1>4. ASSUME NEW w \in Worker, Search(w) PROVE Types'
  <2>1. buffer[w] \o Output(result[w]) \in Seq(Result)
    BY DEF Types, Output
  <2> QED
    BY <1>4, <2>1 DEF Search, Goto, Types, Place, sharedVars, statsVars, outputVars
<1>5. ASSUME NEW w \in Worker, StoreMatch(w) PROVE Types'
  BY <1>5 DEF StoreMatch, Goto, Types, Place, sharedVars, statsVars, outputVars, Verdict
<1>6. ASSUME NEW w \in Worker, LockStats(w) PROVE Types'
  BY <1>6 DEF LockStats, Goto, Types, Place, sharedVars, statsVars, outputVars
<1>7. ASSUME NEW w \in Worker, AddStats(w) PROVE Types'
  <2>1. seen[w] = stats /\ stats[result[w]] = 0
    BY <1>7 DEF AddStats, Counted, Types
  <2>2. stats' \in [Result -> 0 .. 1]
    BY <1>7, <2>1 DEF AddStats, Types
  <2> QED
    BY <1>7, <2>2 DEF AddStats, Goto, Types, Place, sharedVars, statsVars, outputVars
<1>8. ASSUME NEW w \in Worker, LockOutput(w) \/ Unlock(w) PROVE Types'
  <2>1. PrintFrom(buffer[w]) \in Place
    BY DEF PrintFrom, Place
  <2> QED
    BY ZenonT(80), <1>8, <2>1 DEF LockOutput, Unlock, Goto, Types, Place, sharedVars, statsVars, outputVars
<1>9. ASSUME NEW w \in Worker, WriteSeparator(w) \/ WriteHead(w) \/ WriteTail(w) PROVE Types'
  <2>1. <<<<"separator">>>> \in Seq(Chunk)
    BY DEF Chunk
  <2>2. \A part \in {"head", "tail"} : pc[w] \in {"head", "tail"} => Blocks(w, part) \in Seq(Chunk)
    <3> SUFFICES ASSUME NEW part \in {"head", "tail"}, pc[w] \in {"head", "tail"} PROVE Blocks(w, part) \in Seq(Chunk)
      OBVIOUS
    <3>1. <<part, result[w]>> \in Chunk
      BY DEF Chunk, Types
    <3>2. \A c \in Chunk : <<c>> \in Seq(Chunk)
      OBVIOUS
    <3> QED
      BY <3>1, <3>2, OneBlock
  <2>3. result[w] \in completed
    BY <1>9 DEF Hands, Searched, WriteSeparator, WriteHead, WriteTail
  <2>4. ASSUME NEW outcome \in {"ok", "epipe", "error"}, NEW chunks \in Seq(Chunk), NEW next \in Place,
               Write(w, outcome, chunks, next), printed' \in BOOLEAN
        PROVE  Types'
    <3>1. out \o chunks \in Seq(Chunk)
      BY <2>4 DEF Types
    <3>2. /\ out' \in Seq(Chunk) /\ pc' \in [Worker -> Place] /\ failed' \subseteq completed'
          /\ brokenPipe' \in BOOLEAN /\ errored' \in BOOLEAN /\ completed' \subseteq Result
      <4>1. CASE outcome = "ok"
        BY <2>4, <3>1, <4>1 DEF Write, Goto, Types
      <4>2. CASE outcome # "ok"
        BY <2>3, <2>4, <4>2 DEF Write, Goto, Types, Place
      <4> QED
        BY <4>1, <4>2
    <3>3. UNCHANGED <<verdict, cfg, pending, result, buffer, stop, matched, statsVars, outputLock, searched, done, late>>
      BY <2>4 DEF Write
    <3> QED
      BY <2>4, <3>2, <3>3 DEF Types, statsVars
  <2>5. Outcomes \subseteq {"ok", "epipe", "error"}
    BY WriteAssumption DEF Outcomes
  <2>6. CASE WriteSeparator(w)
    BY <2>1, <2>4, <2>5, <2>6 DEF WriteSeparator, Place, Types
  <2>7. CASE WriteHead(w)
    BY <2>2, <2>4, <2>5, <2>7 DEF WriteHead, Place, Types
  <2>8. CASE WriteTail(w)
    BY <2>2, <2>4, <2>5, <2>8 DEF WriteTail, Place, Types
  <2> QED
    BY <1>9, <2>6, <2>7, <2>8
<1>10. ASSUME Return PROVE Types'
  <2>1. PICK chunks \in Seq(Chunk) : \E n \in 0 .. Len(chunks) : out' = out \o SubSeq(chunks, 1, n)
    <3>1. <<<<"stats">>>> \in Seq(Chunk) /\ <<<<"separator">>>> \in Seq(Chunk) /\ <<>> \in Seq(Chunk)
      BY DEF Chunk
    <3>2. <<<<"separator">>>> \o <<<<"stats">>>> \in Seq(Chunk) /\ <<>> \o <<<<"stats">>>> \in Seq(Chunk)
      BY <3>1
    <3> QED
      BY <1>10, <3>1, <3>2 DEF Return
  <2>2. \A n \in 0 .. Len(chunks) : SubSeq(chunks, 1, n) \in Seq(Chunk)
    OBVIOUS
  <2>3. out' \in Seq(Chunk)
    BY <2>1, <2>2 DEF Types
  <2> QED
    BY <1>10, <2>3 DEF Return, Types, sharedVars, statsVars
<1> QED
  BY <1>1, <1>2, <1>3, <1>4, <1>5, <1>6, <1>7, <1>8, <1>9, <1>10 DEF Next, WorkerStep, Terminated, vars, Types

\* What the three writes have in common: they concern the writer, the flags and
\* where the worker is.
LEMMA WriteFrame ==
    ASSUME Types, NEW w \in Worker, WriteSeparator(w) \/ WriteHead(w) \/ WriteTail(w)
    PROVE  /\ pc[w] \in {"separator", "head", "tail"} /\ pc'[w] \in {"head", "tail", "unlock"}
           /\ pc[w] \in {"head", "tail"} => pc'[w] \in {"tail", "unlock"}
           /\ \A v \in Worker : v # w => pc'[v] = pc[v]
           /\ UNCHANGED <<verdict, cfg, pending, result, buffer, stop, matched, statsVars, outputLock, searched, done, completed, late>>
           /\ MayEnd => MayEnd'
<1>1. ASSUME NEW outcome, NEW chunks, NEW next, Write(w, outcome, chunks, next)
      PROVE  /\ pc'[w] \in {next, "unlock"} /\ \A v \in Worker : v # w => pc'[v] = pc[v]
             /\ UNCHANGED <<verdict, cfg, pending, result, buffer, stop, matched, statsVars, outputLock, searched, done, completed, late>>
             /\ brokenPipe => brokenPipe'
  <2>1. CASE outcome = "ok"
    BY <1>1, <2>1 DEF Write, Goto, Types
  <2>2. CASE outcome # "ok"
    BY <1>1, <2>2 DEF Write, Goto, Types
  <2> QED
    BY <2>1, <2>2
<1>2. PICK next \in {"head", "tail", "unlock"} :
        /\ <<pc[w], next>> \in {<<"separator", "head">>, <<"head", "tail">>, <<"tail", "unlock">>}
        /\ \E outcome, chunks : Write(w, outcome, chunks, next)
  <2>1. CASE WriteSeparator(w)
    <3>1. pc[w] = "separator" /\ \E outcome : Write(w, outcome, <<<<"separator">>>>, "head")
      BY <2>1 DEF WriteSeparator
    <3> QED
      BY <3>1
  <2>2. CASE WriteHead(w)
    <3>1. pc[w] = "head" /\ \E outcome : Write(w, outcome, Blocks(w, "head"), "tail")
      BY <2>2 DEF WriteHead
    <3>2. \E outcome, chunks : Write(w, outcome, chunks, "tail")
      BY <3>1, Zenon
    <3> QED
      BY <3>1, <3>2
  <2>3. CASE WriteTail(w)
    <3>1. pc[w] = "tail" /\ \E outcome : Write(w, outcome, Blocks(w, "tail"), "unlock")
      BY <2>3 DEF WriteTail
    <3>2. \E outcome, chunks : Write(w, outcome, chunks, "unlock")
      BY <3>1, Zenon
    <3> QED
      BY <3>1, <3>2
  <2> QED
    BY <2>1, <2>2, <2>3
<1> QED
  BY <1>1, <1>2 DEF MayEnd, QuitAfterMatch

LEMMA HandsKept == Types /\ Hands /\ [Next]_vars => Hands'
<1> SUFFICES ASSUME Types, Hands, [Next]_vars PROVE Hands'
  OBVIOUS
<1> USE DEF Types, Hands, InHand, Searched
<1>0. ASSUME NEW w \in Worker, \A v \in Worker : v # w => pc'[v] = pc[v],
             pc'[w] \notin {"visit", "search"}, pc'[w] \in Searched => pc[w] \in Searched,
             UNCHANGED <<verdict, result, pending, completed>>
      PROVE  Hands'
  <2>1. \A v \in Worker : pc'[v] \in InHand => pc[v] \in InHand
    BY <1>0
  <2> QED
    BY <1>0, <2>1
<1>1. ASSUME NEW w \in Worker, CheckStop(w) \/ Leave(w) \/ StoreStop(w) \/ Answer(w) PROVE Hands'
  BY ZenonT(40), <1>0, <1>1 DEF CheckStop, Leave, StoreStop, Answer, Goto
<1>2. ASSUME NEW w \in Worker, NEW r \in Result, Take(w, r) PROVE Hands'
  BY <1>2 DEF Take, Goto
<1>3. ASSUME NEW w \in Worker, Build(w) PROVE Hands'
  BY <1>3 DEF Build, Goto
<1>4. ASSUME NEW w \in Worker, Search(w) PROVE Hands'
  BY <1>4 DEF Search, Goto
<1>5. ASSUME NEW w \in Worker, StoreMatch(w) \/ LockStats(w) \/ AddStats(w) PROVE Hands'
  BY ZenonT(40), <1>0, <1>5 DEF StoreMatch, LockStats, AddStats, Goto
<1>6. ASSUME NEW w \in Worker, LockOutput(w) \/ Unlock(w) PROVE Hands'
  BY <1>0, <1>6 DEF LockOutput, Unlock, PrintFrom, Goto
<1>7. ASSUME NEW w \in Worker, WriteSeparator(w) \/ WriteHead(w) \/ WriteTail(w) PROVE Hands'
  BY <1>0, <1>7, WriteFrame
<1>8. ASSUME Return \/ UNCHANGED vars PROVE Hands'
  BY <1>8 DEF Return, vars
<1> QED
  BY <1>1, <1>2, <1>3, <1>4, <1>5, <1>6, <1>7, <1>8 DEF Next, WorkerStep, Terminated

LEMMA BuffersKept == Types /\ Hands /\ Buffers /\ [Next]_vars => Buffers'
<1> SUFFICES ASSUME Types, Hands, Buffers, [Next]_vars PROVE Buffers'
  OBVIOUS
<1> USE DEF Types, Buffers, Searched, Output
<1>1. ASSUME NEW w \in Worker, CheckStop(w) \/ Leave(w) \/ StoreStop(w) \/ Answer(w) PROVE Buffers'
  BY <1>1 DEF CheckStop, Leave, StoreStop, Answer, Goto
<1>2. ASSUME NEW w \in Worker, NEW r \in Result, Take(w, r) PROVE Buffers'
  BY <1>2 DEF Take, Goto
<1>3. ASSUME NEW w \in Worker, Build(w) PROVE Buffers'
  BY <1>3 DEF Build, Goto
<1>4. ASSUME NEW w \in Worker, Search(w) PROVE Buffers'
  <2>1. buffer[w] = <<>> /\ Output(result[w]) \in Seq(Result)
    BY <1>4 DEF Search
  <2>2. \A s \in Seq(Result) : <<>> \o s = s
    OBVIOUS
  <2> QED
    BY <1>4, <2>1, <2>2 DEF Search, Goto
<1>5. ASSUME NEW w \in Worker, StoreMatch(w) \/ LockStats(w) \/ AddStats(w) PROVE Buffers'
  BY <1>5 DEF StoreMatch, LockStats, AddStats, Goto
<1>6. ASSUME NEW w \in Worker, LockOutput(w) \/ Unlock(w) PROVE Buffers'
  BY <1>6 DEF LockOutput, Unlock, PrintFrom, Goto
<1>7. ASSUME NEW w \in Worker, WriteSeparator(w) \/ WriteHead(w) \/ WriteTail(w) PROVE Buffers'
  BY <1>7, WriteFrame
<1>8. ASSUME Return \/ UNCHANGED vars PROVE Buffers'
  BY <1>8 DEF Return, vars
<1> QED
  BY <1>1, <1>2, <1>3, <1>4, <1>5, <1>6, <1>7, <1>8 DEF Next, WorkerStep, Terminated

LEMMA HolderKept == Types /\ Holder /\ [Next]_vars => Holder'
<1> SUFFICES ASSUME Types, Holder, [Next]_vars PROVE Holder'
  OBVIOUS
<1> USE DEF Types, Holder, Printing
<1>1. ASSUME NEW w \in Worker, CheckStop(w) \/ Leave(w) \/ StoreStop(w) \/ Answer(w) PROVE Holder'
  BY <1>1 DEF CheckStop, Leave, StoreStop, Answer, Goto, outputVars
<1>2. ASSUME NEW w \in Worker, NEW r \in Result, Take(w, r) PROVE Holder'
  BY <1>2 DEF Take, Goto, outputVars
<1>3. ASSUME NEW w \in Worker, Build(w) \/ Search(w) PROVE Holder'
  BY <1>3 DEF Build, Search, Goto, outputVars
<1>4. ASSUME NEW w \in Worker, StoreMatch(w) \/ LockStats(w) \/ AddStats(w) PROVE Holder'
  BY <1>4 DEF StoreMatch, LockStats, AddStats, Goto, outputVars
<1>5. ASSUME NEW w \in Worker, LockOutput(w) PROVE Holder'
  BY <1>5, WorkerAssumption DEF LockOutput, PrintFrom, Goto
<1>6. ASSUME NEW w \in Worker, Unlock(w) PROVE Holder'
  BY <1>6, WorkerAssumption DEF Unlock, Goto
<1>7. ASSUME NEW w \in Worker, WriteSeparator(w) \/ WriteHead(w) \/ WriteTail(w) PROVE Holder'
  BY <1>7, WriteFrame
<1>8. ASSUME Return \/ UNCHANGED vars PROVE Holder'
  BY <1>8 DEF Return, vars
<1> QED
  BY <1>1, <1>2, <1>3, <1>4, <1>5, <1>6, <1>7, <1>8 DEF Next, WorkerStep, Terminated

\* The results a worker is about to count.
LEMMA CountedKept == Types /\ Hands /\ Counted /\ [Next]_vars => Counted'
<1> SUFFICES ASSUME Types, Hands, Counted, [Next]_vars PROVE Counted'
  OBVIOUS
<1> DEFINE Counting == {"match", "stats", "add"}
           Sum(r) == IF r \in completed /\ \A v \in Worker : result[v] = r => pc[v] \notin Counting THEN 1 ELSE 0
<1>0. ASSUME NEW w \in Worker, \A v \in Worker : v # w => pc'[v] = pc[v] /\ result'[v] = result[v],
             pc[w] \notin Counting, pc'[w] \notin Counting, UNCHANGED <<cfg, statsVars, completed>>
      PROVE  Counted'
  <2>1. \A r \in Result : Sum(r)' = Sum(r)
    BY <1>0
  <2> QED
    BY <1>0, <2>1 DEF Counted, statsVars
<1>1. ASSUME NEW w \in Worker, CheckStop(w) \/ Leave(w) \/ StoreStop(w) \/ Answer(w) PROVE Counted'
  BY <1>0, <1>1 DEF CheckStop, Leave, StoreStop, Answer, Goto, Types
<1>2. ASSUME NEW w \in Worker, NEW r \in Result, Take(w, r) PROVE Counted'
  BY <1>0, <1>2 DEF Take, Goto, Types
<1>3. ASSUME NEW w \in Worker, Build(w) PROVE Counted'
  BY <1>0, <1>3 DEF Build, Goto, Types
<1>4. ASSUME NEW w \in Worker, Search(w) PROVE Counted'
  <2>1. /\ pc[w] = "search" /\ pc'[w] \in {"check", "match"} /\ \A v \in Worker : v # w => pc'[v] = pc[v]
        /\ UNCHANGED <<cfg, result, stats, statsLock, seen>>
        /\ completed' = IF pc'[w] = "match" THEN completed \cup {result[w]} ELSE completed
    BY <1>4 DEF Search, Goto, Types, statsVars
  <2>2. result[w] \notin completed
    BY <2>1 DEF Hands
  <2>3. \A r \in Result : Sum(r)' = Sum(r)
    BY <2>1, <2>2
  <2> QED
    BY <2>1, <2>3 DEF Counted
<1>5. ASSUME NEW w \in Worker, StoreMatch(w) PROVE Counted'
  <2>1. /\ pc[w] = "match" /\ pc'[w] = (IF cfg.stats THEN "stats" ELSE "output")
        /\ \A v \in Worker : v # w => pc'[v] = pc[v]
        /\ UNCHANGED <<cfg, result, stats, statsLock, seen, completed>>
    BY <1>5 DEF StoreMatch, Goto, Types, statsVars
  <2>2. cfg.stats => \A r \in Result : Sum(r)' = Sum(r)
    BY <2>1
  <2> QED
    BY <2>1, <2>2 DEF Counted
<1>6. ASSUME NEW w \in Worker, LockStats(w) PROVE Counted'
  <2>1. /\ pc[w] = "stats" /\ pc'[w] = "add" /\ \A v \in Worker : v # w => pc'[v] = pc[v]
        /\ statsLock = NoWorker /\ statsLock' = w /\ seen'[w] = stats
        /\ UNCHANGED <<cfg, result, stats, completed>>
    BY <1>6 DEF LockStats, Goto, Types
  <2>2. \A r \in Result : Sum(r)' = Sum(r)
    BY <2>1
  <2>3. \A v \in Worker : pc[v] # "add"
    BY <2>1, WorkerAssumption DEF Counted
  <2> QED
    BY <2>1, <2>2, <2>3 DEF Counted
<1>7. ASSUME NEW w \in Worker, AddStats(w) PROVE Counted'
  <2>1. /\ pc[w] = "add" /\ pc'[w] = "output" /\ \A v \in Worker : v # w => pc'[v] = pc[v]
        /\ statsLock = w /\ statsLock' = NoWorker
        /\ UNCHANGED <<cfg, result, completed>>
    BY <1>7 DEF AddStats, Goto, Types, Counted
  <2>2. result[w] \in completed /\ \A v \in Worker : v # w /\ result[v] = result[w] => pc[v] \notin Counting
    BY <2>1 DEF Hands, Searched, InHand
  <2>3. cfg.stats /\ \A r \in Result : stats[r] = Sum(r)
    BY <2>1 DEF Counted
  <2>4. stats' = [stats EXCEPT ![result[w]] = 1]
    <3>1. seen[w] = stats
      BY <2>1 DEF Counted
    <3>2. result[w] \in Result /\ stats[result[w]] = 0
      BY <2>1, <2>3 DEF Types
    <3> QED
      BY <1>7, <3>1, <3>2 DEF AddStats, Types
  <2>5. \A r \in Result : stats'[r] = Sum(r)'
    <3>1. ASSUME NEW r \in Result, r # result[w] PROVE stats'[r] = Sum(r)'
      <4>1. stats'[r] = stats[r]
        BY <2>4, <3>1 DEF Types
      <4>2. Sum(r)' = Sum(r)
        BY <2>1, <3>1
      <4> QED
        BY <2>3, <4>1, <4>2
    <3>2. stats'[result[w]] = 1
      BY <2>4 DEF Types
    <3>3. \A v \in Worker : result[v] = result[w] => pc'[v] \notin Counting
      BY <2>1, <2>2
    <3>4. ASSUME NEW r \in Result, r = result[w] PROVE Sum(r)' = 1
      BY <2>1, <2>2, <3>3, <3>4
    <3> QED
      BY <3>1, <3>2, <3>4
  <2>6. \A v \in Worker : v # w => pc[v] # "add"
    BY <2>1 DEF Counted
  <2> QED
    BY <2>1, <2>5, <2>6, WorkerAssumption DEF Counted
<1>8. ASSUME NEW w \in Worker, LockOutput(w) \/ Unlock(w) PROVE Counted'
  BY <1>0, <1>8 DEF LockOutput, Unlock, PrintFrom, Goto, Types
<1>9. ASSUME NEW w \in Worker, WriteSeparator(w) \/ WriteHead(w) \/ WriteTail(w) PROVE Counted'
  BY <1>0, <1>9, WriteFrame
<1>10. ASSUME Return \/ UNCHANGED vars PROVE Counted'
  BY <1>10 DEF Return, vars, statsVars, Counted
<1> QED
  BY <1>1, <1>2, <1>3, <1>4, <1>5, <1>6, <1>7, <1>8, <1>9, <1>10 DEF Next, WorkerStep, Terminated

LEMMA SignalsKept == Types /\ Hands /\ Signals /\ [Next]_vars => Signals'
<1> SUFFICES ASSUME Types, Hands, Signals, [Next]_vars PROVE Signals'
  OBVIOUS
<1> USE DEF Types, Signals, MayEnd, QuitAfterMatch
<1>1. ASSUME NEW w \in Worker, CheckStop(w) \/ Leave(w) \/ StoreStop(w) \/ Answer(w) PROVE Signals'
  BY <1>1 DEF CheckStop, Leave, StoreStop, Answer, Goto, sharedVars, outputVars
<1>2. ASSUME NEW w \in Worker, NEW r \in Result, Take(w, r) PROVE Signals'
  BY <1>2 DEF Take, Goto, sharedVars, outputVars
<1>3. ASSUME NEW w \in Worker, Build(w) \/ Search(w) PROVE Signals'
  BY <1>3 DEF Build, Search, Goto, outputVars
<1>4. ASSUME NEW w \in Worker, StoreMatch(w) PROVE Signals'
  BY <1>4 DEF StoreMatch, Goto, outputVars, Hands, Searched
<1>5. ASSUME NEW w \in Worker, LockStats(w) \/ AddStats(w) PROVE Signals'
  BY <1>5 DEF LockStats, AddStats, Goto, sharedVars, outputVars
<1>6. ASSUME NEW w \in Worker, LockOutput(w) \/ Unlock(w) PROVE Signals'
  <2>1. /\ \A v \in Worker : pc'[v] \in {"quit", "exited"} <=> pc[v] \in {"quit", "exited"}
        /\ \A v \in Worker : pc'[v] = "quit" => pc[v] = "quit"
        /\ \A v \in Worker : pc[v] = "exited" => pc'[v] = "exited"
    BY <1>6 DEF LockOutput, Unlock, PrintFrom, Goto
  <2>2. UNCHANGED <<verdict, cfg, sharedVars, failed, searched, done>>
    BY <1>6 DEF LockOutput, Unlock
  <2> QED
    BY <2>1, <2>2 DEF sharedVars
<1>7. ASSUME NEW w \in Worker, NEW outcome, NEW chunks, NEW next, next # "quit", pc[w] # "exited",
             Write(w, outcome, chunks, next)
      PROVE Signals'
  <2>1. CASE outcome = "ok"
    BY <1>7, <2>1 DEF Write, Goto
  <2>2. CASE outcome # "ok"
    BY <1>7, <2>2 DEF Write, Goto
  <2> QED
    BY <2>1, <2>2
<1>8. ASSUME NEW w \in Worker, WriteSeparator(w) \/ WriteHead(w) \/ WriteTail(w) PROVE Signals'
  BY <1>7, <1>8 DEF WriteSeparator, WriteHead, WriteTail
<1>9. ASSUME Return PROVE Signals'
  <2>1. /\ UNCHANGED <<verdict, cfg, pc, stop, matched, brokenPipe, failed, searched>> /\ done'
        /\ \A w \in Worker : pc[w] = "exited"
        /\ errored' <=> errored \/ (cfg.implicit /\ ~searched)
    BY <1>9 DEF Return
  <2> QED
    BY <2>1
<1>10. ASSUME UNCHANGED vars PROVE Signals'
  BY <1>10 DEF vars
<1> QED
  BY <1>1, <1>2, <1>3, <1>4, <1>5, <1>6, <1>8, <1>9, <1>10 DEF Next, WorkerStep, Terminated

LEMMA BegunKept == Types /\ Begun /\ [Next]_vars => Begun'
<1> SUFFICES ASSUME Types, Begun, [Next]_vars PROVE Begun'
  OBVIOUS
<1> USE DEF Types, Begun, Haystack, Searched
<1>1. ASSUME NEW w \in Worker, \A v \in Worker : v # w => pc'[v] = pc[v],
             pc[w] # "visit", pc'[w] \in {"search", "quit"} \cup Searched => pc[w] \in {"search", "quit"} \cup Searched,
             stop' => stop \/ pc[w] = "quit", UNCHANGED <<verdict, pending, result, searched>>
      PROVE  Begun'
  <2>1. \A r \in Result : (\E v \in Worker : pc[v] = "visit" /\ result[v] = r) => \E v \in Worker : pc'[v] = "visit" /\ result'[v] = r
    BY <1>1
  <2>2. /\ \A v \in Worker : pc'[v] \in {"search", "quit"} \cup Searched => pc[v] \in {"search", "quit"} \cup Searched
        /\ stop' => searched
    BY <1>1
  <2> HIDE DEF Searched
  <2> QED
    BY <1>1, <2>1, <2>2
<1>2. ASSUME NEW w \in Worker, CheckStop(w) \/ Leave(w) \/ StoreStop(w) \/ Answer(w) PROVE Begun'
  <2>1. CASE CheckStop(w)
    BY <1>1, <2>1 DEF CheckStop, Goto, sharedVars
  <2>2. CASE Leave(w)
    BY <1>1, <2>2 DEF Leave, Goto, sharedVars
  <2>3. CASE StoreStop(w)
    BY <1>1, <2>3 DEF StoreStop, Goto, sharedVars
  <2>4. CASE Answer(w)
    BY <1>1, <2>4 DEF Answer, Goto, sharedVars
  <2> QED
    BY <1>2, <2>1, <2>2, <2>3, <2>4
<1>3. ASSUME NEW w \in Worker, NEW r \in Result, Take(w, r) PROVE Begun'
  <2>1. /\ pc[w] = "take" /\ pc'[w] = "visit" /\ result'[w] = r /\ pending' = pending \ {r}
        /\ \A v \in Worker : v # w => pc'[v] = pc[v] /\ result'[v] = result[v]
        /\ UNCHANGED <<verdict, searched, stop>>
    BY <1>3 DEF Take, Goto, sharedVars
  <2>2. \A q \in Result : (\E v \in Worker : pc[v] = "visit" /\ result[v] = q) => \E v \in Worker : pc'[v] = "visit" /\ result'[v] = q
    BY <2>1
  <2> QED
    BY <2>1, <2>2
<1>4. ASSUME NEW w \in Worker, Build(w) PROVE Begun'
  <2>1. /\ pc[w] = "visit" /\ pc'[w] = (IF Haystack(result[w]) THEN "search" ELSE "check")
        /\ searched' = (searched \/ Haystack(result[w]))
        /\ \A v \in Worker : v # w => pc'[v] = pc[v]
        /\ UNCHANGED <<verdict, pending, result, stop>>
    BY <1>4 DEF Build, Goto
  <2>2. CASE Haystack(result[w])
    <3>1. searched' = TRUE
      BY <2>1, <2>2
    <3> QED
      BY <2>1, <2>2, <3>1
  <2>3. CASE ~Haystack(result[w])
    <3>1. searched' = searched /\ pc'[w] = "check"
      BY <2>1, <2>3
    <3>2. \A q \in Result : (Haystack(q) /\ \E v \in Worker : pc[v] = "visit" /\ result[v] = q)
                            => \E v \in Worker : pc'[v] = "visit" /\ result'[v] = q
      BY <2>1, <2>3
    <3> QED
      BY <2>1, <3>1, <3>2
  <2> QED
    BY <2>2, <2>3
<1>5. ASSUME NEW w \in Worker, Search(w) \/ StoreMatch(w) PROVE Begun'
  <2>1. CASE Search(w)
    BY <1>1, <2>1 DEF Search, Goto
  <2>2. CASE StoreMatch(w)
    BY <1>1, <2>2 DEF StoreMatch, Goto
  <2> QED
    BY <1>5, <2>1, <2>2
<1>6. ASSUME NEW w \in Worker, LockStats(w) \/ AddStats(w) PROVE Begun'
  <2>1. CASE LockStats(w)
    BY <1>1, <2>1 DEF LockStats, Goto, sharedVars
  <2>2. CASE AddStats(w)
    BY <1>1, <2>2 DEF AddStats, Goto, sharedVars
  <2> QED
    BY <1>6, <2>1, <2>2
<1>7. ASSUME NEW w \in Worker, LockOutput(w) \/ Unlock(w) PROVE Begun'
  <2>1. CASE LockOutput(w)
    BY <1>1, <2>1 DEF LockOutput, PrintFrom, Goto, sharedVars
  <2>2. CASE Unlock(w)
    BY <1>1, <2>2 DEF Unlock, Goto, sharedVars
  <2> QED
    BY <1>7, <2>1, <2>2
<1>8. ASSUME NEW w \in Worker, WriteSeparator(w) \/ WriteHead(w) \/ WriteTail(w) PROVE Begun'
  BY <1>1, <1>8, WriteFrame
<1>9. ASSUME Return \/ UNCHANGED vars PROVE Begun'
  BY <1>9 DEF Return, vars, sharedVars
<1> QED
  BY <1>2, <1>3, <1>4, <1>5, <1>6, <1>7, <1>8, <1>9 DEF Next, WorkerStep, Terminated

LEMMA LatenessKept == Types /\ Lateness /\ [Next]_vars => Lateness'
<1> SUFFICES ASSUME Types, Lateness, [Next]_vars PROVE Lateness'
  OBVIOUS
<1> USE DEF Types, Lateness, Searched
<1>1. ASSUME NEW w \in Worker, CheckStop(w) \/ Leave(w) \/ StoreStop(w) \/ Answer(w) PROVE Lateness'
  BY <1>1 DEF CheckStop, Leave, StoreStop, Answer, Goto, sharedVars, MayEnd, QuitAfterMatch
<1>2. ASSUME NEW w \in Worker, NEW r \in Result, Take(w, r) PROVE Lateness'
  BY <1>2 DEF Take, Goto, sharedVars, MayEnd, QuitAfterMatch
<1>3. ASSUME NEW w \in Worker, Build(w) PROVE Lateness'
  BY <1>3 DEF Build, Goto, MayEnd, QuitAfterMatch
<1>4. ASSUME NEW w \in Worker, Search(w) PROVE Lateness'
  BY <1>4 DEF Search, Goto, MayEnd, QuitAfterMatch
<1>5. ASSUME NEW w \in Worker, StoreMatch(w) \/ LockStats(w) \/ AddStats(w) PROVE Lateness'
  BY <1>5 DEF StoreMatch, LockStats, AddStats, Goto, sharedVars, MayEnd, QuitAfterMatch
<1>6. ASSUME NEW w \in Worker, LockOutput(w) \/ Unlock(w) PROVE Lateness'
  BY <1>6 DEF LockOutput, Unlock, PrintFrom, Goto, sharedVars, MayEnd, QuitAfterMatch
<1>7. ASSUME NEW w \in Worker, WriteSeparator(w) \/ WriteHead(w) \/ WriteTail(w) PROVE Lateness'
  BY <1>7, WriteFrame
<1>8. ASSUME Return \/ UNCHANGED vars PROVE Lateness'
  BY <1>8 DEF Return, vars, sharedVars, MayEnd, QuitAfterMatch
<1> QED
  BY <1>1, <1>2, <1>3, <1>4, <1>5, <1>6, <1>7, <1>8 DEF Next, WorkerStep, Terminated

\* One chunk more, and what is printed of a result then.
LEMMA Appended ==
    ASSUME out \in Seq(Chunk), NEW c \in Chunk, out' = Append(out, c)
    PROVE  /\ Len(out) \in Nat /\ Len(out') = Len(out) + 1
           /\ \A k \in 1 .. Len(out) : out'[k] = out[k]
           /\ out'[Len(out) + 1] = c
           /\ \A part, r : Has(part, r)' <=> Has(part, r) \/ c = <<part, r>>
<1>1. /\ Len(out) \in Nat /\ Len(out') = Len(out) + 1
      /\ \A k \in 1 .. Len(out) : out'[k] = out[k]
      /\ out'[Len(out) + 1] = c
  OBVIOUS
<1>2. ASSUME NEW part, NEW r PROVE Has(part, r)' <=> Has(part, r) \/ c = <<part, r>>
  <2>1. CASE c = <<part, r>>
    BY <1>1, <2>1 DEF Has
  <2>2. CASE c # <<part, r>>
    <3>1. ASSUME NEW k \in 1 .. Len(out'), out'[k] = <<part, r>> PROVE k \in 1 .. Len(out) /\ out[k] = <<part, r>>
      <4>1. k \in 1 .. Len(out) \/ k = Len(out) + 1
        BY <1>1
      <4> QED
        BY <1>1, <2>2, <3>1, <4>1
    <3>2. \A k \in 1 .. Len(out) : k \in 1 .. Len(out') /\ out'[k] = out[k]
      BY <1>1
    <3> QED
      BY <3>1, <3>2 DEF Has
  <2> QED
    BY <2>1, <2>2
<1> QED
  BY <1>1, <1>2

\* A write puts the next chunk behind the others, or it fails.
Written(w) == IF pc[w] = "separator" THEN <<"separator">> ELSE <<pc[w], result[w]>>
Continues == [separator |-> "head", head |-> "tail", tail |-> "unlock"]
LEMMA WriteEffect ==
    ASSUME Types, Buffers, NEW w \in Worker, WriteSeparator(w) \/ WriteHead(w) \/ WriteTail(w)
    PROVE  \/ /\ out' = Append(out, Written(w)) /\ Written(w) \in Chunk
              /\ pc'[w] = Continues[pc[w]]
              /\ printed' = (printed \/ pc[w] = "tail")
              /\ UNCHANGED <<brokenPipe, errored, failed>>
           \/ /\ failed' = failed \cup {result[w]}
              /\ pc'[w] = "unlock"
              /\ errored => errored'
              /\ UNCHANGED <<out, printed>>
<1>1. PICK outcome : /\ Write(w, outcome, <<Written(w)>>, Continues[pc[w]])
                     /\ printed' = (printed \/ (pc[w] = "tail" /\ outcome = "ok"))
  <2>1. CASE WriteSeparator(w)
    BY <2>1 DEF WriteSeparator, Written, Continues, Types
  <2>2. CASE WriteHead(w)
    <3>1. pc[w] = "head" /\ Written(w) = <<"head", result[w]>> /\ Continues[pc[w]] = "tail"
      BY <2>2 DEF WriteHead, Written, Continues
    <3>2. Blocks(w, "head") = <<Written(w)>>
      BY <3>1, OneBlock
    <3> QED
      BY <2>2, <3>1, <3>2 DEF WriteHead, Types
  <2>3. CASE WriteTail(w)
    <3>1. pc[w] = "tail" /\ Written(w) = <<"tail", result[w]>> /\ Continues[pc[w]] = "unlock"
      BY <2>3 DEF WriteTail, Written, Continues
    <3>2. Blocks(w, "tail") = <<Written(w)>>
      BY <3>1, OneBlock
    <3> QED
      BY <2>3, <3>1, <3>2 DEF WriteTail, Types
  <2> QED
    BY <2>1, <2>2, <2>3
<1>2. Written(w) \in Chunk
  BY WriteFrame DEF Written, Chunk, Types
<1>3. out \o <<Written(w)>> = Append(out, Written(w))
  BY <1>2 DEF Types
<1>4. CASE outcome = "ok"
  BY <1>1, <1>2, <1>3, <1>4 DEF Write, Goto, Types
<1>5. CASE outcome # "ok"
  BY <1>1, <1>5 DEF Write, Goto, Types
<1> QED
  BY <1>4, <1>5

LEMMA SmallSequences ==
    ASSUME NEW S, NEW a \in S, NEW b \in S
    PROVE  /\ <<a>> \o <<b>> = <<a, b>> /\ <<>> \o <<b>> = <<b>>
           /\ <<>> \in Seq(S) /\ <<b>> \in Seq(S) /\ <<a, b>> \in Seq(S)
           /\ Len(<<>>) = 0 /\ Len(<<b>>) = 1 /\ Len(<<a, b>>) = 2
<1>1. <<a>> \o <<b>> = <<a, b>>
  <2> DEFINE one == <<a>>
             s == one \o <<b>>
             t == <<a, b>>
  <2>1. one \in Seq(S) /\ Len(one) = 1 /\ one[1] = a /\ <<b>> \in Seq(S)
    OBVIOUS
  <2>2. t \in Seq(S) /\ Len(t) = 2 /\ t[1] = a /\ t[2] = b
    OBVIOUS
  <2> HIDE DEF one, t
  <2>3. s = Append(one, b)
    BY <2>1, AppendIsConcat
  <2> HIDE DEF s
  <2>4. s \in Seq(S) /\ Len(s) = 2 /\ s[1] = a /\ s[2] = b
    BY <2>1, <2>3, AppendProperties
  <2>5. s = t
    BY <2>2, <2>4, SeqEqual
  <2> QED
    BY <2>5 DEF s, t, one
<1>2. <<>> \o <<b>> = <<b>>
  OBVIOUS
<1>3. <<>> \in Seq(S) /\ <<b>> \in Seq(S) /\ <<a, b>> \in Seq(S)
  OBVIOUS
<1>4. Len(<<>>) = 0 /\ Len(<<b>>) = 1 /\ Len(<<a, b>>) = 2
  OBVIOUS
<1> QED
  BY <1>1, <1>2, <1>3, <1>4

\* What Return prints is neither a head nor a tail.
LEMMA ReturnEffect ==
    ASSUME Types, Return
    PROVE  /\ Len(out) \in Nat /\ Len(out') \in Nat /\ Len(out') >= Len(out)
           /\ \A k \in 1 .. Len(out) : out'[k] = out[k]
           /\ \A k \in 1 .. Len(out') : k > Len(out) =>
                \/ k = Len(out) + 1 /\ printed /\ cfg.separator /\ out'[k] = <<"separator">>
                \/ /\ out'[k] = <<"stats">>
                   /\ IF printed /\ cfg.separator THEN k = Len(out) + 2 /\ out'[k - 1] = <<"separator">> ELSE k = Len(out) + 1
           /\ \A r : Has("head", r)' = Has("head", r) /\ Has("tail", r)' = Has("tail", r)
<1> DEFINE separator == IF printed /\ cfg.separator THEN <<<<"separator">>>> ELSE <<>>
           chunks == IF cfg.stats /\ ~brokenPipe THEN separator \o <<<<"stats">>>> ELSE <<>>
<1>1. PICK n \in 0 .. Len(chunks) : out' = out \o SubSeq(chunks, 1, n)
  BY DEF Return
<1>2. /\ chunks \in Seq(Chunk)
      /\ \A k \in 1 .. Len(chunks) :
            \/ k = 1 /\ printed /\ cfg.separator /\ chunks[k] = <<"separator">>
            \/ /\ chunks[k] = <<"stats">>
               /\ IF printed /\ cfg.separator THEN k = 2 /\ chunks[k - 1] = <<"separator">> ELSE k = 1
  <2>1. <<"separator">> \in Chunk /\ <<"stats">> \in Chunk
    BY DEF Chunk
  <2>2. CASE cfg.stats /\ ~brokenPipe /\ printed /\ cfg.separator
    <3>1. chunks = <<<<"separator">>, <<"stats">>>>
      BY <2>1, <2>2, SmallSequences
    <3> QED
      BY <2>1, <2>2, <3>1, SmallSequences
  <2>3. CASE cfg.stats /\ ~brokenPipe /\ ~(printed /\ cfg.separator)
    <3>1. chunks = <<<<"stats">>>>
      BY <2>1, <2>3, SmallSequences
    <3> QED
      BY <2>1, <2>3, <3>1, SmallSequences
  <2>4. CASE ~(cfg.stats /\ ~brokenPipe)
    BY <2>4
  <2> QED
    BY <2>2, <2>3, <2>4
<1> HIDE DEF chunks
<1> DEFINE s == SubSeq(chunks, 1, n)
<1>3. s \in Seq(Chunk) /\ Len(s) = n /\ \A k \in 1 .. n : s[k] = chunks[k]
  BY <1>2
<1> HIDE DEF s
<1>4. /\ Len(out) \in Nat /\ Len(out') = Len(out) + n /\ n \in Nat
      /\ \A k \in 1 .. Len(out) : out'[k] = out[k]
      /\ \A k \in 1 .. n : out'[Len(out) + k] = chunks[k]
  BY <1>1, <1>3 DEF Types, s
<1>5. \A k \in 1 .. Len(out') : k > Len(out) =>
        k - Len(out) \in 1 .. Len(chunks) /\ out'[k] = chunks[k - Len(out)]
  <2>1. Len(chunks) \in Nat
    BY <1>2
  <2>2. ASSUME NEW k \in 1 .. Len(out'), k > Len(out)
        PROVE  k - Len(out) \in 1 .. n /\ k = Len(out) + (k - Len(out))
    BY <1>4, <2>2
  <2> QED
    BY <1>4, <2>1, <2>2
<1>6. \A k \in 1 .. Len(out') : k > Len(out) =>
        \/ k = Len(out) + 1 /\ printed /\ cfg.separator /\ out'[k] = <<"separator">>
        \/ /\ out'[k] = <<"stats">>
           /\ IF printed /\ cfg.separator THEN k = Len(out) + 2 /\ out'[k - 1] = <<"separator">> ELSE k = Len(out) + 1
  <2> SUFFICES ASSUME NEW k \in 1 .. Len(out'), k > Len(out)
               PROVE  \/ k = Len(out) + 1 /\ printed /\ cfg.separator /\ out'[k] = <<"separator">>
                      \/ /\ out'[k] = <<"stats">>
                         /\ IF printed /\ cfg.separator THEN k = Len(out) + 2 /\ out'[k - 1] = <<"separator">> ELSE k = Len(out) + 1
    OBVIOUS
  <2>1. CASE chunks[k - Len(out)] = <<"stats">> /\ printed /\ cfg.separator /\ k - Len(out) = 2
    <3>1. k - 1 \in 1 .. Len(out') /\ k - 1 > Len(out) /\ (k - 1) - Len(out) = 1
      BY <1>4, <2>1
    <3> QED
      BY <1>2, <1>4, <1>5, <2>1, <3>1
  <2>2. CASE ~(chunks[k - Len(out)] = <<"stats">> /\ printed /\ cfg.separator /\ k - Len(out) = 2)
    BY SMTT(30), <1>2, <1>4, <1>5, <2>2
  <2> QED
    BY <2>1, <2>2
<1>7. \A r : \A part \in {"head", "tail"} : Has(part, r)' = Has(part, r)
  <2>1. \A k \in 1 .. Len(out') : k > Len(out) => out'[k][1] \notin {"head", "tail"}
    BY <1>6
  <2>2. ASSUME NEW r, NEW part \in {"head", "tail"} PROVE Has(part, r)' <=> Has(part, r)
    <3>1. ASSUME NEW k \in 1 .. Len(out'), out'[k] = <<part, r>> PROVE k \in 1 .. Len(out) /\ out[k] = <<part, r>>
      <4>1. out'[k][1] = part
        BY <3>1
      <4> QED
        BY <1>4, <2>1, <3>1, <4>1
    <3>2. \A k \in 1 .. Len(out) : k \in 1 .. Len(out') /\ out'[k] = out[k]
      BY <1>4
    <3> QED
      BY <3>1, <3>2 DEF Has
  <2> QED
    BY <2>2 DEF Has
<1> QED
  BY <1>4, <1>6, <1>7

LEMMA PrintedKept == Types /\ Hands /\ Buffers /\ Printed /\ [Next]_vars => Printed'
<1> SUFFICES ASSUME Types, Hands, Buffers, Printed, [Next]_vars PROVE Printed'
  OBVIOUS
\* A step that prints nothing.
<1>0. ASSUME NEW w \in Worker, \A v \in Worker : v # w => pc'[v] = pc[v] /\ result'[v] = result[v],
             UNCHANGED <<verdict, cfg, out, failed>>, completed \subseteq completed',
             \/ pc'[w] \notin Unprinted \cup {"tail"}
             \/ pc[w] \in Unprinted /\ pc'[w] \in Unprinted /\ result'[w] = result[w]
             \/ pc[w] = "search" /\ result'[w] = result[w]
      PROVE  Printed'
  <2>1. \A part, r : Has(part, r)' <=> Has(part, r)
    BY <1>0 DEF Has
  <2>2. \A r \in Result : Due(r)' <=> Due(r)
    BY <1>0 DEF Due
  <2>3. ASSUME NEW v \in Worker, pc'[v] \in Unprinted \cup {"tail"}
        PROVE  /\ pc'[v] \in Unprinted => ~Has("head", result'[v])
               /\ ~Has("tail", result'[v]) /\ result'[v] \notin failed
    <3>1. CASE v = w /\ pc[w] = "search"
      <4>1. result'[v] \in Result /\ result'[v] \notin completed
        BY <1>0, <2>3, <3>1 DEF Hands, Types, Unprinted
      <4> QED
        BY <4>1 DEF Printed, Types
    <3>2. CASE ~(v = w /\ pc[w] = "search")
      <4>1. result'[v] = result[v] /\ pc[v] \in Unprinted \cup {"tail"} /\ (pc'[v] \in Unprinted => pc[v] \in Unprinted)
        BY <1>0, <2>3, <3>2
      <4> QED
        BY <4>1 DEF Printed
    <3> QED
      BY <3>1, <3>2
  <2>4. \A r \in Result : /\ Has("head", r)' => r \in completed' /\ Due(r)'
                          /\ Has("tail", r)' => r \in completed' /\ r \notin failed' /\ Due(r)'
    BY <1>0, <2>1, <2>2 DEF Printed
  <2>5. \A v \in Worker : /\ pc'[v] \in Unprinted => ~Has("head", result[v])'
                          /\ pc'[v] \in Unprinted \cup {"tail"} => ~Has("tail", result[v])' /\ result'[v] \notin failed'
    BY <1>0, <2>1, <2>3
  <2>6. \A j, k \in 1 .. Len(out') : (out'[j] = out'[k] /\ out'[j][1] \in {"head", "tail"}) => j = k
    BY <1>0 DEF Printed
  <2> QED
    BY <2>4, <2>5, <2>6 DEF Printed
<1>1. ASSUME NEW w \in Worker, CheckStop(w) \/ Leave(w) \/ StoreStop(w) \/ Answer(w) PROVE Printed'
  BY <1>0, <1>1 DEF CheckStop, Leave, StoreStop, Answer, Goto, outputVars, Types, Unprinted
<1>2. ASSUME NEW w \in Worker, NEW r \in Result, Take(w, r) PROVE Printed'
  BY <1>0, <1>2 DEF Take, Goto, outputVars, Types, Unprinted
<1>3. ASSUME NEW w \in Worker, Build(w) PROVE Printed'
  BY <1>0, <1>3 DEF Build, Goto, outputVars, Types, Unprinted
<1>4. ASSUME NEW w \in Worker, Search(w) PROVE Printed'
  BY <1>0, <1>4 DEF Search, Goto, outputVars, Types, Unprinted
<1>5. ASSUME NEW w \in Worker, StoreMatch(w) \/ LockStats(w) \/ AddStats(w) PROVE Printed'
  BY <1>0, <1>5 DEF StoreMatch, LockStats, AddStats, Goto, outputVars, Types, Unprinted
<1>6. ASSUME NEW w \in Worker, LockOutput(w) \/ Unlock(w) PROVE Printed'
  BY <1>0, <1>6 DEF LockOutput, Unlock, PrintFrom, Goto, Types, Unprinted
<1>7. ASSUME NEW w \in Worker, WriteSeparator(w) \/ WriteHead(w) \/ WriteTail(w) PROVE Printed'
  <2> DEFINE r == result[w]
             c == Written(w)
  <2>1. /\ \A v \in Worker : v # w => pc'[v] = pc[v]
        /\ UNCHANGED <<verdict, cfg, result, completed>>
        /\ pc[w] \in {"separator", "head", "tail"}
    BY <1>7, WriteFrame
  <2>2. r \in Result /\ r \in completed /\ Due(r)
    BY <2>1 DEF Types, Hands, Buffers, Searched, Output, Due
  <2>3. \A v \in Worker : v # w /\ pc[v] \in Unprinted \cup {"tail"} => result[v] # r
    BY <2>1 DEF Hands, InHand, Searched, Unprinted
  <2>4. \A q \in Result : Due(q)' <=> Due(q)
    BY <2>1 DEF Due
  <2>5. CASE /\ out' = Append(out, c) /\ c \in Chunk
             /\ pc'[w] = Continues[pc[w]] /\ UNCHANGED failed
    <3>0. /\ Len(out) \in Nat /\ Len(out') = Len(out) + 1
          /\ \A k \in 1 .. Len(out) : out'[k] = out[k]
          /\ out'[Len(out) + 1] = c
          /\ \A part, q : Has(part, q)' <=> Has(part, q) \/ c = <<part, q>>
      BY <2>5, Appended DEF Types
    <3>1. \A part, q : c = <<part, q>> => part = pc[w] /\ q = r /\ pc[w] \in {"head", "tail"}
      BY <2>1 DEF Written
    <3>2. pc[w] = "tail" => r \notin failed
      BY DEF Printed
    <3>3. \A q \in Result : /\ Has("head", q)' => q \in completed' /\ Due(q)'
                            /\ Has("tail", q)' => q \in completed' /\ q \notin failed' /\ Due(q)'
      BY <2>1, <2>2, <2>4, <2>5, <3>0, <3>1, <3>2 DEF Printed
    <3>4. \A v \in Worker : /\ pc'[v] \in Unprinted => ~Has("head", result[v])'
                            /\ pc'[v] \in Unprinted \cup {"tail"} => ~Has("tail", result[v])' /\ result'[v] \notin failed'
      <4>1. ASSUME NEW v \in Worker, v # w
            PROVE  /\ pc'[v] \in Unprinted => ~Has("head", result[v])'
                   /\ pc'[v] \in Unprinted \cup {"tail"} => ~Has("tail", result[v])' /\ result'[v] \notin failed'
        BY <2>1, <2>3, <2>5, <3>0, <3>1, <4>1 DEF Printed
      <4>2. /\ pc'[w] \in Unprinted => pc[w] = "separator"
            /\ pc'[w] \in Unprinted \cup {"tail"} => pc[w] \in Unprinted
        BY <2>1, <2>5 DEF Continues, Unprinted
      <4>3. /\ pc'[w] \in Unprinted => ~Has("head", result[w])'
            /\ pc'[w] \in Unprinted \cup {"tail"} => ~Has("tail", result[w])' /\ result'[w] \notin failed'
        BY <2>1, <2>5, <3>0, <3>1, <4>2 DEF Printed, Unprinted
      <4> QED
        BY <4>1, <4>3
    <3>5. ASSUME NEW k \in 1 .. Len(out), out[k] = c, c[1] \in {"head", "tail"} PROVE FALSE
      <4>1. c = <<pc[w], r>> /\ pc[w] \in {"head", "tail"}
        BY <2>1, <3>5 DEF Written
      <4>2. Has(pc[w], r)
        BY <3>5, <4>1 DEF Has
      <4> QED
        BY <4>1, <4>2 DEF Printed, Unprinted
    <3>6. ASSUME NEW j \in 1 .. Len(out'), NEW k \in 1 .. Len(out'), out'[j] = out'[k], out'[j][1] \in {"head", "tail"}
          PROVE  j = k
      <4>1. (j \in 1 .. Len(out) \/ j = Len(out) + 1) /\ (k \in 1 .. Len(out) \/ k = Len(out) + 1)
        BY <3>0
      <4>2. CASE j \in 1 .. Len(out) /\ k \in 1 .. Len(out)
        BY <3>0, <3>6, <4>2 DEF Printed
      <4>3. CASE j = Len(out) + 1 /\ k \in 1 .. Len(out)
        BY <3>0, <3>5, <3>6, <4>3
      <4>4. CASE j \in 1 .. Len(out) /\ k = Len(out) + 1
        BY <3>0, <3>5, <3>6, <4>4
      <4> QED
        BY <4>1, <4>2, <4>3, <4>4
    <3> QED
      BY <3>3, <3>4, <3>6 DEF Printed
  <2>6. CASE failed' = failed \cup {r} /\ pc'[w] = "unlock" /\ UNCHANGED <<out, printed>>
    <3>1. \A part, q : Has(part, q)' <=> Has(part, q)
      BY <2>6 DEF Has
    <3>2. ~Has("tail", r)
      BY <2>1 DEF Printed, Unprinted
    <3>3. \A q \in Result : /\ Has("head", q)' => q \in completed' /\ Due(q)'
                            /\ Has("tail", q)' => q \in completed' /\ q \notin failed' /\ Due(q)'
      BY <2>1, <2>4, <2>6, <3>1, <3>2 DEF Printed
    <3>4. ASSUME NEW v \in Worker
          PROVE  /\ pc'[v] \in Unprinted => ~Has("head", result[v])'
                 /\ pc'[v] \in Unprinted \cup {"tail"} => ~Has("tail", result[v])' /\ result'[v] \notin failed'
      BY <2>1, <2>3, <2>6, <3>1 DEF Printed, Unprinted
    <3>5. \A j, k \in 1 .. Len(out') : (out'[j] = out'[k] /\ out'[j][1] \in {"head", "tail"}) => j = k
      BY <2>6 DEF Printed
    <3> QED
      BY <3>3, <3>4, <3>5 DEF Printed
  <2> QED
    BY <1>7, <2>5, <2>6, WriteEffect
<1>8. ASSUME Return PROVE Printed'
  <2>1. UNCHANGED <<verdict, cfg, pc, result, completed, failed>>
    BY <1>8 DEF Return
  <2>2. \A r \in Result : Due(r)' <=> Due(r)
    BY <2>1 DEF Due
  <2>3. ASSUME NEW j \in 1 .. Len(out'), out'[j][1] \in {"head", "tail"} PROVE j \in 1 .. Len(out) /\ out'[j] = out[j]
    <3>1. CASE j > Len(out)
      BY <1>8, <2>3, <3>1, ReturnEffect
    <3>2. CASE ~(j > Len(out))
      BY <1>8, <3>2, ReturnEffect
    <3> QED
      BY <3>1, <3>2
  <2>4. \A j, k \in 1 .. Len(out') : (out'[j] = out'[k] /\ out'[j][1] \in {"head", "tail"}) => j = k
    BY <2>3 DEF Printed
  <2>5. \A r : Has("head", r)' = Has("head", r) /\ Has("tail", r)' = Has("tail", r)
    BY <1>8, ReturnEffect
  <2> QED
    BY <2>1, <2>2, <2>4, <2>5 DEF Printed
<1>9. ASSUME UNCHANGED vars PROVE Printed'
  BY <1>9 DEF vars, Printed, Has, Due
<1> QED
  BY <1>1, <1>2, <1>3, <1>4, <1>5, <1>6, <1>7, <1>8, <1>9 DEF Next, WorkerStep, Terminated

\* The writer: between two blocks, or in the hands of the one who prints.
LEMMA WholeKept ==
    Types /\ Buffers /\ Holder /\ Whole /\ BlocksWhole /\ Signals /\ [Next]_vars => Whole' /\ BlocksWhole'
<1> SUFFICES ASSUME Types, Buffers, Holder, Whole, BlocksWhole, Signals, [Next]_vars PROVE Whole' /\ BlocksWhole'
  OBVIOUS
\* A step that neither prints nor takes the lock.
<1>0. ASSUME NEW w \in Worker, \A v \in Worker : v # w => pc'[v] = pc[v] /\ result'[v] = result[v],
             pc[w] \notin {"separator", "head", "tail"}, pc'[w] \notin {"separator", "head", "tail"},
             UNCHANGED <<cfg, out, printed, failed, done>>
      PROVE  Whole' /\ BlocksWhole'
  <2>1. BlocksWhole'
    BY <1>0 DEF BlocksWhole
  <2>2. Between' = Between /\ EndsWith("separator")' = EndsWith("separator")
    BY <1>0 DEF Between, EndsWith
  <2>3. (\A v \in Worker : pc[v] \notin {"head", "tail"}) <=> \A v \in Worker : pc'[v] \notin {"head", "tail"}
    BY <1>0
  <2>4. Whole'
    BY <1>0, <2>2, <2>3 DEF Whole
  <2> QED
    BY <2>1, <2>4
<1>1. ASSUME NEW w \in Worker, CheckStop(w) \/ Leave(w) \/ StoreStop(w) \/ Answer(w) PROVE Whole' /\ BlocksWhole'
  BY <1>0, <1>1 DEF CheckStop, Leave, StoreStop, Answer, Goto, outputVars, Types
<1>2. ASSUME NEW w \in Worker, NEW r \in Result, Take(w, r) PROVE Whole' /\ BlocksWhole'
  BY <1>0, <1>2 DEF Take, Goto, outputVars, Types
<1>3. ASSUME NEW w \in Worker, Build(w) \/ Search(w) PROVE Whole' /\ BlocksWhole'
  BY <1>0, <1>3 DEF Build, Search, Goto, outputVars, Types
<1>4. ASSUME NEW w \in Worker, StoreMatch(w) \/ LockStats(w) \/ AddStats(w) PROVE Whole' /\ BlocksWhole'
  BY <1>0, <1>4 DEF StoreMatch, LockStats, AddStats, Goto, outputVars, Types
<1>5. ASSUME NEW w \in Worker, Unlock(w) PROVE Whole' /\ BlocksWhole'
  BY <1>0, <1>5 DEF Unlock, Goto, Types
<1>6. ASSUME NEW w \in Worker, LockOutput(w) PROVE Whole' /\ BlocksWhole'
  <2>1. /\ pc'[w] \in {"unlock", "separator", "head"} /\ \A v \in Worker : v # w => pc'[v] = pc[v]
        /\ pc'[w] = "separator" => printed /\ cfg.separator
        /\ pc'[w] = "head" => ~(printed /\ cfg.separator)
        /\ UNCHANGED <<cfg, out, printed, failed, done>>
        /\ outputLock = NoWorker
    BY <1>6 DEF LockOutput, PrintFrom, Goto, Types
  <2>2. \A v \in Worker : pc[v] \notin {"separator", "head", "tail"}
    BY <2>1, WorkerAssumption DEF Holder, Printing
  <2>3. BlocksWhole'
    BY <2>1 DEF BlocksWhole
  <2>4. failed = {} /\ ~done => Between /\ Between'
    BY <2>1, <2>2 DEF Whole, Between, EndsWith
  <2>5. Whole'
    BY <2>1, <2>2, <2>4 DEF Whole
  <2> QED
    BY <2>3, <2>5
<1>7. ASSUME NEW w \in Worker, WriteSeparator(w) \/ WriteHead(w) \/ WriteTail(w) PROVE Whole' /\ BlocksWhole'
  <2> DEFINE r == result[w]
             c == Written(w)
  <2>1. /\ \A v \in Worker : v # w => pc'[v] = pc[v]
        /\ UNCHANGED <<cfg, result, done>>
        /\ pc[w] \in {"separator", "head", "tail"}
    BY <1>7, WriteFrame
  <2>2. \A v \in Worker : v # w => pc[v] \notin {"separator", "head", "tail"}
    BY <2>1 DEF Holder, Printing
  <2>3. ~done
    BY <2>1 DEF Signals
  <2>4. CASE failed' # {}
    BY <2>4 DEF Whole, BlocksWhole
  <2>5. CASE /\ out' = Append(out, c) /\ c \in Chunk
             /\ pc'[w] = Continues[pc[w]] /\ printed' = (printed \/ pc[w] = "tail") /\ UNCHANGED failed /\ failed = {}
    <3>0. /\ Len(out) \in Nat /\ Len(out') = Len(out) + 1
          /\ \A k \in 1 .. Len(out) : out'[k] = out[k]
          /\ out'[Len(out) + 1] = c
      BY <2>5, Appended DEF Types
    <3>1. out # <<>> <=> Len(out) > 0
      BY <3>0 DEF Types
    <3>2. out' # <<>> /\ out'[Len(out')] = c
      <4>1. out \in Seq(Chunk)
        BY DEF Types
      <4>2. out' # <<>>
        BY <2>5, <4>1, AppendProperties
      <4> QED
        BY <3>0, <4>2
    \* How the chunk fits to what was there.
    <3>3. /\ c[1] # "stats"
          /\ c[1] = "separator" => out # <<>> /\ out[Len(out)][1] = "tail"
          /\ c[1] = "head" /\ out # <<>> => out[Len(out)][1] = IF cfg.separator THEN "separator" ELSE "tail"
          /\ c[1] = "tail" => out # <<>> /\ out[Len(out)] = <<"head", c[2]>>
          /\ out # <<>> /\ out[Len(out)][1] = "head" => c = <<"tail", out[Len(out)][2]>>
      <4>1. CASE pc[w] = "separator"
        <5>1. c[1] = "separator"
          BY <4>1 DEF Written
        <5>2. printed /\ Between
          BY <2>2, <2>3, <2>5, <4>1 DEF Whole
        <5> QED
          BY <5>1, <5>2 DEF Between, EndsWith
      <4>2. CASE pc[w] = "head"
        <5>1. c[1] = "head"
          BY <4>2 DEF Written
        <5>2. IF printed /\ cfg.separator THEN EndsWith("separator") ELSE Between
          BY <2>3, <2>5, <4>2 DEF Whole
        <5> QED
          BY <5>1, <5>2 DEF Between, EndsWith
      <4>3. CASE pc[w] = "tail"
        <5>1. c = <<"tail", r>> /\ c[1] = "tail" /\ c[2] = r
          BY <4>3 DEF Written
        <5>2. out # <<>> /\ out[Len(out)] = <<"head", r>>
          BY <2>3, <2>5, <4>3 DEF Whole
        <5>3. out[Len(out)][2] = r
          BY <5>2
        <5> QED
          BY <5>1, <5>2, <5>3
      <4> QED
        BY <2>1, <4>1, <4>2, <4>3
    <3>4. BlocksWhole'
      <4> SUFFICES ASSUME NEW k \in 1 .. Len(out')
                   PROVE  /\ out'[k][1] = "head" /\ k < Len(out') => out'[k + 1] = <<"tail", out'[k][2]>>
                          /\ out'[k][1] = "tail" => k > 1 /\ out'[k - 1] = <<"head", out'[k][2]>>
                          /\ out'[k][1] = "separator" => k > 1 /\ out'[k - 1][1] = "tail"
                          /\ out'[k][1] \in {"head", "stats"} /\ k > 1 =>
                                out'[k - 1][1] = IF cfg'.separator THEN "separator" ELSE "tail"
        BY DEF BlocksWhole
      <4>1. CASE k = Len(out) + 1
        <5>1. k > 1 => out # <<>> /\ k - 1 = Len(out) /\ out'[k - 1] = out[Len(out)]
          BY <3>0, <3>1, <4>1
        <5>2. out # <<>> => k > 1
          BY <3>0, <3>1, <4>1
        <5> QED
          BY <2>1, <3>0, <3>3, <4>1, <5>1, <5>2
      <4>2. CASE k = Len(out)
        <5>1. out'[k] = out[k] /\ out'[k + 1] = c /\ out # <<>> /\ (k > 1 => out'[k - 1] = out[k - 1])
          BY <3>0, <3>1, <4>2
        <5>2. k \in 1 .. Len(out)
          BY <3>0, <4>2
        <5> QED
          BY <2>1, <2>5, <3>3, <4>2, <5>1, <5>2 DEF BlocksWhole
      <4>3. CASE k < Len(out)
        <5>1. out'[k] = out[k] /\ out'[k + 1] = out[k + 1] /\ (k > 1 => out'[k - 1] = out[k - 1])
          BY <3>0, <4>3
        <5>2. k \in 1 .. Len(out)
          BY <3>0, <4>3
        <5> QED
          BY <2>1, <2>5, <4>3, <5>1, <5>2 DEF BlocksWhole
      <4> QED
        BY <3>0, <4>1, <4>2, <4>3
    <3>5. Whole'
      <4>1. \A v \in Worker : v # w => pc'[v] \notin {"separator", "head", "tail"}
        BY <2>1, <2>2
      <4>2. CASE pc[w] = "separator"
        <5>1. c[1] = "separator" /\ pc'[w] = "head" /\ printed' = printed
          BY <2>5, <4>2 DEF Written, Continues, Types
        <5>2. printed /\ cfg.separator
          BY <2>3, <2>5, <4>2 DEF Whole
        <5>3. EndsWith("separator")'
          BY <3>2, <5>1 DEF EndsWith
        <5> QED
          BY <2>1, <4>1, <5>1, <5>2, <5>3 DEF Whole
      <4>3. CASE pc[w] = "head"
        <5>1. c = <<"head", r>> /\ pc'[w] = "tail"
          BY <2>5, <4>3 DEF Written, Continues, Types
        <5> QED
          BY <2>1, <3>2, <4>1, <5>1 DEF Whole
      <4>4. CASE pc[w] = "tail"
        <5>1. c[1] = "tail" /\ pc'[w] = "unlock"
          BY <2>5, <4>4 DEF Written, Continues
        <5>2. Between'
          BY <2>5, <3>2, <4>4, <5>1 DEF Between, EndsWith
        <5> QED
          BY <4>1, <5>1, <5>2 DEF Whole
      <4> QED
        BY <2>1, <4>2, <4>3, <4>4
    <3> QED
      BY <3>4, <3>5
  <2> QED
    BY <1>7, <2>4, <2>5, WriteEffect
<1>8. ASSUME Return PROVE Whole' /\ BlocksWhole'
  <2>1. /\ UNCHANGED <<cfg, printed, failed>> /\ done' /\ ~done /\ \A v \in Worker : pc[v] = "exited"
    BY <1>8 DEF Return
  <2>2. Whole'
    BY <2>1 DEF Whole
  <2>3. /\ Len(out) \in Nat /\ Len(out') \in Nat /\ Len(out') >= Len(out)
        /\ \A k \in 1 .. Len(out) : out'[k] = out[k]
        /\ \A k \in 1 .. Len(out') : k > Len(out) =>
            \/ k = Len(out) + 1 /\ printed /\ cfg.separator /\ out'[k] = <<"separator">>
            \/ /\ out'[k] = <<"stats">>
               /\ IF printed /\ cfg.separator THEN k = Len(out) + 2 /\ out'[k - 1] = <<"separator">> ELSE k = Len(out) + 1
    BY <1>8, ReturnEffect
  <2>4. ASSUME failed = {}
        PROVE  IF printed THEN Len(out) > 0 /\ out[Len(out)][1] = "tail" ELSE Len(out) = 0
    BY <2>1, <2>3, <2>4 DEF Whole, Between, EndsWith, Types
  <2>5. BlocksWhole'
    <3> SUFFICES ASSUME failed = {}, NEW k \in 1 .. Len(out')
                 PROVE  /\ out'[k][1] = "head" /\ k < Len(out') => out'[k + 1] = <<"tail", out'[k][2]>>
                        /\ out'[k][1] = "tail" => k > 1 /\ out'[k - 1] = <<"head", out'[k][2]>>
                        /\ out'[k][1] = "separator" => k > 1 /\ out'[k - 1][1] = "tail"
                        /\ out'[k][1] \in {"head", "stats"} /\ k > 1 =>
                                out'[k - 1][1] = IF cfg'.separator THEN "separator" ELSE "tail"
      BY <2>1 DEF BlocksWhole
    <3>1. CASE k < Len(out)
      <4>1. out'[k] = out[k] /\ out'[k + 1] = out[k + 1] /\ (k > 1 => out'[k - 1] = out[k - 1]) /\ k \in 1 .. Len(out)
        BY <2>3, <3>1
      <4> QED
        BY <2>1, <3>1, <4>1 DEF BlocksWhole
    <3>2. CASE k = Len(out)
      <4>1. out'[k] = out[k] /\ (k > 1 => out'[k - 1] = out[k - 1]) /\ k \in 1 .. Len(out) /\ out[k][1] = "tail"
        BY <2>3, <2>4, <3>2
      <4> QED
        BY <2>1, <3>2, <4>1 DEF BlocksWhole
    <3>3. CASE k > Len(out) /\ out'[k] = <<"separator">>
      <4>1. out'[k][1] = "separator" /\ k = Len(out) + 1 /\ printed
        BY <2>3, <3>3
      <4> QED
        BY <2>3, <2>4, <4>1
    <3>4. CASE k > Len(out) /\ out'[k] # <<"separator">>
      <4>1. /\ out'[k][1] = "stats"
            /\ IF printed /\ cfg.separator THEN k = Len(out) + 2 /\ out'[k - 1] = <<"separator">> ELSE k = Len(out) + 1
        BY <2>3, <3>4
      <4>2. CASE printed /\ cfg.separator
        BY <2>1, <4>1, <4>2
      <4>3. CASE ~(printed /\ cfg.separator)
        BY <2>1, <2>3, <2>4, <4>1, <4>3
      <4> QED
        BY <4>2, <4>3
    <3> QED
      BY <2>3, <3>1, <3>2, <3>3, <3>4
  <2> QED
    BY <2>2, <2>5
<1>9. ASSUME UNCHANGED vars PROVE Whole' /\ BlocksWhole'
  BY <1>9 DEF vars, Whole, BlocksWhole, Between, EndsWith
<1> QED
  BY <1>1, <1>2, <1>3, <1>4, <1>5, <1>6, <1>7, <1>8, <1>9 DEF Next, WorkerStep, Terminated

\* No result is forgotten.
LEMMA HandledKept == Types /\ Hands /\ Buffers /\ Handled /\ [Next]_vars => Handled'
<1> SUFFICES ASSUME Types, Hands, Buffers, Handled, [Next]_vars PROVE Handled'
  OBVIOUS
<1> DEFINE Owned(r) == \E w \in Worker : pc[w] \in InHand /\ result[w] = r
           Answered(v) ==
              /\ (pc[v] \in Searched \ {"match"} /\ verdict[result[v]].hit) => matched
              /\ (pc[v] \in {"unlock", "answer"} /\ Due(result[v]) /\ result[v] \notin failed) => Has("tail", result[v])
              /\ (pc[v] = "exited" /\ ~stop) => pending = {}
\* A worker moves on, and the flags, what was searched and printed, and what
\* failed only grow: the others are as they were.
<1>0. ASSUME NEW w \in Worker, \A v \in Worker : v # w => pc'[v] = pc[v] /\ result'[v] = result[v],
             UNCHANGED <<verdict, cfg>>, pending' \subseteq pending, completed \subseteq completed', failed \subseteq failed',
             matched => matched', errored => errored', stop => stop',
             \A r \in Result : Has("tail", r) => Has("tail", r)',
             \A r \in Result : r \in pending \ pending' => Owned(r)',
             \A r \in Result : (/\ pc[w] \in InHand /\ r = result[w]
                               /\ ~(pc'[w] \in InHand /\ result'[w] = result[w])) => Settled(r)',
             Answered(w)'
      PROVE  Handled'
  <2>1. \A r \in Result : Due(r)' <=> Due(r)
    BY <1>0 DEF Due
  <2>2. ASSUME NEW r \in Result PROVE r \in pending' \/ Owned(r)' \/ Settled(r)'
    <3>1. CASE r \in pending
      BY <1>0, <3>1
    <3>2. CASE Settled(r)
      BY <1>0, <2>1, <3>2 DEF Settled
    <3>3. CASE Owned(r)
      <4>1. PICK v \in Worker : pc[v] \in InHand /\ result[v] = r
        BY <3>3
      <4>2. CASE v # w
        BY <1>0, <4>1, <4>2
      <4>3. CASE v = w /\ pc'[w] \in InHand /\ result'[w] = result[w]
        BY <4>1, <4>3
      <4>4. CASE v = w /\ ~(pc'[w] \in InHand /\ result'[w] = result[w])
        BY <1>0, <4>1, <4>4
      <4> QED
        BY <4>2, <4>3, <4>4
    <3> QED
      BY <3>1, <3>2, <3>3 DEF Handled
  <2>3. ASSUME NEW v \in Worker, v # w PROVE Answered(v)'
    <3>1. result[v] \in Result /\ pc'[v] = pc[v] /\ result'[v] = result[v]
      BY <1>0, <2>3 DEF Types
    <3> QED
      BY <1>0, <2>1, <2>3, <3>1 DEF Handled
  <2>4. \A v \in Worker : Answered(v)'
    BY <1>0, <2>3
  <2> QED
    BY <2>2, <2>4 DEF Handled
<1>1. ASSUME NEW w \in Worker, CheckStop(w) \/ Leave(w) \/ StoreStop(w) PROVE Handled'
  <2>1. /\ \A v \in Worker : v # w => pc'[v] = pc[v]
        /\ UNCHANGED <<verdict, cfg, pending, result, completed, failed, matched, errored, out>>
        /\ stop => stop'
        /\ pc[w] \in {"check", "take", "quit"} /\ pc'[w] \in {"take", "exited"}
        /\ pc'[w] = "exited" => pending = {} \/ stop'
    BY <1>1 DEF CheckStop, Leave, StoreStop, Goto, Types, sharedVars, outputVars
  <2>2. \A r : Has("tail", r)' <=> Has("tail", r)
    BY <2>1 DEF Has
  <2> QED
    BY <1>0, <2>1, <2>2 DEF InHand, Searched
<1>2. ASSUME NEW w \in Worker, Answer(w) PROVE Handled'
  <2>1. /\ \A v \in Worker : v # w => pc'[v] = pc[v]
        /\ UNCHANGED <<verdict, cfg, pending, result, completed, failed, matched, errored, stop, out>>
        /\ pc[w] = "answer" /\ pc'[w] \in {"check", "quit"}
    BY <1>2 DEF Answer, Goto, Types, sharedVars, outputVars
  <2>2. \A r : Has("tail", r)' <=> Has("tail", r)
    BY <2>1 DEF Has
  <2>3. /\ result[w] \in completed /\ verdict[result[w]].kind = "searched"
        /\ verdict[result[w]].hit => matched
        /\ Due(result[w]) /\ result[w] \notin failed => Has("tail", result[w])
    BY <2>1 DEF Hands, Searched, Handled
  <2>4. \A r \in Result : r = result[w] => Settled(r)'
    BY <2>1, <2>2, <2>3 DEF Settled, Due
  <2> QED
    BY <1>0, <2>1, <2>2, <2>4 DEF InHand, Searched
<1>3. ASSUME NEW w \in Worker, NEW r \in Result, Take(w, r) PROVE Handled'
  <2>1. /\ \A v \in Worker : v # w => pc'[v] = pc[v] /\ result'[v] = result[v]
        /\ UNCHANGED <<verdict, cfg, completed, failed, matched, errored, stop, out>>
        /\ pc[w] = "take" /\ pc'[w] = "visit" /\ result'[w] = r /\ pending' = pending \ {r}
    BY <1>3 DEF Take, Goto, Types, sharedVars, outputVars
  <2>2. \A q : Has("tail", q)' <=> Has("tail", q)
    BY <2>1 DEF Has
  <2>3. Owned(r)'
    BY <2>1 DEF InHand
  <2> QED
    BY <1>0, <2>1, <2>2, <2>3 DEF InHand, Searched
<1>4. ASSUME NEW w \in Worker, Build(w) PROVE Handled'
  <2>1. /\ \A v \in Worker : v # w => pc'[v] = pc[v]
        /\ UNCHANGED <<verdict, cfg, pending, result, completed, failed, matched, stop, out>>
        /\ pc[w] = "visit" /\ errored' = (errored \/ verdict[result[w]].kind = "error")
        /\ pc'[w] = IF verdict[result[w]].kind \in {"fails", "searched"} THEN "search" ELSE "check"
    BY <1>4 DEF Build, Goto, Types, outputVars
  <2>2. \A r : Has("tail", r)' <=> Has("tail", r)
    BY <2>1 DEF Has
  <2>3. \A r \in Result : r = result[w] /\ pc'[w] # "search" => Settled(r)'
    BY <2>1 DEF Settled, Due
  <2> QED
    BY <1>0, <2>1, <2>2, <2>3 DEF InHand, Searched
<1>5. ASSUME NEW w \in Worker, Search(w) PROVE Handled'
  <2>1. /\ \A v \in Worker : v # w => pc'[v] = pc[v]
        /\ UNCHANGED <<verdict, cfg, pending, result, failed, matched, stop, out>>
        /\ pc[w] = "search" /\ errored' = (errored \/ verdict[result[w]].kind = "fails")
        /\ pc'[w] = IF verdict[result[w]].kind = "fails" THEN "check" ELSE "match"
        /\ completed \subseteq completed'
    BY <1>5 DEF Search, Goto, Types, outputVars
  <2>2. \A r : Has("tail", r)' <=> Has("tail", r)
    BY <2>1 DEF Has
  <2>3. \A r \in Result : r = result[w] /\ pc'[w] # "match" => Settled(r)'
    BY <2>1 DEF Settled, Due
  <2> QED
    BY <1>0, <2>1, <2>2, <2>3 DEF InHand, Searched
<1>6. ASSUME NEW w \in Worker, StoreMatch(w) \/ LockStats(w) \/ AddStats(w) PROVE Handled'
  <2>1. /\ \A v \in Worker : v # w => pc'[v] = pc[v]
        /\ UNCHANGED <<verdict, cfg, pending, result, completed, failed, errored, stop, out>>
        /\ pc[w] \in {"match", "stats", "add"} /\ pc'[w] \in {"stats", "add", "output"}
        /\ matched => matched'
        /\ pc[w] = "match" => matched' = (matched \/ verdict[result[w]].hit)
    BY <1>6 DEF StoreMatch, LockStats, AddStats, Goto, Types, sharedVars, outputVars
  <2>2. \A r : Has("tail", r)' <=> Has("tail", r)
    BY <2>1 DEF Has
  <2>3. Answered(w)'
    BY <2>1 DEF Handled, Searched
  <2> QED
    BY <1>0, <2>1, <2>2, <2>3 DEF InHand, Searched
<1>7. ASSUME NEW w \in Worker, LockOutput(w) \/ Unlock(w) PROVE Handled'
  <2>1. /\ \A v \in Worker : v # w => pc'[v] = pc[v]
        /\ UNCHANGED <<verdict, cfg, pending, result, completed, failed, matched, errored, stop, out>>
        /\ \/ pc[w] = "output" /\ pc'[w] \in {"separator", "head"}
           \/ pc[w] = "output" /\ pc'[w] = "unlock" /\ buffer[w] = <<>>
           \/ pc[w] = "unlock" /\ pc'[w] = "answer"
    BY <1>7 DEF LockOutput, Unlock, PrintFrom, Goto, Types, sharedVars
  <2>2. \A r : Has("tail", r)' <=> Has("tail", r)
    BY <2>1 DEF Has
  <2>3. pc[w] = "output" /\ buffer[w] = <<>> => ~Due(result[w])
    <3>1. <<result[w]>> # <<>>
      OBVIOUS
    <3> QED
      BY <3>1 DEF Buffers, Searched, Output, Due
  <2>4. Due(result[w])' <=> Due(result[w])
    BY <2>1 DEF Due
  <2>5. Answered(w)'
    BY <2>1, <2>2, <2>3, <2>4 DEF Handled, Searched
  <2> QED
    BY <1>0, <2>1, <2>2, <2>5 DEF InHand, Searched
<1>8. ASSUME NEW w \in Worker, WriteSeparator(w) \/ WriteHead(w) \/ WriteTail(w) PROVE Handled'
  <2>1. /\ \A v \in Worker : v # w => pc'[v] = pc[v]
        /\ UNCHANGED <<verdict, cfg, pending, result, completed, matched, stop>>
        /\ pc[w] \in {"separator", "head", "tail"} /\ pc'[w] \in {"head", "tail", "unlock"}
    BY <1>8, WriteFrame
  <2>2. CASE /\ out' = Append(out, Written(w)) /\ Written(w) \in Chunk
             /\ pc'[w] = Continues[pc[w]] /\ UNCHANGED <<errored, failed>>
    <3>1. \A r : Has("tail", r)' <=> Has("tail", r) \/ Written(w) = <<"tail", r>>
      BY <2>2, Appended DEF Types
    <3>2. pc'[w] = "unlock" => Written(w) = <<"tail", result[w]>>
      BY <2>1, <2>2 DEF Continues, Written
    <3>3. Answered(w)'
      BY <2>1, <2>2, <3>1, <3>2 DEF Handled, Searched
    <3> QED
      BY <1>0, <2>1, <2>2, <3>1, <3>3 DEF InHand, Searched
  <2>3. CASE failed' = failed \cup {result[w]} /\ pc'[w] = "unlock" /\ (errored => errored') /\ UNCHANGED out
    <3>1. \A r : Has("tail", r)' <=> Has("tail", r)
      BY <2>3 DEF Has
    <3>2. Answered(w)'
      BY <2>1, <2>3 DEF Handled, Searched
    <3> QED
      BY <1>0, <2>1, <2>3, <3>1, <3>2 DEF InHand, Searched
  <2> QED
    BY <1>8, <2>2, <2>3, WriteEffect
<1>9. ASSUME Return PROVE Handled'
  <2>1. UNCHANGED <<verdict, cfg, pending, pc, result, completed, failed, matched, stop>> /\ (errored => errored')
    BY <1>9 DEF Return, sharedVars
  <2>2. \A r : Has("tail", r)' = Has("tail", r)
    BY <1>9, ReturnEffect
  <2>3. \A r \in Result : Settled(r) => Settled(r)'
    BY <2>1, <2>2 DEF Settled, Due
  <2>4. \A v \in Worker : Due(result[v])' <=> Due(result[v])
    BY <2>1 DEF Due
  <2> QED
    BY <2>1, <2>2, <2>3, <2>4 DEF Handled
<1>10. ASSUME UNCHANGED vars PROVE Handled'
  BY <1>10 DEF vars, Handled, Settled, Due, Has
<1> QED
  BY <1>1, <1>2, <1>3, <1>4, <1>5, <1>6, <1>7, <1>8, <1>9, <1>10 DEF Next, WorkerStep, Terminated

\* The inductive invariant: every result has one owner until all was done for
\* it, and what two workers share is changed by the holder of its lock
\* (SearchParallelVisitor.visit).
THEOREM ParallelInvariance == Spec => []IInv
<1>1. IInv /\ [Next]_vars => IInv'
  BY TypesKept, HandsKept, BuffersKept, CountedKept, HolderKept, PrintedKept, WholeKept, HandledKept, SignalsKept, BegunKept,
     LatenessKept
     DEF IInv
<1> QED
  BY InitHolds, <1>1, PTL DEF Spec
-----------------------------------------------------------------------------
\* The state has its types; between a search and its answer a buffer holds that
\* search's output and nothing else (Buffer.clear, in SearchParallelVisitor.visit).
THEOREM ParallelTypes == Spec => []TypeOK
<1>1. IInv => TypeOK
  <2> SUFFICES ASSUME IInv PROVE TypeOK
    OBVIOUS
  <2>1. Types /\ Buffers
    BY DEF IInv
  <2>2. \A w \in Worker : buffer[w] \in {<<>>, <<result[w]>>} \/ pc[w] \in {"check", "take", "visit", "exited"}
    BY <2>1 DEF Types, Place, Buffers, Searched, Output
  <2>3. {stop, matched, brokenPipe, errored, printed, searched, done} \subseteq BOOLEAN
    BY <2>1 DEF Types
  <2>4. pc \in [Worker -> {"check", "take", "visit", "search", "match", "stats", "add", "output", "separator",
                           "head", "tail", "unlock", "answer", "quit", "exited"}]
    BY <2>1 DEF Types, Place
  <2> QED
    BY <2>1, <2>2, <2>3, <2>4 DEF Types, TypeOK
<1> QED
  BY ParallelInvariance, <1>1, PTL

\* Blocks of two files never mix and separators stand where two meet, for any
\* number of workers, unless a write failed (output_lock, BufferWriter.print).
THEOREM ParallelBlocksWhole == Spec => []BlocksWhole
<1>1. IInv => BlocksWhole
  BY DEF IInv
<1> QED
  BY ParallelInvariance, <1>1, PTL

\* When the search returned without having been stopped, all was done for
\* every result.
LEMMA AllSettled ==
    ASSUME IInv, done, ~stop
    PROVE  \A r \in Result : Settled(r)
<1>1. PICK w \in Worker : pc[w] = "exited"
  BY WorkerAssumption DEF IInv, Signals
<1>2. pending = {}
  BY <1>1 DEF IInv, Handled
<1>3. \A v \in Worker : pc[v] \notin InHand
  BY DEF IInv, Signals, InHand, Searched
<1> QED
  BY <1>2, <1>3 DEF IInv, Handled

\* What is due is printed, once and whole files only, and of a search nothing
\* stopped all of it, whoever searched it (SearchParallelVisitor.visit).
THEOREM ParallelShownExact == Spec => []ShownExact
<1>1. IInv => ShownExact
  <2> SUFFICES ASSUME IInv PROVE ShownExact
    OBVIOUS
  <2>1. \A r : Shown(r) <=> Has("tail", r)
    BY DEF Shown, Has
  <2>2. ShownOnce
    BY <2>1 DEF IInv, Printed, ShownOnce
  <2>3. AllShown
    BY <2>1, AllSettled DEF AllShown, Settled
  <2> QED
    BY <2>2, <2>3 DEF ShownExact
<1> QED
  BY ParallelInvariance, <1>1, PTL

\* The statistics are the sum over the searches, whatever the workers add at
\* the same time (stats_lock).
THEOREM ParallelStatsExact == Spec => []StatsExact
<1>1. IInv => StatsExact
  <2> SUFFICES ASSUME IInv, done, cfg.stats, NEW r \in Result PROVE stats[r] = IF r \in completed THEN 1 ELSE 0
    BY DEF StatsExact
  <2>1. \A w \in Worker : pc[w] \notin {"match", "stats", "add"}
    BY DEF IInv, Signals
  <2> QED
    BY <2>1 DEF IInv, Counted
<1> QED
  BY ParallelInvariance, <1>1, PTL

\* The exit code is a function of the files, not of the schedule, unless a
\* write failed: a search is stopped early only when its code is settled, and
\* that nothing was searched is told when there was nothing to search (run,
\* quit_after_match, eprint_nothing_searched).
THEOREM ParallelExitExact == Spec => []ExitExact
<1>1. IInv => ExitExact
  <2> SUFFICES ASSUME IInv, done, failed = {} PROVE ExitCode = ExitCodeDue
    BY DEF ExitExact
  <2> DEFINE hits == \E r \in Result : verdict[r].kind = "searched" /\ verdict[r].hit
             errors == \E r \in Result : verdict[r].kind \in {"error", "fails"}
             files == \E r \in Result : Haystack(r)
  <2>1. /\ (matched => hits) /\ ~brokenPipe
        /\ errored => errors \/ (cfg.implicit /\ ~searched)
        /\ cfg.implicit /\ ~searched => errored
        /\ searched => files
    BY DEF IInv, Signals, Begun
  <2>2. hits => files
    BY DEF Haystack
  <2>3. ExitCodeDue = IF hits /\ (cfg.quiet \/ ~errors) THEN 0 ELSE IF errors \/ (cfg.implicit /\ ~files) THEN 2 ELSE 1
    BY DEF ExitCodeDue, Haystack
  <2>4. CASE stop
    <3>1. matched /\ cfg.quiet
      BY <2>1, <2>4 DEF IInv, Signals, MayEnd, QuitAfterMatch
    <3> QED
      BY <2>1, <2>3, <3>1 DEF ExitCode
  <2>5. CASE ~stop
    <3>1. (hits => matched) /\ (errors => errored)
      BY <2>5, AllSettled DEF Settled
    <3>2. files => searched
      <4>1. PICK w \in Worker : pc[w] = "exited"
        BY WorkerAssumption DEF IInv, Signals
      <4>2. pending = {} /\ \A v \in Worker : pc[v] # "visit"
        BY <2>5, <4>1 DEF IInv, Handled, Signals
      <4> QED
        BY <4>2 DEF IInv, Begun
    <3> QED
      BY <2>1, <2>2, <2>3, <3>1, <3>2 DEF ExitCode
  <2> QED
    BY <2>4, <2>5
<1> QED
  BY ParallelInvariance, <1>1, PTL

\* Once the search may end every worker begins at most one more search that
\* succeeds, however many there are (the answer of visit).
THEOREM ParallelAtMostOneLate == Spec => []AtMostOneLate
<1>1. IInv => AtMostOneLate
  <2> SUFFICES ASSUME Types, Lateness, NEW w \in Worker PROVE late[w] <= 1
    BY DEF IInv, AtMostOneLate
  <2>1. late[w] \in Nat /\ (late[w] # 0 => late[w] = 1)
    BY DEF Types, Lateness
  <2> QED
    BY <2>1
<1> QED
  BY ParallelInvariance, <1>1, PTL
=============================================================================
