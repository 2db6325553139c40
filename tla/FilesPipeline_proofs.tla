------------------------ MODULE FilesPipeline_proofs ------------------------
(***************************************************************************)
(* Proofs about FilesPipeline, for any number of workers and results and   *)
(* channels of any capacity.                                               *)
(***************************************************************************)
EXTENDS FilesPipeline, SequenceTheorems, TLAPS

-----------------------------------------------------------------------------
Types ==
    /\ kind \in [Result -> {"file", "other", "error"}]
    /\ quiet \in BOOLEAN /\ quitAfterMatch \in BOOLEAN /\ stop \in BOOLEAN
    /\ errored \in BOOLEAN /\ matched \in BOOLEAN /\ outputErr \in {"none", "pipe", "other"}
    /\ pending \subseteq Result
    /\ pc \in [Worker -> {"check", "take", "visit", "send", "sent", "exited"}]
    /\ held \in [Worker -> Result \cup {Empty}]
    /\ events \in Seq(Result \cup {Done})
    /\ runner \in {"join", "exited"}
    /\ producer \in {"receive", "inspect", "build", "send", "quit", "join", "exited"}
    /\ event \in Result \cup {Done, Empty}
    /\ results \in Seq(Result \cup {Done, Matched})
    /\ main \in {"receive", "print", "wait", "returned"}
    /\ path \in Result \cup {Empty}
    /\ printed \in Seq(Result)

In(x, s) == \E k \in 1 .. Len(s) : s[k] = x
Once(s) == \A j, k \in 1 .. Len(s) : (s[j] = s[k] /\ s[j] \in Result) => j = k
Held(r) == \E w \in Worker : held[w] = r

\* Where a thread is tells whether it has a result in hand.
Hands ==
    /\ \A w \in Worker : pc[w] \in {"visit", "send"} => held[w] \in Result
    /\ \A w \in Worker : pc[w] \in {"check", "take", "sent"} => held[w] = Empty
    /\ producer \in {"inspect", "build", "send"} => event \in Result
    /\ producer \in {"receive", "quit"} => event = Empty
    /\ producer \in {"join", "exited"} => event = Done
    /\ IF main = "print" THEN path \in Result ELSE path = Empty

\* A result is in one place: with the walk, a worker, the producer or the main
\* thread, in a channel or printed.
OnePlace ==
    /\ \A v, w \in Worker : (v # w /\ held[v] \in Result) => held[v] # held[w]
    /\ Once(events) /\ Once(results) /\ Once(printed)
    /\ \A r \in pending : ~Held(r) /\ ~In(r, events) /\ event # r /\ ~In(r, results) /\ path # r /\ ~In(r, printed)
    /\ \A r \in Result : Held(r) => ~In(r, events) /\ event # r /\ ~In(r, results) /\ path # r /\ ~In(r, printed)
    /\ \A r \in Result : In(r, events) => event # r /\ ~In(r, results) /\ path # r /\ ~In(r, printed)
    /\ \A r \in Result : event = r => ~In(r, results) /\ path # r /\ ~In(r, printed)
    /\ \A r \in Result : In(r, results) => path # r /\ ~In(r, printed)
    /\ \A r \in Result : path = r => ~In(r, printed)

\* What is past the producer is a file.
FilesOnly ==
    /\ producer = "send" => kind[event] = "file"
    /\ \A r \in Result : In(r, results) \/ path = r \/ In(r, printed) => kind[r] = "file"
    /\ In(Matched, results) => Files # {}
    /\ matched => Files # {}
    /\ errored => \E r \in Result : kind[r] = "error"

\* The message that ends a channel is its last, and sent when no thread that
\* could send another one is left.
Ends ==
    /\ runner = "exited" => \A w \in Worker : pc[w] = "exited"
    /\ \A k \in 1 .. Len(events) : events[k] = Done => k = Len(events)
    /\ In(Done, events) => runner = "exited"
    /\ runner = "exited" => In(Done, events) \/ producer \in {"join", "exited"}
    /\ producer \in {"join", "exited"} => runner = "exited" /\ events = <<>>
    /\ \A k \in 1 .. Len(results) : results[k] = Done => k = Len(results)
    /\ In(Done, results) => producer = "exited"
    /\ producer = "exited" => In(Done, results) \/ main \in {"wait", "returned"}
    /\ main \in {"wait", "returned"} => producer = "exited" /\ results = <<>>

\* Unless the listing is stopped nothing is dropped.
Kept ==
    ~stop =>
        /\ outputErr = "none"
        /\ \A w \in Worker : pc[w] = "exited" => pending = {} /\ held[w] = Empty
        /\ producer # "quit" =>
            \A r \in Files : \/ r \in pending \/ Held(r) \/ In(r, events) \/ event = r
                             \/ In(r, results) \/ path = r \/ In(r, printed)
        /\ \A r \in Result : kind[r] = "error" => r \in pending \/ Held(r) \/ In(r, events) \/ event = r \/ errored

\* It is stopped because of a file, of which the main thread knows or hears,
\* and only if the first file is enough or one could not be printed.
Reasons ==
    /\ stop \/ producer = "quit" => quitAfterMatch \/ outputErr # "none"
    /\ quitAfterMatch => quiet
    /\ outputErr # "none" => matched
    /\ stop \/ producer = "quit" => matched \/ \E k \in 1 .. Len(results) : results[k] # Done
    /\ main = "print" \/ printed # <<>> => matched

IInv == Types /\ Hands /\ OnePlace /\ FilesOnly /\ Ends /\ Kept /\ Reasons

-----------------------------------------------------------------------------
\* What a channel holds after a send, and after a receive.
LEMMA Sent ==
    ASSUME NEW S, NEW s \in Seq(S), NEW x \in S
    PROVE  /\ Append(s, x) \in Seq(S) /\ Append(s, x) # <<>>
           /\ Len(s) \in Nat /\ Len(Append(s, x)) = Len(s) + 1
           /\ \A k \in 1 .. Len(s) : Append(s, x)[k] = s[k]
           /\ Append(s, x)[Len(s) + 1] = x
           /\ \A y : In(y, Append(s, x)) <=> In(y, s) \/ y = x
           /\ Once(s) /\ ~(x \in Result /\ In(x, s)) => Once(Append(s, x))
<1> DEFINE t == Append(s, x)
<1>1. /\ t \in Seq(S) /\ t # <<>> /\ Len(s) \in Nat /\ Len(t) = Len(s) + 1
      /\ \A k \in 1 .. Len(s) : t[k] = s[k]
      /\ t[Len(s) + 1] = x
  BY AppendProperties
<1> HIDE DEF t
<1>2. \A k \in 1 .. Len(t) : k \in 1 .. Len(s) \/ k = Len(s) + 1
  BY <1>1
<1>3. \A y : In(y, t) <=> In(y, s) \/ y = x
  <2>1. ASSUME NEW y, In(y, t) PROVE In(y, s) \/ y = x
    BY <1>1, <1>2, <2>1 DEF In
  <2>2. ASSUME NEW y, In(y, s) \/ y = x PROVE In(y, t)
    BY <1>1, <2>2 DEF In
  <2> QED
    BY <2>1, <2>2
<1>4. Once(s) /\ ~(x \in Result /\ In(x, s)) => Once(t)
  BY <1>1, <1>2 DEF Once, In
<1> QED
  BY <1>1, <1>3, <1>4 DEF t

LEMMA Received ==
    ASSUME NEW S, NEW s \in Seq(S), s # <<>>
    PROVE  /\ Tail(s) \in Seq(S) /\ Head(s) \in S /\ Head(s) = s[1]
           /\ Len(s) \in Nat /\ Len(s) > 0 /\ Len(Tail(s)) = Len(s) - 1
           /\ \A k \in 1 .. Len(Tail(s)) : k + 1 \in 1 .. Len(s) /\ Tail(s)[k] = s[k + 1]
           /\ \A y : In(y, s) <=> In(y, Tail(s)) \/ y = Head(s)
           /\ Once(s) => Once(Tail(s)) /\ ~(Head(s) \in Result /\ In(Head(s), Tail(s)))
<1> DEFINE t == Tail(s)
           x == Head(s)
<1>1. /\ t \in Seq(S) /\ x \in S /\ x = s[1] /\ Len(s) \in Nat /\ Len(s) > 0 /\ Len(t) = Len(s) - 1
      /\ \A k \in 1 .. Len(t) : t[k] = s[k + 1]
  OBVIOUS
<1> HIDE DEF t, x
<1>2. \A k \in 1 .. Len(s) : k = 1 \/ (k - 1 \in 1 .. Len(t) /\ t[k - 1] = s[k])
  BY <1>1
<1>3. \A k \in 1 .. Len(t) : k + 1 \in 1 .. Len(s) /\ t[k] = s[k + 1]
  BY <1>1
<1>4. \A y : In(y, s) <=> In(y, t) \/ y = x
  <2>1. ASSUME NEW y, In(y, s) PROVE In(y, t) \/ y = x
    BY <1>1, <1>2, <2>1 DEF In
  <2>2. ASSUME NEW y, In(y, t) \/ y = x PROVE In(y, s)
    BY <1>1, <1>3, <2>2 DEF In
  <2> QED
    BY <2>1, <2>2
<1>5. Once(s) => Once(t)
  <2> SUFFICES ASSUME Once(s), NEW j \in 1 .. Len(t), NEW k \in 1 .. Len(t), t[j] = t[k], t[j] \in Result PROVE j = k
    BY DEF Once
  <2>1. j + 1 = k + 1
    BY <1>3 DEF Once
  <2> QED
    BY <2>1, <1>1
<1>6. ASSUME Once(s), x \in Result, In(x, t) PROVE FALSE
  <2>1. PICK k \in 1 .. Len(t) : t[k] = x
    BY <1>6 DEF In
  <2>2. k + 1 \in 1 .. Len(s) /\ 1 \in 1 .. Len(s) /\ s[k + 1] = s[1] /\ s[1] \in Result
    BY <1>1, <1>3, <1>6, <2>1
  <2>3. k + 1 = 1
    BY <1>6, <2>2 DEF Once
  <2> QED
    BY <2>1, <2>3, <1>1
<1> QED
  BY <1>1, <1>3, <1>4, <1>5, <1>6 DEF t, x

-----------------------------------------------------------------------------
LEMMA InitHolds == Init => IInv
<1> SUFFICES ASSUME Init PROVE IInv
  OBVIOUS
<1>1. Types
  <2>1. events \in Seq(Result \cup {Done}) /\ results \in Seq(Result \cup {Done, Matched}) /\ printed \in Seq(Result)
    BY DEF Init
  <2> QED
    BY <2>1, KindAssumption DEF Init, Types
<1>2. /\ \A w \in Worker : pc[w] = "check" /\ held[w] = Empty
      /\ \A x : ~In(x, events) /\ ~In(x, results) /\ ~In(x, printed)
      /\ Once(events) /\ Once(results) /\ Once(printed)
      /\ Empty \notin Result /\ \A r \in Result : ~Held(r) /\ event # r /\ path # r
  BY ResultAssumption DEF Init, In, Once, Held
<1>3. Hands /\ OnePlace
  BY <1>2 DEF Init, Hands, OnePlace, Empty
<1>4. FilesOnly /\ Ends
  BY <1>2 DEF Init, FilesOnly, Ends
<1>5. Kept /\ Reasons
  BY <1>2 DEF Init, Kept, Reasons, Files
<1> QED
  BY <1>1, <1>3, <1>4, <1>5 DEF IInv

LEMMA TypesKept == Types /\ Hands /\ [Next]_vars => Types'
<1> SUFFICES ASSUME Types, Hands, [Next]_vars PROVE Types'
  OBVIOUS
<1> USE DEF Types, inputs, walkVars, producerVars, mainVars
<1>1. ASSUME NEW w \in Worker, CheckStop(w) \/ Leave(w) PROVE Types'
  BY <1>1 DEF CheckStop, Leave, Goto
<1>2. ASSUME NEW w \in Worker, NEW r \in Result, Take(w, r) PROVE Types'
  BY <1>2 DEF Take, Goto
<1>3. ASSUME NEW w \in Worker, SendEvent(w) PROVE Types'
  <2>1. Append(events, held[w]) \in Seq(Result \cup {Done})
    BY <1>3, Sent DEF SendEvent, Hands
  <2> QED
    BY <1>3, <2>1 DEF SendEvent, Goto
<1>4. ASSUME JoinWorkers PROVE Types'
  <2>1. Append(events, Done) \in Seq(Result \cup {Done})
    BY Sent
  <2> QED
    BY <1>4, <2>1 DEF JoinWorkers
<1>5. ASSUME ReceiveEvent PROVE Types'
  <2>1. Tail(events) \in Seq(Result \cup {Done}) /\ Head(events) \in Result \cup {Done}
    BY <1>5, Received DEF ReceiveEvent
  <2> QED
    BY <1>5, <2>1 DEF ReceiveEvent
<1>6. ASSUME Inspect \/ Build \/ StoreStop PROVE Types'
  BY ZenonT(40), <1>6 DEF Inspect, Build, StoreStop
<1>7. ASSUME SendResult PROVE Types'
  <2>1. Append(results, IF quitAfterMatch THEN Matched ELSE event) \in Seq(Result \cup {Done, Matched})
    BY <1>7, Sent DEF SendResult, Hands
  <2> QED
    BY <1>7, <2>1 DEF SendResult
<1>8. ASSUME SendDone PROVE Types'
  <2>1. Append(results, Done) \in Seq(Result \cup {Done, Matched})
    BY Sent
  <2> QED
    BY <1>8, <2>1 DEF SendDone
<1>9. ASSUME ReceiveDone \/ ReceiveResult PROVE Types'
  <2>1. Tail(results) \in Seq(Result \cup {Done, Matched}) /\ Head(results) \in Result \cup {Done, Matched}
    BY <1>9, Received DEF ReceiveDone, ReceiveResult
  <2> QED
    BY ZenonT(80), <1>9, <2>1 DEF ReceiveDone, ReceiveResult
<1>10. ASSUME PrintPath PROVE Types'
  <2>1. Append(printed, path) \in Seq(Result)
    BY <1>10, Sent DEF PrintPath, Hands
  <2>2. outputErr' \in {"none", "pipe", "other"}
    BY <1>10, OutputAssumption DEF PrintPath
  <2> QED
    BY ZenonT(40), <1>10, <2>1, <2>2 DEF PrintPath
<1>11. ASSUME JoinProducer \/ UNCHANGED vars PROVE Types'
  BY <1>11 DEF JoinProducer, vars
<1> QED
  BY <1>1, <1>2, <1>3, <1>4, <1>5, <1>6, <1>7, <1>8, <1>9, <1>10, <1>11
     DEF Next, WorkerStep, ProducerStep, MainStep, Terminated

LEMMA HandsKept == Types /\ Hands /\ [Next]_vars => Hands'
<1> SUFFICES ASSUME Types, Hands, [Next]_vars PROVE Hands'
  OBVIOUS
<1> USE ResultAssumption DEF Types, Hands, inputs, walkVars, producerVars, mainVars, Done, Matched, Empty
<1>1. ASSUME NEW w \in Worker, CheckStop(w) \/ Leave(w) PROVE Hands'
  BY <1>1 DEF CheckStop, Leave, Goto
<1>2. ASSUME NEW w \in Worker, NEW r \in Result, Take(w, r) PROVE Hands'
  BY <1>2 DEF Take, Goto
<1>3. ASSUME NEW w \in Worker, SendEvent(w) PROVE Hands'
  BY <1>3 DEF SendEvent, Goto
<1>4. ASSUME JoinWorkers PROVE Hands'
  BY <1>4 DEF JoinWorkers
<1>5. ASSUME ReceiveEvent PROVE Hands'
  <2>1. Head(events) \in Result \cup {Done}
    BY <1>5, Received DEF ReceiveEvent
  <2> QED
    BY <1>5, <2>1 DEF ReceiveEvent
<1>6. ASSUME Inspect \/ Build \/ StoreStop PROVE Hands'
  BY <1>6 DEF Inspect, Build, StoreStop
<1>7. ASSUME SendResult \/ SendDone PROVE Hands'
  BY <1>7 DEF SendResult, SendDone
<1>8. ASSUME ReceiveDone \/ ReceiveResult PROVE Hands'
  <2>1. Head(results) \in Result \cup {Done, Matched}
    BY <1>8, Received DEF ReceiveDone, ReceiveResult
  <2> QED
    BY <1>8, <2>1 DEF ReceiveDone, ReceiveResult
<1>9. ASSUME PrintPath PROVE Hands'
  BY <1>9 DEF PrintPath
<1>10. ASSUME JoinProducer \/ UNCHANGED vars PROVE Hands'
  BY <1>10 DEF JoinProducer, vars
<1> QED
  BY <1>1, <1>2, <1>3, <1>4, <1>5, <1>6, <1>7, <1>8, <1>9, <1>10
     DEF Next, WorkerStep, ProducerStep, MainStep, Terminated

\* Every step takes a result from one place to the next, or drops it.
LEMMA OnePlaceKept == Types /\ Hands /\ OnePlace /\ [Next]_vars => OnePlace'
<1> SUFFICES ASSUME Types, Hands, OnePlace, [Next]_vars PROVE OnePlace'
  OBVIOUS
<1> USE DEF inputs, walkVars, producerVars, mainVars
<1>0. ASSUME UNCHANGED <<pending, held, events, event, results, path, printed>> PROVE OnePlace'
  BY <1>0 DEF OnePlace, Once, In, Held
<1>1. ASSUME NEW w \in Worker, CheckStop(w) \/ Leave(w) PROVE OnePlace'
  BY <1>0, <1>1 DEF CheckStop, Leave
<1>2. ASSUME NEW w \in Worker, NEW r \in Result, Take(w, r) PROVE OnePlace'
  <2>1. /\ pending' = pending \ {r} /\ r \in pending
        /\ held' = [held EXCEPT ![w] = r] /\ held[w] = Empty
        /\ UNCHANGED <<events, event, results, path, printed>>
    BY <1>2 DEF Take, Hands
  <2>2. \A q \in Result : Held(q)' <=> Held(q) \/ q = r
    BY <2>1, ResultAssumption DEF Held, Types
  <2>3. /\ \A x : (In(x, events)' <=> In(x, events)) /\ (In(x, results)' <=> In(x, results))
                  /\ (In(x, printed)' <=> In(x, printed))
        /\ Once(events)' /\ Once(results)' /\ Once(printed)'
    BY <2>1 DEF In, Once, OnePlace
  <2>4. ~Held(r) /\ \A q \in pending' : q \in Result /\ q # r
    BY <2>1 DEF OnePlace, Types
  <2>5. \A u, v \in Worker : (u # v /\ held'[u] \in Result) => held'[u] # held'[v]
    BY <2>1, <2>4 DEF OnePlace, Held, Types
  <2> QED
    BY <2>1, <2>2, <2>3, <2>4, <2>5 DEF OnePlace, Types
<1>3. ASSUME NEW w \in Worker, SendEvent(w) PROVE OnePlace'
  <2> DEFINE r == held[w]
  <2>1. /\ events' = Append(events, r) /\ r \in Result /\ held' = [held EXCEPT ![w] = Empty]
        /\ UNCHANGED <<pending, event, results, path, printed>>
    BY <1>3 DEF SendEvent, Hands
  <2>2. Held(r) /\ r \notin pending /\ ~In(r, events) /\ event # r /\ ~In(r, results) /\ path # r /\ ~In(r, printed)
    BY <2>1 DEF Held, OnePlace
  <2>3. /\ \A x : In(x, events)' <=> In(x, events) \/ x = r
        /\ Once(events)'
    BY <2>1, <2>2, Sent DEF Types, OnePlace
  <2>4. /\ \A x : (In(x, results)' <=> In(x, results)) /\ (In(x, printed)' <=> In(x, printed))
        /\ Once(results)' /\ Once(printed)'
    BY <2>1 DEF In, Once, OnePlace
  <2>5. \A q \in Result : Held(q)' => Held(q) /\ q # r
    <3> SUFFICES ASSUME NEW q \in Result, NEW v \in Worker, held'[v] = q PROVE held[v] = q /\ q # r
      BY DEF Held
    <3>1. v # w
      BY <2>1, ResultAssumption DEF Types
    <3> QED
      BY <2>1, <3>1 DEF Types, OnePlace
  <2>6. \A u, v \in Worker : (u # v /\ held'[u] \in Result) => held'[u] # held'[v]
    BY <2>1, ResultAssumption DEF OnePlace, Types
  <2> QED
    BY <2>1, <2>2, <2>3, <2>4, <2>5, <2>6 DEF OnePlace, Types
<1>4. ASSUME JoinWorkers PROVE OnePlace'
  <2>1. events' = Append(events, Done) /\ UNCHANGED <<pending, held, event, results, path, printed>> /\ Done \notin Result
    BY <1>4, ResultAssumption DEF JoinWorkers
  <2>2. (\A r \in Result : In(r, events)' <=> In(r, events)) /\ Once(events)'
    BY <2>1, Sent DEF Types, OnePlace
  <2>3. /\ \A x : (In(x, results)' <=> In(x, results)) /\ (In(x, printed)' <=> In(x, printed)) /\ (Held(x)' <=> Held(x))
        /\ Once(results)' /\ Once(printed)'
    BY <2>1 DEF In, Once, Held, OnePlace
  <2> QED
    BY <2>1, <2>2, <2>3 DEF OnePlace, Types
<1>5. ASSUME ReceiveEvent PROVE OnePlace'
  <2>1. /\ events # <<>> /\ events' = Tail(events) /\ event' = Head(events) /\ event \notin Result
        /\ UNCHANGED <<pending, held, results, path, printed>>
    BY <1>5, ResultAssumption DEF ReceiveEvent, Hands
  <2>2. /\ \A x : In(x, events) <=> In(x, events)' \/ x = event'
        /\ Once(events)' /\ ~(event' \in Result /\ In(event, events)')
    BY <2>1, Received DEF Types, OnePlace
  <2>3. /\ \A x : (In(x, results)' <=> In(x, results)) /\ (In(x, printed)' <=> In(x, printed)) /\ (Held(x)' <=> Held(x))
        /\ Once(results)' /\ Once(printed)'
    BY <2>1 DEF In, Once, Held, OnePlace
  <2> QED
    BY <2>1, <2>2, <2>3 DEF OnePlace, Types
<1>6. ASSUME Inspect \/ Build \/ StoreStop PROVE OnePlace'
  <2>1. event' \in {event, Empty} /\ UNCHANGED <<pending, held, events, results, path, printed>>
    BY <1>6 DEF Inspect, Build, StoreStop
  <2>2. /\ \A x : (In(x, results)' <=> In(x, results)) /\ (In(x, printed)' <=> In(x, printed)) /\ (Held(x)' <=> Held(x))
                  /\ (In(x, events)' <=> In(x, events))
        /\ Once(results)' /\ Once(printed)' /\ Once(events)'
    BY <2>1 DEF In, Once, Held, OnePlace
  <2>3. \A r \in Result : event' = r => event = r
    BY <2>1, ResultAssumption
  <2> QED
    BY <2>1, <2>2, <2>3 DEF OnePlace, Types
<1>7. ASSUME SendResult PROVE OnePlace'
  <2> DEFINE x == IF quitAfterMatch THEN Matched ELSE event
  <2>1. /\ results' = Append(results, x) /\ event \in Result /\ event' \notin Result
        /\ UNCHANGED <<pending, held, events, path, printed>>
    BY <1>7, ResultAssumption DEF SendResult, Hands
  <2>2. /\ event \notin pending /\ ~Held(event) /\ ~In(event, events) /\ ~In(event, results) /\ path # event /\ ~In(event, printed)
        /\ x = event \/ x \notin Result
    BY <2>1, ResultAssumption DEF OnePlace
  <2>3. /\ \A q \in Result : In(q, results)' => In(q, results) \/ q = event
        /\ Once(results)'
    BY <2>1, <2>2, Sent DEF Types, OnePlace
  <2>4. /\ \A q : (In(q, events)' <=> In(q, events)) /\ (In(q, printed)' <=> In(q, printed)) /\ (Held(q)' <=> Held(q))
        /\ Once(events)' /\ Once(printed)'
    BY <2>1 DEF In, Once, Held, OnePlace
  <2> QED
    BY <2>1, <2>2, <2>3, <2>4 DEF OnePlace, Types
<1>8. ASSUME SendDone PROVE OnePlace'
  <2>1. results' = Append(results, Done) /\ UNCHANGED <<pending, held, events, event, path, printed>> /\ Done \notin Result
    BY <1>8, ResultAssumption DEF SendDone
  <2>2. (\A r \in Result : In(r, results)' <=> In(r, results)) /\ Once(results)'
    BY <2>1, Sent DEF Types, OnePlace
  <2>3. /\ \A q : (In(q, events)' <=> In(q, events)) /\ (In(q, printed)' <=> In(q, printed)) /\ (Held(q)' <=> Held(q))
        /\ Once(events)' /\ Once(printed)'
    BY <2>1 DEF In, Once, Held, OnePlace
  <2> QED
    BY <2>1, <2>2, <2>3 DEF OnePlace, Types
<1>9. ASSUME ReceiveDone \/ ReceiveResult PROVE OnePlace'
  <2>1. /\ results # <<>> /\ results' = Tail(results)
        /\ path' \in Result => path' = Head(results)
        /\ UNCHANGED <<pending, held, events, event, printed>>
    BY <1>9, ResultAssumption DEF ReceiveDone, ReceiveResult, Hands
  <2>2. /\ \A q : In(q, results) <=> In(q, results)' \/ q = Head(results)
        /\ Once(results)' /\ ~(Head(results) \in Result /\ In(Head(results), Tail(results)))
    BY <2>1, Received DEF Types, OnePlace
  <2>3. /\ \A q : (In(q, events)' <=> In(q, events)) /\ (In(q, printed)' <=> In(q, printed)) /\ (Held(q)' <=> Held(q))
        /\ Once(events)' /\ Once(printed)'
    BY <2>1 DEF In, Once, Held, OnePlace
  <2>4. \A r \in Result : path' = r => In(r, results) /\ ~In(r, results)'
    BY <2>1, <2>2
  <2> QED
    BY <2>1, <2>2, <2>3, <2>4 DEF OnePlace, Types
<1>10. ASSUME PrintPath PROVE OnePlace'
  <2>1. /\ path \in Result /\ path' \notin Result
        /\ printed' = Append(printed, path) \/ printed' = printed
        /\ UNCHANGED <<pending, held, events, event, results>>
    BY <1>10, ResultAssumption DEF PrintPath, Hands
  <2>2. path \notin pending /\ ~Held(path) /\ ~In(path, events) /\ event # path /\ ~In(path, results) /\ ~In(path, printed)
    BY <2>1 DEF OnePlace
  <2>3. (\A q : In(q, printed)' => In(q, printed) \/ q = path) /\ Once(printed)'
    <3>1. CASE printed' = printed
      BY <3>1 DEF In, Once, OnePlace
    <3>2. CASE printed' = Append(printed, path)
      BY <2>1, <2>2, <3>2, Sent DEF Types, OnePlace
    <3> QED
      BY <2>1, <3>1, <3>2
  <2>4. /\ \A q : (In(q, events)' <=> In(q, events)) /\ (In(q, results)' <=> In(q, results)) /\ (Held(q)' <=> Held(q))
        /\ Once(events)' /\ Once(results)'
    BY <2>1 DEF In, Once, Held, OnePlace
  <2> QED
    BY <2>1, <2>2, <2>3, <2>4 DEF OnePlace, Types
<1>11. ASSUME JoinProducer \/ UNCHANGED vars PROVE OnePlace'
  BY <1>0, <1>11 DEF JoinProducer, vars
<1> QED
  BY <1>1, <1>2, <1>3, <1>4, <1>5, <1>6, <1>7, <1>8, <1>9, <1>10, <1>11
     DEF Next, WorkerStep, ProducerStep, MainStep, Terminated

LEMMA FilesOnlyKept == Types /\ Hands /\ FilesOnly /\ [Next]_vars => FilesOnly'
<1> SUFFICES ASSUME Types, Hands, FilesOnly, [Next]_vars PROVE FilesOnly'
  OBVIOUS
<1> USE DEF inputs, walkVars, producerVars, mainVars
<1>0. UNCHANGED kind /\ Files' = Files
  BY DEF Next, WorkerStep, ProducerStep, MainStep, Terminated, JoinWorkers, CheckStop, Take, Leave, SendEvent, ReceiveEvent, Inspect, Build,
         SendResult, StoreStop, SendDone, ReceiveDone, ReceiveResult, PrintPath, JoinProducer, vars, Files
<1>1. ASSUME UNCHANGED <<producerVars, results, path, printed, matched>> PROVE FilesOnly'
  BY <1>0, <1>1 DEF FilesOnly, In
<1>2. ASSUME ReceiveEvent \/ Inspect \/ StoreStop PROVE FilesOnly'
  <2>1. producer' # "send" /\ UNCHANGED <<errored, results, path, printed, matched>>
    BY <1>2 DEF ReceiveEvent, Inspect, StoreStop
  <2> QED
    BY <1>0, <2>1 DEF FilesOnly, In
<1>3. ASSUME Build PROVE FilesOnly'
  <2>1. /\ event \in Result /\ UNCHANGED <<results, path, printed, matched>>
        /\ producer' = "send" => kind[event] = "file" /\ event' = event
        /\ errored' => errored \/ kind[event] = "error"
    BY <1>3 DEF Build, Hands
  <2> QED
    BY <1>0, <2>1 DEF FilesOnly, In
<1>4. ASSUME SendResult PROVE FilesOnly'
  <2> DEFINE x == IF quitAfterMatch THEN Matched ELSE event
  <2>1. /\ results' = Append(results, x) /\ event \in Files /\ producer' # "send"
        /\ UNCHANGED <<errored, path, printed, matched>>
    BY <1>4, <1>0 DEF SendResult, Hands, FilesOnly, Files
  <2>2. \A q : In(q, results)' => In(q, results) \/ q = x
    BY <2>1, Sent DEF Types, Files
  <2>3. \A r \in Result : In(r, results)' => In(r, results) \/ r = event
    BY <2>2, ResultAssumption
  <2>4. \A r \in Result : (In(r, printed)' <=> In(r, printed))
    BY <2>1 DEF In
  <2> HIDE DEF x
  <2> QED
    BY <1>0, <2>1, <2>3, <2>4 DEF FilesOnly, Files
<1>5. ASSUME SendDone PROVE FilesOnly'
  <2>1. results' = Append(results, Done) /\ producer' # "send" /\ UNCHANGED <<errored, path, printed, matched>>
    BY <1>5 DEF SendDone
  <2>2. \A q : q # Done => (In(q, results)' <=> In(q, results))
    BY <2>1, Sent DEF Types
  <2>3. (\A r \in Result : r # Done /\ (In(r, printed)' <=> In(r, printed))) /\ Matched # Done
    BY <2>1, ResultAssumption DEF In, Matched, Done
  <2> QED
    BY <1>0, <2>1, <2>2, <2>3 DEF FilesOnly
<1>6. ASSUME ReceiveDone \/ ReceiveResult PROVE FilesOnly'
  <2>1. /\ results # <<>> /\ results' = Tail(results)
        /\ path' \in Result => path' = Head(results)
        /\ matched' => matched \/ Head(results) # Done
        /\ UNCHANGED <<producerVars, printed>>
    BY <1>6, ResultAssumption DEF ReceiveDone, ReceiveResult, Hands
  <2>2. (\A q : In(q, results) <=> In(q, results)' \/ q = Head(results)) /\ Head(results) \in Result \cup {Done, Matched}
    BY <2>1, Received DEF Types
  <2>3. \A r \in Result : In(r, printed)' <=> In(r, printed)
    BY <2>1 DEF In
  <2>4. matched' => Files # {}
    BY <2>1, <2>2 DEF FilesOnly, Files
  <2>5. \A r \in Result : In(r, results)' \/ path' = r => In(r, results)
    BY <2>1, <2>2
  <2> QED
    BY <1>0, <2>1, <2>2, <2>3, <2>4, <2>5 DEF FilesOnly
<1>7. ASSUME PrintPath PROVE FilesOnly'
  <2>1. /\ path \in Result /\ path' \notin Result
        /\ printed' = Append(printed, path) \/ printed' = printed
        /\ UNCHANGED <<producerVars, results, matched>>
    BY <1>7, ResultAssumption DEF PrintPath, Hands
  <2>2. \A q : In(q, printed)' => In(q, printed) \/ q = path
    <3>1. CASE printed' = printed
      BY <3>1 DEF In
    <3>2. CASE printed' = Append(printed, path)
      BY <2>1, <3>2, Sent DEF Types
    <3> QED
      BY <2>1, <3>1, <3>2
  <2>3. \A q : In(q, results)' <=> In(q, results)
    BY <2>1 DEF In
  <2> QED
    BY <1>0, <2>1, <2>2, <2>3 DEF FilesOnly
<1> QED
  BY <1>1, <1>2, <1>3, <1>4, <1>5, <1>6, <1>7
     DEF Next, WorkerStep, ProducerStep, MainStep, Terminated, CheckStop, Take, Leave, SendEvent, JoinWorkers, JoinProducer, vars

LEMMA EndsKept == Types /\ Hands /\ Ends /\ [Next]_vars => Ends'
<1> SUFFICES ASSUME Types, Hands, Ends, [Next]_vars PROVE Ends'
  OBVIOUS
<1> USE DEF inputs, walkVars, producerVars, mainVars
<1>1. ASSUME NEW w \in Worker, CheckStop(w) \/ Leave(w) \/ \E r \in Result : Take(w, r) PROVE Ends'
  <2>1. runner # "exited" /\ UNCHANGED <<events, results, runner, producer, main>>
    BY <1>1 DEF CheckStop, Leave, Take, Ends
  <2> QED
    BY <2>1 DEF Ends, In
<1>2. ASSUME NEW w \in Worker, SendEvent(w) PROVE Ends'
  <2>1. /\ events' = Append(events, held[w]) /\ held[w] \in Result /\ held[w] # Done
        /\ runner # "exited" /\ UNCHANGED <<results, runner, producer, main>>
    BY <1>2, ResultAssumption DEF SendEvent, Hands, Ends
  <2>2. ~In(Done, events) /\ ~In(Done, events)'
    BY <2>1, Sent DEF Types, Ends
  <2>3. \A k \in 1 .. Len(events') : events'[k] # Done
    BY <2>2 DEF In
  <2> QED
    BY <2>1, <2>2, <2>3 DEF Ends, In
<1>3. ASSUME JoinWorkers PROVE Ends'
  <2>1. /\ events' = Append(events, Done) /\ runner' = "exited" /\ runner = "join"
        /\ \A w \in Worker : pc[w] = "exited"
        /\ UNCHANGED <<pc, results, producer, main>>
    BY <1>3 DEF JoinWorkers
  <2>2. ~In(Done, events) /\ producer \notin {"join", "exited"}
    BY <2>1 DEF Ends
  <2>3. /\ \A k \in 1 .. Len(events') : k = Len(events') \/ (k \in 1 .. Len(events) /\ events'[k] = events[k])
        /\ In(Done, events)'
    <3>1. /\ Len(events) \in Nat /\ Len(events') = Len(events) + 1
          /\ \A k \in 1 .. Len(events) : events'[k] = events[k]
          /\ \A q : In(q, events') <=> In(q, events) \/ q = Done
      <4>1. events \in Seq(Result \cup {Done}) /\ Done \in Result \cup {Done}
        BY DEF Types
      <4> QED
        BY <2>1, <4>1, Sent
    <3>2. In(Done, events')
      BY <3>1
    <3> QED
      BY <3>1, <3>2 DEF In
  <2>4. \A k \in 1 .. Len(events') : events'[k] = Done => k = Len(events')
    BY <2>2, <2>3 DEF In
  <2> QED
    BY <2>1, <2>2, <2>3, <2>4 DEF Ends, In
<1>4. ASSUME ReceiveEvent PROVE Ends'
  <2>1. /\ events # <<>> /\ events' = Tail(events) /\ producer = "receive"
        /\ producer' = IF Head(events) = Done THEN "join" ELSE "inspect"
        /\ UNCHANGED <<pc, runner, results, main>>
    BY <1>4 DEF ReceiveEvent
  <2>2. /\ Len(events) \in Nat /\ Len(events) > 0 /\ Len(events') = Len(events) - 1 /\ events' \in Seq(Result \cup {Done})
        /\ \A k \in 1 .. Len(events') : k + 1 \in 1 .. Len(events) /\ events'[k] = events[k + 1]
        /\ Head(events) = events[1]
        /\ \A q : In(q, events) <=> In(q, events)' \/ q = Head(events)
    BY <2>1, Received DEF Types
  <2>3. \A k \in 1 .. Len(events') : events'[k] = Done => k = Len(events')
    <3> SUFFICES ASSUME NEW k \in 1 .. Len(events'), events'[k] = Done PROVE k = Len(events')
      OBVIOUS
    <3>1. k + 1 = Len(events)
      BY <2>2 DEF Ends
    <3> QED
      BY <3>1, <2>2
  <2>4. Head(events) = Done => events' = <<>> /\ runner = "exited"
    <3> SUFFICES ASSUME Head(events) = Done PROVE events' = <<>> /\ runner = "exited"
      OBVIOUS
    <3>1. 1 \in 1 .. Len(events) /\ events[1] = Done
      BY <2>2
    <3>2. Len(events) = 1
      BY <3>1 DEF Ends
    <3>3. Len(events') = 0
      BY <3>2, <2>2
    <3> QED
      BY <2>2, <3>3 DEF Ends
  <2>5. ~In(Done, results) /\ main \notin {"wait", "returned"}
    BY <2>1 DEF Ends
  <2> QED
    BY <2>1, <2>2, <2>3, <2>4, <2>5 DEF Ends, In
<1>5. ASSUME Inspect \/ Build \/ StoreStop PROVE Ends'
  <2>1. /\ producer \notin {"join", "exited"} /\ producer' \notin {"join", "exited"}
        /\ UNCHANGED <<pc, events, runner, results, main>>
    BY <1>5 DEF Inspect, Build, StoreStop
  <2> QED
    BY <2>1 DEF Ends, In
<1>6. ASSUME SendResult PROVE Ends'
  <2> DEFINE x == IF quitAfterMatch THEN Matched ELSE event
  <2>1. /\ results' = Append(results, x) /\ event \in Result
        /\ producer = "send" /\ producer' \notin {"join", "exited"}
        /\ UNCHANGED <<pc, events, runner, main>>
    BY <1>6 DEF SendResult, Hands
  <2>2. x # Done
    BY <2>1, ResultAssumption DEF Matched, Done
  <2>3. ~In(Done, results) /\ ~In(Done, results)' /\ main \notin {"wait", "returned"}
    BY <2>1, <2>2, Sent DEF Types, Ends
  <2>4. \A k \in 1 .. Len(results') : results'[k] # Done
    BY <2>3 DEF In
  <2> QED
    BY <2>1, <2>3, <2>4 DEF Ends, In
<1>7. ASSUME SendDone PROVE Ends'
  <2>1. /\ results' = Append(results, Done) /\ producer = "join" /\ producer' = "exited" /\ runner = "exited"
        /\ UNCHANGED <<pc, events, runner, main>>
    BY <1>7 DEF SendDone
  <2>2. ~In(Done, results) /\ main \notin {"wait", "returned"} /\ events = <<>>
    BY <2>1 DEF Ends
  <2>3. /\ \A k \in 1 .. Len(results') : k = Len(results') \/ (k \in 1 .. Len(results) /\ results'[k] = results[k])
        /\ In(Done, results)'
    <3>0. results \in Seq(Result \cup {Done, Matched}) /\ Done \in Result \cup {Done, Matched}
      BY DEF Types
    <3>1. /\ Len(results) \in Nat /\ Len(results') = Len(results) + 1
          /\ \A k \in 1 .. Len(results) : results'[k] = results[k]
          /\ \A q : In(q, results') <=> In(q, results) \/ q = Done
      BY <2>1, <3>0, Sent
    <3>2. In(Done, results')
      BY <3>1
    <3> QED
      BY <3>1, <3>2 DEF In
  <2>4. \A k \in 1 .. Len(results') : results'[k] = Done => k = Len(results')
    BY <2>2, <2>3 DEF In
  <2> QED
    BY <2>1, <2>2, <2>3, <2>4 DEF Ends, In
<1>8. ASSUME ReceiveDone \/ ReceiveResult PROVE Ends'
  <2>1. /\ results # <<>> /\ results' = Tail(results) /\ main = "receive"
        /\ main' \in {"wait", "returned"} <=> Head(results) = Done
        /\ UNCHANGED <<pc, events, runner, producer>>
    BY <1>8 DEF ReceiveDone, ReceiveResult
  <2>2. /\ Len(results) \in Nat /\ Len(results) > 0 /\ Len(results') = Len(results) - 1 /\ results' \in Seq(Result \cup {Done, Matched})
        /\ \A k \in 1 .. Len(results') : k + 1 \in 1 .. Len(results) /\ results'[k] = results[k + 1]
        /\ Head(results) = results[1]
        /\ \A q : In(q, results) <=> In(q, results)' \/ q = Head(results)
    BY <2>1, Received DEF Types
  <2>3. \A k \in 1 .. Len(results') : results'[k] = Done => k = Len(results')
    <3> SUFFICES ASSUME NEW k \in 1 .. Len(results'), results'[k] = Done PROVE k = Len(results')
      OBVIOUS
    <3>1. k + 1 = Len(results)
      BY <2>2 DEF Ends
    <3> QED
      BY <3>1, <2>2
  <2>4. Head(results) = Done => results' = <<>> /\ producer = "exited"
    <3> SUFFICES ASSUME Head(results) = Done PROVE results' = <<>> /\ producer = "exited"
      OBVIOUS
    <3>1. 1 \in 1 .. Len(results) /\ results[1] = Done
      BY <2>2
    <3>2. Len(results) = 1
      BY <3>1 DEF Ends
    <3>3. Len(results') = 0
      BY <3>2, <2>2
    <3> QED
      BY <2>2, <3>3 DEF Ends
  <2> QED
    BY <2>1, <2>2, <2>3, <2>4 DEF Ends, In
<1>9. ASSUME PrintPath PROVE Ends'
  BY <1>9 DEF PrintPath, Ends, In
<1>10. ASSUME JoinProducer PROVE Ends'
  BY <1>10 DEF JoinProducer, Ends, In
<1>11. ASSUME UNCHANGED vars PROVE Ends'
  BY <1>11 DEF vars, Ends, In
<1> QED
  BY <1>1, <1>2, <1>3, <1>4, <1>5, <1>6, <1>7, <1>8, <1>9, <1>10, <1>11
     DEF Next, WorkerStep, ProducerStep, MainStep, Terminated

LEMMA ReasonsKept == Types /\ Hands /\ Reasons /\ [Next]_vars => Reasons'
<1> SUFFICES ASSUME Types, Hands, Reasons, [Next]_vars PROVE Reasons'
  OBVIOUS
<1> USE DEF inputs, walkVars, producerVars, mainVars
<1>1. ASSUME UNCHANGED <<inputs, stop, results, matched, outputErr, main, printed>>, producer' = "quit" => producer = "quit" PROVE Reasons'
  BY <1>1 DEF Reasons
<1>2. ASSUME SendResult PROVE Reasons'
  <2> DEFINE x == IF quitAfterMatch THEN Matched ELSE event
  <2>1. /\ results' = Append(results, x) /\ event \in Result
        /\ producer' = "quit" => quitAfterMatch
        /\ UNCHANGED <<inputs, stop, main, matched, outputErr, printed>>
    BY <1>2 DEF SendResult, Hands
  <2>2. x # Done
    BY <2>1, ResultAssumption DEF Matched, Done
  <2>3. results'[Len(results) + 1] # Done /\ Len(results) + 1 \in 1 .. Len(results')
    BY <2>1, <2>2, Sent DEF Types
  <2> QED
    BY <2>1, <2>3 DEF Reasons
<1>3. ASSUME SendDone PROVE Reasons'
  <2>1. results' = Append(results, Done) /\ producer' # "quit" /\ UNCHANGED <<inputs, stop, main, matched, outputErr, printed>>
    BY <1>3 DEF SendDone
  <2>2. \A k \in 1 .. Len(results) : k \in 1 .. Len(results') /\ results'[k] = results[k]
    BY <2>1, Sent DEF Types
  <2> QED
    BY <2>1, <2>2 DEF Reasons
<1>4. ASSUME ReceiveDone PROVE Reasons'
  <2>1. /\ results # <<>> /\ results' = Tail(results) /\ Head(results) = Done /\ main' # "print"
        /\ UNCHANGED <<inputs, stop, producer, matched, outputErr, printed>>
    BY <1>4 DEF ReceiveDone
  <2>2. /\ Head(results) = results[1] /\ Len(results) \in Nat /\ Len(results') = Len(results) - 1
        /\ \A k \in 1 .. Len(results') : k + 1 \in 1 .. Len(results) /\ results'[k] = results[k + 1]
    BY <2>1, Received DEF Types
  <2>3. ASSUME NEW k \in 1 .. Len(results), results[k] # Done PROVE \E j \in 1 .. Len(results') : results'[j] # Done
    <3>1. k # 1 /\ k - 1 \in 1 .. Len(results')
      BY <2>1, <2>2, <2>3
    <3>2. results'[k - 1] = results[k]
      BY <2>2, <3>1
    <3> QED
      BY <2>3, <3>1, <3>2
  <2> QED
    BY <2>1, <2>3 DEF Reasons
<1>5. ASSUME ReceiveResult PROVE Reasons'
  BY <1>5 DEF ReceiveResult, Reasons
<1>6. ASSUME PrintPath PROVE Reasons'
  BY <1>6, OutputAssumption DEF PrintPath, Reasons
<1> QED
  BY <1>1, <1>2, <1>3, <1>4, <1>5, <1>6
     DEF Next, WorkerStep, ProducerStep, MainStep, Terminated, CheckStop, Take, Leave, SendEvent, JoinWorkers, JoinProducer, vars,
         ReceiveEvent, Inspect, Build, StoreStop, Reasons

\* Where a result is that was not dropped.
Somewhere(r) == \/ r \in pending \/ Held(r) \/ In(r, events) \/ event = r
                \/ In(r, results) \/ path = r \/ In(r, printed)
Reported(r) == r \in pending \/ Held(r) \/ In(r, events) \/ event = r \/ errored

LEMMA KeptKept == Types /\ Hands /\ FilesOnly /\ Kept /\ Ends /\ [Next]_vars => Kept'
<1> SUFFICES ASSUME Types, Hands, FilesOnly, Kept, Ends, [Next]_vars, ~stop' PROVE Kept'
  BY DEF Kept
<1> USE DEF inputs, walkVars, producerVars, mainVars
<1>0. UNCHANGED kind /\ Files' = Files /\ Files \subseteq Result
  BY DEF Next, WorkerStep, ProducerStep, MainStep, Terminated, JoinWorkers, CheckStop, Take, Leave, SendEvent, ReceiveEvent, Inspect, Build,
         SendResult, StoreStop, SendDone, ReceiveDone, ReceiveResult, PrintPath, JoinProducer, vars, Files
<1>a. ~stop
  BY DEF Next, WorkerStep, ProducerStep, MainStep, Terminated, JoinWorkers, CheckStop, Take, Leave, SendEvent, ReceiveEvent, Inspect, Build,
         SendResult, StoreStop, SendDone, ReceiveDone, ReceiveResult, PrintPath, JoinProducer, vars
<1>b. /\ outputErr = "none"
      /\ \A w \in Worker : pc[w] = "exited" => pending = {} /\ held[w] = Empty
      /\ producer # "quit" => \A r \in Files : Somewhere(r)
      /\ \A r \in Result : kind[r] = "error" => Reported(r)
  BY <1>a DEF Kept, Somewhere, Reported
<1>c. ASSUME /\ outputErr' = "none"
             /\ \A w \in Worker : pc'[w] = "exited" => pending' = {} /\ held'[w] = Empty
             /\ producer' # "quit" => \A r \in Files : Somewhere(r)'
             /\ \A r \in Result : kind[r] = "error" => Reported(r)'
      PROVE  Kept'
  BY <1>0, <1>c DEF Kept, Somewhere, Reported
<1>d. ASSUME UNCHANGED <<outputErr, pc, pending, held, events, event, results, path, printed, errored>>, producer' # "quit" => producer # "quit"
      PROVE  Kept'
  BY <1>0, <1>b, <1>c, <1>d DEF Somewhere, Reported, In, Held
<1>1. ASSUME NEW w \in Worker, CheckStop(w) \/ Leave(w) PROVE Kept'
  <2>1. /\ pc' = [pc EXCEPT ![w] = pc'[w]] /\ pc[w] \in {"check", "take", "visit", "sent"}
        /\ pc'[w] = "exited" => pending = {} /\ held[w] = Empty
        /\ UNCHANGED <<outputErr, pending, held, events, event, results, path, printed, errored, producer>>
    BY <1>1, <1>a DEF CheckStop, Leave, Goto, Hands, Types
  <2>2. \A r \in Result : (Somewhere(r)' <=> Somewhere(r)) /\ (Reported(r)' <=> Reported(r))
    BY <2>1 DEF Somewhere, Reported, In, Held
  <2>3. \A v \in Worker : pc'[v] = "exited" => pending' = {} /\ held'[v] = Empty
    BY <1>b, <2>1 DEF Types
  <2> QED
    BY <1>0, <1>b, <1>c, <2>1, <2>2, <2>3
<1>2. ASSUME NEW w \in Worker, NEW r \in Result, Take(w, r) PROVE Kept'
  <2>1. /\ pc' = [pc EXCEPT ![w] = "visit"] /\ pending' = pending \ {r} /\ r \in pending
        /\ held' = [held EXCEPT ![w] = r] /\ held[w] = Empty
        /\ UNCHANGED <<outputErr, events, event, results, path, printed, errored, producer>>
    BY <1>2 DEF Take, Goto, Hands
  <2>2. \A q \in Result : Held(q) \/ q = r => Held(q)'
    BY <2>1, ResultAssumption DEF Held, Types
  <2>3. \A q \in Result : (Somewhere(q) => Somewhere(q)') /\ (Reported(q) => Reported(q)')
    BY <2>1, <2>2 DEF Somewhere, Reported, In
  <2>4. \A v \in Worker : pc'[v] # "exited"
    BY <1>b, <2>1 DEF Types
  <2> QED
    BY <1>0, <1>b, <1>c, <2>1, <2>3, <2>4
<1>3. ASSUME NEW w \in Worker, SendEvent(w) PROVE Kept'
  <2>1. /\ pc' = [pc EXCEPT ![w] = "sent"] /\ events' = Append(events, held[w]) /\ held[w] \in Result
        /\ held' = [held EXCEPT ![w] = Empty]
        /\ UNCHANGED <<outputErr, pending, event, results, path, printed, errored, producer>>
    BY <1>3 DEF SendEvent, Goto, Hands
  <2>2. \A x : In(x, events)' <=> In(x, events) \/ x = held[w]
    <3>1. events \in Seq(Result \cup {Done}) /\ held[w] \in Result \cup {Done}
      BY <2>1 DEF Types
    <3> QED
      BY <2>1, <3>1, Sent
  <2>3. \A q \in Result : Held(q) => Held(q)' \/ q = held[w]
    BY <2>1 DEF Held, Types
  <2>4. \A q \in Result : (Somewhere(q) => Somewhere(q)') /\ (Reported(q) => Reported(q)')
    BY <2>1, <2>2, <2>3 DEF Somewhere, Reported, In
  <2>5. \A v \in Worker : pc'[v] = "exited" => pending' = {} /\ held'[v] = Empty
    BY <1>b, <2>1 DEF Types
  <2> QED
    BY <1>0, <1>b, <1>c, <2>1, <2>4, <2>5
<1>4. ASSUME JoinWorkers PROVE Kept'
  <2>1. /\ events' = Append(events, Done)
        /\ UNCHANGED <<outputErr, pc, pending, held, event, results, path, printed, errored, producer>>
    BY <1>4 DEF JoinWorkers
  <2>2. \A x : In(x, events) => In(x, events)'
    <3>1. events \in Seq((Result \cup {Done})) /\ Done \in (Result \cup {Done})
      BY <2>1 DEF Types
    <3> QED
      BY <2>1, <3>1, Sent
  <2>3. \A q \in Result : (Somewhere(q) => Somewhere(q)') /\ (Reported(q) => Reported(q)')
    BY <2>1, <2>2 DEF Somewhere, Reported, In, Held
  <2> QED
    BY <1>0, <1>b, <1>c, <2>1, <2>3
<1>5. ASSUME ReceiveEvent PROVE Kept'
  <2>1. /\ events # <<>> /\ events' = Tail(events) /\ event' = Head(events) /\ event = Empty /\ producer = "receive"
        /\ UNCHANGED <<outputErr, pc, pending, held, results, path, printed, errored>>
    BY <1>5 DEF ReceiveEvent, Hands
  <2>2. \A x : In(x, events) <=> In(x, events)' \/ x = event'
    BY <2>1, Received DEF Types
  <2>3. \A q \in Result : (Somewhere(q) => Somewhere(q)') /\ (Reported(q) => Reported(q)')
    BY <2>1, <2>2, ResultAssumption DEF Somewhere, Reported, In, Held
  <2> QED
    BY <1>0, <1>b, <1>c, <2>1, <2>3
<1>6. ASSUME Inspect PROVE Kept'
  BY <1>6, <1>a, <1>d DEF Inspect
<1>7. ASSUME Build PROVE Kept'
  <2>1. /\ event \in Result /\ producer = "build"
        /\ event' = IF kind[event] = "file" THEN event ELSE Empty
        /\ errored' <=> errored \/ kind[event] = "error"
        /\ UNCHANGED <<outputErr, pc, pending, held, events, results, path, printed>>
    BY <1>7 DEF Build, Hands
  <2>2. \A q \in Files : Somewhere(q) => Somewhere(q)'
    BY <2>1 DEF Somewhere, In, Held, Files
  <2>3. \A q \in Result : kind[q] = "error" /\ Reported(q) => Reported(q)'
    BY <2>1 DEF Reported, In, Held
  <2> QED
    BY <1>0, <1>b, <1>c, <2>1, <2>2, <2>3
<1>8. ASSUME SendResult PROVE Kept'
  <2> DEFINE y == IF quitAfterMatch THEN Matched ELSE event
  <2>1. /\ results' = Append(results, y) /\ event \in Result
        /\ producer = "send" /\ kind[event] = "file" /\ event' = Empty
        /\ producer' = IF quitAfterMatch THEN "quit" ELSE "receive"
        /\ UNCHANGED <<outputErr, pc, pending, held, events, path, printed, errored>>
    BY <1>8 DEF SendResult, Hands, FilesOnly
  <2>2. \A x : In(x, results)' <=> In(x, results) \/ x = y
    <3>1. y \in Result \cup {Done, Matched} /\ results \in Seq(Result \cup {Done, Matched})
      BY <2>1 DEF Types
    <3> HIDE DEF y
    <3> QED
      BY <2>1, <3>1, Sent
  <2>3. ~quitAfterMatch => \A q \in Result : Somewhere(q) => Somewhere(q)'
    BY <2>1, <2>2 DEF Somewhere, In, Held
  <2>4. \A q \in Result : kind[q] = "error" /\ Reported(q) => Reported(q)'
    BY <2>1 DEF Reported, In, Held
  <2> QED
    BY <1>0, <1>b, <1>c, <2>1, <2>3, <2>4
<1>9. ASSUME StoreStop PROVE Kept'
  BY <1>9 DEF StoreStop
<1>10. ASSUME SendDone PROVE Kept'
  <2>1. /\ results' = Append(results, Done) /\ producer = "join"
        /\ UNCHANGED <<outputErr, pc, pending, held, events, event, path, printed, errored>>
    BY <1>10 DEF SendDone
  <2>2. \A x : In(x, results) => In(x, results)'
    <3>1. results \in Seq((Result \cup {Done, Matched})) /\ Done \in (Result \cup {Done, Matched})
      BY <2>1 DEF Types
    <3> QED
      BY <2>1, <3>1, Sent
  <2>3. \A q \in Result : (Somewhere(q) => Somewhere(q)') /\ (Reported(q) => Reported(q)')
    BY <2>1, <2>2 DEF Somewhere, Reported, In, Held
  <2> QED
    BY <1>0, <1>b, <1>c, <2>1, <2>3
<1>11. ASSUME ReceiveDone \/ ReceiveResult PROVE Kept'
  <2>1. /\ results # <<>> /\ results' = Tail(results) /\ path = Empty
        /\ Head(results) \in Result => path' = Head(results)
        /\ UNCHANGED <<outputErr, pc, pending, held, events, event, printed, errored, producer>>
    BY <1>11, <1>b, ResultAssumption DEF ReceiveDone, ReceiveResult, Hands
  <2>2. \A x : In(x, results) <=> In(x, results)' \/ x = Head(results)
    BY <2>1, Received DEF Types
  <2>3. \A q \in Result : (Somewhere(q) => Somewhere(q)') /\ (Reported(q) => Reported(q)')
    BY <2>1, <2>2, ResultAssumption DEF Somewhere, Reported, In, Held
  <2> QED
    BY <1>0, <1>b, <1>c, <2>1, <2>3
<1>12. ASSUME PrintPath PROVE Kept'
  <2>1. /\ path \in Result /\ printed' = Append(printed, path) /\ path' = Empty
        /\ UNCHANGED <<outputErr, pc, pending, held, events, event, results, errored, producer>>
    BY <1>12 DEF PrintPath, Hands
  <2>2. \A x : In(x, printed)' <=> In(x, printed) \/ x = path
    <3>1. printed \in Seq(Result) /\ path \in Result
      BY <2>1 DEF Types
    <3> QED
      BY <2>1, <3>1, Sent
  <2>3. \A q \in Result : (Somewhere(q) => Somewhere(q)') /\ (Reported(q) => Reported(q)')
    BY <2>1, <2>2 DEF Somewhere, Reported, In, Held
  <2> QED
    BY <1>0, <1>b, <1>c, <2>1, <2>3
<1>13. ASSUME JoinProducer \/ UNCHANGED vars PROVE Kept'
  BY <1>13, <1>d DEF JoinProducer, vars
<1> QED
  BY <1>1, <1>2, <1>3, <1>4, <1>5, <1>6, <1>7, <1>8, <1>9, <1>10, <1>11, <1>12, <1>13
     DEF Next, WorkerStep, ProducerStep, MainStep, Terminated

-----------------------------------------------------------------------------
\* The places of a result, what the channels may hold and why the listing may
\* have stopped are kept by every step of every thread.
THEOREM PipelineInvariance == Spec => []IInv
<1>1. IInv /\ [Next]_vars => IInv'
  BY TypesKept, HandsKept, OnePlaceKept, FilesOnlyKept, EndsKept, KeptKept, ReasonsKept DEF IInv
<1> QED
  BY <1>1, InitHolds, PTL DEF Spec

\* rg --files with threads prints the path of a file once, that of nothing
\* else, and all of them if nobody stopped it.
THEOREM PipelineListed == Spec => []Listed
<1>1. IInv => Listed
  <2> SUFFICES ASSUME IInv PROVE Listed
    OBVIOUS
  <2> USE DEF IInv, Types
  <2>1. Items(printed) \subseteq Files
    BY DEF Items, FilesOnly, In, Files
  <2>2. \A j, k \in 1 .. Len(printed) : printed[j] = printed[k] => j = k
    BY DEF OnePlace, Once
  <2>3. ASSUME main = "returned", ~stop PROVE Files \subseteq Items(printed)
    <3>1. /\ \A w \in Worker : pc[w] = "exited"
          /\ events = <<>> /\ results = <<>> /\ producer = "exited" /\ event = Done /\ path = Empty
      BY <2>3 DEF Ends, Hands
    <3>2. pending = {} /\ \A w \in Worker : held[w] = Empty
      BY <2>3, <3>1, WorkerAssumption DEF Kept
    <3>3. \A r \in Files : r \in Result /\ ~Held(r) /\ ~In(r, events) /\ ~In(r, results) /\ event # r /\ path # r
      BY <3>1, <3>2, ResultAssumption DEF Held, In, Files
    <3>4. \A r \in Files : In(r, printed)
      BY <2>3, <3>1, <3>2, <3>3 DEF Kept
    <3> QED
      BY <3>4 DEF In, Items
  <2> QED
    BY <2>1, <2>2, <2>3 DEF Listed
<1> QED
  BY <1>1, PipelineInvariance, PTL

\* The exit code is the one the results call for, whatever the schedule, also
\* when the listing is stopped before every error was met; an error of the
\* output that is no broken pipe is always told.
THEOREM PipelineExitExact == Spec => []ExitExact
<1>1. IInv => ExitExact
  <2> SUFFICES ASSUME IInv, main = "returned" PROVE ExitCode \in ExitDue
    BY DEF ExitExact
  <2> DEFINE errors == \E r \in Result : kind[r] = "error"
  <2> USE DEF IInv, Types
  <2>1. /\ \A w \in Worker : pc[w] = "exited"
        /\ events = <<>> /\ results = <<>> /\ producer = "exited" /\ event = Done /\ path = Empty
    BY DEF Ends, Hands
  <2>2. ~stop => pending = {} /\ \A w \in Worker : held[w] = Empty
    BY <2>1, WorkerAssumption DEF Kept
  <2>3. \A r \in Result : ~In(r, events) /\ ~In(r, results) /\ event # r /\ path # r
    BY <2>1, ResultAssumption DEF In
  <2>4. ~stop => \A r \in Result : ~Held(r)
    BY <2>2, ResultAssumption DEF Held
  <2>5. (matched => Files # {}) /\ (errored => errors)
    BY DEF FilesOnly
  <2>6. (stop => matched) /\ (stop => quiet \/ outputErr # "none") /\ (outputErr # "none" => matched)
    BY <2>1 DEF Reasons
  <2>7. ~stop /\ Files # {} => matched
    <3> SUFFICES ASSUME ~stop, NEW r \in Files PROVE matched
      OBVIOUS
    <3>1. In(r, printed)
      BY <2>1, <2>2, <2>3, <2>4 DEF Kept, Files
    <3>2. printed # <<>>
      BY <3>1 DEF In
    <3> QED
      BY <3>2 DEF Reasons
  <2>8. ~stop => (errored <=> errors)
    BY <2>2, <2>3, <2>4 DEF Kept, FilesOnly
  <2>9. CASE outputErr = "other"
    BY <2>9 DEF ExitCode, RunCode, ExitDue
  <2>10. CASE outputErr = "pipe"
    <3>1. matched /\ Files # {}
      BY <2>5, <2>6, <2>10
    <3> QED
      BY <2>5, <2>10, <3>1 DEF ExitCode, RunCode, ExitDue
  <2>11. CASE outputErr = "none" /\ stop
    <3>1. matched /\ Files # {} /\ quiet
      BY <2>5, <2>6, <2>11
    <3> QED
      BY <2>11, <3>1 DEF ExitCode, RunCode, ExitDue
  <2>12. CASE outputErr = "none" /\ ~stop
    <3>1. (matched <=> Files # {}) /\ (errored <=> errors)
      BY <2>5, <2>7, <2>8, <2>12
    <3> QED
      BY <2>12, <3>1 DEF ExitCode, RunCode, ExitDue
  <2> QED
    BY <2>9, <2>10, <2>11, <2>12
<1> QED
  BY <1>1, PipelineInvariance, PTL
=============================================================================
