---------------------------- MODULE StdioProofs ----------------------------
(***************************************************************************)
(* Proofs about Stdio for any requests, worker pool, queue and bounds, and *)
(* whatever numbers the client and the session give to their requests.     *)
(***************************************************************************)
EXTENDS Stdio, FiniteSetTheorems, TLAPS

\* The type invariant with what its bound on the worker pool needs.
TypeInv == TypeOK /\ IsFiniteSet(Busy)

\* The queue holds calls that wait for a worker, each once.
Queued ==
  /\ \A i \in 1..Len(queue) : at[queue[i]] = "waiting" /\ by[queue[i]] = "worker"
  /\ \A i, j \in 1..Len(queue) : queue[i] = queue[j] => i = j

\* The read loop serves one call at a time, and is in that call meanwhile.
Inline ==
  \A id \in Ids :
    by[id] = "loop" /\ at[id] \in {"waiting", "running", "returning", "closing"} =>
      /\ loop = "inline"
      /\ \A other \in Ids :
           by[other] = "loop" /\ at[other] \in {"waiting", "running", "returning", "closing"}
             => other = id

\* Whoever waits for the client is running.
Waits == \A n \in pending : asker[n] \in Ids /\ at[asker[n]] = "running"

\* A request is answered once: by its goroutine before it is untracked, by a
\* worker or the loop with its last step.
Written(id) == IF at[id] = "done" \/ (at[id] = "closing" /\ by[id] = "goroutine") THEN 1 ELSE 0

\* A late error reply with its number is answered as well.
Counted == \A id \in Ids : answers[id] = Written(id) + (IF Rejected(id) THEN 1 ELSE 0)

\* A response is served as a request only after it was read.
EchoReplied == \A n \in Asks : echo[n] # "none" => replied[n] # "no"

\* A request that waits or runs has its own cancel function in the map, or was
\* cancelled, unless a late reply has displaced it.
Tracked ==
  \A id \in Ids :
    /\ id \in cancels \union displaced => at[id] # "unsent"
    /\ id \notin displaced =>
         /\ id \in cancels /\ at[id] \in {"waiting", "running"} => Cancelled(id)
         /\ id \notin cancels /\ at[id] = "waiting" => inflight[id] = [id |-> id, of |-> "outer"]
         /\ id \notin cancels /\ at[id] = "running" => inflight[id] = [id |-> id, of |-> "inner"]

\* An entry is that of a request in flight or of a late reply being served.
Owned(k) ==
  \/ inflight[k] = Nothing
  \/ k \in Ids /\ at[k] \in {"waiting", "running"}
  \/ k \in Asks /\ echo[k] \in {"spawned", "closing"}

Entries == \A k \in Keys : Owned(k)

\* Listen has joined everything when it returns.
Joined ==
  loop = "returned" =>
    /\ queue = <<>>
    /\ \A id \in Ids : at[id] \in {"unsent", "refused", "done"}
    /\ \A n \in Asks : echo[n] \in {"none", "done"}

ServeInv ==
  Queued /\ Inline /\ Waits /\ EchoReplied /\ Counted /\ Tracked /\ Entries /\ Joined

-----------------------------------------------------------------------------
(* The worker pool. *)

\* A set of busy calls that does not grow keeps to the pool's size.
LEMMA BusyShrinks ==
  ASSUME TypeInv, Busy' \subseteq Busy
  PROVE  IsFiniteSet(Busy') /\ Cardinality(Busy') <= WorkerPoolSize
  <1>1. Busy' \in SUBSET Busy
    OBVIOUS
  <1>2. IsFiniteSet(Busy) /\ Cardinality(Busy) <= WorkerPoolSize
    BY DEF TypeInv, TypeOK
  <1>3. IsFiniteSet(Busy') /\ Cardinality(Busy') <= Cardinality(Busy)
    BY <1>1, <1>2, FS_Subset
  <1>4. Cardinality(Busy) \in Nat /\ Cardinality(Busy') \in Nat
    BY <1>2, <1>3, FS_CardinalityType
  <1> QED BY <1>2, <1>3, <1>4, StdioAssumption DEF StdioAssumption

\* A call that a free worker takes adds at most itself.
LEMMA BusyGrows ==
  ASSUME TypeInv, NEW x, Busy' \subseteq Busy \union {x},
         Cardinality(Busy) < WorkerPoolSize
  PROVE  IsFiniteSet(Busy') /\ Cardinality(Busy') <= WorkerPoolSize
  <1>1. IsFiniteSet(Busy)
    BY DEF TypeInv
  <1>2. /\ IsFiniteSet(Busy \union {x})
        /\ Cardinality(Busy \union {x}) =
             IF x \in Busy THEN Cardinality(Busy) ELSE Cardinality(Busy) + 1
    BY <1>1, FS_AddElement
  <1>3. Busy' \in SUBSET (Busy \union {x})
    OBVIOUS
  <1>4. IsFiniteSet(Busy') /\ Cardinality(Busy') <= Cardinality(Busy \union {x})
    BY <1>2, <1>3, FS_Subset
  <1>5. /\ Cardinality(Busy) \in Nat
        /\ Cardinality(Busy') \in Nat
        /\ Cardinality(Busy \union {x}) \in Nat
    BY <1>1, <1>2, <1>4, FS_CardinalityType
  <1> QED BY <1>2, <1>4, <1>5, StdioAssumption DEF StdioAssumption

-----------------------------------------------------------------------------
(* Types. *)

\* The initial state is well typed.
LEMMA TypeInit == Init => TypeInv
  <1> SUFFICES ASSUME Init PROVE TypeInv
    OBVIOUS
  <1>1. Busy = {}
    BY DEF Init, Busy
  <1>2. IsFiniteSet(Busy) /\ Cardinality(Busy) <= WorkerPoolSize
    BY <1>1, FS_EmptySet, StdioAssumption DEF StdioAssumption
  <1>3. inflight \in [Keys -> Cancellers \union {Nothing}]
    BY DEF Init
  <1>4. queue \in Seq(Calls) /\ Len(queue) <= QueueSize
    BY StdioAssumption DEF Init, StdioAssumption
  <1>5. outer \in [Ids -> BOOLEAN] /\ inner \in [Ids -> BOOLEAN]
    BY DEF Init
  <1>6. answers \in [Keys -> Nat] /\ requestID \in 0..MaxAsks
    BY StdioAssumption DEF Init, StdioAssumption
  <1>7. /\ at \in [Ids -> {"unsent", "refused", "waiting", "running", "returning",
                          "closing", "done"}]
        /\ by \in [Ids -> {None, "worker", "goroutine", "loop"}]
        /\ asker \in [Asks -> Ids \union {None}]
        /\ replied \in [Asks -> {"no", "result", "error"}]
        /\ echo \in [Asks -> {"none", "spawned", "closing", "done"}]
    BY DEF Init
  <1> QED BY <1>2, <1>3, <1>4, <1>5, <1>6, <1>7 DEF Init, TypeInv, TypeOK

\* A response that is written is counted.
LEMMA WriteCounts ==
  ASSUME TypeOK, NEW k \in Keys, writeResponse(k)
  PROVE  answers' \in [Keys -> Nat]
  <1>1. answers \in [Keys -> Nat] /\ answers[k] + 1 \in Nat
    BY DEF TypeOK
  <1> QED BY <1>1 DEF writeResponse

\* What is tracked under a key is a cancel function, or nothing.
LEMMA TracksTyped ==
  ASSUME TypeOK, NEW k \in Keys, NEW c \in Cancellers \union {Nothing},
         inflight' = [inflight EXCEPT ![k] = c]
  PROVE  inflight' \in [Keys -> Cancellers \union {Nothing}]
  BY DEF TypeOK

\* Every step keeps the types and the sizes of queue and pool.
LEMMA TypeStep == TypeInv /\ [Next]_vars => TypeInv'
  <1> SUFFICES ASSUME TypeInv, [Next]_vars PROVE TypeInv'
    OBVIOUS
  <1> USE DEF TypeInv, TypeOK, reqVars, askVars
  <1>a. Ids \subseteq Keys /\ Asks \subseteq Keys
    BY DEF Keys
  <1>b. /\ [id |-> None, of |-> "echo"] \in Cancellers
        /\ \A id \in Ids : /\ [id |-> id, of |-> "outer"] \in Cancellers
                           /\ [id |-> id, of |-> "inner"] \in Cancellers
    BY DEF Cancellers
  <1>c. \A c \in Cancellers \union {Nothing} : c.of \in {"outer", "inner"} => c.id \in Ids
    BY DEF Cancellers, Nothing
  <1>1. ASSUME NEW id \in Calls, ReadCall(id) PROVE TypeInv'
    <2>1. Busy' \subseteq Busy
      BY <1>1 DEF ReadCall, Busy, NextCall, Ids
    <2>2. id \in Ids
      BY DEF Ids
    <2>3. inflight' \in [Keys -> Cancellers \union {Nothing}]
      <3>1. \/ inflight' = [inflight EXCEPT ![id] = [id |-> id, of |-> "outer"]]
            \/ inflight' = [inflight EXCEPT ![id] = Nothing]
        BY <1>1 DEF ReadCall, trackInflight
      <3>2. id \in Keys /\ [id |-> id, of |-> "outer"] \in Cancellers
        BY <1>a, <1>b, <2>2
      <3> QED BY <3>1, <3>2, TracksTyped
    <2>4. QueueSize \in Nat
      BY StdioAssumption DEF StdioAssumption
    <2>5. \/ UNCHANGED queue
          \/ Len(queue) < QueueSize /\ queue' = Append(queue, id)
      BY <1>1 DEF ReadCall
    <2>6. queue' \in Seq(Calls) /\ Len(queue') <= QueueSize
      <3>1. queue \in Seq(Calls) /\ Len(queue) <= QueueSize /\ id \in Calls
        OBVIOUS
      <3> HIDE DEF TypeInv
      <3> QED BY <2>4, <2>5, <3>1
    <2> QED BY <1>1, <2>1, <2>2, <2>3, <2>6, BusyShrinks DEF ReadCall, afterMessage
  <1>2. ASSUME NEW id \in Requests, ReadRequest(id) PROVE TypeInv'
    <2>1. Busy' \subseteq Busy
      BY <1>2 DEF ReadRequest, Busy, Ids
    <2> QED BY <1>2, <1>a, <1>b, <2>1, BusyShrinks
            DEF ReadRequest, trackInflight, afterMessage, Ids
  <1>3. ASSUME NEW id \in Ids, handleNotification(id) PROVE TypeInv'
    <2>1. Busy' \subseteq Busy
      BY <1>3 DEF handleNotification, Busy
    <2> QED BY <1>3, <1>a, <1>c, <2>1, BusyShrinks DEF handleNotification, afterMessage
  <1>4. ASSUME NEW id \in Ids, RequestSampling(id) PROVE TypeInv'
    <2>1. Busy' \subseteq Busy
      BY <1>4 DEF RequestSampling, Busy
    <2>2. requestID' \in 0..MaxAsks /\ requestID' \in Asks
      BY <1>4, StdioAssumption DEF RequestSampling, Asks, StdioAssumption
    <2> QED BY <1>4, <2>1, <2>2, BusyShrinks DEF RequestSampling
  <1>5. ASSUME NEW id \in Ids, HandleMessage(id) PROVE TypeInv'
    <2>1. Busy' \subseteq Busy
      BY <1>5 DEF HandleMessage, Busy
    <2> QED BY <1>5, <1>a, <1>b, <2>1, BusyShrinks DEF HandleMessage
  <1>6. ASSUME NEW id \in Ids, HandlerReturns(id) PROVE TypeInv'
    <2>1. Busy' \subseteq Busy
      BY <1>6 DEF HandlerReturns, Busy
    <2> QED BY <1>6, <1>a, <2>1, BusyShrinks DEF HandlerReturns
  <1>7. ASSUME NEW id \in Ids, WorkerFinishes(id) PROVE TypeInv'
    <2>1. Busy' \subseteq Busy
      BY <1>7 DEF WorkerFinishes, Busy
    <2>2. inflight' \in [Keys -> Cancellers \union {Nothing}]
      BY <1>7, <1>a DEF WorkerFinishes, untrack
    <2>3. answers' \in [Keys -> Nat]
      BY <1>7, <1>a, WriteCounts DEF WorkerFinishes
    <2> QED BY <1>7, <2>1, <2>2, <2>3, BusyShrinks DEF WorkerFinishes, untrack
  <1>8. ASSUME NEW id \in Ids, handleRequest(id) PROVE TypeInv'
    <2>1. Busy' \subseteq Busy
      BY <1>8 DEF handleRequest, Busy
    <2>2. inflight' \in [Keys -> Cancellers \union {Nothing}]
      BY <1>8, <1>a DEF handleRequest, untrack
    <2>3. answers' \in [Keys -> Nat]
      BY <1>8, <1>a, WriteCounts DEF handleRequest
    <2> QED BY <1>8, <2>1, <2>2, <2>3, BusyShrinks DEF handleRequest, untrack
  <1>9. ASSUME NEW id \in Ids, InlineFinishes(id) PROVE TypeInv'
    <2>1. Busy' \subseteq Busy
      BY <1>9 DEF InlineFinishes, Busy
    <2>2. inflight' \in [Keys -> Cancellers \union {Nothing}]
      BY <1>9, <1>a DEF InlineFinishes, untrack
    <2>3. answers' \in [Keys -> Nat]
      BY <1>9, <1>a, WriteCounts DEF InlineFinishes
    <2> QED BY <1>9, <2>1, <2>2, <2>3, BusyShrinks
            DEF InlineFinishes, untrack, afterMessage
  <1>10. ASSUME NEW n \in Asks, NEW kind \in {"result", "error"}, ReadReply(n, kind)
         PROVE  TypeInv'
    <2>1. Busy' \subseteq Busy
      BY <1>10 DEF ReadReply, Busy
    <2>2. inflight' \in [Keys -> Cancellers \union {Nothing}]
      <3>1. \/ inflight' = inflight
            \/ inflight' = [inflight EXCEPT ![n] = [id |-> None, of |-> "echo"]]
        BY <1>10 DEF ReadReply, trackInflight
      <3> QED BY <1>a, <1>b, <3>1, TracksTyped
    <2>3. displaced' \subseteq Ids
      BY <1>10 DEF ReadReply, Displaces
    <2> QED BY <1>10, <2>1, <2>2, <2>3, BusyShrinks DEF ReadReply, afterMessage
  <1>11. ASSUME NEW n \in Asks, WaitEnds(n) PROVE TypeInv'
    <2>1. Busy' \subseteq Busy
      BY <1>11 DEF WaitEnds, Busy
    <2> QED BY <1>11, <2>1, BusyShrinks DEF WaitEnds
  <1>12. ASSUME NEW n \in Asks, EchoFinishes(n) PROVE TypeInv'
    <2>1. Busy' \subseteq Busy
      BY <1>12 DEF EchoFinishes, Busy
    <2>2. inflight' \in [Keys -> Cancellers \union {Nothing}]
      BY <1>12, <1>a DEF EchoFinishes
    <2>3. answers' \in [Keys -> Nat]
      BY <1>12, <1>a, WriteCounts DEF EchoFinishes
    <2>4. displaced' \subseteq Ids
      BY <1>12 DEF EchoFinishes, Displaces
    <2> QED BY <1>12, <2>1, <2>2, <2>3, <2>4, BusyShrinks DEF EchoFinishes
  <1>13. CASE TakeWork
    <2>1. Head(queue) \in Calls
      BY <1>13 DEF TakeWork
    <2>2. Busy' \subseteq Busy \union {Head(queue)}
      BY <1>13 DEF TakeWork, Busy
    <2>3. IsFiniteSet(Busy') /\ Cardinality(Busy') <= WorkerPoolSize
      BY <1>13, <2>2, BusyGrows DEF TakeWork
    <2>4. queue' \in Seq(Calls) /\ Len(queue') <= QueueSize
      BY <1>13, StdioAssumption DEF TakeWork, StdioAssumption
    <2> QED BY <1>13, <1>a, <1>b, <2>1, <2>3, <2>4 DEF TakeWork, Ids
  <1>14. CASE InputEnds \/ Cancel \/ CloseQueue \/ ListenReturns \/ UNCHANGED vars
    <2>1. Busy' \subseteq Busy
      BY <1>14 DEF InputEnds, Cancel, CloseQueue, ListenReturns, vars, Busy
    <2> QED BY <1>14, <2>1, BusyShrinks
            DEF InputEnds, Cancel, CloseQueue, ListenReturns, vars
  <1> QED
    BY <1>1, <1>2, <1>3, <1>4, <1>5, <1>6, <1>7, <1>8, <1>9, <1>10, <1>11,
       <1>12, <1>13, <1>14
    DEF Next, Serve

\* Every reachable state is well typed: the queue and the worker pool keep to
\* their sizes whatever is read, and whoever serves it (processMessage,
\* toolCallWorker).
THEOREM StdioTypeCorrect == Spec => []TypeOK
  <1>1. Spec => []TypeInv
    BY TypeInit, TypeStep, PTL DEF Spec
  <1>2. TypeInv => TypeOK
    BY DEF TypeInv
  <1> QED BY <1>1, <1>2, PTL

-----------------------------------------------------------------------------
(* One step of the server preserves each part of ServeInv. *)

\* The next call of the queue waits for a worker and is in the queue only once.
LEMMA NextInQueue ==
  ASSUME TypeInv, Queued, queue # <<>>
  PROVE  /\ Head(queue) \in Ids
         /\ at[Head(queue)] = "waiting" /\ by[Head(queue)] = "worker"
         /\ \A i \in 1..Len(Tail(queue)) : /\ Tail(queue)[i] # Head(queue)
                                           /\ Tail(queue)[i] = queue[i + 1]
                                           /\ i + 1 \in 1..Len(queue)
  <1>1. queue \in Seq(Calls)
    BY DEF TypeInv, TypeOK
  <1>2. /\ Len(queue) \in Nat /\ Len(queue) > 0
        /\ Head(queue) = queue[1] /\ Head(queue) \in Calls
        /\ Len(Tail(queue)) = Len(queue) - 1
        /\ \A i \in 1..Len(Tail(queue)) : Tail(queue)[i] = queue[i + 1]
    BY <1>1
  <1>3. 1 \in 1..Len(queue) /\ \A i \in 1..Len(Tail(queue)) : i + 1 \in 1..Len(queue)
    BY <1>2
  <1>4. \A i \in 1..Len(Tail(queue)) : queue[i + 1] # queue[1]
    <2> SUFFICES ASSUME NEW i \in 1..Len(Tail(queue)) PROVE queue[i + 1] # queue[1]
      OBVIOUS
    <2>1. i + 1 # 1
      BY <1>2
    <2> QED BY <2>1, <1>3 DEF Queued
  <1> QED BY <1>2, <1>3, <1>4 DEF Queued, Ids

\* Every step keeps the queue in line with the calls that wait.
LEMMA QueuedStep ==
  ASSUME TypeInv, Queued, [Next]_vars
  PROVE  Queued'
  <1> USE DEF TypeInv, TypeOK
  <1>1. CASE UNCHANGED <<queue, at, by>>
    BY <1>1 DEF Queued
  <1>2. ASSUME NEW id \in Ids, at[id] # "waiting" \/ by[id] # "worker",
               UNCHANGED queue,
               \A other \in Ids : other # id =>
                 at'[other] = at[other] /\ by'[other] = by[other]
        PROVE  Queued'
    <2>1. \A i \in 1..Len(queue) : queue[i] \in Ids /\ queue[i] # id
      BY <1>2 DEF Queued, Ids
    <2> QED BY <1>2, <2>1 DEF Queued
  <1>3. ASSUME NEW id \in Calls, ReadCall(id) PROVE Queued'
    <2>1. id \in Ids /\ at[id] = "unsent"
      BY <1>3 DEF ReadCall, NextCall, Ids
    <2>2. CASE UNCHANGED queue
      BY <1>2, <1>3, <2>1, <2>2 DEF ReadCall
    <2>3. CASE ~ UNCHANGED queue
      <3>1. /\ queue' = Append(queue, id)
            /\ at' = [at EXCEPT ![id] = "waiting"]
            /\ by' = [by EXCEPT ![id] = "worker"]
        BY <1>3, <2>3 DEF ReadCall
      <3>2. /\ queue \in Seq(Calls) /\ Len(queue) \in Nat
            /\ Len(queue') = Len(queue) + 1
            /\ queue'[Len(queue) + 1] = id
            /\ \A i \in 1..Len(queue) : queue'[i] = queue[i]
        BY <3>1
      <3>3. \A i \in 1..Len(queue) : queue[i] \in Ids /\ queue[i] # id
        BY <2>1 DEF Queued, Ids
      <3>4. /\ at'[id] = "waiting" /\ by'[id] = "worker"
            /\ \A other \in Ids : other # id =>
                 at'[other] = at[other] /\ by'[other] = by[other]
        BY <2>1, <3>1
      <3>5. \A i \in 1..Len(queue') : i \in 1..Len(queue) \/ i = Len(queue) + 1
        BY <3>2
      <3>6. \A i \in 1..Len(queue') :
              at'[queue'[i]] = "waiting" /\ by'[queue'[i]] = "worker"
        BY <3>2, <3>3, <3>4, <3>5 DEF Queued
      <3>7. \A i, j \in 1..Len(queue') : queue'[i] = queue'[j] => i = j
        BY <3>2, <3>3, <3>5 DEF Queued
      <3> QED BY <3>6, <3>7 DEF Queued
    <2> QED BY <2>2, <2>3
  <1>4. ASSUME NEW id \in Requests, ReadRequest(id) PROVE Queued'
    BY <1>2, <1>4 DEF ReadRequest, Ids
  <1>5. ASSUME NEW id \in Ids, Serve(id) PROVE Queued'
    BY <1>2, <1>5
    DEF Serve, HandleMessage, HandlerReturns, WorkerFinishes, handleRequest,
        InlineFinishes
  <1>6. CASE TakeWork
    <2>1. /\ queue' = Tail(queue) /\ UNCHANGED by
          /\ \A other \in Ids : other # Head(queue) => at'[other] = at[other]
      BY <1>6 DEF TakeWork
    <2>2. /\ Head(queue) \in Ids
          /\ \A i \in 1..Len(Tail(queue)) : /\ Tail(queue)[i] # Head(queue)
                                            /\ Tail(queue)[i] = queue[i + 1]
                                            /\ i + 1 \in 1..Len(queue)
      BY <1>6, NextInQueue DEF TakeWork
    <2>3. \A i \in 1..Len(queue') :
            at'[queue'[i]] = "waiting" /\ by'[queue'[i]] = "worker"
      BY <2>1, <2>2 DEF Queued, Ids
    <2>4. \A i, j \in 1..Len(queue') : queue'[i] = queue'[j] => i = j
      <3> SUFFICES ASSUME NEW i \in 1..Len(queue'), NEW j \in 1..Len(queue'),
                          queue'[i] = queue'[j]
                   PROVE  i = j
        OBVIOUS
      <3>1. i + 1 = j + 1
        BY <2>1, <2>2 DEF Queued
      <3> QED BY <3>1, <2>1
    <2> QED BY <2>3, <2>4 DEF Queued
  <1> QED
    BY <1>1, <1>3, <1>4, <1>5, <1>6
    DEF Next, handleNotification, RequestSampling, ReadReply, WaitEnds,
        EchoFinishes, InputEnds, Cancel, CloseQueue, ListenReturns, reqVars, vars

\* Every step keeps the read loop in the one call it serves.
LEMMA InlineStep ==
  ASSUME TypeInv, Queued, Inline, [Next]_vars
  PROVE  Inline'
  <1> USE DEF TypeInv, TypeOK
  <1>1. ASSUME loop = "reading" \/ UNCHANGED loop, UNCHANGED <<at, by>>
        PROVE  Inline'
    BY <1>1 DEF Inline
  <1>2. ASSUME NEW id \in Calls, ReadCall(id) PROVE Inline'
    <2>1. id \in Ids /\ at[id] = "unsent" /\ loop = "reading"
      BY <1>2 DEF ReadCall, NextCall, Ids
    <2> QED BY <1>2, <2>1 DEF ReadCall, Inline
  <1>3. ASSUME NEW id \in Requests, ReadRequest(id) PROVE Inline'
    BY <1>3 DEF ReadRequest, Inline, Ids
  <1>4. ASSUME NEW id \in Ids, HandleMessage(id) PROVE Inline'
    BY <1>4 DEF HandleMessage, Inline
  <1>5. ASSUME NEW id \in Ids, HandlerReturns(id) PROVE Inline'
    BY <1>5 DEF HandlerReturns, Inline
  <1>6. ASSUME NEW id \in Ids, WorkerFinishes(id) PROVE Inline'
    BY <1>6 DEF WorkerFinishes, Inline
  <1>7. ASSUME NEW id \in Ids, handleRequest(id) PROVE Inline'
    BY <1>7 DEF handleRequest, Inline
  <1>8. ASSUME NEW id \in Ids, InlineFinishes(id) PROVE Inline'
    BY <1>8 DEF InlineFinishes, Inline
  <1>9. CASE TakeWork
    <2>1. Head(queue) \in Ids /\ by[Head(queue)] = "worker"
      BY <1>9, NextInQueue DEF TakeWork
    <2> QED BY <1>9, <2>1 DEF TakeWork, Inline
  <1>10. CASE CloseQueue \/ ListenReturns
    BY <1>10 DEF CloseQueue, ListenReturns, Inline, reqVars
  <1> QED
    BY <1>1, <1>2, <1>3, <1>4, <1>5, <1>6, <1>7, <1>8, <1>9, <1>10
    DEF Next, Serve, handleNotification, RequestSampling, ReadReply, WaitEnds,
        EchoFinishes, InputEnds, Cancel, reqVars, vars

\* Every step leaves those who wait for the client running.
LEMMA WaitsStep ==
  ASSUME TypeInv, Queued, Waits, [Next]_vars
  PROVE  Waits'
  <1> USE DEF TypeInv, TypeOK
  <1>1. CASE pending' \subseteq pending /\ UNCHANGED <<asker, at>>
    BY <1>1 DEF Waits
  <1>2. ASSUME NEW id \in Ids, at[id] # "running",
               UNCHANGED <<asker, pending>>,
               \A other \in Ids : other # id => at'[other] = at[other]
        PROVE  Waits'
    BY <1>2 DEF Waits
  <1>3. ASSUME NEW id \in Calls, ReadCall(id) PROVE Waits'
    <2>1. id \in Ids /\ at[id] # "running" /\ UNCHANGED <<asker, pending>>
      BY <1>3 DEF ReadCall, NextCall, Ids, askVars
    <2>2. \A other \in Ids : other # id => at'[other] = at[other]
      BY <1>3 DEF ReadCall
    <2> QED BY <1>2, <2>1, <2>2
  <1>4. ASSUME NEW id \in Requests, ReadRequest(id) PROVE Waits'
    BY <1>2, <1>4 DEF ReadRequest, Ids, askVars
  <1>5. ASSUME NEW id \in Ids, RequestSampling(id) PROVE Waits'
    <2>1. requestID' \in Asks
      BY <1>5, StdioAssumption DEF RequestSampling, Asks, StdioAssumption
    <2>2. UNCHANGED at /\ at[id] = "running"
      BY <1>5 DEF RequestSampling, reqVars
    <2>3. CASE UNCHANGED <<asker, pending>>
      BY <2>2, <2>3 DEF Waits
    <2>4. CASE /\ asker' = [asker EXCEPT ![requestID'] = id]
               /\ pending' = pending \union {requestID'}
      <3>1. /\ asker'[requestID'] = id
            /\ \A n \in Asks : n # requestID' => asker'[n] = asker[n]
        BY <2>1, <2>4
      <3> QED BY <2>2, <2>4, <3>1 DEF Waits
    <2> QED BY <1>5, <2>3, <2>4 DEF RequestSampling
  <1>6. ASSUME NEW id \in Ids, HandlerReturns(id) PROVE Waits'
    <2>1. \A n \in pending : asker[n] # id
      BY <1>6 DEF HandlerReturns, WaitingOn
    <2> QED BY <1>6, <2>1 DEF HandlerReturns, Waits, askVars
  <1>7. ASSUME NEW id \in Ids, Serve(id), ~HandlerReturns(id) PROVE Waits'
    BY <1>2, <1>7
    DEF Serve, HandleMessage, WorkerFinishes, handleRequest, InlineFinishes, askVars
  <1>8. CASE TakeWork
    <2>1. Head(queue) \in Ids /\ at[Head(queue)] = "waiting"
      BY <1>8, NextInQueue DEF TakeWork
    <2> QED BY <1>2, <1>8, <2>1 DEF TakeWork, askVars
  <1> QED
    BY <1>1, <1>3, <1>4, <1>5, <1>6, <1>7, <1>8
    DEF Next, handleNotification, ReadReply, WaitEnds, EchoFinishes, InputEnds,
        Cancel, CloseQueue, ListenReturns, reqVars, askVars, vars

\* What is served as a request stays what was read.
LEMMA EchoRepliedStep ==
  ASSUME TypeInv, EchoReplied, [Next]_vars
  PROVE  EchoReplied'
  <1> USE DEF TypeInv, TypeOK
  <1>1. CASE UNCHANGED <<echo, replied>>
    BY <1>1 DEF EchoReplied
  <1>2. ASSUME NEW n \in Asks, NEW kind \in {"result", "error"}, ReadReply(n, kind)
        PROVE  EchoReplied'
    BY <1>2 DEF ReadReply, EchoReplied
  <1>3. ASSUME NEW n \in Asks, EchoFinishes(n) PROVE EchoReplied'
    BY <1>3 DEF EchoFinishes, EchoReplied, askVars
  <1> QED
    BY <1>1, <1>2, <1>3
    DEF Next, Serve, ReadCall, ReadRequest, handleNotification, RequestSampling, WaitEnds,
        HandleMessage, HandlerReturns, WorkerFinishes, handleRequest, InlineFinishes,
        TakeWork, InputEnds, Cancel, CloseQueue, ListenReturns, askVars, vars

\* Every step counts the responses right, that to a late error reply included.
LEMMA CountedStep ==
  ASSUME TypeInv, Queued, EchoReplied, Counted, [Next]_vars
  PROVE  Counted'
  <1> USE DEF TypeInv, TypeOK
  <1> DEFINE Late(id) == IF Rejected(id) THEN 1 ELSE 0
  <1>a. \A id \in Ids : id \in Keys /\ answers[id] \in Nat /\ Written(id) \in 0..1
                        /\ Late(id) \in 0..1 /\ answers[id] = Written(id) + Late(id)
    BY DEF Counted, Written, Keys
  <1>b. ASSUME UNCHANGED <<echo, replied>> PROVE \A id \in Ids : Late(id)' = Late(id)
    BY <1>b DEF Rejected
  <1>c. ASSUME NEW id \in Ids, UNCHANGED <<echo, replied>>,
               \A other \in Ids : other # id =>
                 /\ at'[other] = at[other] /\ by'[other] = by[other]
                 /\ answers'[other] = answers[other],
               \/ answers'[id] = answers[id] /\ Written(id)' = Written(id)
               \/ answers'[id] = answers[id] + 1 /\ Written(id)' = 1 /\ Written(id) = 0
        PROVE  Counted'
    <2>1. ASSUME NEW other \in Ids, other # id
          PROVE  answers'[other] = Written(other)' + Late(other)'
      <3>1. Written(other)' = Written(other)
        BY <1>c, <2>1 DEF Written
      <3>2. Late(other)' = Late(other) /\ answers'[other] = answers[other]
        BY <1>b, <1>c, <2>1
      <3> HIDE DEF Late
      <3> QED BY <1>a, <3>1, <3>2
    <2>2. answers'[id] = Written(id)' + Late(id)'
      <3>1. Late(id)' = Late(id)
        BY <1>b, <1>c
      <3>2. answers[id] = Written(id) + Late(id) /\ Written(id) \in 0..1 /\ Late(id) \in 0..1
        BY <1>a
      <3>3. CASE answers'[id] = answers[id] /\ Written(id)' = Written(id)
        BY <3>1, <3>2, <3>3
      <3>4. CASE answers'[id] = answers[id] + 1 /\ Written(id)' = 1 /\ Written(id) = 0
        <4> HIDE DEF Late
        <4> QED BY <3>1, <3>2, <3>4
      <3> QED BY <1>c, <3>3, <3>4
    <2> QED BY <2>1, <2>2 DEF Counted
  <1>1. ASSUME UNCHANGED <<answers, at, by, echo, replied>> PROVE Counted'
    BY <1>1 DEF Counted, Written, Rejected
  <1>2. ASSUME NEW id \in Calls, ReadCall(id) PROVE Counted'
    <2>1. id \in Ids /\ at[id] = "unsent"
      BY <1>2 DEF ReadCall, NextCall, Ids
    <2>2. /\ at'[id] \in {"waiting", "refused"} /\ UNCHANGED <<answers, echo, replied>>
          /\ \A other \in Ids : other # id =>
               at'[other] = at[other] /\ by'[other] = by[other]
      BY <1>2, <2>1 DEF ReadCall, askVars
    <2>3. Written(id)' = Written(id)
      BY <2>1, <2>2 DEF Written
    <2> QED BY <1>c, <2>1, <2>2, <2>3
  <1>3. ASSUME NEW id \in Requests, ReadRequest(id) PROVE Counted'
    <2>1. id \in Ids /\ UNCHANGED <<answers, echo, replied>>
          /\ \A other \in Ids : other # id =>
               at'[other] = at[other] /\ by'[other] = by[other]
      BY <1>3 DEF ReadRequest, Ids, askVars
    <2>2. Written(id)' = Written(id)
      BY <1>3, <2>1 DEF ReadRequest, Written
    <2> QED BY <1>c, <2>1, <2>2
  <1>4. ASSUME NEW id \in Ids, HandleMessage(id) \/ HandlerReturns(id) PROVE Counted'
    <2>1. /\ UNCHANGED <<answers, by, echo, replied>> /\ at[id] \in {"waiting", "running"}
          /\ at' = [at EXCEPT ![id] = "running"] \/ at' = [at EXCEPT ![id] = "returning"]
      BY <1>4 DEF HandleMessage, HandlerReturns, askVars
    <2>2. Written(id)' = Written(id) /\ \A other \in Ids : other # id => at'[other] = at[other]
      BY <2>1 DEF Written
    <2> QED BY <1>c, <2>1, <2>2
  <1>5. ASSUME NEW id \in Ids, WorkerFinishes(id) \/ handleRequest(id) \/ InlineFinishes(id)
        PROVE  Counted'
    <2>1. UNCHANGED <<by, echo, replied>> /\ \A other \in Ids : other # id => at'[other] = at[other]
      BY <1>5 DEF WorkerFinishes, handleRequest, InlineFinishes, askVars
    <2>2. \/ UNCHANGED answers /\ Written(id)' = Written(id)
          \/ answers' = [answers EXCEPT ![id] = @ + 1] /\ Written(id)' = 1 /\ Written(id) = 0
      <3>1. CASE WorkerFinishes(id)
        BY <3>1 DEF WorkerFinishes, writeResponse, Written
      <3>2. CASE handleRequest(id)
        BY <3>2 DEF handleRequest, writeResponse, Written
      <3>3. CASE InlineFinishes(id)
        BY <3>3 DEF InlineFinishes, writeResponse, Written
      <3> QED BY <1>5, <3>1, <3>2, <3>3
    <2>3. \A other \in Ids : other # id => answers'[other] = answers[other]
      BY <2>2, <1>a
    <2>4. \/ answers'[id] = answers[id] /\ Written(id)' = Written(id)
          \/ answers'[id] = answers[id] + 1 /\ Written(id)' = 1 /\ Written(id) = 0
      BY <2>2, <1>a
    <2> HIDE DEF Written
    <2> QED BY <1>c, <2>1, <2>3, <2>4
  <1>6. ASSUME NEW n \in Asks, EchoFinishes(n) PROVE Counted'
    <2>1. UNCHANGED <<at, by, replied>> /\ \A m \in Asks : m # n => echo'[m] = echo[m]
      BY <1>6 DEF EchoFinishes, reqVars, askVars
    <2>2. \A id \in Ids : Written(id)' = Written(id)
      BY <2>1 DEF Written
    <2>3. \A id \in Ids : id # n => Late(id)' = Late(id)
      BY <2>1 DEF Rejected
    <2>4. \A id \in Ids : id # n => answers'[id] = answers[id]
      BY <1>6, <1>a DEF EchoFinishes, writeResponse
    <2>5. n \in Ids => \/ answers'[n] = answers[n] /\ Late(n)' = Late(n)
                       \/ answers'[n] = answers[n] + 1 /\ Late(n)' = 1 /\ Late(n) = 0
      <3>1. CASE echo[n] = "spawned" /\ replied[n] = "error"
        <4>1. Rejected(n)' /\ ~Rejected(n)
          BY <1>6, <2>1, <3>1 DEF EchoFinishes, Rejected
        <4>2. answers' = [answers EXCEPT ![n] = @ + 1]
          BY <1>6, <3>1 DEF EchoFinishes, writeResponse
        <4> QED BY <4>1, <4>2, <1>a
      <3>2. CASE ~(echo[n] = "spawned" /\ replied[n] = "error")
        <4>1. Rejected(n)' <=> Rejected(n)
          BY <1>6, <2>1, <3>2 DEF EchoFinishes, Rejected
        <4>2. UNCHANGED answers
          BY <1>6, <3>2 DEF EchoFinishes
        <4> QED BY <4>1, <4>2
      <3> QED BY <3>1, <3>2
    <2>6. ASSUME NEW id \in Ids PROVE answers'[id] = Written(id)' + Late(id)'
      <3>1. answers[id] = Written(id) + Late(id) /\ Written(id) \in 0..1 /\ Late(id) \in 0..1
            /\ Written(id)' = Written(id)
        BY <1>a, <2>2
      <3>2. CASE id # n
        BY <2>3, <2>4, <3>1, <3>2
      <3>3. CASE id = n /\ answers'[id] = answers[id] /\ Late(id)' = Late(id)
        BY <3>1, <3>3
      <3>4. CASE id = n /\ answers'[id] = answers[id] + 1 /\ Late(id)' = 1 /\ Late(id) = 0
        <4> HIDE DEF Late
        <4> QED BY <3>1, <3>4
      <3>5. \/ id # n
            \/ id = n /\ answers'[id] = answers[id] /\ Late(id)' = Late(id)
            \/ id = n /\ answers'[id] = answers[id] + 1 /\ Late(id)' = 1 /\ Late(id) = 0
        BY <2>5
      <3> QED BY <3>2, <3>3, <3>4, <3>5
    <2> QED BY <2>6 DEF Counted
  <1>7. ASSUME NEW n \in Asks, NEW kind \in {"result", "error"}, ReadReply(n, kind)
        PROVE  Counted'
    <2>1. UNCHANGED <<answers, at, by>> /\ echo[n] = "none" /\ echo'[n] \in {"none", "spawned"}
          /\ \A m \in Asks : m # n => echo'[m] = echo[m] /\ replied'[m] = replied[m]
      BY <1>7 DEF ReadReply, reqVars, EchoReplied
    <2>2. \A id \in Ids : Rejected(id)' <=> Rejected(id)
      BY <2>1 DEF Rejected
    <2> QED BY <2>1, <2>2 DEF Counted, Written
  <1>8. CASE TakeWork
    <2>1. PICK id \in Ids : id = Head(queue) /\ at[id] = "waiting"
      BY <1>8, NextInQueue DEF TakeWork
    <2>2. UNCHANGED <<answers, by, echo, replied>> /\ at' = [at EXCEPT ![id] = "running"]
      BY <1>8, <2>1 DEF TakeWork, askVars
    <2>3. Written(id)' = Written(id) /\ \A other \in Ids : other # id => at'[other] = at[other]
      BY <2>1, <2>2 DEF Written
    <2> QED BY <1>c, <2>1, <2>2, <2>3
  <1> QED
    BY <1>1, <1>2, <1>3, <1>4, <1>5, <1>6, <1>7, <1>8
    DEF Next, Serve, handleNotification, RequestSampling, WaitEnds,
        InputEnds, Cancel, CloseQueue, ListenReturns, reqVars, askVars, vars

\* A step that keeps a request's entry, or leaves it to a late reply, keeps what
\* is known of the cancel functions.
LEMMA TrackedKept ==
  ASSUME Tracked, ctxDone => ctxDone', UNCHANGED <<at, outer, inner, cancels>>,
         displaced \subseteq displaced', displaced' \subseteq Ids,
         \A id \in displaced' : id \in displaced \/ at[id] \in {"waiting", "running"},
         \A id \in Ids : \/ inflight'[id] = inflight[id]
                         \/ at[id] \notin {"waiting", "running"}
                         \/ id \in displaced'
  PROVE  Tracked'
  BY DEF Tracked, Cancelled

\* Every step keeps the cancel functions of the requests in flight reachable, but
\* for those a late reply displaces.
LEMMA TrackedStep ==
  ASSUME TypeInv, Queued, Tracked, [Next]_vars
  PROVE  Tracked'
  <1> USE DEF TypeInv, TypeOK
  <1>1. ASSUME ctxDone => ctxDone', UNCHANGED <<at, outer, inner, cancels, displaced, inflight>>
        PROVE  Tracked'
    BY <1>1, TrackedKept
  <1>2. ASSUME NEW id \in Calls, ReadCall(id) PROVE Tracked'
    <2>1. id \in Ids /\ at[id] = "unsent" /\ id \notin cancels
      BY <1>2 DEF ReadCall, NextCall, Ids, Tracked
    <2>2. /\ \A other \in Ids : other # id => at'[other] = at[other]
          /\ UNCHANGED <<ctxDone, cancels, displaced, outer, inner>>
      BY <1>2 DEF ReadCall
    <2>3. \A other \in Ids : other # id => inflight'[other] = inflight[other]
      BY <1>2 DEF ReadCall, trackInflight, Keys
    <2>4. \/ at'[id] = "waiting" /\ inflight'[id] = [id |-> id, of |-> "outer"]
          \/ at'[id] = "refused" /\ inflight'[id] = Nothing
      BY <1>2, <2>1 DEF ReadCall, trackInflight, Keys
    <2>5. \A other \in Ids : Cancelled(other) => Cancelled(other)'
      BY <2>2 DEF Cancelled
    <2> QED BY <2>1, <2>2, <2>3, <2>4, <2>5 DEF Tracked
  <1>3. ASSUME NEW id \in Requests, ReadRequest(id) PROVE Tracked'
    <2>1. id \in Ids /\ at[id] = "unsent" /\ id \notin cancels
      BY <1>3 DEF ReadRequest, Ids, Tracked
    <2> QED BY <1>3, <2>1 DEF ReadRequest, trackInflight, Tracked, Cancelled, Keys
  <1>4. ASSUME NEW id \in Ids, handleNotification(id) PROVE Tracked'
    <2> DEFINE c == inflight[id]
    <2>1. \A other \in Ids : (outer[other] => outer'[other]) /\ (inner[other] => inner'[other])
      BY <1>4 DEF handleNotification
    <2>2. /\ inflight'[id] = Nothing
          /\ \A other \in Ids : other # id => inflight'[other] = inflight[other]
      BY <1>4 DEF handleNotification, Keys
    <2>3. /\ UNCHANGED <<at, ctxDone, displaced>> /\ id \notin cancels /\ at[id] # "unsent"
          /\ cancels' = IF at[id] \in {"waiting", "running"}
                        THEN cancels \union {id} ELSE cancels
      BY <1>4 DEF handleNotification
    <2>4. id \notin displaced /\ at[id] \in {"waiting", "running"} =>
            c.id = id /\ c.of \in {"outer", "inner"}
      <3>1. \/ id \in displaced \/ at[id] \notin {"waiting", "running"}
            \/ c = [id |-> id, of |-> "outer"]
            \/ c = [id |-> id, of |-> "inner"]
        BY <2>3 DEF Tracked
      <3> QED BY <3>1
    <2>5. id \notin displaced /\ at[id] \in {"waiting", "running"} => outer'[id] \/ inner'[id]
      BY <1>4, <2>4 DEF handleNotification
    <2> HIDE DEF c
    <2>6. \A other \in Ids : Cancelled(other) => Cancelled(other)'
      BY <2>1, <2>3 DEF Cancelled
    <2> QED BY <2>2, <2>3, <2>5, <2>6 DEF Tracked, Cancelled
  <1>5. ASSUME NEW id \in Ids, HandleMessage(id) PROVE Tracked'
    BY <1>5 DEF HandleMessage, Tracked, Cancelled, Keys
  <1>6. ASSUME NEW id \in Ids, HandlerReturns(id) PROVE Tracked'
    BY <1>6 DEF HandlerReturns, Tracked, Cancelled, Keys
  <1>7. ASSUME NEW id \in Ids, WorkerFinishes(id) \/ handleRequest(id) \/ InlineFinishes(id)
        PROVE  Tracked'
    <2>1. /\ at'[id] \in {"closing", "done"}
          /\ \A other \in Ids : other # id => at'[other] = at[other]
          /\ UNCHANGED <<ctxDone, cancels, displaced, inner>> /\ at[id] # "unsent"
      BY <1>7 DEF WorkerFinishes, handleRequest, InlineFinishes
    <2>2. \A other \in Ids : other # id => inflight'[other] = inflight[other]
      BY <1>7 DEF WorkerFinishes, handleRequest, InlineFinishes, untrack, Keys
    <2>3. \A other \in Ids : outer[other] => outer'[other]
      BY <1>7 DEF WorkerFinishes, handleRequest, InlineFinishes, untrack
    <2>4. \A other \in Ids : Cancelled(other) => Cancelled(other)'
      BY <2>1, <2>3 DEF Cancelled
    <2> QED BY <2>1, <2>2, <2>4 DEF Tracked
  <1>8. ASSUME NEW n \in Asks, Displaces(n), UNCHANGED <<reqVars, cancels, ctxDone>>,
               \A k \in Keys : k # n => inflight'[k] = inflight[k]
        PROVE  Tracked'
    <2>1. /\ displaced \subseteq displaced' /\ displaced' \subseteq Ids
          /\ \A id \in displaced' : id \in displaced \/ at[id] \in {"waiting", "running"}
      BY <1>8 DEF Displaces
    <2>2. \A id \in Ids : \/ inflight'[id] = inflight[id]
                          \/ at[id] \notin {"waiting", "running"}
                          \/ id \in displaced'
      BY <1>8 DEF Displaces, Keys
    <2> QED BY <1>8, <2>1, <2>2, TrackedKept DEF reqVars
  <1>9. ASSUME NEW n \in Asks, EchoFinishes(n) PROVE Tracked'
    <2>1. UNCHANGED <<reqVars, cancels, ctxDone>>
      BY <1>9 DEF EchoFinishes
    <2>2. \/ Displaces(n) /\ inflight' = [inflight EXCEPT ![n] = Nothing]
          \/ UNCHANGED <<displaced, inflight>>
      BY <1>9 DEF EchoFinishes
    <2>3. CASE Displaces(n) /\ inflight' = [inflight EXCEPT ![n] = Nothing]
      BY <1>8, <2>1, <2>3
    <2>4. CASE UNCHANGED <<displaced, inflight>>
      BY <1>1, <2>1, <2>4 DEF reqVars
    <2> QED BY <2>2, <2>3, <2>4
  <1>10. ASSUME NEW n \in Asks, NEW kind \in {"result", "error"}, ReadReply(n, kind)
         PROVE  Tracked'
    <2>1. UNCHANGED <<reqVars, cancels, ctxDone>>
      BY <1>10 DEF ReadReply
    <2>2. \/ Displaces(n) /\ inflight' = [inflight EXCEPT ![n] = [id |-> None, of |-> "echo"]]
          \/ UNCHANGED <<displaced, inflight>>
      BY <1>10 DEF ReadReply, trackInflight
    <2>3. CASE Displaces(n) /\ inflight' = [inflight EXCEPT ![n] = [id |-> None, of |-> "echo"]]
      BY <1>8, <2>1, <2>3
    <2>4. CASE UNCHANGED <<displaced, inflight>>
      BY <1>1, <2>1, <2>4 DEF reqVars
    <2> QED BY <2>2, <2>3, <2>4
  <1>11. CASE TakeWork
    <2>1. Head(queue) \in Ids /\ at[Head(queue)] = "waiting"
      BY <1>11, NextInQueue DEF TakeWork
    <2> QED BY <1>11, <2>1 DEF TakeWork, Tracked, Cancelled, Keys
  <1> QED
    BY <1>1, <1>2, <1>3, <1>4, <1>5, <1>6, <1>7, <1>9, <1>10, <1>11
    DEF Next, Serve, RequestSampling, WaitEnds, InputEnds, Cancel, CloseQueue,
        ListenReturns, reqVars, vars

\* Every step keeps the entries to requests in flight and late replies being
\* served: whoever leaves takes what is under its number along.
LEMMA EntriesStep ==
  ASSUME TypeInv, Queued, EchoReplied, Entries, [Next]_vars
  PROVE  Entries'
  <1> USE DEF TypeInv, TypeOK
  <1>1. ASSUME UNCHANGED <<inflight, at, echo>> PROVE Entries'
    BY <1>1 DEF Entries, Owned
  <1>2. ASSUME NEW id \in Ids, UNCHANGED echo,
               \A other \in Ids : other # id => at'[other] = at[other],
               \A k \in Keys : k # id => inflight'[k] = inflight[k],
               \/ inflight'[id] = Nothing
               \/ at'[id] \in {"waiting", "running"}
               \/ inflight'[id] = inflight[id] /\ at[id] \notin {"waiting", "running"}
        PROVE  Entries'
    BY <1>2 DEF Entries, Owned, Keys
  <1>3. ASSUME NEW id \in Calls, ReadCall(id) PROVE Entries'
    <2>1. id \in Ids
      BY DEF Ids
    <2> QED BY <1>2, <1>3, <2>1 DEF ReadCall, trackInflight, Keys
  <1>4. ASSUME NEW id \in Requests, ReadRequest(id) PROVE Entries'
    BY <1>2, <1>4 DEF ReadRequest, trackInflight, Ids
  <1>5. ASSUME NEW id \in Ids, handleNotification(id) PROVE Entries'
    BY <1>2, <1>5 DEF handleNotification, Keys
  <1>6. ASSUME NEW id \in Ids, Serve(id) PROVE Entries'
    BY <1>2, <1>6
    DEF Serve, HandleMessage, HandlerReturns, WorkerFinishes, handleRequest,
        InlineFinishes, untrack, Keys
  <1>7. ASSUME NEW n \in Asks, UNCHANGED at, \A m \in Asks : m # n => echo'[m] = echo[m],
               \A k \in Keys : k # n => inflight'[k] = inflight[k],
               \/ inflight'[n] = Nothing
               \/ echo'[n] \in {"spawned", "closing"}
               \/ inflight'[n] = inflight[n] /\ echo'[n] = echo[n]
        PROVE  Entries'
    BY <1>7 DEF Entries, Owned, Keys
  <1>8. ASSUME NEW n \in Asks, NEW kind \in {"result", "error"}, ReadReply(n, kind)
        PROVE  Entries'
    BY <1>7, <1>8 DEF ReadReply, trackInflight, reqVars
  <1>9. ASSUME NEW n \in Asks, EchoFinishes(n) PROVE Entries'
    BY <1>7, <1>9 DEF EchoFinishes, reqVars, Keys
  <1>10. CASE TakeWork
    <2>1. Head(queue) \in Ids
      BY <1>10, NextInQueue DEF TakeWork
    <2> QED BY <1>2, <1>10, <2>1 DEF TakeWork
  <1> QED
    BY <1>1, <1>3, <1>4, <1>5, <1>6, <1>8, <1>9, <1>10
    DEF Next, RequestSampling, WaitEnds, InputEnds, Cancel, CloseQueue,
        ListenReturns, reqVars, vars

\* Nothing moves any more once Listen has returned.
LEMMA JoinedStep ==
  ASSUME TypeInv, Queued, Inline, Joined, [Next]_vars
  PROVE  Joined'
  <1> USE DEF TypeInv, TypeOK
  <1>1. CASE loop = "returned"
    <2>1. /\ queue = <<>>
          /\ \A id \in Ids : at[id] \in {"unsent", "refused", "done"}
          /\ \A n \in Asks : echo[n] \in {"none", "done"}
      BY <1>1 DEF Joined
    <2>2. /\ \A id \in Ids : ~Serve(id)
          /\ \A n \in Asks : ~EchoFinishes(n)
          /\ ~TakeWork
      BY <2>1 DEF Serve, HandleMessage, HandlerReturns, WorkerFinishes,
         handleRequest, InlineFinishes, EchoFinishes, TakeWork
    <2>3. UNCHANGED <<queue, at, echo>>
      BY <1>1, <2>2 DEF Next, ReadCall, ReadRequest, handleNotification,
         RequestSampling, ReadReply, WaitEnds, InputEnds, Cancel, CloseQueue,
         ListenReturns, reqVars, vars
    <2> QED BY <2>1, <2>3 DEF Joined
  <1>2. CASE loop # "returned" /\ ListenReturns
    BY <1>2 DEF ListenReturns, Joined, reqVars
  <1>3. CASE loop # "returned" /\ ~ListenReturns
    <2>1. loop' # "returned"
      BY <1>3 DEF Next, Serve, ReadCall, ReadRequest, handleNotification,
         RequestSampling, ReadReply, WaitEnds, InputEnds, Cancel, CloseQueue,
         HandleMessage, HandlerReturns, WorkerFinishes, handleRequest,
         InlineFinishes, EchoFinishes, TakeWork, afterMessage, vars
    <2> QED BY <2>1 DEF Joined
  <1> QED BY <1>1, <1>2, <1>3

-----------------------------------------------------------------------------
\* TypeInv and ServeInv hold in every reachable state.
LEMMA ServeInvariance == Spec => [](TypeInv /\ ServeInv)
  <1>1. Init => TypeInv /\ ServeInv
    <2> SUFFICES ASSUME Init PROVE ServeInv
      BY TypeInit
    <2>1. Queued /\ Inline /\ Waits /\ Joined /\ EchoReplied
      BY DEF Init, Queued, Inline, Waits, Joined, EchoReplied
    <2>2. Counted /\ Tracked /\ Entries
      BY DEF Init, Counted, Written, Rejected, Tracked, Entries, Owned, Keys
    <2> QED BY <2>1, <2>2 DEF ServeInv
  <1>2. TypeInv /\ ServeInv /\ [Next]_vars => (TypeInv /\ ServeInv)'
    BY TypeStep, QueuedStep, InlineStep, WaitsStep, EchoRepliedStep, CountedStep, TrackedStep,
       EntriesStep, JoinedStep
    DEF ServeInv
  <1> QED BY <1>1, <1>2, PTL DEF Spec

\* A cancellation the read loop has read reaches its request, at whatever point
\* of its way from the queue to the handler, unless a reply nobody waits for has
\* its number and came meanwhile (trackInflight, HandleMessage,
\* handleNotification).
THEOREM StdioCancellation == Spec => []CancellationLostOnlyToLateReply
  <1>1. TypeInv /\ ServeInv => CancellationLostOnlyToLateReply
    BY DEF TypeInv, TypeOK, ServeInv, Tracked, CancellationLostOnlyToLateReply
  <1> QED BY <1>1, ServeInvariance, PTL

\* Listen returns with every accepted request answered exactly once and nothing
\* left waiting or registered, whatever the requests' numbers (Listen,
\* toolCallWorker, handleRequest).
THEOREM StdioListenLeavesNothing == Spec => []ListenLeavesNothing
  <1>1. TypeInv /\ ServeInv => ListenLeavesNothing
    <2> SUFFICES ASSUME TypeInv, ServeInv, loop = "returned"
                 PROVE  /\ \A id \in Ids :
                             \/ at[id] \in {"unsent", "refused"}
                             \/ at[id] = "done" /\ answers[id] = IF Rejected(id) THEN 2 ELSE 1
                        /\ pending = {}
                        /\ \A k \in Keys : inflight[k] = Nothing
      BY DEF ListenLeavesNothing
    <2>1. /\ \A id \in Ids : at[id] \in {"unsent", "refused", "done"}
          /\ \A n \in Asks : echo[n] \in {"none", "done"}
      BY DEF ServeInv, Joined
    <2>2. pending = {}
      BY <2>1 DEF ServeInv, Waits
    <2>3. \A id \in Ids : at[id] = "done" => answers[id] = IF Rejected(id) THEN 2 ELSE 1
      BY DEF ServeInv, Counted, Written
    <2>4. \A k \in Keys : inflight[k] = Nothing
      BY <2>1 DEF ServeInv, Entries, Owned
    <2> QED BY <2>1, <2>2, <2>3, <2>4
  <1> QED BY <1>1, ServeInvariance, PTL
=============================================================================
