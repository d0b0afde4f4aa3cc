----------------------------- MODULE SseProofs -----------------------------
(***************************************************************************)
(* Proofs about Sse for any number of callers of Start, of requests, and   *)
(* any capacity of the event queue.                                        *)
(***************************************************************************)
EXTENDS Sse, TLAPS

\* One attempt is in flight at a time, and none once the transport has started.
OneAttempt ==
  \A s \in Starters :
    start[s] \in {"owner", "connecting", "awaiting"} => startDone = s /\ ~started

\* A context that is live is the one cancelSSEStream cancels.
LiveIsPublished ==
  \A a \in live : /\ canceler = a
                  /\ \/ start[a] \in {"connecting", "awaiting"}
                     \/ start[a] = "ok" /\ started

\* Close flips "closed" before it does anything else.
ClosedFirst == closing # "none" => closed

Lifecycle == OneAttempt /\ LiveIsPublished /\ ClosedFirst /\ NoStreamOutlivesClose
LifecycleInv == TypeOK /\ Lifecycle

-----------------------------------------------------------------------------
(* Types. *)

LEMMA TypeInit == Init => TypeOK
  <1> SUFFICES ASSUME Init PROVE TypeOK
    OBVIOUS
  <1>1. /\ eventQueue \in [Attempts -> Seq(Events)] /\ wire \in [Attempts -> Seq(Events)]
        /\ \A a \in Attempts : Len(eventQueue[a]) = 0
    BY DEF Init
  <1>2. feeder \in [Attempts -> [Feeders -> {"idle", "holding", "gone"}]]
    BY DEF Init
  <1>3. fed \in 0..MaxFed
    BY SseAssumption DEF SseAssumption, Init
  <1>4. \A a \in Attempts : Len(eventQueue[a]) \in 0..QueueCap
    BY <1>1, SseAssumption DEF SseAssumption
  <1>5. /\ start \in [Starters -> {"idle", "waiting", "owner", "connecting", "awaiting", "ok", "failed"}]
        /\ joined \in [Starters -> Attempts \union {None}]
        /\ reader \in [Attempts -> {"none", "on", "off"}]
        /\ serving \in [Attempts -> {"none", "on", "off"}]
    BY DEF Init
  <1>6. /\ req \in [Requests -> {"idle", "checked", "registered", "waiting", "answered", "error"}]
        /\ to \in [Requests -> Attempts \union {None}]
        /\ channel \in [Requests -> {"none", "open", "response", "closed"}]
        /\ handling \in [Requests -> {"none", "running", "queueing", "over"}]
    BY DEF Init
  <1> QED
    BY <1>1, <1>2, <1>3, <1>4, <1>5, <1>6 DEF Init, TypeOK

\* A queue of events that gets one more, or gives its first away.
LEMMA Appended ==
  ASSUME NEW q \in [Attempts -> Seq(Events)], NEW a \in Attempts, NEW e \in Events
  PROVE  /\ [q EXCEPT ![a] = Append(@, e)] \in [Attempts -> Seq(Events)]
         /\ Len(Append(q[a], e)) = Len(q[a]) + 1
  OBVIOUS

LEMMA Removed ==
  ASSUME NEW q \in [Attempts -> Seq(Events)], NEW a \in Attempts, q[a] # <<>>
  PROVE  /\ [q EXCEPT ![a] = Tail(@)] \in [Attempts -> Seq(Events)]
         /\ Len(Tail(q[a])) = Len(q[a]) - 1
         /\ Head(q[a]) \in Events
  OBVIOUS

\* The queue keeps to its capacity when a queue with room gets an event.
LEMMA QueueGrows ==
  ASSUME TypeOK, NEW a \in Attempts, NEW e \in Events, Len(eventQueue[a]) < QueueCap,
         eventQueue' = [eventQueue EXCEPT ![a] = Append(@, e)]
  PROVE  /\ eventQueue' \in [Attempts -> Seq(Events)]
         /\ \A b \in Attempts : Len(eventQueue'[b]) \in 0..QueueCap
  <1>1. eventQueue \in [Attempts -> Seq(Events)] /\ QueueCap \in Nat
        /\ \A b \in Attempts : Len(eventQueue[b]) \in 0..QueueCap
    BY SseAssumption DEF SseAssumption, TypeOK
  <1>2. eventQueue' \in [Attempts -> Seq(Events)] /\ Len(Append(eventQueue[a], e)) = Len(eventQueue[a]) + 1
    BY <1>1, Appended
  <1>3. \A b \in Attempts : eventQueue'[b] = IF b = a THEN Append(eventQueue[a], e) ELSE eventQueue[b]
    BY <1>1
  <1>4. \A b \in Attempts : Len(eventQueue'[b]) \in 0..QueueCap
    BY <1>1, <1>2, <1>3
  <1> QED BY <1>2, <1>4

LEMMA QueueShrinks ==
  ASSUME TypeOK, NEW a \in Attempts, eventQueue[a] # <<>>,
         eventQueue' = [eventQueue EXCEPT ![a] = Tail(@)]
  PROVE  /\ eventQueue' \in [Attempts -> Seq(Events)]
         /\ \A b \in Attempts : Len(eventQueue'[b]) \in 0..QueueCap
  <1>1. eventQueue \in [Attempts -> Seq(Events)] /\ QueueCap \in Nat
        /\ \A b \in Attempts : Len(eventQueue[b]) \in 0..QueueCap
    BY SseAssumption DEF SseAssumption, TypeOK
  <1>2. eventQueue' \in [Attempts -> Seq(Events)] /\ Len(Tail(eventQueue[a])) = Len(eventQueue[a]) - 1
    BY <1>1, Removed
  <1>3. \A b \in Attempts : eventQueue'[b] = IF b = a THEN Tail(eventQueue[a]) ELSE eventQueue[b]
    BY <1>1
  <1>4. Len(eventQueue[a]) # 0 /\ Len(eventQueue[a]) \in Nat
    BY <1>1
  <1>5. \A b \in Attempts : Len(eventQueue'[b]) \in 0..QueueCap
    BY <1>1, <1>2, <1>3, <1>4
  <1> QED BY <1>2, <1>5

LEMMA TypeStep == TypeOK /\ [Next]_vars => TypeOK'
  <1> SUFFICES ASSUME TypeOK, [Next]_vars PROVE TypeOK'
    OBVIOUS
  <1> USE DEF Attempts
  <1>1. ASSUME NEW s \in Starters, Enter(s) PROVE TypeOK'
    <2>1. UNCHANGED <<started, canceler, seen, clientVars, reqVars, closeVars, live, streamVars, queueVars, handling>>
      BY <1>1 DEF Enter
    <2>2. /\ start' \in [Starters -> {"idle", "waiting", "owner", "connecting", "awaiting", "ok", "failed"}]
          /\ joined' \in [Starters -> Attempts \union {None}] /\ startDone' \in Attempts \union {None}
      BY <1>1 DEF Enter, TypeOK
    <2> QED BY <2>1, <2>2 DEF TypeOK, startVars, clientVars, reqVars, closeVars, streamVars, queueVars
  <1>2. ASSUME NEW s \in Starters, Rejoin(s) PROVE TypeOK'
    BY <1>2 DEF TypeOK, Rejoin, startVars, clientVars, reqVars, closeVars, streamVars, queueVars
  <1>3. ASSUME NEW s \in Starters, Publish(s) PROVE TypeOK'
    <2>1. UNCHANGED <<joined, started, seen, clientVars, reqVars, closeVars, streamVars, queueVars, handling>>
      BY <1>3 DEF Publish
    <2>2. /\ start' \in [Starters -> {"idle", "waiting", "owner", "connecting", "awaiting", "ok", "failed"}]
          /\ startDone' \in Attempts \union {None} /\ canceler' \in Attempts \union {None} /\ live' \subseteq Attempts
      <3>1. CASE closed
        BY <1>3, <3>1 DEF Publish, TypeOK
      <3>2. CASE ~closed
        <4>1. /\ start' = [start EXCEPT ![s] = "connecting"] /\ canceler' = s
              /\ live' = live \union {s} /\ startDone' = startDone
          BY <1>3, <3>2 DEF Publish
        <4>2. start' \in [Starters -> {"idle", "waiting", "owner", "connecting", "awaiting", "ok", "failed"}]
          BY <4>1 DEF TypeOK
        <4> QED BY <4>1, <4>2 DEF TypeOK
      <3> QED BY <3>1, <3>2
    <2> QED BY <2>1, <2>2 DEF TypeOK, startVars, clientVars, reqVars, closeVars, streamVars, queueVars
  <1>4. ASSUME NEW s \in Starters, Connected(s) PROVE TypeOK'
    BY <1>4 DEF TypeOK, Connected, startVars, clientVars, reqVars, closeVars, streamVars, queueVars
  <1>5. ASSUME NEW s \in Starters, AttemptFails(s) PROVE TypeOK'
    BY <1>5 DEF TypeOK, AttemptFails, startVars, clientVars, reqVars, closeVars, streamVars, queueVars
  <1>6. ASSUME NEW s \in Starters, Succeed(s) PROVE TypeOK'
    BY <1>6 DEF TypeOK, Succeed, startVars, clientVars, reqVars, closeVars, streamVars, queueVars
  <1>7. ASSUME NEW s \in Starters, StartContextEnds(s) PROVE TypeOK'
    BY <1>7 DEF TypeOK, StartContextEnds, startVars, clientVars, reqVars, closeVars, streamVars, queueVars
  <1>8. ASSUME NEW r \in Requests, Check(r) PROVE TypeOK'
    BY <1>8 DEF TypeOK, Check, startVars, clientVars, reqVars, closeVars, streamVars, queueVars
  <1>9. ASSUME NEW r \in Requests, Register(r) PROVE TypeOK'
    BY <1>9 DEF TypeOK, Register, startVars, clientVars, reqVars, closeVars, streamVars, queueVars
  <1>10. ASSUME NEW r \in Requests, PostFails(r) PROVE TypeOK'
    BY <1>10 DEF TypeOK, PostFails, startVars, clientVars, reqVars, closeVars, streamVars, queueVars
  <1>11. ASSUME NEW r \in Requests, Refused(r) PROVE TypeOK'
    BY <1>11 DEF TypeOK, Refused, startVars, clientVars, reqVars, closeVars, streamVars, queueVars
  <1>12. ASSUME NEW r \in Requests, Answered(r) PROVE TypeOK'
    BY <1>12 DEF TypeOK, Answered, startVars, clientVars, reqVars, closeVars, streamVars, queueVars
  <1>13. ASSUME NEW r \in Requests, TimedOut(r) PROVE TypeOK'
    BY <1>13 DEF TypeOK, TimedOut, startVars, clientVars, reqVars, closeVars, streamVars, queueVars
  <1>14. ASSUME NEW r \in Requests, Accept(r) PROVE TypeOK'
    BY <1>14 DEF TypeOK, Accept, startVars, clientVars, reqVars, closeVars, streamVars, queueVars
  <1>15. ASSUME NEW r \in Requests, Respond(r) PROVE TypeOK'
    BY <1>15 DEF TypeOK, Respond, startVars, clientVars, reqVars, closeVars, streamVars, queueVars
  <1>16. ASSUME NEW r \in Requests, Queue(r) PROVE TypeOK'
    <2>1. UNCHANGED <<startVars, clientVars, reqVars, closeVars, live, streamVars, wire, feeder, fed>>
      BY <1>16 DEF Queue
    <2>2. handling' \in [Requests -> {"none", "running", "queueing", "over"}]
      BY <1>16 DEF Queue, TypeOK
    <2>3. CASE to[r] \in Attempts /\ Len(eventQueue[to[r]]) < QueueCap /\ eventQueue' = [eventQueue EXCEPT ![to[r]] = Append(@, <<"response", r>>)]
      <3>1. <<"response", r>> \in Events
        BY DEF Events
      <3>2. PICK a \in Attempts : a = to[r]
        BY <2>3
      <3>3. eventQueue' \in [Attempts -> Seq(Events)] /\ \A b \in Attempts : Len(eventQueue'[b]) \in 0..QueueCap
        BY <2>3, <3>1, <3>2, QueueGrows
      <3> QED BY <2>1, <2>2, <3>3 DEF TypeOK, startVars, clientVars, reqVars, closeVars, streamVars
    <2>4. CASE to[r] \notin Attempts /\ eventQueue' = [eventQueue EXCEPT ![to[r]] = Append(@, <<"response", r>>)]
      <3>1. eventQueue' = eventQueue
        BY <2>4 DEF TypeOK
      <3> QED BY <2>1, <2>2, <3>1 DEF TypeOK, startVars, clientVars, reqVars, closeVars, streamVars
    <2>5. CASE UNCHANGED eventQueue
      BY <2>1, <2>2, <2>5 DEF TypeOK, startVars, clientVars, reqVars, closeVars, streamVars
    <2> QED BY <1>16, <2>3, <2>4, <2>5 DEF Queue
  <1>17. CASE CloseFlip
    BY <1>17 DEF TypeOK, CloseFlip, startVars, clientVars, reqVars, closeVars, streamVars, queueVars
  <1>18. CASE CloseCancel
    BY <1>18 DEF TypeOK, CloseCancel, startVars, clientVars, reqVars, closeVars, streamVars, queueVars
  <1>19. CASE CloseChannels
    BY <1>19 DEF TypeOK, CloseChannels, startVars, clientVars, reqVars, closeVars, streamVars, queueVars
  <1>20. ASSUME NEW a \in Attempts, Read(a) PROVE TypeOK'
    <2>1. UNCHANGED <<start, joined, startDone, started, canceler, reader, req, to, closeVars, live, streamVars, eventQueue, feeder, fed, handling>>
      BY <1>20 DEF Read
    <2>2. wire' \in [Attempts -> Seq(Events)]
      <3>1. wire \in [Attempts -> Seq(Events)] /\ wire[a] # <<>> /\ wire' = [wire EXCEPT ![a] = Tail(@)]
        BY <1>20 DEF Read, TypeOK
      <3> QED BY <3>1, Removed
    <2>3. /\ endpoint' \in Attempts \union {None} /\ seen' \subseteq Attempts
          /\ channel' \in [Requests -> {"none", "open", "response", "closed"}] /\ responses' \subseteq Requests
      <3>1. CASE endpoint' = a /\ seen' = seen \union {a} /\ UNCHANGED <<channel, responses>>
        BY <3>1 DEF TypeOK
      <3>2. CASE \E r \in Requests : Deliver(r) /\ UNCHANGED <<endpoint, seen>>
        BY <3>2 DEF Deliver, TypeOK
      <3>3. CASE UNCHANGED <<endpoint, seen, channel, responses>>
        BY <3>3 DEF TypeOK
      <3>4. Head(wire[a])[1] = "response" => Head(wire[a])[2] \in Requests
        <4>1. wire \in [Attempts -> Seq(Events)] /\ wire[a] # <<>>
          BY <1>20 DEF Read, TypeOK
        <4>2. PICK e \in Events : e = Head(wire[a])
          BY <4>1, Removed
        <4>3. \A k \in Feeders : k # "response"
          BY SseAssumption DEF SseAssumption
        <4> QED BY <4>2, <4>3 DEF Events
      <3> QED BY <1>20, <3>1, <3>2, <3>3, <3>4 DEF Read
    <2> QED BY <2>1, <2>2, <2>3 DEF TypeOK, closeVars, streamVars
  <1>21. ASSUME NEW a \in Attempts, ReadEnds(a) PROVE TypeOK'
    BY <1>21 DEF TypeOK, ReadEnds, startVars, clientVars, reqVars, closeVars, streamVars, queueVars
  <1>22. ASSUME NEW a \in Attempts, Serve(a) PROVE TypeOK'
    <2>1. UNCHANGED <<startVars, clientVars, reqVars, closeVars, live, eventQueue, feeder, fed, handling>>
      BY <1>22 DEF Serve
    <2>2. wire' \in [Attempts -> Seq(Events)]
      <3>1. <<<<"endpoint", None>>>> \in Seq(Events)
        BY DEF Events
      <3>2. wire \in [Attempts -> Seq(Events)]
        BY DEF TypeOK
      <3> QED BY <3>1, <3>2, <1>22 DEF Serve
    <2>3. serving' \in [Attempts -> {"none", "on", "off"}] /\ sessions' \subseteq Attempts /\ done' \subseteq Attempts
      BY <1>22 DEF Serve, TypeOK
    <2> QED BY <2>1, <2>2, <2>3 DEF TypeOK, startVars, clientVars, reqVars, closeVars
  <1>23. ASSUME NEW a \in Attempts, Write(a) PROVE TypeOK'
    <2>1. UNCHANGED <<startVars, clientVars, reqVars, closeVars, live, streamVars, feeder, fed, handling>>
      BY <1>23 DEF Write
    <2>2. /\ eventQueue' \in [Attempts -> Seq(Events)]
          /\ \A b \in Attempts : Len(eventQueue'[b]) \in 0..QueueCap
      BY <1>23, QueueShrinks DEF Write
    <2>3. wire' \in [Attempts -> Seq(Events)]
      <3>1. wire \in [Attempts -> Seq(Events)] /\ eventQueue \in [Attempts -> Seq(Events)] /\ eventQueue[a] # <<>>
        BY <1>23 DEF Write, TypeOK
      <3>2. PICK e \in Events : e = Head(eventQueue[a])
        BY <3>1, Removed
      <3>3. wire' = [wire EXCEPT ![a] = IF reader[a] = "off" THEN @ ELSE Append(@, e)]
        BY <1>23, <3>2 DEF Write
      <3>4. CASE reader[a] = "off"
        BY <3>1, <3>3, <3>4
      <3>5. CASE reader[a] # "off"
        <4>1. wire' = [wire EXCEPT ![a] = Append(@, e)]
          BY <3>3, <3>5
        <4> QED BY <3>1, <4>1, Appended
      <3> QED BY <3>4, <3>5
    <2> QED BY <2>1, <2>2, <2>3 DEF TypeOK, startVars, clientVars, reqVars, closeVars, streamVars
  <1>24. ASSUME NEW a \in Attempts, Leave(a) PROVE TypeOK'
    BY <1>24 DEF TypeOK, Leave, startVars, clientVars, reqVars, closeVars, streamVars, queueVars
  <1>25. ASSUME NEW a \in Attempts, CloseSession(a) PROVE TypeOK'
    BY <1>25 DEF TypeOK, CloseSession, startVars, clientVars, reqVars, closeVars, streamVars, queueVars
  <1>26. ASSUME NEW a \in Attempts, SendEventToSession(a) PROVE TypeOK'
    <2>1. UNCHANGED <<startVars, clientVars, reqVars, closeVars, live, streamVars, wire, feeder, handling>>
      BY <1>26 DEF SendEventToSession
    <2>2. <<"event", None>> \in Events
      BY DEF Events
    <2>3. /\ eventQueue' \in [Attempts -> Seq(Events)]
          /\ \A b \in Attempts : Len(eventQueue'[b]) \in 0..QueueCap
      BY <1>26, <2>2, QueueGrows DEF SendEventToSession
    <2>4. fed' \in 0..MaxFed
      BY <1>26, SseAssumption DEF SendEventToSession, TypeOK, SseAssumption
    <2> QED BY <2>1, <2>3, <2>4 DEF TypeOK, startVars, clientVars, reqVars, closeVars, streamVars
  <1>27. ASSUME NEW a \in Attempts, NEW k \in Feeders, Feed(a, k) PROVE TypeOK'
    BY <1>27, SseAssumption DEF SseAssumption, TypeOK, Feed, startVars, clientVars, reqVars, closeVars, streamVars
  <1>28. ASSUME NEW a \in Attempts, NEW k \in Feeders, Fed(a, k) PROVE TypeOK'
    <2>1. UNCHANGED <<startVars, clientVars, reqVars, closeVars, live, streamVars, wire, fed, handling>>
      BY <1>28 DEF Fed
    <2>2. feeder' \in [Attempts -> [Feeders -> {"idle", "holding", "gone"}]]
      <3>1. PICK v \in {"idle", "gone"} : feeder' = [feeder EXCEPT ![a][k] = v]
        BY <1>28 DEF Fed
      <3> QED BY <3>1 DEF TypeOK
    <2>3. <<k, None>> \in Events
      BY DEF Events
    <2>4. /\ eventQueue' \in [Attempts -> Seq(Events)]
          /\ \A b \in Attempts : Len(eventQueue'[b]) \in 0..QueueCap
      <3>1. CASE Len(eventQueue[a]) < QueueCap /\ eventQueue' = [eventQueue EXCEPT ![a] = Append(@, <<k, None>>)]
        BY <2>3, <3>1, QueueGrows
      <3>2. CASE UNCHANGED eventQueue
        BY <3>2 DEF TypeOK
      <3> QED BY <1>28, <3>1, <3>2 DEF Fed
    <2> QED BY <2>1, <2>2, <2>4 DEF TypeOK, startVars, clientVars, reqVars, closeVars, streamVars
  <1>29. CASE UNCHANGED vars
    BY <1>29 DEF TypeOK, vars, startVars, clientVars, reqVars, closeVars, streamVars, queueVars
  <1> QED
    BY <1>1, <1>2, <1>3, <1>4, <1>5, <1>6, <1>7, <1>8, <1>9, <1>10, <1>11, <1>12, <1>13, <1>14,
       <1>15, <1>16, <1>17, <1>18, <1>19, <1>20, <1>21, <1>22, <1>23, <1>24, <1>25, <1>26, <1>27, <1>28, <1>29 DEF Next, Starting, Requesting

\* The type invariant: among others, a stream's queue keeps to its capacity
\* whoever puts events into it.
THEOREM TypeCorrect == Spec => []TypeOK
  <1>1. Init => TypeOK
    BY TypeInit
  <1>2. TypeOK /\ [Next]_vars => TypeOK'
    BY TypeStep
  <1> QED
    BY <1>1, <1>2, PTL DEF Spec

-----------------------------------------------------------------------------
(* The life of a stream. *)

LEMMA LifecycleInit == Init => LifecycleInv
  <1> SUFFICES ASSUME Init PROVE Lifecycle
    BY TypeInit DEF LifecycleInv
  <1>1. \A s \in Starters : start[s] = "idle"
    BY DEF Init
  <1> QED
    BY <1>1 DEF Init, Lifecycle, OneAttempt, LiveIsPublished, ClosedFirst, NoStreamOutlivesClose

LEMMA LifecycleStep == LifecycleInv /\ [Next]_vars => LifecycleInv'
  <1> SUFFICES ASSUME LifecycleInv, [Next]_vars PROVE Lifecycle'
    BY TypeStep DEF LifecycleInv, Lifecycle
  <1> USE DEF Attempts
  <1>0. /\ start \in [Starters -> {"idle", "waiting", "owner", "connecting", "awaiting", "ok", "failed"}]
        /\ live \subseteq Starters /\ None \notin Starters
    BY SseAssumption DEF LifecycleInv, TypeOK, SseAssumption
  <1>1. ASSUME NEW s \in Starters, Enter(s) PROVE Lifecycle'
    <2>1. OneAttempt'
      BY <1>1, <1>0 DEF LifecycleInv, Lifecycle, OneAttempt, Enter, clientVars, closeVars, startVars
    <2>2. LiveIsPublished'
      BY <1>1, <1>0 DEF LifecycleInv, Lifecycle, OneAttempt, LiveIsPublished, Enter, clientVars, closeVars, startVars
    <2>3. (ClosedFirst /\ NoStreamOutlivesClose)'
      BY <1>1, <1>0 DEF LifecycleInv, Lifecycle, ClosedFirst, NoStreamOutlivesClose, LiveIsPublished, Enter, clientVars, closeVars, startVars
    <2> QED BY <2>1, <2>2, <2>3 DEF Lifecycle
  <1>2. ASSUME NEW s \in Starters, Rejoin(s) PROVE Lifecycle'
    <2>1. OneAttempt'
      BY <1>2, <1>0 DEF LifecycleInv, Lifecycle, OneAttempt, Rejoin, clientVars, closeVars, startVars
    <2>2. LiveIsPublished'
      BY <1>2, <1>0 DEF LifecycleInv, Lifecycle, OneAttempt, LiveIsPublished, Rejoin, clientVars, closeVars, startVars
    <2>3. (ClosedFirst /\ NoStreamOutlivesClose)'
      BY <1>2, <1>0 DEF LifecycleInv, Lifecycle, ClosedFirst, NoStreamOutlivesClose, LiveIsPublished, Rejoin, clientVars, closeVars, startVars
    <2> QED BY <2>1, <2>2, <2>3 DEF Lifecycle
  <1>3. ASSUME NEW s \in Starters, Publish(s) PROVE Lifecycle'
    <2>1. OneAttempt'
      BY <1>3, <1>0 DEF LifecycleInv, Lifecycle, OneAttempt, Publish, clientVars, closeVars, startVars
    <2>2. LiveIsPublished'
      BY <1>3, <1>0 DEF LifecycleInv, Lifecycle, OneAttempt, LiveIsPublished, Publish, clientVars, closeVars, startVars
    <2>3. (ClosedFirst /\ NoStreamOutlivesClose)'
      BY <1>3, <1>0 DEF LifecycleInv, Lifecycle, ClosedFirst, NoStreamOutlivesClose, LiveIsPublished, Publish, clientVars, closeVars, startVars
    <2> QED BY <2>1, <2>2, <2>3 DEF Lifecycle
  <1>4. ASSUME NEW s \in Starters, Connected(s) PROVE Lifecycle'
    <2>1. OneAttempt'
      BY <1>4, <1>0 DEF LifecycleInv, Lifecycle, OneAttempt, Connected, clientVars, closeVars, startVars
    <2>2. LiveIsPublished'
      BY <1>4, <1>0 DEF LifecycleInv, Lifecycle, OneAttempt, LiveIsPublished, Connected, clientVars, closeVars, startVars
    <2>3. (ClosedFirst /\ NoStreamOutlivesClose)'
      BY <1>4, <1>0 DEF LifecycleInv, Lifecycle, ClosedFirst, NoStreamOutlivesClose, LiveIsPublished, Connected, clientVars, closeVars, startVars
    <2> QED BY <2>1, <2>2, <2>3 DEF Lifecycle
  <1>5. ASSUME NEW s \in Starters, AttemptFails(s) PROVE Lifecycle'
    <2>1. OneAttempt'
      BY <1>5, <1>0 DEF LifecycleInv, Lifecycle, OneAttempt, AttemptFails, clientVars, closeVars, startVars
    <2>2. LiveIsPublished'
      BY <1>5, <1>0 DEF LifecycleInv, Lifecycle, OneAttempt, LiveIsPublished, AttemptFails, clientVars, closeVars, startVars
    <2>3. (ClosedFirst /\ NoStreamOutlivesClose)'
      BY <1>5, <1>0 DEF LifecycleInv, Lifecycle, ClosedFirst, NoStreamOutlivesClose, LiveIsPublished, AttemptFails, clientVars, closeVars, startVars
    <2> QED BY <2>1, <2>2, <2>3 DEF Lifecycle
  <1>6. ASSUME NEW s \in Starters, Succeed(s) PROVE Lifecycle'
    <2>1. OneAttempt'
      BY <1>6, <1>0 DEF LifecycleInv, Lifecycle, OneAttempt, Succeed, clientVars, closeVars, startVars
    <2>2. LiveIsPublished'
      BY <1>6, <1>0 DEF LifecycleInv, Lifecycle, OneAttempt, LiveIsPublished, Succeed, clientVars, closeVars, startVars
    <2>3. (ClosedFirst /\ NoStreamOutlivesClose)'
      BY <1>6, <1>0 DEF LifecycleInv, Lifecycle, ClosedFirst, NoStreamOutlivesClose, LiveIsPublished, Succeed, clientVars, closeVars, startVars
    <2> QED BY <2>1, <2>2, <2>3 DEF Lifecycle
  <1>7. ASSUME NEW s \in Starters, StartContextEnds(s) PROVE Lifecycle'
    <2>1. OneAttempt'
      BY <1>7, <1>0 DEF LifecycleInv, Lifecycle, OneAttempt, StartContextEnds, clientVars, closeVars, startVars
    <2>2. LiveIsPublished'
      BY <1>7, <1>0 DEF LifecycleInv, Lifecycle, OneAttempt, LiveIsPublished, StartContextEnds, clientVars, closeVars, startVars
    <2>3. (ClosedFirst /\ NoStreamOutlivesClose)'
      BY <1>7, <1>0 DEF LifecycleInv, Lifecycle, ClosedFirst, NoStreamOutlivesClose, LiveIsPublished, StartContextEnds, clientVars, closeVars, startVars
    <2> QED BY <2>1, <2>2, <2>3 DEF Lifecycle
  <1>8. CASE CloseFlip
    BY <1>8 DEF LifecycleInv, Lifecycle, OneAttempt, LiveIsPublished, ClosedFirst, NoStreamOutlivesClose, CloseFlip, startVars
  <1>9. CASE CloseCancel
    BY <1>9 DEF LifecycleInv, Lifecycle, OneAttempt, LiveIsPublished, ClosedFirst, NoStreamOutlivesClose, CloseCancel, startVars
  <1>10. CASE CloseChannels
    BY <1>10 DEF LifecycleInv, Lifecycle, OneAttempt, LiveIsPublished, ClosedFirst, NoStreamOutlivesClose, CloseChannels, startVars
  <1>11. ASSUME NEW a \in Attempts, Read(a) PROVE Lifecycle'
    BY <1>11 DEF LifecycleInv, Lifecycle, OneAttempt, LiveIsPublished, ClosedFirst, NoStreamOutlivesClose, Read, closeVars
  <1>12. ASSUME NEW r \in Requests, Check(r) \/ Register(r) \/ PostFails(r) \/ Refused(r) \/ Answered(r)
                 \/ TimedOut(r) \/ Accept(r) \/ Respond(r) \/ Queue(r) PROVE Lifecycle'
    <2>1. UNCHANGED <<start, startDone, started, canceler, closed, closing, live>>
      BY <1>12 DEF Check, Register, PostFails, Refused, Answered, TimedOut, Accept, Respond, Queue, startVars, closeVars
    <2> QED BY <2>1 DEF LifecycleInv, Lifecycle, OneAttempt, LiveIsPublished, ClosedFirst, NoStreamOutlivesClose
  <1>13. ASSUME NEW a \in Attempts, ReadEnds(a) \/ Serve(a) \/ Write(a) \/ Leave(a) \/ CloseSession(a) \/ SendEventToSession(a) PROVE Lifecycle'
    <2>1. UNCHANGED <<start, startDone, started, canceler, closed, closing, live>>
      BY <1>13 DEF ReadEnds, Serve, Write, Leave, CloseSession, SendEventToSession, startVars, closeVars
    <2> QED BY <2>1 DEF LifecycleInv, Lifecycle, OneAttempt, LiveIsPublished, ClosedFirst, NoStreamOutlivesClose
  <1>14. ASSUME NEW a \in Attempts, NEW k \in Feeders, Feed(a, k) \/ Fed(a, k) PROVE Lifecycle'
    <2>1. UNCHANGED <<start, startDone, started, canceler, closed, closing, live>>
      BY <1>14 DEF Feed, Fed, startVars, closeVars
    <2> QED BY <2>1 DEF LifecycleInv, Lifecycle, OneAttempt, LiveIsPublished, ClosedFirst, NoStreamOutlivesClose
  <1>15. CASE UNCHANGED vars
    BY <1>15 DEF LifecycleInv, Lifecycle, OneAttempt, LiveIsPublished, ClosedFirst, NoStreamOutlivesClose, vars, startVars, closeVars
  <1> QED
    BY <1>1, <1>2, <1>3, <1>4, <1>5, <1>6, <1>7, <1>8, <1>9, <1>10, <1>11, <1>12, <1>13, <1>14, <1>15 DEF Next, Starting, Requesting

\* No attempt escapes a Close with a live context: the canceler is published,
\* and "closed" flipped and the canceler read, under one lock, and one attempt
\* at a time can have published one.
THEOREM NothingOutlivesClose == Spec => []NoStreamOutlivesClose
  <1>1. Init => LifecycleInv
    BY LifecycleInit
  <1>2. LifecycleInv /\ [Next]_vars => LifecycleInv'
    BY LifecycleStep
  <1>3. LifecycleInv => NoStreamOutlivesClose
    BY DEF LifecycleInv, Lifecycle
  <1> QED
    BY <1>1, <1>2, <1>3, PTL DEF Spec

-----------------------------------------------------------------------------
(* The response channels. *)

ChannelInv == TypeOK /\ ChannelsInTheMapAreOpen

LEMMA ChannelInit == Init => ChannelInv
  BY TypeInit DEF Init, ChannelInv, ChannelsInTheMapAreOpen

LEMMA ChannelStep == ChannelInv /\ [Next]_vars => ChannelInv'
  <1> SUFFICES ASSUME ChannelInv, [Next]_vars PROVE ChannelsInTheMapAreOpen'
    BY TypeStep DEF ChannelInv
  <1>0. /\ req \in [Requests -> {"idle", "checked", "registered", "waiting", "answered", "error"}]
        /\ channel \in [Requests -> {"none", "open", "response", "closed"}]
        /\ responses \subseteq Requests
    BY DEF ChannelInv, TypeOK
  <1>1. ASSUME NEW s \in Starters, Enter(s) \/ Rejoin(s) \/ Publish(s) \/ Connected(s)
                 \/ AttemptFails(s) \/ Succeed(s) \/ StartContextEnds(s) PROVE ChannelsInTheMapAreOpen'
    <2>1. UNCHANGED <<req, responses, channel>>
      BY <1>1 DEF Enter, Rejoin, Publish, Connected, AttemptFails, Succeed, StartContextEnds, reqVars
    <2> QED BY <2>1 DEF ChannelInv, ChannelsInTheMapAreOpen
  <1>2. ASSUME NEW r \in Requests, Check(r) PROVE ChannelsInTheMapAreOpen'
    BY <1>2, <1>0 DEF ChannelInv, ChannelsInTheMapAreOpen, Check
  <1>3. ASSUME NEW r \in Requests, Register(r) PROVE ChannelsInTheMapAreOpen'
    BY <1>3, <1>0 DEF ChannelInv, ChannelsInTheMapAreOpen, Register
  <1>4. ASSUME NEW r \in Requests, PostFails(r) PROVE ChannelsInTheMapAreOpen'
    BY <1>4, <1>0 DEF ChannelInv, ChannelsInTheMapAreOpen, PostFails
  <1>5. ASSUME NEW r \in Requests, Refused(r) PROVE ChannelsInTheMapAreOpen'
    BY <1>5, <1>0 DEF ChannelInv, ChannelsInTheMapAreOpen, Refused
  <1>6. ASSUME NEW r \in Requests, Answered(r) PROVE ChannelsInTheMapAreOpen'
    BY <1>6, <1>0 DEF ChannelInv, ChannelsInTheMapAreOpen, Answered
  <1>7. ASSUME NEW r \in Requests, TimedOut(r) PROVE ChannelsInTheMapAreOpen'
    BY <1>7, <1>0 DEF ChannelInv, ChannelsInTheMapAreOpen, TimedOut
  <1>8. ASSUME NEW r \in Requests, Accept(r) PROVE ChannelsInTheMapAreOpen'
    BY <1>8, <1>0 DEF ChannelInv, ChannelsInTheMapAreOpen, Accept
  <1>9. ASSUME NEW r \in Requests, Respond(r) \/ Queue(r) PROVE ChannelsInTheMapAreOpen'
    <2>1. UNCHANGED <<req, responses, channel>>
      BY <1>9 DEF Respond, Queue, reqVars
    <2> QED BY <2>1 DEF ChannelInv, ChannelsInTheMapAreOpen
  <1>10. ASSUME NEW a \in Attempts, Read(a) PROVE ChannelsInTheMapAreOpen'
    <2>1. req' = req /\ (UNCHANGED <<channel, responses>> \/ \E r \in responses : /\ channel' = [channel EXCEPT ![r] = "response"]
                                                                                /\ responses' = responses \ {r})
      BY <1>10 DEF Read, Deliver
    <2> QED BY <2>1, <1>0 DEF ChannelInv, ChannelsInTheMapAreOpen
  <1>11. ASSUME NEW a \in Attempts, ReadEnds(a) \/ Serve(a) \/ Write(a) \/ Leave(a) \/ CloseSession(a) \/ SendEventToSession(a) PROVE ChannelsInTheMapAreOpen'
    <2>1. UNCHANGED <<req, responses, channel>>
      BY <1>11 DEF ReadEnds, Serve, Write, Leave, CloseSession, SendEventToSession, reqVars
    <2> QED BY <2>1 DEF ChannelInv, ChannelsInTheMapAreOpen
  <1>12. ASSUME NEW a \in Attempts, NEW k \in Feeders, Feed(a, k) \/ Fed(a, k) PROVE ChannelsInTheMapAreOpen'
    <2>1. UNCHANGED <<req, responses, channel>>
      BY <1>12 DEF Feed, Fed, reqVars
    <2> QED BY <2>1 DEF ChannelInv, ChannelsInTheMapAreOpen
  <1>13. CASE CloseFlip \/ CloseCancel
    BY <1>13 DEF ChannelInv, ChannelsInTheMapAreOpen, CloseFlip, CloseCancel, reqVars
  <1>14. CASE CloseChannels
    BY <1>14, <1>0 DEF ChannelInv, ChannelsInTheMapAreOpen, CloseChannels
  <1>15. CASE UNCHANGED vars
    BY <1>15 DEF ChannelInv, ChannelsInTheMapAreOpen, vars, reqVars
  <1> QED
    BY <1>1, <1>2, <1>3, <1>4, <1>5, <1>6, <1>7, <1>8, <1>9, <1>10, <1>11, <1>12, <1>13, <1>14, <1>15 DEF Next, Starting, Requesting

\* A response is never sent on a channel that is closed or full, which would
\* panic or block with the lock held, and no caller waits on a channel that
\* nobody can find.
THEOREM ChannelsStayOpen == Spec => []ChannelsInTheMapAreOpen
  <1>1. Init => ChannelInv
    BY ChannelInit
  <1>2. ChannelInv /\ [Next]_vars => ChannelInv'
    BY ChannelStep
  <1>3. ChannelInv => ChannelsInTheMapAreOpen
    BY DEF ChannelInv
  <1> QED
    BY <1>1, <1>2, <1>3, PTL DEF Spec
=============================================================================
