-------------------------------- MODULE Sse --------------------------------
(***************************************************************************)
(* The legacy SSE transport, both ends: the client (client/transport/      *)
(* sse.go) and the server (server/sse.go).                                 *)
(*                                                                         *)
(* A client opens one GET stream; its first event names the endpoint that  *)
(* requests are POSTed to.  The server accepts a request with 202 and      *)
(* answers it on the stream, through a bounded queue that a keep-alive     *)
(* pinger and a notification pump share.  Start may be called by several   *)
(* goroutines, which share one attempt, and again after it failed; Close   *)
(* may come at any time, and so may the end of the stream.                 *)
(***************************************************************************)
EXTENDS Integers, Sequences

CONSTANTS
  Starters,    \* goroutines that call Start; each makes at most one attempt
  Requests,    \* ids of the client's requests, which its pings' ids may equal
  None,
  Feeders,     \* what else fills a queue: the pinger, the notification pump
  QueueCap,    \* capacity of eventQueue
  MaxFed       \* bound: events that the feeders and SendEventToSession make

Attempts == Starters             \* an attempt is one stream, and one session

ASSUME SseAssumption ==
  /\ None \notin Starters
  /\ Feeders \subseteq {"ping", "notification"}
  /\ QueueCap \in Nat \ {0} /\ MaxFed \in Nat

VARIABLES
  (* the client *)
  start,      \* each Start
  joined,     \* the attempt whose startDone it waits for
  startDone,  \* the attempt in flight, or None
  started, closed,
  canceler,   \* cancelSSEStream: the attempt it cancels, or None
  live,       \* attempts with a context that has not been cancelled
  seen,       \* attempts whose endpointChan is closed
  endpoint,   \* the session of the message endpoint, or None
  reader,     \* readSSE of each attempt
  req, to,    \* SendRequest: how far it is, and the session it posts to
  responses,  \* the map of that name: ids waiting for a response
  channel,    \* what each response channel holds
  closing,    \* the goroutine of Close
  (* the server *)
  serving,    \* handleSSE of each session
  sessions,   \* the map of that name
  done,       \* sessions whose done channel is closed
  eventQueue, wire,
  feeder,     \* the pinger and the notification pump of each session
  fed,
  handling    \* the goroutine of handleMessage for each request

startVars == <<start, joined, startDone, started, canceler, seen>>
clientVars == <<reader, endpoint>>
reqVars == <<req, to, responses, channel>>
closeVars == <<closed, closing>>
streamVars == <<serving, sessions, done>>
queueVars == <<eventQueue, wire, feeder, fed>>
vars == <<startVars, clientVars, reqVars, closeVars, live, streamVars,
          queueVars, handling>>

Init ==
  /\ start = [s \in Starters |-> "idle"] /\ joined = [s \in Starters |-> None]
  /\ startDone = None /\ started = FALSE /\ closed = FALSE /\ canceler = None
  /\ live = {} /\ seen = {} /\ endpoint = None
  /\ reader = [a \in Attempts |-> "none"]
  /\ req = [r \in Requests |-> "idle"] /\ to = [r \in Requests |-> None]
  /\ responses = {} /\ channel = [r \in Requests |-> "none"]
  /\ closing = "none"
  /\ serving = [a \in Attempts |-> "none"] /\ sessions = {} /\ done = {}
  /\ eventQueue = [a \in Attempts |-> <<>>] /\ wire = [a \in Attempts |-> <<>>]
  /\ feeder = [a \in Attempts |-> [k \in Feeders |-> "idle"]]
  /\ fed = 0
  /\ handling = [r \in Requests |-> "none"]

-----------------------------------------------------------------------------
(* The client: Start.                                                       *)

\* The loop of Start, under startMu.
Enter(s) ==
  /\ start[s] = "idle"
  /\ \/ closed /\ start' = [start EXCEPT ![s] = "failed"]
        /\ UNCHANGED <<joined, startDone>>
     \/ ~closed /\ started /\ start' = [start EXCEPT ![s] = "ok"]
        /\ UNCHANGED <<joined, startDone>>
     \/ ~closed /\ ~started /\ startDone # None
        /\ start' = [start EXCEPT ![s] = "waiting"]
        /\ joined' = [joined EXCEPT ![s] = startDone]
        /\ UNCHANGED startDone
     \/ ~closed /\ ~started /\ startDone = None
        /\ start' = [start EXCEPT ![s] = "owner"]
        /\ startDone' = s
        /\ UNCHANGED joined
  /\ UNCHANGED <<started, canceler, seen, clientVars, reqVars, closeVars, live,
                 streamVars, queueVars, handling>>

\* The attempt it waited for is over: it looks again, or its own context is done.
Rejoin(s) ==
  /\ start[s] = "waiting"
  /\ \/ startDone # joined[s] /\ start' = [start EXCEPT ![s] = "idle"]
     \/ start' = [start EXCEPT ![s] = "failed"]
  /\ joined' = [joined EXCEPT ![s] = None]
  /\ UNCHANGED <<startDone, started, canceler, seen, clientVars,
                 reqVars, closeVars, live, streamVars, queueVars, handling>>

\* Mutant: an attempt does not look whether Close came first.
Publish_AfterClose(s) ==
  /\ start[s] = "owner"
  /\ start' = [start EXCEPT ![s] = "connecting"]
  /\ canceler' = s /\ live' = live \union {s}
  /\ UNCHANGED <<startDone, joined, started, seen, clientVars, reqVars, closeVars,
                 streamVars, queueVars, handling>>

\* start: the canceler is published unless Close came first.
Publish(s) ==
  /\ start[s] = "owner"
  /\ IF closed
       THEN /\ start' = [start EXCEPT ![s] = "failed"] /\ startDone' = None
            /\ UNCHANGED <<canceler, live>>
       ELSE /\ start' = [start EXCEPT ![s] = "connecting"]
            /\ canceler' = s /\ live' = live \union {s}
            /\ UNCHANGED startDone
  /\ UNCHANGED <<joined, started, seen, clientVars, reqVars, closeVars,
                 streamVars, queueVars, handling>>

\* The GET is answered 200 and its body read by a goroutine.
Connected(s) ==
  /\ start[s] = "connecting" /\ s \in live /\ wire[s] # <<>>
  /\ start' = [start EXCEPT ![s] = "awaiting"]
  /\ reader' = [reader EXCEPT ![s] = "on"]
  /\ UNCHANGED <<joined, startDone, started, canceler, seen, endpoint, reqVars,
                 closeVars, live, streamVars, queueVars, handling>>

\* The GET fails, or the wait for the endpoint ends with the context or the
\* timer: the attempt's context is cancelled.
AttemptFails(s) ==
  /\ start[s] \in {"connecting", "awaiting"}
  /\ start' = [start EXCEPT ![s] = "failed"] /\ startDone' = None
  /\ live' = live \ {s}
  /\ UNCHANGED <<joined, started, canceler, seen, clientVars, reqVars, closeVars,
                 streamVars, queueVars, handling>>

\* Success is published unless a concurrent Close has won.
Succeed(s) ==
  /\ start[s] = "awaiting" /\ s \in seen
  /\ startDone' = None
  /\ IF closed THEN /\ start' = [start EXCEPT ![s] = "failed"]
                    /\ live' = live \ {s} /\ UNCHANGED started
               ELSE /\ start' = [start EXCEPT ![s] = "ok"]
                    /\ started' = TRUE /\ UNCHANGED live
  /\ UNCHANGED <<joined, canceler, seen, clientVars, reqVars, closeVars,
                 streamVars, queueVars, handling>>

\* The stream lives in the context of the Start that opened it.
StartContextEnds(s) ==
  /\ start[s] = "ok" /\ s \in live
  /\ live' = live \ {s}
  /\ UNCHANGED <<startVars, clientVars, reqVars, closeVars, streamVars,
                 queueVars, handling>>

-----------------------------------------------------------------------------
(* The client: readSSE and handleSSEEvent.                                  *)

\* Mutant: a delivered response stays in the map.
Deliver_Keeps(r) ==
  IF r \in responses
    THEN /\ channel' = [channel EXCEPT ![r] = "response"]
         /\ UNCHANGED responses
    ELSE UNCHANGED <<channel, responses>>

\* A response is sent on its channel and leaves the map in one critical section.
Deliver(r) ==
  IF r \in responses
    THEN /\ channel' = [channel EXCEPT ![r] = "response"]
         /\ responses' = responses \ {r}
    ELSE UNCHANGED <<channel, responses>>

\* An event that is buffered is dispatched even after the context was
\* cancelled.  A notification and a request of the server change nothing here,
\* although the server's ping may carry the id of a request in flight.
Read(a) ==
  /\ reader[a] = "on" /\ wire[a] # <<>>
  /\ wire' = [wire EXCEPT ![a] = Tail(@)]
  /\ CASE Head(wire[a])[1] = "endpoint" ->
            endpoint' = a /\ seen' = seen \union {a} /\ UNCHANGED <<channel, responses>>
       [] Head(wire[a])[1] = "response" ->
            Deliver(Head(wire[a])[2]) /\ UNCHANGED <<endpoint, seen>>
       [] OTHER -> UNCHANGED <<endpoint, seen, channel, responses>>
  /\ UNCHANGED <<start, joined, startDone, started, canceler, reader, req, to,
                 closeVars, live, streamVars, eventQueue, feeder, fed, handling>>

\* The stream ends: cancelled, closed by the server, or broken.
ReadEnds(a) ==
  /\ reader[a] = "on"
  /\ reader' = [reader EXCEPT ![a] = "off"]
  /\ wire' = [wire EXCEPT ![a] = <<>>]
  /\ UNCHANGED <<startVars, endpoint, reqVars, closeVars, live, streamVars,
                 eventQueue, feeder, fed, handling>>

-----------------------------------------------------------------------------
(* The client: SendRequest and Close.                                       *)

\* The transport's state and the endpoint are read before anything else.
Check(r) ==
  /\ req[r] = "idle" /\ started /\ ~closed /\ endpoint # None
  /\ req' = [req EXCEPT ![r] = "checked"] /\ to' = [to EXCEPT ![r] = endpoint]
  /\ UNCHANGED <<startVars, clientVars, responses, channel, closeVars, live,
                 streamVars, queueVars, handling>>

Register(r) ==
  /\ req[r] = "checked"
  /\ req' = [req EXCEPT ![r] = "registered"]
  /\ responses' = responses \union {r}
  /\ channel' = [channel EXCEPT ![r] = "open"]
  /\ UNCHANGED <<startVars, clientVars, to, closeVars, live, streamVars,
                 queueVars, handling>>

\* The POST fails.
PostFails(r) ==
  /\ req[r] = "registered"
  /\ req' = [req EXCEPT ![r] = "error"]
  /\ responses' = responses \ {r}
  /\ UNCHANGED <<startVars, clientVars, to, channel, closeVars, live, streamVars,
                 queueVars, handling>>

\* handleMessage: 202 and a goroutine for a session in the map ...
Accept(r) ==
  /\ req[r] = "registered" /\ to[r] \in sessions
  /\ handling' = [handling EXCEPT ![r] = "running"]
  /\ req' = [req EXCEPT ![r] = "waiting"]
  /\ UNCHANGED <<startVars, clientVars, to, responses, channel, closeVars, live,
                 streamVars, queueVars>>

\* ... and 400 for any other.
Refused(r) ==
  /\ req[r] = "registered" /\ to[r] \notin sessions
  /\ req' = [req EXCEPT ![r] = "error"]
  /\ responses' = responses \ {r}
  /\ UNCHANGED <<startVars, clientVars, to, channel, closeVars, live, streamVars,
                 queueVars, handling>>

Answered(r) ==
  /\ req[r] = "waiting"
  /\ \/ channel[r] = "response" /\ req' = [req EXCEPT ![r] = "answered"]
     \/ channel[r] = "closed" /\ req' = [req EXCEPT ![r] = "error"]
  /\ UNCHANGED <<startVars, clientVars, to, responses, channel, closeVars, live,
                 streamVars, queueVars, handling>>

\* The caller's context or the response timeout.
TimedOut(r) ==
  /\ req[r] = "waiting"
  /\ req' = [req EXCEPT ![r] = "error"]
  /\ responses' = responses \ {r}
  /\ UNCHANGED <<startVars, clientVars, to, channel, closeVars, live, streamVars,
                 queueVars, handling>>

CloseFlip ==
  /\ closing = "none"
  /\ closed' = TRUE /\ closing' = "flipped"
  /\ UNCHANGED <<startVars, clientVars, reqVars, live, streamVars, queueVars,
                 handling>>

\* The canceler read with the flip: no later one can be published.
CloseCancel ==
  /\ closing = "flipped"
  /\ live' = live \ {canceler} /\ closing' = "cancelled"
  /\ UNCHANGED <<startVars, clientVars, reqVars, closed, streamVars, queueVars,
                 handling>>

CloseChannels ==
  /\ closing = "cancelled"
  /\ channel' = [r \in Requests |-> IF r \in responses THEN "closed" ELSE channel[r]]
  /\ responses' = {}
  /\ closing' = "done"
  /\ UNCHANGED <<startVars, clientVars, req, to, closed, live, streamVars,
                 queueVars, handling>>

-----------------------------------------------------------------------------
(* The server.                                                              *)

\* handleSSE: the session is stored and registered, its goroutines started,
\* and the endpoint sent; or the registration fails.
Serve(a) ==
  /\ start[a] = "connecting" /\ serving[a] = "none"
  /\ \/ /\ serving' = [serving EXCEPT ![a] = "on"]
        /\ sessions' = sessions \union {a}
        /\ wire' = [wire EXCEPT ![a] = <<<<"endpoint", None>>>>]
        /\ UNCHANGED done
     \/ /\ serving' = [serving EXCEPT ![a] = "off"]
        /\ done' = done \union {a}
        /\ UNCHANGED <<sessions, wire>>
  /\ UNCHANGED <<startVars, clientVars, reqVars, closeVars, live, eventQueue,
                 feeder, fed, handling>>

\* Its loop writes the next event.
Write(a) ==
  /\ serving[a] = "on" /\ eventQueue[a] # <<>>
  /\ wire' = [wire EXCEPT ![a] = IF reader[a] = "off" THEN @
                                  ELSE Append(@, Head(eventQueue[a]))]
  /\ eventQueue' = [eventQueue EXCEPT ![a] = Tail(@)]
  /\ UNCHANGED <<startVars, clientVars, reqVars, closeVars, live, streamVars,
                 feeder, fed, handling>>

\* Mutant: done stays open when the connection ends.
Leave_DoneOpen(a) ==
  /\ serving[a] = "on" /\ (a \in done \/ a \notin live \/ reader[a] = "off")
  /\ serving' = [serving EXCEPT ![a] = "off"]
  /\ sessions' = sessions \ {a}
  /\ UNCHANGED <<done, startVars, clientVars, reqVars, closeVars, live, queueVars,
                 handling>>

\* It ends with the connection or with done, which it closes either way.
Leave(a) ==
  /\ serving[a] = "on" /\ (a \in done \/ a \notin live \/ reader[a] = "off")
  /\ serving' = [serving EXCEPT ![a] = "off"]
  /\ sessions' = sessions \ {a}
  /\ done' = done \union {a}
  /\ UNCHANGED <<startVars, clientVars, reqVars, closeVars, live, queueVars,
                 handling>>

\* CloseSessions, one session of the map at a time.
CloseSession(a) ==
  /\ a \in sessions
  /\ sessions' = sessions \ {a} /\ done' = done \union {a}
  /\ UNCHANGED <<startVars, clientVars, reqVars, closeVars, live, serving,
                 queueVars, handling>>

\* HandleMessage returns a response, or panics and is recovered: either way
\* there is one response to queue.
Respond(r) ==
  /\ handling[r] = "running"
  /\ handling' = [handling EXCEPT ![r] = "queueing"]
  /\ UNCHANGED <<startVars, clientVars, reqVars, closeVars, live, streamVars,
                 queueVars>>

\* Mutant: a response that finds the queue full is dropped.
Queue_DropsWhenFull(r) ==
  /\ handling[r] = "queueing"
  /\ \/ /\ Len(eventQueue[to[r]]) < QueueCap
        /\ eventQueue' = [eventQueue EXCEPT ![to[r]] = Append(@, <<"response", r>>)]
     \/ (to[r] \in done \/ Len(eventQueue[to[r]]) = QueueCap) /\ UNCHANGED eventQueue
  /\ handling' = [handling EXCEPT ![r] = "over"]
  /\ UNCHANGED <<startVars, clientVars, reqVars, closeVars, live, streamVars,
                 wire, feeder, fed>>

\* It waits for room rather than drop the response, until the session is done.
Queue(r) ==
  /\ handling[r] = "queueing"
  /\ \/ /\ Len(eventQueue[to[r]]) < QueueCap
        /\ eventQueue' = [eventQueue EXCEPT ![to[r]] = Append(@, <<"response", r>>)]
     \/ to[r] \in done /\ UNCHANGED eventQueue
  /\ handling' = [handling EXCEPT ![r] = "over"]
  /\ UNCHANGED <<startVars, clientVars, reqVars, closeVars, live, streamVars,
                 wire, feeder, fed>>

\* The pinger's ticker, or a notification for the pump, ...
Feed(a, k) ==
  /\ serving[a] = "on" /\ feeder[a][k] = "idle" /\ fed < MaxFed
  /\ feeder' = [feeder EXCEPT ![a][k] = "holding"]
  /\ fed' = fed + 1
  /\ UNCHANGED <<startVars, clientVars, reqVars, closeVars, live, streamVars,
                 eventQueue, wire, handling>>

\* ... which waits for room, or for done.
Fed(a, k) ==
  /\ feeder[a][k] = "holding"
  /\ \/ /\ Len(eventQueue[a]) < QueueCap
        /\ eventQueue' = [eventQueue EXCEPT ![a] = Append(@, <<k, None>>)]
        /\ feeder' = [feeder EXCEPT ![a][k] = "idle"]
     \/ /\ a \in done
        /\ feeder' = [feeder EXCEPT ![a][k] = "gone"]
        /\ UNCHANGED eventQueue
  /\ UNCHANGED <<startVars, clientVars, reqVars, closeVars, live, streamVars,
                 wire, fed, handling>>

\* SendEventToSession never waits: with no room it fails, and changes nothing.
SendEventToSession(a) ==
  /\ a \in sessions /\ fed < MaxFed /\ Len(eventQueue[a]) < QueueCap
  /\ eventQueue' = [eventQueue EXCEPT ![a] = Append(@, <<"event", None>>)]
  /\ fed' = fed + 1
  /\ UNCHANGED <<startVars, clientVars, reqVars, closeVars, live, streamVars,
                 wire, feeder, handling>>

-----------------------------------------------------------------------------
Starting(s) ==
  \/ Enter(s) \/ Rejoin(s) \/ Publish(s) \/ Connected(s) \/ AttemptFails(s)
  \/ Succeed(s) \/ StartContextEnds(s)

Requesting(r) ==
  \/ Check(r) \/ Register(r) \/ PostFails(r) \/ Refused(r)
  \/ Answered(r) \/ TimedOut(r)

Next ==
  \/ \E s \in Starters : Starting(s)
  \/ \E a \in Attempts : Read(a) \/ ReadEnds(a)
  \/ \E r \in Requests : Requesting(r) \/ Accept(r) \/ Respond(r) \/ Queue(r)
  \/ CloseFlip \/ CloseCancel \/ CloseChannels
  \/ \E a \in Attempts : Serve(a) \/ Write(a) \/ Leave(a) \/ CloseSession(a)
                         \/ SendEventToSession(a)
  \/ \E a \in Attempts, k \in Feeders : Feed(a, k) \/ Fed(a, k)

\* The server's goroutines run and its handlers return, and the client reads
\* what it is sent.  Nothing makes a stream end or a request time out.
Fairness ==
  /\ \A a \in Attempts : WF_vars(Write(a)) /\ WF_vars(Leave(a)) /\ WF_vars(Read(a))
  /\ \A r \in Requests : WF_vars(Respond(r)) /\ WF_vars(Queue(r)) /\ WF_vars(Answered(r))
  /\ \A a \in Attempts, k \in Feeders : WF_vars(Fed(a, k))

Spec == Init /\ [][Next]_vars /\ Fairness
-----------------------------------------------------------------------------
Events == {<<"endpoint", None>>, <<"event", None>>} \union {<<k, None>> : k \in Feeders}
            \union {<<"response", r>> : r \in Requests}

TypeOK ==
  /\ start \in [Starters -> {"idle", "waiting", "owner", "connecting",
                             "awaiting", "ok", "failed"}]
  /\ joined \in [Starters -> Attempts \union {None}]
  /\ startDone \in Attempts \union {None}
  /\ started \in BOOLEAN /\ closed \in BOOLEAN
  /\ canceler \in Attempts \union {None}
  /\ live \subseteq Attempts /\ seen \subseteq Attempts
  /\ endpoint \in Attempts \union {None}
  /\ reader \in [Attempts -> {"none", "on", "off"}]
  /\ req \in [Requests -> {"idle", "checked", "registered", "waiting",
                           "answered", "error"}]
  /\ to \in [Requests -> Attempts \union {None}]
  /\ responses \subseteq Requests
  /\ channel \in [Requests -> {"none", "open", "response", "closed"}]
  /\ closing \in {"none", "flipped", "cancelled", "done"}
  /\ serving \in [Attempts -> {"none", "on", "off"}]
  /\ sessions \subseteq Attempts /\ done \subseteq Attempts
  /\ eventQueue \in [Attempts -> Seq(Events)] /\ wire \in [Attempts -> Seq(Events)]
  /\ \A a \in Attempts : Len(eventQueue[a]) \in 0..QueueCap
  /\ feeder \in [Attempts -> [Feeders -> {"idle", "holding", "gone"}]]
  /\ fed \in 0..MaxFed
  /\ handling \in [Requests -> {"none", "running", "queueing", "over"}]

\* "An in-flight start cannot escape shutdown with a live request context":
\* once Close has cancelled, no attempt has a live context, whichever attempt
\* was in flight, and none gets one later.
NoStreamOutlivesClose == closing \in {"cancelled", "done"} => live = {}

\* The send on a response channel, made with the lock held, can neither block
\* nor panic: a channel in the map is open, empty and waited for.  And no
\* waiter is forgotten: it is in the map, or its channel holds what ends it.
ChannelsInTheMapAreOpen ==
  /\ \A r \in responses : channel[r] = "open" /\ req[r] \in {"registered", "waiting"}
  /\ \A r \in Requests :
       req[r] \in {"registered", "waiting"} /\ channel[r] = "open" => r \in responses

\* Once started, requests go to the session of the stream that is read:
\* delayed endpoint events of a superseded attempt "cannot corrupt a later
\* retry" (the comment in start).
EndpointOfTheStart == started => start[endpoint] = "ok"

\* A request the server accepted for the stream the client reads is answered:
\* a queue filled by pings and notifications delays its response, and never
\* loses it.
AcceptedIsAnswered ==
  \A r \in Requests :
    (req[r] = "waiting" /\ to[r] \in live)
      ~> (req[r] # "waiting" \/ to[r] \notin live \/ to[r] \in done
          \/ reader[to[r]] # "on")

\* No goroutine waits for ever for room in the queue of a stream that is over,
\* however it ended: handlers, the pinger and the pump are released.
WorkersReleased ==
  <>[](\A a \in Attempts : serving[a] = "off" =>
         /\ \A r \in Requests : to[r] = a => handling[r] # "queueing"
         /\ \A k \in Feeders : feeder[a][k] # "holding")
=============================================================================
