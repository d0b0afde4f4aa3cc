------------------------------- MODULE Stdio -------------------------------
(***************************************************************************)
(* The stdio server (server/stdio.go) with the in-flight cancellation map  *)
(* of HandleMessage (server/request_handler.go, server/server.go).         *)
(*                                                                         *)
(* One goroutine reads the client's messages.  A tools/call goes to a      *)
(* bounded queue that a pool of workers serves, or is handled by the read  *)
(* loop itself when the queue is full; any other request gets a goroutine. *)
(* A handler may ask the client (sampling, elicitation, roots) and wait;   *)
(* the answer comes in through the read loop.  Listen ends with the input  *)
(* or its context, and joins everything it started.                        *)
(***************************************************************************)
EXTENDS Integers, Sequences, FiniteSets

CONSTANTS
  Calls,           \* ids of the client's tools/call requests
  Requests,        \* ids of its other requests
  None,
  WorkerPoolSize,
  QueueSize,
  MaxAsks,         \* bound: requests the server sends to the client
  MaxCancels       \* bound: requests in flight that the client cancels

\* The ids the session gives to its own requests: requestID counts up from 1.
Asks == 1..MaxAsks

Ids == Calls \union Requests

ASSUME StdioAssumption ==
  /\ Ids \subseteq Nat /\ Calls \intersect Requests = {}
  /\ None \notin Ids
  /\ WorkerPoolSize \in Nat \ {0} /\ QueueSize \in Nat \ {0} /\ MaxAsks \in Nat
  /\ MaxCancels \in Nat

VARIABLES
  loop,      \* the goroutine of Listen: read loop, then shutdown
  ctxDone,   \* the context of all requests is cancelled
  queue,     \* toolCallQueue
  at,        \* how far each request is
  by,        \* who serves it: "worker", "goroutine", "loop"
  outer,     \* the context made by trackInflight is cancelled
  inner,     \* the context made by HandleMessage is cancelled
  inflight,  \* inflightCancels: whose cancel function each id's key holds
  answers,   \* responses handed to stdout, by id
  requestID, \* the session's counter
  asker,     \* the handler that sent each of the session's requests
  pending,   \* the pending maps of the session: ids with a response channel
  arrived,   \* those whose channel holds the response
  replied,   \* the session's requests the client has answered, as read
  echo,      \* a response nobody waits for, served as if it were a request
  cancels,   \* history: requests cancelled by the client while in flight
  displaced  \* history: requests in flight whose entry of inflightCancels a
             \* response with their number took over or removed

vars == <<loop, ctxDone, queue, at, by, outer, inner, inflight, answers,
          requestID, asker, pending, arrived, replied, echo, cancels, displaced>>
askVars == <<requestID, asker, pending, arrived, replied>>
reqVars == <<at, by, outer, inner>>

Keys == Ids \union Asks

\* A cancel function in inflightCancels: trackInflight's, or the one
\* HandleMessage makes; those of an echo cancel nobody's context.
Cancellers == [id : Ids, of : {"outer", "inner"}] \union {[id |-> None, of |-> "echo"]}

Nothing == [id |-> None, of |-> "none"]

\* The calls that occupy a worker.
Busy == {id \in Ids : by[id] = "worker" /\ at[id] \in {"running", "returning", "closing"}}

\* Every variable has its type; queue and pool keep to their sizes.
TypeOK ==
  /\ loop \in {"reading", "inline", "ended", "closed", "returned"}
  /\ ctxDone \in BOOLEAN
  /\ queue \in Seq(Calls) /\ Len(queue) <= QueueSize
  /\ at \in [Ids -> {"unsent", "refused", "waiting", "running", "returning", "closing",
                     "done"}]
  /\ by \in [Ids -> {None, "worker", "goroutine", "loop"}]
  /\ Cardinality(Busy) <= WorkerPoolSize
  /\ outer \in [Ids -> BOOLEAN] /\ inner \in [Ids -> BOOLEAN]
  /\ inflight \in [Keys -> Cancellers \union {Nothing}]
  /\ answers \in [Keys -> Nat]
  /\ requestID \in 0..MaxAsks
  /\ asker \in [Asks -> Ids \union {None}]
  /\ pending \subseteq Asks /\ arrived \subseteq Asks
  /\ replied \in [Asks -> {"no", "result", "error"}]
  /\ echo \in [Asks -> {"none", "spawned", "closing", "done"}]
  /\ cancels \subseteq Ids /\ displaced \subseteq Ids

Init ==
  /\ loop = "reading"
  /\ ctxDone = FALSE
  /\ queue = <<>>
  /\ at = [id \in Ids |-> "unsent"]
  /\ by = [id \in Ids |-> None]
  /\ outer = [id \in Ids |-> FALSE]
  /\ inner = [id \in Ids |-> FALSE]
  /\ inflight = [k \in Keys |-> Nothing]
  /\ answers = [k \in Keys |-> 0]
  /\ requestID = 0
  /\ asker = [n \in Asks |-> None]
  /\ pending = {} /\ arrived = {}
  /\ replied = [n \in Asks |-> "no"]
  /\ echo = [n \in Asks |-> "none"]
  /\ cancels = {} /\ displaced = {}

\* The context a handler runs with is done: its own, trackInflight's, or the
\* one of Listen.
Cancelled(id) == inner[id] \/ outer[id] \/ ctxDone

-----------------------------------------------------------------------------
(* The read loop: processInputStream, processMessage.                      *)

\* After a message the loop looks at its context before it reads on.
afterMessage == IF ctxDone THEN "ended" ELSE "reading"

\* Mutant: a request is registered by HandleMessage only, once it runs.
trackInflight_Late(k, canceller) == inflight' = inflight

\* trackInflight stores the request's cancel function under its key.
trackInflight(k, canceller) == inflight' = [inflight EXCEPT ![k] = canceller]

\* The client numbers its calls in the order it sends them.
NextCall(id) == at[id] = "unsent" /\ \A c \in Calls : at[c] = "unsent" => id <= c

\* A tools/call: queued if there is room, refused if the context is done, and
\* otherwise handled by the loop.
ReadCall(id) ==
  /\ loop = "reading"
  /\ NextCall(id)
  /\ \/ /\ Len(queue) < QueueSize
        /\ trackInflight(id, [id |-> id, of |-> "outer"])
        /\ queue' = Append(queue, id)
        /\ at' = [at EXCEPT ![id] = "waiting"]
        /\ by' = [by EXCEPT ![id] = "worker"]
        /\ loop' = afterMessage
     \/ /\ ctxDone
        /\ inflight' = [inflight EXCEPT ![id] = Nothing]
        /\ at' = [at EXCEPT ![id] = "refused"]
        /\ loop' = "ended"
        /\ UNCHANGED <<queue, by>>
     \/ /\ Len(queue) >= QueueSize /\ ~ctxDone
        /\ trackInflight(id, [id |-> id, of |-> "outer"])
        /\ at' = [at EXCEPT ![id] = "waiting"]
        /\ by' = [by EXCEPT ![id] = "loop"]
        /\ loop' = "inline"
        /\ UNCHANGED queue
  /\ UNCHANGED <<ctxDone, outer, inner, answers, askVars, echo, cancels, displaced>>

\* Any other request gets a goroutine.
ReadRequest(id) ==
  /\ loop = "reading"
  /\ at[id] = "unsent"
  /\ trackInflight(id, [id |-> id, of |-> "outer"])
  /\ at' = [at EXCEPT ![id] = "waiting"]
  /\ by' = [by EXCEPT ![id] = "goroutine"]
  /\ loop' = afterMessage
  /\ UNCHANGED <<ctxDone, queue, outer, inner, answers, askVars, echo, cancels, displaced>>

\* notifications/cancelled, handled by the loop: the function found under the
\* request's key is taken out and called.
handleNotification(id) ==
  /\ loop = "reading"
  /\ at[id] # "unsent" /\ id \notin cancels
  /\ Cardinality(cancels) < MaxCancels
  /\ LET c == inflight[id]
     IN  /\ outer' = IF c.of = "outer" THEN [outer EXCEPT ![c.id] = TRUE] ELSE outer
         /\ inner' = IF c.of = "inner" THEN [inner EXCEPT ![c.id] = TRUE] ELSE inner
  /\ inflight' = [inflight EXCEPT ![id] = Nothing]
  /\ cancels' = IF at[id] \in {"waiting", "running"} THEN cancels \union {id} ELSE cancels
  /\ loop' = afterMessage
  /\ UNCHANGED <<ctxDone, queue, at, by, answers, askVars, echo, displaced>>

\* The request with the number of a response, if it is in flight, loses its entry.
Displaces(n) ==
  displaced' = displaced \union ({n} \intersect {id \in Ids : at[id] \in {"waiting", "running"}})

\* A response of the client.  One that is waited for goes to its channel; any
\* other falls through to the request path, where its id is tracked like a
\* request's.
ReadReply(n, kind) ==
  /\ loop = "reading"
  /\ n <= requestID /\ asker[n] # None
  /\ replied[n] = "no"
  /\ replied' = [replied EXCEPT ![n] = kind]
  /\ IF n \in pending
     THEN arrived' = arrived \union {n} /\ UNCHANGED <<inflight, echo, displaced>>
     ELSE /\ trackInflight(n, [id |-> None, of |-> "echo"])
          /\ Displaces(n)
          /\ echo' = [echo EXCEPT ![n] = "spawned"]
          /\ UNCHANGED arrived
  /\ loop' = afterMessage
  /\ UNCHANGED <<ctxDone, queue, reqVars, answers, requestID, asker, pending,
                 cancels>>

\* The input ends, the loop finds its context done, or it cannot write the
\* error response to a message that does not parse.
InputEnds ==
  /\ loop = "reading"
  /\ loop' = "ended"
  /\ UNCHANGED <<ctxDone, queue, reqVars, inflight, answers, askVars, echo,
                 cancels, displaced>>

-----------------------------------------------------------------------------
(* Serving a request: toolCallWorker, handleRequest, HandleMessage.        *)

\* Mutant: a worker stops once the context is done.
TakeWork_StopsOnDone ==
  /\ ~ctxDone
  /\ queue # <<>>
  /\ Cardinality(Busy) < WorkerPoolSize
  /\ at' = [at EXCEPT ![Head(queue)] = "running"]
  /\ inflight' = [inflight EXCEPT ![Head(queue)] = [id |-> Head(queue), of |-> "inner"]]
  /\ queue' = Tail(queue)
  /\ UNCHANGED <<loop, ctxDone, by, outer, inner, answers, askVars, echo, cancels, displaced>>

\* A worker takes the next call off the queue, also when the context is done,
\* and enters HandleMessage, which registers its own cancel function.
TakeWork ==
  /\ queue # <<>>
  /\ Cardinality(Busy) < WorkerPoolSize
  /\ at' = [at EXCEPT ![Head(queue)] = "running"]
  /\ inflight' = [inflight EXCEPT ![Head(queue)] = [id |-> Head(queue), of |-> "inner"]]
  /\ queue' = Tail(queue)
  /\ UNCHANGED <<loop, ctxDone, by, outer, inner, answers, askVars, echo, cancels, displaced>>

\* A request's goroutine, or the loop, enters HandleMessage.
HandleMessage(id) ==
  /\ at[id] = "waiting" /\ by[id] # "worker"
  /\ at' = [at EXCEPT ![id] = "running"]
  /\ inflight' = [inflight EXCEPT ![id] = [id |-> id, of |-> "inner"]]
  /\ UNCHANGED <<loop, ctxDone, queue, by, outer, inner, answers, askVars, echo,
                 cancels, displaced>>

\* The requests of the session that handler id waits on.
WaitingOn(id) == {n \in pending : asker[n] = id}

\* RequestSampling, ListRoots, RequestElicitation: take an id, register the
\* channel, write the request; a failed write takes it back.
RequestSampling(id) ==
  /\ at[id] = "running" /\ WaitingOn(id) = {}
  /\ requestID < MaxAsks
  /\ requestID' = requestID + 1
  /\ \/ UNCHANGED <<asker, pending>>
     \/ /\ asker' = [asker EXCEPT ![requestID'] = id]
        /\ pending' = pending \union {requestID'}
  /\ UNCHANGED <<loop, ctxDone, queue, reqVars, inflight, answers, arrived,
                 replied, echo, cancels, displaced>>

\* The wait ends with the response, or with the context the handler passed,
\* which may have a deadline of its own.
WaitEnds(n) ==
  /\ n \in pending
  /\ pending' = pending \ {n}
  /\ UNCHANGED <<loop, ctxDone, queue, reqVars, inflight, answers, requestID,
                 asker, arrived, replied, echo, cancels, displaced>>

\* The handler returns or panics; HandleMessage's deferred calls run.
HandlerReturns(id) ==
  /\ at[id] = "running" /\ WaitingOn(id) = {}
  /\ at' = [at EXCEPT ![id] = "returning"]
  /\ inflight' = [inflight EXCEPT ![id] = Nothing]
  /\ inner' = [inner EXCEPT ![id] = TRUE]
  /\ UNCHANGED <<loop, ctxDone, queue, by, outer, answers, askVars, echo, cancels, displaced>>

\* writeResponse, under writeMu.  A write that fails is logged.
writeResponse(k) == answers' = [answers EXCEPT ![k] = @ + 1]

\* The function trackInflight returned.
untrack(id) ==
  /\ inflight' = [inflight EXCEPT ![id] = Nothing]
  /\ outer' = [outer EXCEPT ![id] = TRUE]

\* A worker untracks the call and then writes its response.
WorkerFinishes(id) ==
  /\ by[id] = "worker"
  /\ \/ /\ at[id] = "returning"
        /\ at' = [at EXCEPT ![id] = "closing"]
        /\ untrack(id)
        /\ UNCHANGED answers
     \/ /\ at[id] = "closing"
        /\ at' = [at EXCEPT ![id] = "done"]
        /\ writeResponse(id)
        /\ UNCHANGED <<inflight, outer>>
  /\ UNCHANGED <<loop, ctxDone, queue, by, inner, askVars, echo, cancels, displaced>>

\* A goroutine writes the response and then untracks the request.
handleRequest(id) ==
  /\ by[id] = "goroutine"
  /\ \/ /\ at[id] = "returning"
        /\ at' = [at EXCEPT ![id] = "closing"]
        /\ writeResponse(id)
        /\ UNCHANGED <<inflight, outer>>
     \/ /\ at[id] = "closing"
        /\ at' = [at EXCEPT ![id] = "done"]
        /\ untrack(id)
        /\ UNCHANGED answers
  /\ UNCHANGED <<loop, ctxDone, queue, by, inner, askVars, echo, cancels, displaced>>

\* The loop does both before it reads on; a failed write of its own ends it.
InlineFinishes(id) ==
  /\ by[id] = "loop" /\ at[id] = "returning"
  /\ at' = [at EXCEPT ![id] = "done"]
  /\ writeResponse(id)
  /\ untrack(id)
  /\ loop' \in {afterMessage, "ended"}
  /\ UNCHANGED <<ctxDone, queue, by, inner, askVars, echo, cancels, displaced>>

\* A response that is served as a request: a result is dropped, an error has no
\* method HandleMessage knows and is answered with one.
EchoFinishes(n) ==
  /\ \/ /\ echo[n] = "spawned"
        /\ echo' = [echo EXCEPT ![n] = "closing"]
        /\ IF replied[n] = "error"
           THEN inflight' = [inflight EXCEPT ![n] = Nothing] /\ Displaces(n) /\ writeResponse(n)
           ELSE UNCHANGED <<inflight, displaced, answers>>
     \/ /\ echo[n] = "closing"
        /\ echo' = [echo EXCEPT ![n] = "done"]
        /\ inflight' = [inflight EXCEPT ![n] = Nothing]
        /\ Displaces(n)
        /\ UNCHANGED answers
  /\ UNCHANGED <<loop, ctxDone, queue, reqVars, askVars, cancels>>

-----------------------------------------------------------------------------
(* Shutdown.                                                               *)

\* The caller of Listen, or the signal handler of ServeStdio, cancels.
Cancel ==
  /\ ~ctxDone
  /\ ctxDone' = TRUE
  /\ UNCHANGED <<loop, queue, reqVars, inflight, answers, askVars, echo, cancels, displaced>>

\* Listen cancels the requests' context and closes the queue.
CloseQueue ==
  /\ loop = "ended"
  /\ loop' = "closed"
  /\ ctxDone' = TRUE
  /\ UNCHANGED <<queue, reqVars, inflight, answers, askVars, echo, cancels, displaced>>

\* Mutant: Listen waits for the handlers that run, not for the queue.
ListenReturns_Undrained ==
  /\ loop = "closed"
  /\ \A id \in Ids : at[id] \notin {"running", "returning", "closing"}
  /\ \A n \in Asks : echo[n] \in {"none", "done"}
  /\ loop' = "returned"
  /\ UNCHANGED <<ctxDone, queue, reqVars, inflight, answers, askVars, echo,
                 cancels, displaced>>

\* workerWg and requestWg: the workers drained the queue and every goroutine
\* has ended.
ListenReturns ==
  /\ loop = "closed"
  /\ queue = <<>>
  /\ \A id \in Ids : at[id] \in {"unsent", "refused", "done"}
  /\ \A n \in Asks : echo[n] \in {"none", "done"}
  /\ loop' = "returned"
  /\ UNCHANGED <<ctxDone, queue, reqVars, inflight, answers, askVars, echo,
                 cancels, displaced>>

-----------------------------------------------------------------------------
Serve(id) ==
  \/ HandleMessage(id)
  \/ HandlerReturns(id)
  \/ WorkerFinishes(id)
  \/ handleRequest(id)
  \/ InlineFinishes(id)

Next ==
  \/ \E id \in Calls : ReadCall(id)
  \/ \E id \in Requests : ReadRequest(id)
  \/ \E id \in Ids : handleNotification(id) \/ RequestSampling(id) \/ Serve(id)
  \/ \E n \in Asks : \/ \E kind \in {"result", "error"} : ReadReply(n, kind)
                     \/ WaitEnds(n)
                     \/ EchoFinishes(n)
  \/ TakeWork
  \/ InputEnds \/ Cancel \/ CloseQueue \/ ListenReturns

Spec == Init /\ [][Next]_vars

\* Goroutines run on.  A tool's handler returns once it has its answers, any
\* other handler (subscriptions/listen) at least once it is cancelled; a wait
\* for the client ends with the response or the handler's context; the client
\* answers what it is asked, and the loop reads it.  Nobody has to send, to
\* cancel or to end the input.
Fairness ==
  /\ WF_vars(TakeWork)
  /\ \A id \in Ids :
       /\ WF_vars(HandleMessage(id) \/ WorkerFinishes(id) \/ handleRequest(id)
                    \/ InlineFinishes(id))
       /\ WF_vars((id \in Calls \/ Cancelled(id)) /\ HandlerReturns(id))
  /\ \A n \in Asks :
       /\ WF_vars(n \in pending /\ (n \in arrived \/ Cancelled(asker[n])) /\ WaitEnds(n))
       /\ WF_vars(\E kind \in {"result", "error"} : ReadReply(n, kind))
       /\ WF_vars(EchoFinishes(n))
  /\ WF_vars(CloseQueue) /\ WF_vars(ListenReturns)

FairSpec == Spec /\ Fairness

-----------------------------------------------------------------------------
\* A response served as a request was an error and has been answered as one.
Rejected(k) == k \in Asks /\ replied[k] = "error" /\ echo[k] \in {"closing", "done"}

\* When Listen returns, every request it accepted has been answered exactly
\* once (besides the error that a late error reply with its number is answered
\* with), no handler still waits for the client, and no cancel function is left
\* behind, whatever numbers the two sides use (Listen, toolCallWorker,
\* handleRequest).
ListenLeavesNothing ==
  loop = "returned" =>
    /\ \A id \in Ids :
         \/ at[id] \in {"unsent", "refused"}
         \/ at[id] = "done" /\ answers[id] = IF Rejected(id) THEN 2 ELSE 1
    /\ pending = {}
    /\ \A k \in Keys : inflight[k] = Nothing

\* A cancellation read while its request waits for a worker or a goroutine, or
\* runs, reaches the handler's context (trackInflight, HandleMessage,
\* handleNotification).
CancellationReaches ==
  \A id \in cancels : at[id] = "running" => Cancelled(id)

\* It is lost only to a response nobody waits for that has the request's number
\* and is read, or served, while the request is in flight (trackInflight,
\* HandleMessage, handleNotification).
CancellationLostOnlyToLateReply ==
  \A id \in cancels : at[id] = "running" => Cancelled(id) \/ id \in displaced

\* The loop handles a call itself, and the call waits for the client.
Stalled == loop = "inline" /\ \E n \in pending : by[asker[n]] = "loop"

\* Every accepted tool call is answered, unless the read loop stalls, and Listen
\* ends once its input has: all that it joins comes to an end (processMessage,
\* toolCallWorker, Listen).
ServesToTheEnd ==
  /\ \A id \in Calls : at[id] = "waiting" ~> (at[id] = "done" \/ Stalled)
  /\ loop = "ended" ~> loop = "returned"

\* No handler stalls the read loop: what it has to read, it reads, and every
\* accepted tool call is answered.
NeverStalls == \A id \in Calls : at[id] = "waiting" ~> at[id] = "done"
=============================================================================
