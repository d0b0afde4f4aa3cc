--------------------------- MODULE ResponseStream ---------------------------
(***************************************************************************)
(* The event stream that answers one request of the streamable HTTP client *)
(* (handleSSEResponse, resumeSSE, readSSEWithCursor in                     *)
(* transport/streamable_http.go), and the requests of the server that come *)
(* by it.  Streams end, break off and are resumed by Last-Event-ID; the    *)
(* caller may give up, and the session may be replaced meanwhile.          *)
(***************************************************************************)
EXTENDS Naturals, Sequences, Functions

CONSTANTS
  MaxEvents,   \* bound: events of the stream
  MaxReceipts, \* bound: requests of the server received, repeated ones too
  MaxStreams   \* bound: connections, the POST's included

VARIABLES
  modern,      \* isModern
  hasHandler,  \* requestHandler # nil
  session,     \* the stream's is current, has ended, or another is current
  events,      \* what the server sends in answer to the request
  connection,  \* the connection the reader reads
  streams,     \* bound
  reader,      \* the goroutine of handleSSEResponse
  cursor,      \* lastEventID; 0 is the empty one
  responses,   \* responseChan
  caller,      \* the outcome of handleSSEResponse
  ctxDone,     \* the caller's context has ended, or the client was closed
  incoming,    \* the goroutines of handleIncomingRequest
  handled,     \* history: the events handed to handle
  unfinished   \* history: those of them that came without their end

vars == <<modern, hasHandler, session, events, connection, streams, reader, cursor,
          responses, caller, ctxDone, incoming, handled, unfinished>>

-----------------------------------------------------------------------------
EventKinds == {"notification", "request", "response", "prime"}
\* How the last event of a connection arrives: with all its lines, without the
\* empty one, or with less than its data.
Cuts == {"whole", "unfinished", "truncated"}
\* What a connection has still to bring comes in the order it was sent in.
NoConnection == [is |-> "none", todo |-> {}, cut |-> "whole"]

Init ==
  /\ modern \in BOOLEAN /\ hasHandler \in BOOLEAN
  /\ session = "current"
  /\ events = <<>>
  /\ connection = [NoConnection EXCEPT !.is = "open"]
  /\ streams = 1
  /\ reader = "reading"
  /\ cursor = 0
  /\ responses = <<>>
  /\ caller = "waiting"
  /\ ctxDone = FALSE
  /\ incoming = <<>>
  /\ handled = <<>>
  /\ unfinished = {}

-----------------------------------------------------------------------------
(* The server and the network.                                              *)

\* The server sends an event: stored ones have an ID, and the others are lost
\* unless a connection is open.  The response is the last one.
Send ==
  /\ Len(events) < MaxEvents /\ \A i \in DOMAIN events : events[i].kind # "response"
  /\ \E kind \in EventKinds, stored \in BOOLEAN :
       /\ kind = "prime" => stored
       /\ events' = Append(events, [kind |-> kind, stored |-> stored])
  /\ connection' = IF connection.is = "open"
                   THEN [connection EXCEPT !.todo = @ \union {Len(events')}] ELSE connection
  /\ UNCHANGED <<modern, hasHandler, session, streams, reader, cursor, responses, caller,
                 ctxDone, incoming, handled, unfinished>>

\* The connection ends, between events or within one, or breaks off.
Disconnect ==
  /\ connection.is = "open"
  /\ \E cut \in Cuts, broken \in BOOLEAN :
       /\ cut # "whole" => connection.todo # {} /\ ~broken
       /\ connection' = [connection EXCEPT !.is = IF broken THEN "broken" ELSE "ended",
                                           !.cut = cut]
  /\ UNCHANGED <<modern, hasHandler, session, events, streams, reader, cursor, responses,
                 caller, ctxDone, incoming, handled, unfinished>>

\* Another request finds the session gone, and the caller initializes again.
SessionMoves ==
  /\ ~modern
  /\ session' = CASE session = "current" -> "ended" [] session = "ended" -> "replaced"
                  [] OTHER -> session
  /\ session # "replaced"
  /\ UNCHANGED <<modern, hasHandler, events, connection, streams, reader, cursor,
                 responses, caller, ctxDone, incoming, handled, unfinished>>

-----------------------------------------------------------------------------
(* The reader.                                                              *)

\* The context of the stream: handleSSEResponse cancels it when it returns.
Ended == ctxDone \/ caller # "waiting"

\* handle: a response goes to the caller, a request to a goroutine of its own.
handle(e) ==
  /\ handled' = IF events[e].kind = "prime" THEN handled ELSE Append(handled, e)
  /\ responses' = IF events[e].kind = "response" THEN Append(responses, e) ELSE responses
  /\ incoming' = IF events[e].kind # "request" THEN incoming
                 ELSE Append(incoming, [of |-> e, timedOut |-> FALSE,
                                        pc |-> IF hasHandler THEN "handling" ELSE "answer"])
  /\ events[e].kind = "request" => Len(incoming) < MaxReceipts

IsNext(e) == e \in connection.todo /\ \A f \in connection.todo : e <= f

\* readSSEWithCursor dispatches an event that came whole.
Dispatch(e) ==
  /\ reader = "reading" /\ IsNext(e)
  /\ connection.todo = {e} => connection.cut = "whole"
  /\ cursor' = IF events[e].stored THEN e ELSE cursor
  /\ handle(e)
  /\ connection' = [connection EXCEPT !.todo = @ \ {e}]
  /\ UNCHANGED <<modern, hasHandler, session, events, streams, reader, caller, ctxDone,
                 unfinished>>

\* After a stream that ended: resume, or close responseChan.
AfterEnd(delivered) ==
  IF ~delivered /\ cursor # 0 /\ ~modern THEN "delay" ELSE "closed"

\* The server ended the stream.  What is left of an event is handled if its
\* data is there, and its ID is not taken.
EndOfStream ==
  /\ reader = "reading" /\ connection.is = "ended" /\ ~Ended
  /\ \/ /\ connection.cut # "unfinished"
        /\ IF connection.cut = "whole" THEN connection.todo = {}
           ELSE \E e \in connection.todo : connection.todo = {e}
        /\ UNCHANGED <<handled, responses, incoming, unfinished>>
     \/ /\ connection.cut = "unfinished"
        /\ \E e \in connection.todo :
             connection.todo = {e} /\ handle(e) /\ unfinished' = unfinished \union {e}
  /\ reader' = AfterEnd(\E i \in DOMAIN handled' : events[handled'[i]].kind = "response")
  /\ connection' = NoConnection
  /\ UNCHANGED <<modern, hasHandler, session, events, streams, cursor, caller, ctxDone>>

\* It broke off, or the context has ended and the body was closed.
BrokenOff ==
  /\ reader = "reading"
  /\ Ended \/ (connection.is = "broken" /\ connection.todo = {})
  /\ reader' = IF Ended THEN "closed" ELSE "closed, broken"
  /\ connection' = NoConnection
  /\ UNCHANGED <<modern, hasHandler, session, events, streams, cursor, responses, caller,
                 ctxDone, incoming, handled, unfinished>>

\* What a server replays: the stored events after the one named.
Replayed == {i \in DOMAIN events : i > cursor /\ events[i].stored}

\* resumeSSE: wait, send the GET with the session that is current by then, and
\* look at the answer; only the stream's own session knows the ID.
resumeSSE ==
  /\ reader = "delay"
  /\ \/ /\ ~Ended /\ session = "current" /\ streams < MaxStreams
        /\ connection' = [NoConnection EXCEPT !.is = "open", !.todo = Replayed]
        /\ streams' = streams + 1
        /\ reader' = "reading"
     \/ /\ reader' = "closed, not resumed"
        /\ UNCHANGED <<connection, streams>>
  /\ UNCHANGED <<modern, hasHandler, session, events, cursor, responses, caller, ctxDone,
                 incoming, handled, unfinished>>

-----------------------------------------------------------------------------
(* The caller, and the requests of the server.                              *)

\* handleSSEResponse selects between responseChan and its context.
Return ==
  /\ caller = "waiting"
  /\ \/ /\ responses # <<>> /\ caller' = "response" /\ responses' = Tail(responses)
     \/ /\ responses = <<>> /\ UNCHANGED responses
        /\ caller' = CASE reader = "closed" -> "nil response"
                       [] reader = "closed, broken" -> "read error"
                       [] reader = "closed, not resumed" -> "resume error"
                       [] OTHER -> "waiting"
        /\ caller' # "waiting"
     \/ ctxDone /\ caller' = "context error" /\ UNCHANGED responses
  /\ UNCHANGED <<modern, hasHandler, session, events, connection, streams, reader, cursor,
                 ctxDone, incoming, handled, unfinished>>

Cancel ==
  /\ ~ctxDone /\ ctxDone' = TRUE
  /\ UNCHANGED <<modern, hasHandler, session, events, connection, streams, reader, cursor,
                 responses, caller, incoming, handled, unfinished>>

Incoming(n, next) ==
  /\ incoming' = [incoming EXCEPT ![n] = next]
  /\ UNCHANGED <<modern, hasHandler, session, events, connection, streams, reader, cursor,
                 responses, caller, ctxDone, handled, unfinished>>

\* requestCtx ends after 30 seconds.
TimesOut(n) ==
  /\ hasHandler /\ incoming[n].pc \in {"handling", "answer"} /\ ~incoming[n].timedOut
  /\ Incoming(n, [incoming[n] EXCEPT !.timedOut = TRUE])

\* The handler returns a response or an error, or no response.
HandlerReturns(n) ==
  /\ incoming[n].pc = "handling"
  /\ \E nothing \in BOOLEAN :
       Incoming(n, [incoming[n] EXCEPT !.pc = IF nothing THEN "silent" ELSE "answer"])

\* sendResponseToServer, under the request's context, with the current session.
sendResponseToServer(n) ==
  /\ incoming[n].pc = "answer"
  /\ Incoming(n, [incoming[n] EXCEPT !.pc =
       IF Ended \/ incoming[n].timedOut \/ session = "ended" THEN "not sent"
       ELSE IF session = "current" THEN "sent" ELSE "sent elsewhere"])

Next ==
  \/ Send \/ Disconnect \/ SessionMoves
  \/ (\E e \in connection.todo : Dispatch(e)) \/ EndOfStream \/ BrokenOff \/ resumeSSE
  \/ Return \/ Cancel
  \/ \E n \in DOMAIN incoming : TimesOut(n) \/ HandlerReturns(n) \/ sendResponseToServer(n)

Spec == Init /\ [][Next]_vars
-----------------------------------------------------------------------------
TypeOK ==
  /\ session \in {"current", "ended", "replaced"}
  /\ \A i \in DOMAIN events : events[i].kind \in EventKinds /\ events[i].stored \in BOOLEAN
  /\ connection.is \in {"none", "open", "ended", "broken"} /\ connection.cut \in Cuts
  /\ reader \in {"reading", "delay", "closed", "closed, broken", "closed, not resumed"}
  /\ cursor \in 0..Len(events) /\ Len(responses) <= 1
  /\ caller \in {"waiting", "response", "nil response", "read error", "resume error",
                 "context error"}

\* However often the stream ends and is resumed, its events are handled in order,
\* no stored one is left out, and only one that came without its end is repeated
\* (readSSEWithCursor: "resuming from the one before at worst repeats it").
HandlesRun ==
  /\ \A i \in 1..(Len(handled) - 1) :
       handled[i] <= handled[i + 1] /\ (handled[i] = handled[i + 1] => handled[i] \in unfinished)
  /\ handled # <<>> => \A e \in 1..handled[Len(handled)] :
       events[e].stored /\ events[e].kind # "prime" => e \in Range(handled)

\* A response that was read is not dropped for an error of the stream that brought
\* it, and a caller is told no reason only if there was nothing to resume from or
\* its context has ended (handleSSEResponse).
ReasonGiven ==
  /\ caller = "nil response" => cursor = 0 \/ modern \/ ctxDone
  /\ reader # "reading" /\ caller = "waiting" /\ responses = <<>> =>
       \A i \in DOMAIN handled : events[handled[i]].kind # "response"
  /\ caller \in {"read error", "resume error"} =>
       \A i \in DOMAIN handled : events[handled[i]].kind # "response"

StreamRead == HandlesRun /\ ReasonGiven

\* While the call goes on, every request of the server that came by its stream is
\* answered (handleIncomingRequest).  It does not hold: a handler that ran into
\* its deadline is answered for with the context that has ended.
TimeoutIsTold ==
  \A n \in DOMAIN incoming : incoming[n].pc = "not sent" => Ended \/ session # "current"
=============================================================================
