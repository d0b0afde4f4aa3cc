----------------------------- MODULE HttpClient -----------------------------
(***************************************************************************)
(* The session of the streamable HTTP client transport                     *)
(* (client/transport/streamable_http.go).                                  *)
(*                                                                         *)
(* Every request of the client carries the session the server gave to      *)
(* initialize.  A server that has restarted, or has expired the session,   *)
(* answers 404: the transport then refuses to send until the caller starts *)
(* a new session.  A goroutine keeps a GET stream open on the session: it  *)
(* waits while the session has ended and moves to the new one when there   *)
(* is one.  Requests, initializations, the listener and Close run          *)
(* concurrently, and each reads the session before it talks to the server  *)
(* and acts on the answer after.                                           *)
(***************************************************************************)
EXTENDS Integers, FiniteSets

CONSTANTS
  Callers,       \* goroutines that send a request, a notification, a response
  Inits,         \* goroutines that initialize
  MaxSessions,   \* bound: sessions the server creates
  MaxForgets,    \* bound: sessions the server forgets
  MaxBreaks      \* bound: GETs and GET streams that fail

ASSUME HttpClientAssumption ==
  MaxSessions \in Nat /\ MaxForgets \in Nat /\ MaxBreaks \in Nat

NoSession == 0                  \* the empty session ID
NoChannel == 0                  \* a nil channel
Sessions == 1..MaxSessions

VARIABLES
  sessionID,      \* the session stored, NoSession when there is none
  sessionEnded,   \* the channel set when the session ended, or NoChannel
  closedChannels, \* the channels that were sessionEnded and have been closed
  listenSession, listenCancel, \* the GET connection on record
  connCancelled,  \* the context of the listener's connection is cancelled
  initialized,    \* the channel of that name is closed
  clientClosed,   \* the channel "closed" is closed
  closing,        \* the goroutine of Close
  listener,       \* the goroutine of listenForever
  call,           \* one goroutine of Callers each
  init,           \* one goroutine of Inits each
  issued, known,  \* the server: sessions created, sessions it still knows
  offersGet,      \* the server: whether it has a GET stream
  forgets, breaks,
  announced       \* history: markSessionStarted has announced the session stored

sessionVars == <<sessionID, sessionEnded, closedChannels>>
connVars == <<listenSession, listenCancel, connCancelled>>
clientVars == <<initialized, clientClosed, closing>>
serverVars == <<issued, known, offersGet, forgets>>
vars == <<sessionVars, connVars, clientVars, listener, call, init,
          serverVars, breaks, announced>>

Channels == 1..MaxSessions      \* at most one for each session that ends

Init ==
  /\ sessionID = NoSession /\ sessionEnded = NoChannel /\ closedChannels = {}
  /\ listenSession = NoSession /\ listenCancel = FALSE /\ connCancelled = FALSE
  /\ initialized = FALSE /\ clientClosed = FALSE
  /\ closing = [pc |-> "none", session |-> NoSession]
  /\ listener = [pc |-> "idle", wait |-> NoChannel, session |-> NoSession,
                 sent |-> NoSession, openedOn |-> NoSession, result |-> "none"]
  /\ call = [c \in Callers |-> [pc |-> "idle", session |-> NoSession]]
  /\ init = [i \in Inits |-> [pc |-> "idle", session |-> NoSession,
                              answer |-> NoSession]]
  /\ issued = 0 /\ known = {} /\ forgets = 0
  /\ offersGet \in BOOLEAN
  /\ breaks = 0 /\ announced = FALSE

-----------------------------------------------------------------------------
(* The session, under sessionMu.                                            *)

\* Mutant: whatever session is stored is dropped.
EndSession_WhateverIsCurrent(session) ==
  IF session # NoSession /\ sessionID # NoSession
    THEN /\ sessionID' = NoSession
         /\ sessionEnded' = IF sessionEnded = NoChannel
                              THEN Cardinality(closedChannels) + 1
                              ELSE sessionEnded
         /\ UNCHANGED closedChannels
    ELSE UNCHANGED sessionVars

\* endSession: only the session the request was sent on is dropped, and the
\* channel made then is the one the listener waits on.
EndSession(session) ==
  IF session # NoSession /\ sessionID = session
    THEN /\ sessionID' = NoSession
         /\ sessionEnded' = IF sessionEnded = NoChannel
                              THEN Cardinality(closedChannels) + 1
                              ELSE sessionEnded
         /\ UNCHANGED closedChannels
    ELSE UNCHANGED sessionVars

\* Mutant: the channel is replaced and not closed.
MarkSessionStarted_NoClose(session) ==
  IF sessionID = session
    THEN /\ sessionEnded' = NoChannel
         /\ connCancelled' = (connCancelled \/ (listenCancel /\ listenSession # session))
         /\ announced' = TRUE
         /\ UNCHANGED closedChannels
    ELSE UNCHANGED <<sessionEnded, closedChannels, connCancelled, announced>>

\* Mutant: the connection on another session is left open.
MarkSessionStarted_NoCancel(session) ==
  IF sessionID = session
    THEN /\ sessionEnded' = NoChannel
         /\ closedChannels' = closedChannels \union ({sessionEnded} \ {NoChannel})
         /\ announced' = TRUE
         /\ UNCHANGED connCancelled
    ELSE UNCHANGED <<sessionEnded, closedChannels, connCancelled, announced>>

\* markSessionStarted: the listener wakes up if it waits, and leaves a
\* connection on another session; nothing happens when the session has
\* changed since the caller read it.
MarkSessionStarted(session) ==
  IF sessionID = session
    THEN /\ sessionEnded' = NoChannel
         /\ closedChannels' = closedChannels \union ({sessionEnded} \ {NoChannel})
         /\ connCancelled' = (connCancelled \/ (listenCancel /\ listenSession # session))
         /\ announced' = TRUE
    ELSE UNCHANGED <<sessionEnded, closedChannels, connCancelled, announced>>

-----------------------------------------------------------------------------
(* A request that does not start a session: SendRequest, SendNotification   *)
(* and sendResponseToServer, by way of sendHTTP.  While the session has     *)
(* ended it fails with ErrSessionTerminated at once, and changes nothing.   *)

Send(c) ==
  /\ call[c].pc = "idle" /\ initialized /\ sessionEnded = NoChannel
  /\ call' = [call EXCEPT ![c] = [pc |-> "sent", session |-> sessionID]]
  /\ UNCHANGED <<sessionVars, connVars, clientVars, listener, init,
                 serverVars, breaks, announced>>

\* The answer, an error of the network, or the client closed.
Answered(c) ==
  /\ call[c].pc = "sent"
  /\ call' = [call EXCEPT ![c] = [pc |-> "idle", session |-> NoSession]]
  /\ UNCHANGED <<sessionVars, connVars, clientVars, listener, init,
                 serverVars, breaks, announced>>

\* 404: the session is ended, however long after the server answered (it does
\* not come to know the session again meanwhile).
NotFound(c) ==
  /\ call[c].pc = "sent" /\ call[c].session \notin known
  /\ EndSession(call[c].session)
  /\ call' = [call EXCEPT ![c] = [pc |-> "idle", session |-> NoSession]]
  /\ UNCHANGED <<connVars, clientVars, listener, init, serverVars, breaks, announced>>

-----------------------------------------------------------------------------
(* initialize, which goes out even when the session has ended.              *)

InitIdle == [pc |-> "idle", session |-> NoSession, answer |-> NoSession]

SendInit(i) ==
  /\ init[i].pc = "idle" /\ ~clientClosed
  /\ init' = [init EXCEPT ![i] = [InitIdle EXCEPT !.pc = "sent",
                                                  !.session = sessionID]]
  /\ UNCHANGED <<sessionVars, connVars, clientVars, listener, call,
                 serverVars, breaks, announced>>

\* The server answers 200 with a new session in the header.
InitAnswered(i) ==
  /\ init[i].pc = "sent" /\ issued < MaxSessions
  /\ issued' = issued + 1 /\ known' = known \union {issued + 1}
  /\ init' = [init EXCEPT ![i].pc = "answered", ![i].answer = issued + 1]
  /\ UNCHANGED <<sessionVars, connVars, clientVars, listener, call,
                 offersGet, forgets, breaks, announced>>

\* 404: a server that only speaks the legacy transport, for all the caller
\* is told; the session sent is ended all the same.
InitNotFound(i) ==
  /\ init[i].pc = "sent" /\ init[i].session \notin known
  /\ EndSession(init[i].session)
  /\ init' = [init EXCEPT ![i] = InitIdle]
  /\ UNCHANGED <<connVars, clientVars, listener, call, serverVars, breaks, announced>>

\* An error of the network, another error status, or the client closed.
InitFailed(i) ==
  /\ init[i].pc = "sent"
  /\ init' = [init EXCEPT ![i] = InitIdle]
  /\ UNCHANGED <<sessionVars, connVars, clientVars, listener, call,
                 serverVars, breaks, announced>>

\* The session is stored, without sessionMu, and the listener may start.
InitStore(i) ==
  /\ init[i].pc = "answered"
  /\ sessionID' = init[i].answer
  /\ initialized' = TRUE
  /\ announced' = FALSE
  /\ init' = [init EXCEPT ![i] = [InitIdle EXCEPT !.pc = "stored"]]
  /\ UNCHANGED <<sessionEnded, closedChannels, connVars, clientClosed, closing,
                 listener, call, serverVars, breaks>>

\* The session this response leaves in place is read again.
InitLoad(i) ==
  /\ init[i].pc = "stored"
  /\ init' = [init EXCEPT ![i].pc = "loaded", ![i].session = sessionID]
  /\ UNCHANGED <<sessionVars, connVars, clientVars, listener, call,
                 serverVars, breaks, announced>>

\* The body holds a result.
InitMark(i) ==
  /\ init[i].pc = "loaded"
  /\ MarkSessionStarted(init[i].session)
  /\ init' = [init EXCEPT ![i] = InitIdle]
  /\ UNCHANGED <<sessionID, listenSession, listenCancel, clientVars, listener,
                 call, serverVars, breaks>>

\* The body cannot be read, or holds an error.
InitBadBody(i) ==
  /\ init[i].pc = "loaded"
  /\ init' = [init EXCEPT ![i] = InitIdle]
  /\ UNCHANGED <<sessionVars, connVars, clientVars, listener, call,
                 serverVars, breaks, announced>>

-----------------------------------------------------------------------------
(* The listener: the goroutine of Start, then listenForever.                *)

ListenStart ==
  /\ listener.pc = "idle"
  /\ \/ initialized /\ listener' = [listener EXCEPT !.pc = "top"]
     \/ clientClosed /\ listener' = [listener EXCEPT !.pc = "stopped"]
  /\ UNCHANGED <<sessionVars, connVars, clientVars, call, init, serverVars,
                 breaks, announced>>

\* listenOn: the connection is recorded, or the channel is waited for.
ListenOn ==
  /\ listener.pc = "top"
  /\ IF sessionEnded = NoChannel
       THEN /\ listener' = [listener EXCEPT !.pc = "recorded", !.session = sessionID]
            /\ listenSession' = sessionID
            /\ listenCancel' = TRUE /\ connCancelled' = FALSE
       ELSE /\ listener' = [listener EXCEPT !.pc = "waiting", !.wait = sessionEnded]
            /\ UNCHANGED connVars
  /\ UNCHANGED <<sessionVars, clientVars, call, init, serverVars, breaks, announced>>

ListenWake ==
  /\ listener.pc = "waiting"
  /\ \/ /\ listener.wait \in closedChannels
        /\ listener' = [listener EXCEPT !.pc = "top", !.wait = NoChannel]
     \/ /\ clientClosed
        /\ listener' = [listener EXCEPT !.pc = "stopped", !.wait = NoChannel]
  /\ UNCHANGED <<sessionVars, connVars, clientVars, call, init, serverVars,
                 breaks, announced>>

\* createGETConnectionToServer sends with the session it reads now, which may
\* not be the one recorded, or fails as the session has ended meanwhile.
SendGet ==
  /\ listener.pc = "recorded"
  /\ listener' = IF sessionEnded # NoChannel
                   THEN [listener EXCEPT !.pc = "over", !.result = "404"]
                   ELSE [listener EXCEPT !.pc = "sent", !.sent = sessionID]
  /\ UNCHANGED <<sessionVars, connVars, clientVars, call, init, serverVars,
                 breaks, announced>>

\* The server's answer: a stream, 405 or 404 when it offers none, 404 for a
\* session it does not know, another error without a session.
GetAnswered ==
  /\ listener.pc = "sent" /\ ~connCancelled /\ ~clientClosed
  /\ \/ /\ offersGet /\ listener.sent \in known
        /\ listener' = [listener EXCEPT !.pc = "open"]
     \/ \E status \in IF ~offersGet THEN {"404", "405"}
                      ELSE IF listener.sent = NoSession THEN {"error"}
                      ELSE IF listener.sent \notin known THEN {"404"} ELSE {} :
          listener' = [listener EXCEPT !.pc = "over", !.result = status]
  /\ UNCHANGED <<sessionVars, connVars, clientVars, call, init, serverVars,
                 breaks, announced>>

\* The connection is cancelled (a new session, Close), or breaks.
ConnectionEnds ==
  /\ listener.pc \in {"sent", "open"}
  /\ \/ (connCancelled \/ clientClosed) /\ UNCHANGED breaks
     \/ breaks < MaxBreaks /\ breaks' = breaks + 1
  /\ listener' = [listener EXCEPT !.pc = "over",
                                  !.result = IF listener.pc = "open" THEN "ended" ELSE "error"]
  /\ UNCHANGED <<sessionVars, connVars, clientVars, call, init, serverVars, announced>>

\* listenDone, and where the loop goes then.  "moved" is that the connection
\* was cancelled, by a new session or with the client.
ListenDone ==
  /\ listener.pc = "over"
  /\ listenSession' = NoSession /\ listenCancel' = FALSE /\ connCancelled' = FALSE
  /\ listener' =
       [listener EXCEPT
          !.sent = NoSession,
          !.session = IF listener.result \in {"404", "405"} THEN @ ELSE NoSession,
          !.openedOn = IF listener.result = "ended" THEN listener.session ELSE @,
          !.pc = CASE listener.result = "405" -> "stopped"
                   [] listener.result = "404" -> "lost"
                   [] clientClosed -> "stopped"
                   [] OTHER -> "top",      \* at once if moved, else in a second
          !.result = "none"]
  /\ UNCHANGED <<sessionVars, clientVars, call, init, serverVars, breaks, announced>>

\* ErrSessionTerminated: the session is ended if the stream once opened on it.
ListenLost ==
  /\ listener.pc = "lost"
  /\ IF listener.session = listener.openedOn
       THEN EndSession(listener.session) ELSE UNCHANGED sessionVars
  /\ listener' = [listener EXCEPT !.pc = "check"]
  /\ UNCHANGED <<connVars, clientVars, call, init, serverVars, breaks, announced>>

\* It listens again unless the session is still the current one.
ListenCheck ==
  /\ listener.pc = "check"
  /\ listener' = [listener EXCEPT
       !.pc = IF sessionEnded = NoChannel /\ sessionID = listener.session
                THEN "stopped" ELSE "top",
       !.session = IF sessionEnded = NoChannel /\ sessionID = listener.session
                     THEN @ ELSE NoSession]
  /\ UNCHANGED <<sessionVars, connVars, clientVars, call, init, serverVars,
                 breaks, announced>>

-----------------------------------------------------------------------------
(* Close, once: it closes the channel, then reads the session, stores the   *)
(* empty one and deletes what it read, none of it under sessionMu.          *)

Close ==
  /\ closing.pc = "none"
  /\ clientClosed' = TRUE
  /\ closing' = [pc |-> IF sessionID = NoSession THEN "done" ELSE "loaded",
                 session |-> sessionID]
  /\ UNCHANGED <<sessionVars, connVars, initialized, listener, call, init,
                 serverVars, breaks, announced>>

CloseStore ==
  /\ closing.pc = "loaded"
  /\ sessionID' = NoSession
  /\ known' \in {known, known \ {closing.session}}   \* DELETE may not arrive
  /\ closing' = [pc |-> "done", session |-> NoSession]
  /\ UNCHANGED <<sessionEnded, closedChannels, connVars, initialized,
                 clientClosed, listener, call, init, issued, offersGet, forgets,
                 breaks, announced>>

\* The server restarts, or expires a session.
Forget(s) ==
  /\ s \in known /\ forgets < MaxForgets
  /\ known' = known \ {s} /\ forgets' = forgets + 1
  /\ UNCHANGED <<sessionVars, connVars, clientVars, listener, call, init,
                 issued, offersGet, breaks, announced>>

Listening ==
  \/ ListenStart \/ ListenOn \/ ListenWake \/ SendGet \/ GetAnswered
  \/ ListenDone \/ ListenLost \/ ListenCheck

Initializing(i) ==
  \/ InitAnswered(i) \/ InitNotFound(i) \/ InitFailed(i) \/ InitStore(i)
  \/ InitLoad(i) \/ InitMark(i) \/ InitBadBody(i)

Next ==
  \/ \E c \in Callers : Send(c) \/ Answered(c) \/ NotFound(c)
  \/ \E i \in Inits : SendInit(i) \/ Initializing(i)
  \/ Listening \/ ConnectionEnds
  \/ Close \/ CloseStore
  \/ \E s \in Sessions : Forget(s)

\* The goroutines of the transport are scheduled and the server answers a GET;
\* a connection that was cancelled ends.  Callers owe nothing.
Fairness ==
  /\ WF_vars(Listening)
  /\ WF_vars(ConnectionEnds /\ (connCancelled \/ clientClosed))
  /\ \A i \in Inits : WF_vars(InitStore(i) \/ InitLoad(i) \/ InitMark(i) \/ InitBadBody(i))

Spec == Init /\ [][Next]_vars /\ Fairness
-----------------------------------------------------------------------------
TypeOK ==
  /\ sessionID \in Sessions \union {NoSession}
  /\ sessionEnded \in Channels \union {NoChannel} /\ closedChannels \subseteq Channels
  /\ listenSession \in Sessions \union {NoSession}
  /\ listenCancel \in BOOLEAN /\ connCancelled \in BOOLEAN
  /\ initialized \in BOOLEAN /\ clientClosed \in BOOLEAN
  /\ closing \in [pc : {"none", "loaded", "done"},
                  session : Sessions \union {NoSession}]
  /\ listener \in [pc : {"idle", "top", "waiting", "recorded", "sent", "open",
                         "over", "lost", "check", "stopped"},
                   wait : Channels \union {NoChannel},
                   session : Sessions \union {NoSession},
                   sent : Sessions \union {NoSession},
                   openedOn : Sessions \union {NoSession},
                   result : {"none", "404", "405", "error", "ended"}]
  /\ call \in [Callers -> [pc : {"idle", "sent"},
                           session : Sessions \union {NoSession}]]
  /\ init \in [Inits -> [pc : {"idle", "sent", "answered", "stored", "loaded"},
                         session : Sessions \union {NoSession},
                         answer : Sessions \union {NoSession}]]
  /\ issued \in 0..MaxSessions /\ known \subseteq 1..issued
  /\ offersGet \in BOOLEAN
  /\ forgets \in 0..MaxForgets /\ breaks \in 0..MaxBreaks
  /\ announced \in BOOLEAN

\* The transport forgets a session only when the server has, or when it is
\* closed: a 404 for an old session that arrives after initialize has stored
\* a new one must not take the new one with it (endSession compares and
\* swaps), and neither must the listener, which ends the session it recorded
\* after an answer to a GET that may have carried another.
DroppedOnlyIfForgotten ==
  [][(sessionID # NoSession /\ sessionID' = NoSession)
       => (sessionID \notin known \/ clientClosed)]_vars

\* No lost wake-up: the channel the listener waits on is the current one, or
\* has been closed.  The listener reads it under sessionMu and waits after,
\* while endSession and markSessionStarted replace it.
NoWaiterOnOldChannel ==
  listener.pc = "waiting"
    => listener.wait = sessionEnded \/ listener.wait \in closedChannels

\* A request on no session goes out only before there was one: once the
\* session has ended, requests fail "rather than go out without a session ID"
\* (the comment on sessionEnded).
NeverWithoutSession ==
  \A c \in Callers :
    call[c].pc = "sent" /\ call[c].session = NoSession => clientClosed

\* The stream follows the session: from some point on, if the session is one
\* the caller has started and has not ended, the stream is open on it; or the
\* listener has stopped.  It only stops after Close, or a 404 or a 405 on a
\* session it was never open on.
StreamFollowsSession ==
  <>[](/\ ~clientClosed /\ offersGet
       /\ sessionID # NoSession /\ announced /\ sessionEnded = NoChannel
       => \/ listener.pc = "open" /\ listener.sent = sessionID
          \/ listener.pc = "stopped" /\ listener.session # listener.openedOn)
=============================================================================
