----------------------------- MODULE PostStream -----------------------------
(***************************************************************************)
(* One POST of the streamable HTTP server, from the moment its message is  *)
(* handed to the server core (server/streamable_http.go, handlePost).      *)
(*                                                                         *)
(* While the message is handled, goroutines send notifications and         *)
(* elicitation requests: to the POST's own channels (requestScopedSSE) or, *)
(* when those are closed, to the session's channel, which broadcasts use   *)
(* too.  The forwarder writes what it takes off these channels to the      *)
(* response, which becomes an SSE stream with the first message.  When the *)
(* handler has returned, the response path closes the POST's channels,     *)
(* waits for the forwarder, drains what is left and writes the response.   *)
(***************************************************************************)
EXTENDS Integers, Sequences, FiniteSets, SequencesExt

CONSTANTS
  Main,        \* the goroutine that runs HandleMessage
  Background,  \* goroutines the handler started that send with its context
  Detached,    \* ... with a context of their own (context.WithoutCancel)
  Casters,     \* goroutines that broadcast to the session
  MaxSends,    \* bound: messages sent in all
  MaxAsks,     \* bound: only the first of them may be elicitations
  ScopedCap,   \* capacity of the POST's channels, 100 and 8 in the code
  ChanCap,     \* capacity of the session's channel, 100 in the code
  None

Handlers == {Main} \union Background \union Detached
Senders  == Handlers \union Casters

ASSUME PostStreamAssumption ==
  /\ Main \notin Background \union Detached \union Casters
  /\ Background \intersect Detached = {}
  /\ Casters \intersect (Background \union Detached) = {}
  /\ None \notin Senders
  /\ MaxSends \in Nat /\ MaxAsks \in Nat
  /\ ScopedCap \in Nat \ {0} /\ ChanCap \in Nat \ {0}

VARIABLES
  post,      \* what the POST is: see Posts
  gone,      \* the client is gone: the request's context has ended
  ended,     \* the context handlers run with has ended
  at,        \* program counter of each sender
  msg,       \* the message each sender is about
  sent,      \* how many messages have been begun; it numbers them
  sendMu,    \* holder of requestScopedSSE.sendMu
  done,      \* the POST's done channel is closed
  notes,     \* scopedNotifications
  asks,      \* scopedRequests
  channel,   \* session.notificationChannel
  fwd,       \* the forwarder, and the message it holds
  resp,      \* program counter of the response path
  upgrade,   \* session.upgradeToSSE
  header,    \* what the response's header says
  out,       \* the messages written to the response
  stored,    \* rst: the messages given to the POST's resumable stream
  active,    \* the session's entry in activeSessions: this POST's or another's
  registered,\* register, a sync.OnceFunc, has run
  owns,      \* ownsRegistration
  removed,   \* history: since then somebody else has removed the entry
  owed       \* the notifications the POST has undertaken to deliver

sendVars  == <<at, msg, sent, sendMu>>
queueVars == <<notes, asks, channel>>
wireVars  == <<header, out, stored>>
regVars   == <<active, registered, owns, removed>>
vars == <<post, gone, ended, at, msg, sent, sendMu, done, notes, asks, channel, fwd, resp,
          upgrade, header, out, stored, active, registered, owns, removed,
          owed>>

\* stream: the response writer can stream; modern: protocol 2026-07-28, whose
\* requests have neither scoped channels nor resumability; resumable: there is
\* an event store; reply: the message gets a response; known: the session was
\* found registered, so others hold this very object; shared: one of them, such
\* as a GET stream, takes from its channel too.
Posts == {p \in [stream : BOOLEAN, modern : BOOLEAN, resumable : BOOLEAN,
                 reply : BOOLEAN, known : BOOLEAN, shared : BOOLEAN] :
            /\ p.modern => ~p.resumable /\ ~p.known
            /\ p.shared => p.known}

Scoped == post.stream /\ ~post.modern

Messages == [from : Senders, n : 1..MaxSends, kind : {"note", "ask"},
             via : {"scoped", "channel"}]

Response == [from |-> Main, n |-> 0, kind |-> "response", via |-> "scoped"]

NoMsg == [from |-> Main, n |-> 0, kind |-> "none", via |-> "scoped"]

\* Every variable has its type; no channel exceeds its capacity.
TypeOK ==
  /\ post \in Posts
  /\ gone \in BOOLEAN /\ ended \in BOOLEAN /\ done \in BOOLEAN
  /\ at \in [Senders -> {"idle", "probe", "register", "lock", "sending", "fallback",
                         "waiting"}]
  /\ msg \in [Senders -> Messages \union {NoMsg}]
  /\ sent \in 0..MaxSends
  /\ sendMu \in Handlers \union {None}
  /\ notes \in Seq(Messages) /\ Len(notes) <= ScopedCap
  /\ asks \in Seq(Messages) /\ Len(asks) <= ScopedCap
  /\ channel \in Seq(Messages) /\ Len(channel) <= ChanCap
  /\ fwd \in [at : {"select", "holding", "exited"}, msg : Messages \union {NoMsg}]
  /\ resp \in {"handling", "returned", "closing", "await", "drain", "respond",
               "written", "finished"}
  /\ upgrade \in BOOLEAN
  /\ header \in {"none", "sse", "json", "accepted"}
  /\ out \in Seq(Messages \union {Response})
  /\ stored \in Seq(Messages \union {Response})
  /\ active \in {"none", "mine", "other"}
  /\ registered \in BOOLEAN /\ owns \in BOOLEAN /\ removed \in BOOLEAN
  /\ owed \subseteq Messages

\* The session may have been registered before, by a GET or at its
\* initialization; a modern request's session never is.
Init ==
  /\ post \in Posts
  /\ gone = FALSE /\ ended = FALSE
  /\ at = [s \in Senders |-> "idle"]
  /\ msg = [s \in Senders |-> NoMsg]
  /\ sent = 0
  /\ sendMu = None
  /\ done = FALSE
  /\ notes = <<>> /\ asks = <<>> /\ channel = <<>>
  /\ fwd = [at |-> "select", msg |-> NoMsg]
  /\ resp = "handling"
  /\ upgrade = FALSE
  /\ header = "none"
  /\ out = <<>> /\ stored = <<>>
  /\ active \in IF post.modern THEN {"none"}
                ELSE IF post.shared THEN {"other"} ELSE {"none", "other"}
  /\ registered = FALSE /\ owns = FALSE /\ removed = FALSE
  /\ owed = {}

-----------------------------------------------------------------------------
(* Sending.                                                                *)

Goto(s, pc) == at' = [at EXCEPT ![s] = pc]

\* The message s was about is sent, lost, or answered.
Over(s) == Goto(s, "idle") /\ msg' = [msg EXCEPT ![s] = NoMsg]

\* The context s sends with has ended.
CtxEnded(s) == s \notin Detached /\ ended

\* sendNotificationCore, and broadcastToSession, which goes to the session's
\* channel straight away and reaches only sessions the server knows, those of
\* subscriptions/listen among them: the response is to be an SSE stream.
BeginNote(s) ==
  /\ at[s] = "idle"
  /\ s = Main => resp = "handling"
  /\ s \in Casters => post.modern \/ post.known
  /\ sent < MaxSends
  /\ sent' = sent + 1
  /\ msg' = [msg EXCEPT ![s] = [from |-> s, n |-> sent + 1, kind |-> "note",
                                via |-> "scoped"]]
  /\ upgrade' = TRUE
  /\ Goto(s, IF s \in Handlers /\ Scoped THEN "lock" ELSE "fallback")
  /\ UNCHANGED <<post, gone, ended, sendMu, done, queueVars, fwd, resp, wireVars, regVars, owed>>

\* RequestElicitation stores the pending request and tries the POST's stream.
BeginAsk(s) ==
  /\ s \in Handlers
  /\ ~post.modern
  /\ at[s] = "idle"
  /\ s = Main => resp = "handling"
  /\ sent < MaxSends /\ sent < MaxAsks
  /\ sent' = sent + 1
  /\ msg' = [msg EXCEPT ![s] = [from |-> s, n |-> sent + 1, kind |-> "ask",
                                via |-> "scoped"]]
  /\ Goto(s, IF Scoped THEN "probe" ELSE "fallback")
  /\ UNCHANGED <<post, gone, ended, sendMu, done, queueVars, fwd, resp, upgrade, wireVars,
                 regVars, owed>>

\* trySend gives up on a finished POST before it registers the session.
ProbeDone(s) ==
  /\ at[s] = "probe"
  /\ Goto(s, IF done THEN "fallback" ELSE "register")
  /\ UNCHANGED <<post, gone, ended, msg, sent, sendMu, done, queueVars, fwd, resp, upgrade,
                 wireVars, regVars, owed>>

\* Mutant: the session is not registered for the client's answer.
Register_Forgets(s) ==
  /\ at[s] = "register"
  /\ Goto(s, "lock")
  /\ UNCHANGED <<post, gone, ended, msg, sent, sendMu, done, queueVars, fwd, resp, upgrade,
                 wireVars, regVars, owed>>

\* register, once: the client's answer will find the session in activeSessions,
\* under this POST's entry unless another's is there.
Register(s) ==
  /\ at[s] = "register"
  /\ Goto(s, "lock")
  /\ registered' = TRUE
  /\ IF ~registered /\ active = "none" THEN active' = "mine" /\ owns' = TRUE
                                       ELSE UNCHANGED <<active, owns>>
  /\ UNCHANGED <<post, gone, ended, msg, sent, sendMu, done, queueVars, fwd, resp, upgrade,
                 wireVars, removed, owed>>

\* Take sendMu; sendWhileOpen gives up at once on a finished POST.
LockSend(s) ==
  /\ at[s] = "lock"
  /\ sendMu = None
  /\ IF done THEN Goto(s, "fallback") /\ UNCHANGED sendMu
             ELSE Goto(s, "sending") /\ sendMu' = s
  /\ UNCHANGED <<post, gone, ended, msg, sent, done, queueVars, fwd, resp, upgrade, wireVars,
                 regVars, owed>>

\* The message goes into the POST's channel, which reports it as sent.
SendScoped(s) ==
  /\ at[s] = "sending"
  /\ IF msg[s].kind = "note"
     THEN /\ Len(notes) < ScopedCap
          /\ notes' = Append(notes, msg[s])
          /\ owed' = owed \union {msg[s]}
          /\ Over(s)
          /\ UNCHANGED asks
     ELSE /\ Len(asks) < ScopedCap
          /\ asks' = Append(asks, msg[s])
          /\ Goto(s, "waiting")
          /\ UNCHANGED <<msg, notes, owed>>
  /\ sendMu' = None
  /\ UNCHANGED <<post, gone, ended, sent, done, channel, fwd, resp, upgrade, wireVars,
                 regVars>>

\* The POST finishes, or the sender's context ends, while it waits for room.
SendGivesUp(s) ==
  /\ at[s] = "sending"
  /\ done \/ CtxEnded(s)
  /\ sendMu' = None
  /\ Goto(s, "fallback")
  /\ UNCHANGED <<post, gone, ended, msg, sent, done, queueVars, fwd, resp, upgrade, wireVars,
                 regVars, owed>>

\* A notification goes to the session's channel, or is dropped when it is full.
FallbackNote(s) ==
  /\ at[s] = "fallback" /\ msg[s].kind = "note"
  /\ LET m == [msg[s] EXCEPT !.via = "channel"] IN
       IF Len(channel) < ChanCap
       THEN /\ channel' = Append(channel, m)
            /\ owed' = IF resp = "handling" /\ post.reply /\ ~post.shared
                       THEN owed \union {m} ELSE owed
       ELSE UNCHANGED <<channel, owed>>
  /\ Over(s)
  /\ UNCHANGED <<post, gone, ended, sent, sendMu, done, notes, asks, fwd, resp, upgrade,
                 wireVars, regVars>>

\* An elicitation goes to elicitationRequestChan, for a GET stream to take, and
\* is waited for; or the queue is full or the context has ended.
FallbackAsk(s) ==
  /\ at[s] = "fallback" /\ msg[s].kind = "ask"
  /\ \/ Goto(s, "waiting") /\ msg' = [msg EXCEPT ![s].via = "channel"]
     \/ Over(s)
  /\ UNCHANGED <<post, gone, ended, sent, sendMu, done, queueVars, fwd, resp, upgrade,
                 wireVars, regVars, owed>>

\* The asker gets the answer to what the client has read, on this stream, or on
\* another one; it is routed to the asker through activeSessions.
Answered(s) ==
  /\ at[s] = "waiting"
  /\ msg[s].via = "channel" \/ msg[s] \in ToSet(out)
  /\ active # "none"
  /\ Over(s)
  /\ UNCHANGED <<post, gone, ended, sent, sendMu, done, queueVars, fwd, resp, upgrade,
                 wireVars, regVars, owed>>

\* The asker's context ends first.
AskGivesUp(s) ==
  /\ at[s] = "waiting"
  /\ CtxEnded(s)
  /\ Over(s)
  /\ UNCHANGED <<post, gone, ended, sent, sendMu, done, queueVars, fwd, resp, upgrade,
                 wireVars, regVars, owed>>

-----------------------------------------------------------------------------
(* Writing.                                                                *)

\* A message is written to the response, or given to the resumable stream,
\* which records it even when the client is gone.  Without streaming it is lost.
Write(m) ==
  IF ~post.stream THEN UNCHANGED wireVars
  ELSE /\ stored' = IF post.resumable THEN Append(stored, m) ELSE stored
       /\ header' = IF gone /\ post.resumable THEN header ELSE "sse"
       /\ out' = IF gone THEN out ELSE Append(out, m)

\* Only the response path's drain holds mu while others could want it.
MuFree == resp # "drain"

FwdTakeNote ==
  /\ fwd.at = "select"
  /\ \/ /\ notes # <<>>
        /\ fwd' = [at |-> "holding", msg |-> Head(notes)]
        /\ notes' = Tail(notes)
        /\ UNCHANGED channel
     \/ /\ channel # <<>>
        /\ fwd' = [at |-> "holding", msg |-> Head(channel)]
        /\ channel' = Tail(channel)
        /\ UNCHANGED notes
  /\ UNCHANGED <<post, gone, ended, sendVars, done, asks, resp, upgrade, wireVars, regVars, owed>>

FwdTakeAsk ==
  /\ fwd.at = "select"
  /\ asks # <<>>
  /\ fwd' = [at |-> "holding", msg |-> Head(asks)]
  /\ asks' = Tail(asks)
  /\ UNCHANGED <<post, gone, ended, sendVars, done, notes, channel, resp, upgrade, wireVars,
                 regVars, owed>>

\* forward: a notification is written in any case, a request only while the
\* POST is not finished or can be resumed.
FwdWrite ==
  /\ fwd.at = "holding"
  /\ MuFree
  /\ IF fwd.msg.kind = "ask" /\ done /\ ~post.resumable THEN UNCHANGED wireVars
                                                        ELSE Write(fwd.msg)
  /\ fwd' = [at |-> "select", msg |-> NoMsg]
  /\ UNCHANGED <<post, gone, ended, sendVars, done, queueVars, resp, upgrade, regVars, owed>>

FwdExits ==
  /\ fwd.at = "select"
  /\ done \/ gone
  /\ fwd' = [fwd EXCEPT !.at = "exited"]
  /\ UNCHANGED <<post, gone, ended, sendVars, done, queueVars, resp, upgrade, wireVars, regVars,
                 owed>>

-----------------------------------------------------------------------------
(* The response path.                                                      *)

\* HandleMessage returns, and ends the context it gave the handler of a request.
HandleMessageReturns ==
  /\ resp = "handling"
  /\ at[Main] = "idle"
  /\ resp' = "returned"
  /\ ended' = (ended \/ post.reply)
  /\ UNCHANGED <<post, gone, sendVars, done, queueVars, fwd, upgrade, wireVars, regVars, owed>>

\* Mutant: close takes sendMu before it closes done.
CloseDone_LocksFirst ==
  /\ resp = "returned"
  /\ sendMu = None
  /\ done' = TRUE
  /\ resp' = IF Scoped THEN "closing" ELSE "await"
  /\ UNCHANGED <<post, gone, ended, sendVars, queueVars, fwd, upgrade, wireVars, regVars, owed>>

\* requestScopedSSE.close, first step: done is closed.
CloseDone ==
  /\ resp = "returned"
  /\ done' = TRUE
  /\ resp' = IF Scoped THEN "closing" ELSE "await"
  /\ UNCHANGED <<post, gone, ended, sendVars, queueVars, fwd, upgrade, wireVars, regVars, owed>>

\* Mutant: close does not wait for a send in progress.
CloseWaits_Immediate ==
  /\ resp = "closing"
  /\ resp' = "await"
  /\ UNCHANGED <<post, gone, ended, sendVars, done, queueVars, fwd, upgrade, wireVars, regVars,
                 owed>>

\* Second step: it waits for the send that is holding sendMu.
CloseWaits ==
  /\ resp = "closing"
  /\ sendMu = None
  /\ resp' = "await"
  /\ UNCHANGED <<post, gone, ended, sendVars, done, queueVars, fwd, upgrade, wireVars, regVars,
                 owed>>

\* Mutant: the response path does not wait for the forwarder.
AwaitForwarder_Immediate ==
  /\ resp = "await"
  /\ resp' = "drain"
  /\ UNCHANGED <<post, gone, ended, sendVars, done, queueVars, fwd, upgrade, wireVars, regVars,
                 owed>>

AwaitForwarder ==
  /\ resp = "await"
  /\ fwd.at = "exited"
  /\ resp' = "drain"
  /\ UNCHANGED <<post, gone, ended, sendVars, done, queueVars, fwd, upgrade, wireVars, regVars,
                 owed>>

\* drain writes one notification that was left queued.  A message without a
\* response leaves the session's channel alone.
Drain ==
  /\ resp = "drain"
  /\ \/ /\ notes # <<>>
        /\ Write(Head(notes))
        /\ notes' = Tail(notes)
        /\ UNCHANGED channel
     \/ /\ post.reply /\ channel # <<>>
        /\ Write(Head(channel))
        /\ channel' = Tail(channel)
        /\ UNCHANGED notes
  /\ UNCHANGED <<post, gone, ended, sendVars, done, asks, fwd, resp, upgrade, regVars, owed>>

Drained ==
  /\ resp = "drain"
  /\ notes = <<>>
  /\ post.reply => channel = <<>>
  /\ resp' = "respond"
  /\ UNCHANGED <<post, gone, ended, sendVars, done, queueVars, fwd, upgrade, wireVars, regVars,
                 owed>>

\* The response is given to the resumable stream if the POST has one or is to
\* have one; otherwise it is the last event or the only JSON document.
Respond ==
  /\ resp = "respond"
  /\ IF ~post.reply
     THEN header' = (IF header = "none" THEN "accepted" ELSE header) /\ UNCHANGED <<out, stored>>
     ELSE IF post.resumable /\ post.stream /\ (stored # <<>> \/ upgrade)
     THEN Write(Response)
     ELSE IF gone THEN UNCHANGED wireVars
     ELSE /\ header' = IF (upgrade /\ post.stream) \/ header = "sse" THEN "sse" ELSE "json"
          /\ out' = Append(out, Response)
          /\ UNCHANGED stored
  /\ resp' = "written"
  /\ UNCHANGED <<post, gone, ended, sendVars, done, queueVars, fwd, upgrade, regVars, owed>>

\* handlePost returns: its deferred function removes its own registration, or
\* that of another POST with the same session, and net/http ends the request's
\* context.
Finish ==
  /\ resp = "written"
  /\ resp' = "finished"
  /\ \/ active' = active /\ ~(owns /\ active = "mine")
     \/ active' = "none" /\ owns /\ (active = "mine" \/ post.known)
  /\ ended' = TRUE
  /\ UNCHANGED <<post, gone, sendVars, done, queueVars, fwd, upgrade, wireVars, registered,
                 owns, removed, owed>>

-----------------------------------------------------------------------------
(* The environment.                                                        *)

\* The client goes away, which ends the request's context.
Disconnect ==
  /\ ~gone
  /\ resp # "finished"
  /\ gone' = TRUE /\ ended' = TRUE
  /\ UNCHANGED <<post, sendVars, done, queueVars, fwd, resp, upgrade, wireVars, regVars, owed>>

\* notifications/cancelled ends the context of the request's handler.
Cancelled ==
  /\ post.reply /\ resp = "handling"
  /\ ~ended
  /\ ended' = TRUE
  /\ UNCHANGED <<post, gone, sendVars, done, queueVars, fwd, resp, upgrade, wireVars, regVars,
                 owed>>

\* Another consumer of the session's channel takes a notification.
OtherTakes ==
  /\ post.shared
  /\ channel # <<>>
  /\ channel' = Tail(channel)
  /\ UNCHANGED <<post, gone, ended, sendVars, done, notes, asks, fwd, resp, upgrade, wireVars,
                 regVars, owed>>

\* A GET, another POST or an initialize request registers the session where no
\* entry is; the identifier of an initialize request is a new one.
OthersRegister ==
  /\ ~post.modern
  /\ resp # "finished"
  /\ active = "none"
  /\ active' = "other"
  /\ UNCHANGED <<post, gone, ended, sendVars, done, queueVars, fwd, resp, upgrade, wireVars,
                 registered, owns, removed, owed>>

\* The entry is removed, whosever it is: by a GET that ends, a registration that
\* fails, or the clean-up of the session.
OthersRemove ==
  /\ resp # "finished"
  /\ active # "none"
  /\ active' = "none"
  /\ removed' = (removed \/ registered)
  /\ UNCHANGED <<post, gone, ended, sendVars, done, queueVars, fwd, resp, upgrade, wireVars,
                 registered, owns, owed>>

SenderNext(s) ==
  \/ ProbeDone(s) \/ Register(s) \/ LockSend(s) \/ SendScoped(s) \/ SendGivesUp(s)
  \/ FallbackNote(s) \/ FallbackAsk(s) \/ AskGivesUp(s)

ForwarderNext == FwdTakeNote \/ FwdTakeAsk \/ FwdWrite \/ FwdExits

ResponseNext ==
  CloseDone \/ CloseWaits \/ AwaitForwarder \/ Drain \/ Drained \/ Respond \/ Finish

Next ==
  \/ \E s \in Senders : BeginNote(s) \/ BeginAsk(s) \/ SenderNext(s) \/ Answered(s)
  \/ ForwarderNext \/ HandleMessageReturns \/ ResponseNext
  \/ Disconnect \/ Cancelled \/ OtherTakes \/ OthersRegister \/ OthersRemove

\* Goroutines run on.  Nothing makes the client answer or the handler return.
Fairness ==
  /\ \A s \in Senders : WF_vars(SenderNext(s))
  /\ WF_vars(ForwarderNext)
  /\ WF_vars(ResponseNext)

Spec == Init /\ [][Next]_vars /\ Fairness

-----------------------------------------------------------------------------
(* Properties.                                                             *)

\* Where everything the POST has undertaken to deliver may still be.
Pending == ToSet(notes) \union ToSet(channel) \union {fwd.msg}

\* A notification that trySendNotification reported as sent, or that was queued,
\* before HandleMessage returned, for a session nobody else reads, is written
\* before the response, unless the client is gone; with an event store it is
\* recorded even then.  (close, the forwarder and the drain of handlePost.)
NothingStranded ==
  post.stream =>
    \A m \in owed :
      \/ m \in Pending /\ resp \notin {"respond", "written", "finished"}
      \/ m \in ToSet(IF post.resumable THEN stored ELSE out)
      \/ gone /\ ~post.resumable

\* What a sender queued on one channel is written once, in its order, and
\* nothing is written after the response (forwarder against drain).
InOrder ==
  \A w \in {out, stored} : \A i, j \in DOMAIN w :
    i < j =>
      /\ w[i].kind # "response"
      /\ (w[i].kind = w[j].kind /\ w[i].from = w[j].from /\ w[i].via = w[j].via)
           => w[i].n < w[j].n

\* The response is never a JSON document, or an empty 202, together with events,
\* whoever wrote them and however late (the end of handlePost).
OneContentType == header \in {"json", "accepted"} => out \in {<<>>, <<Response>>}

\* While the POST runs, the answer to an elicitation written on its stream finds
\* its session, under this POST's entry or another's, unless somebody else has
\* removed that entry since: register runs once, and a later elicitation does not
\* repair it (register in handlePost, deliverSamplingResponse).
AnswerRoutable ==
  \A s \in Handlers :
    (at[s] = "waiting" /\ msg[s] \in ToSet(out) /\ resp # "finished")
      => active # "none" \/ removed

\* Once HandleMessage has returned, the POST ends, whoever is still sending on
\* its channels (requestScopedSSE.close).
PostEnds == resp = "returned" ~> resp = "finished"

=============================================================================
