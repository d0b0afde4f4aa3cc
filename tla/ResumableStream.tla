-------------------------- MODULE ResumableStream --------------------------
(***************************************************************************)
(* A resumable SSE stream of the streamable HTTP server                    *)
(* (server/streamable_http_resume.go) with the in-memory event store       *)
(* (server/event_store.go) and the client that reads it.                   *)
(*                                                                         *)
(* A stream outlives its connections.  Its single producer, the session's  *)
(* listening pump or the handler of the originating POST, records every    *)
(* message under the stream's mutex and then, without it, hands it to the  *)
(* connection it saw attached.  A GET with Last-Event-ID replays and takes *)
(* the stream over under the mutex; an old connection may still be open.   *)
(* The client reads one connection at a time and resumes from the last     *)
(* event ID it read.                                                       *)
(***************************************************************************)
EXTENDS Integers, Sequences, SequencesExt

CONSTANTS
  MaxConns,     \* bound: GET connections the client opens
  Post,         \* the originating POST's response, of a request stream
  None,
  MaxEvents,    \* bound: messages the producer sends
  SinkCap       \* capacity of a connection's sink channel, 16 in the code

ASSUME ResumableAssumption ==
  /\ MaxConns \in Nat /\ Post \notin 1..MaxConns /\ None \notin 1..MaxConns
  /\ Post # None
  /\ MaxEvents \in Nat /\ SinkCap \in Nat \ {0}

VARIABLES
  listening, \* TRUE: the session's listening stream; FALSE: a POST's stream
  tracked,   \* the stream's entry in resumableStreams: "none", "yes", "dropped"
  conn,      \* st.conn
  postW,     \* st.postW # nil
  closed,    \* st.closed
  log,       \* the IDs of the stream's events in the event store, in order
  recorded,  \* every ID the store ever issued for the stream
  produced,  \* how many messages the producer has delivered
  push,      \* the message the producer holds after unlocking, and its target
  pump,      \* the producer: "off", "on", "stopping", "exited"
  get,       \* program counter of each GET's handler
  lastID,    \* the ID each GET continues from
  sink,      \* conn.sink of each connection
  gone,      \* conn.gone is closed
  out,       \* what was written to each connection
  hungUp,    \* the connections the client has given up
  cur,       \* the connection the client reads
  read,      \* how many events of it the client has read
  got,       \* the event IDs the client has read, on all its connections
  cleanup    \* progress of cleanupResumableState

prodVars   == <<produced, push, pump>>
streamVars == <<listening, tracked, conn, postW, closed>>
storeVars  == <<log, recorded>>
connVars   == <<get, lastID, sink, gone, out>>
clientVars == <<hungUp, cur, read, got>>
vars == <<listening, tracked, conn, postW, closed, log, recorded, produced, push, pump, get,
          lastID, sink, gone, out, hungUp, cur, read, got, cleanup>>

\* The GET connections, in the order the client opens them.
Conns == 1..MaxConns

Writers == Conns \union {Post}

\* A message on its way; id 0 stands for an event without an ID.
Messages == [id : 0..MaxEvents, last : BOOLEAN]

Idle == [pc |-> "idle", msg |-> [id |-> 0, last |-> FALSE], to |-> None]

\* The IDs among a sequence of messages.
Ids(messages) == {messages[i].id : i \in DOMAIN messages} \ {0}

\* The client's Last-Event-ID.
Seen == IF got = <<>> THEN 0 ELSE Last(got)

\* Every variable has its type; a connection's sink never exceeds its capacity.
TypeOK ==
  /\ listening \in BOOLEAN
  /\ tracked \in {"none", "yes", "dropped"}
  /\ conn \in Conns \union {None}
  /\ postW \in BOOLEAN
  /\ closed \in BOOLEAN
  /\ log \in Seq(1..MaxEvents)
  /\ recorded \in Seq(1..MaxEvents)
  /\ produced \in 0..MaxEvents
  /\ push \in [pc : {"idle", "push", "clear"}, msg : Messages,
               to : Writers \union {None}]
  /\ pump \in {"off", "on", "stopping", "exited"}
  /\ get \in [Conns -> {"unused", "probed", "found", "lost", "serving", "closing",
                     "cutting", "ended", "cut"}]
  /\ lastID \in [Conns -> 0..MaxEvents]
  /\ sink \in [Conns -> Seq(Messages)] /\ \A c \in Conns : Len(sink[c]) <= SinkCap
  /\ gone \in [Conns -> BOOLEAN]
  /\ out \in [Writers -> Seq(Messages)]
  /\ hungUp \subseteq Writers
  /\ cur \in Writers \union {None}
  /\ read \in Nat
  /\ got \in Seq(1..MaxEvents)
  /\ cleanup \in {"no", "pump", "streams", "purge", "done"}

\* A listening stream starts with the first GET.  A request stream starts with
\* its POST, whose handler produces the messages.
Init ==
  /\ listening \in BOOLEAN
  /\ tracked = "none"
  /\ conn = None
  /\ postW = FALSE
  /\ closed = FALSE
  /\ log = <<>>
  /\ recorded = <<>>
  /\ produced = 0
  /\ push = Idle
  /\ pump = IF listening THEN "off" ELSE "on"
  /\ get = [c \in Conns |-> "unused"]
  /\ lastID = [c \in Conns |-> 0]
  /\ sink = [c \in Conns |-> <<>>]
  /\ gone = [c \in Conns |-> FALSE]
  /\ out = [w \in Writers |-> <<>>]
  /\ hungUp = {}
  /\ cur = IF listening THEN None ELSE Post
  /\ read = 0
  /\ got = <<>>
  /\ cleanup = "no"

-----------------------------------------------------------------------------
(* The producer: startListeningPump's loop, or deliverResumable of the     *)
(* POST's forwarder and response path.                                     *)

\* The stream a delivery works on.  A POST creates and tracks its stream with
\* its first message (newResumableStream), and stops writing to its response
\* once its request context has ended.
postWriter(ctxErr) == ~listening /\ ~ctxErr /\ (tracked = "none" \/ postW)

\* deliver's critical section: record the message, note the last one, read
\* what is attached.  The store may fail; the message then has no ID.
deliver(stored, last, ctxErr) ==
  /\ pump \in {"on", "stopping"}
  /\ push.pc = "idle"
  /\ produced < MaxEvents
  /\ last => ~listening
  /\ ctxErr => Post \in hungUp
  /\ produced' = produced + 1
  /\ tracked' = IF tracked = "none" THEN "yes" ELSE tracked
  /\ postW' = postWriter(ctxErr)
  /\ closed' = (closed \/ last)
  /\ IF stored
     THEN log' = Append(log, produced') /\ recorded' = Append(recorded, produced')
     ELSE UNCHANGED <<log, recorded>>
  /\ push' = [pc  |-> "push",
              msg |-> [id |-> IF stored THEN produced' ELSE 0, last |-> last],
              to  |-> IF conn # None THEN conn ELSE IF postW' THEN Post ELSE None]
  /\ UNCHANGED <<listening, conn, pump, connVars, clientVars, cleanup>>

\* A producer that has delivered its last message is through.
afterPush ==
  /\ push' = Idle
  /\ pump' = IF push.msg.last THEN "exited" ELSE pump

\* The message goes to the sink of the connection that was attached, once it
\* has room; the connection may be gone by then.
PushToSink(c) ==
  /\ push.pc = "push" /\ push.to = c
  /\ Len(sink[c]) < SinkCap
  /\ sink' = [sink EXCEPT ![c] = Append(@, push.msg)]
  /\ afterPush
  /\ UNCHANGED <<streamVars, storeVars, produced, get, lastID, gone, out,
                 clientVars, cleanup>>

\* That connection is gone, or nothing was attached: the message stays recorded.
PushDropped ==
  /\ push.pc = "push"
  /\ push.to = None \/ (push.to \in Conns /\ gone[push.to])
  /\ afterPush
  /\ UNCHANGED <<streamVars, storeVars, produced, connVars, clientVars, cleanup>>

\* The message is written to the POST's response.
PushToPost ==
  /\ push.pc = "push" /\ push.to = Post
  /\ out' = [out EXCEPT ![Post] = Append(@, push.msg)]
  /\ afterPush
  /\ UNCHANGED <<streamVars, storeVars, produced, get, lastID, sink, gone,
                 clientVars, cleanup>>

\* The write to the POST's response fails ...
PushToPostFails ==
  /\ push.pc = "push" /\ push.to = Post
  /\ Post \in hungUp
  /\ push' = [push EXCEPT !.pc = "clear"]
  /\ UNCHANGED <<streamVars, storeVars, produced, pump, connVars, clientVars,
                 cleanup>>

\* ... and clearPostWriterIf gives it up.
clearPostWriterIf ==
  /\ push.pc = "clear"
  /\ postW' = FALSE
  /\ afterPush
  /\ UNCHANGED <<listening, tracked, conn, closed, storeVars, produced, connVars,
                 clientVars, cleanup>>

\* The pump finds its stop channel closed.
PumpExits ==
  /\ pump = "stopping"
  /\ push.pc = "idle"
  /\ pump' = "exited"
  /\ UNCHANGED <<streamVars, storeVars, produced, push, connVars, clientVars,
                 cleanup>>

\* A POST whose handler returned nothing to record ends its stream unclosed.
PostReturns ==
  /\ ~listening
  /\ pump = "on"
  /\ push.pc = "idle"
  /\ tracked = "none"
  /\ pump' = "exited"
  /\ UNCHANGED <<streamVars, storeVars, produced, push, connVars, clientVars,
                 cleanup>>

-----------------------------------------------------------------------------
(* The GET handlers: serveListeningStream, handleResumeGet, serve.         *)

\* detachLocked: the attached connection is superseded.
Superseded == IF conn = None THEN gone ELSE [gone EXCEPT ![conn] = TRUE]

\* serveListeningStream: ensureListeningStream starts the stream and its pump
\* on first use, attach supersedes what was attached.
serveListeningStream(c) ==
  /\ listening
  /\ get[c] = "unused" /\ cur = c
  /\ Seen = 0
  /\ cleanup = "no"
  /\ tracked' = "yes"
  /\ pump' = IF pump = "off" THEN "on" ELSE pump
  /\ gone' = Superseded
  /\ conn' = c
  /\ get' = [get EXCEPT ![c] = "serving"]
  /\ lastID' = [lastID EXCEPT ![c] = IF recorded = <<>> THEN 0 ELSE Last(recorded)]
  /\ UNCHANGED <<listening, postW, closed, storeVars, produced, push, sink, out,
                 clientVars, cleanup>>

\* handleResumeGet's probe: an ID the store does not know is refused.
handleResumeGet(c) ==
  /\ get[c] = "unused" /\ cur = c
  /\ Seen # 0
  /\ lastID' = [lastID EXCEPT ![c] = Seen]
  /\ get' = [get EXCEPT ![c] = IF Contains(log, Seen) THEN "probed" ELSE "ended"]
  /\ UNCHANGED <<streamVars, storeVars, prodVars, sink, gone, out, clientVars,
                 cleanup>>

\* handleResumeGet looks the stream up; a POST's stream is tracked from its
\* first message on, until cleanupResumableState drops it.
FindStream(c) ==
  /\ get[c] = "probed"
  /\ get' = [get EXCEPT ![c] = IF tracked = "yes" THEN "found" ELSE "lost"]
  /\ UNCHANGED <<streamVars, storeVars, prodVars, lastID, sink, gone, out, clientVars,
                 cleanup>>

\* Where the store's index has an event.
Position(id) == CHOOSE i \in DOMAIN log : log[i] = id

\* The messages from a position of the log on.
From(p) == [i \in 1..(Len(log) - p + 1) |-> [id |-> log[p + i - 1], last |-> FALSE]]

\* Mutant: the replay starts with the event the client names.
Replay_FromLast(id) == From(Position(id))

\* The messages a replay after id writes.
Replay(id) == From(Position(id) + 1)

\* Mutant: a resume with nothing to replay takes the stream for complete.
replayAndAttach_EmptyIsComplete(c) ==
  /\ get[c] = "found"
  /\ gone' = Superseded
  /\ postW' = FALSE
  /\ out' = [out EXCEPT ![c] = Replay(lastID[c])]
  /\ LET complete == closed \/ out'[c] = <<>>
     IN  /\ conn' = IF complete THEN None ELSE c
         /\ get' = [get EXCEPT ![c] = IF complete THEN "ended" ELSE "serving"]
  /\ UNCHANGED <<listening, tracked, closed, storeVars, prodVars, lastID, sink,
                 clientVars, cleanup>>

\* Mutant: the connection is attached with what the probe saw; events recorded
\* since then are not replayed.
replayAndAttach_NoReplay(c) ==
  /\ get[c] = "found"
  /\ gone' = Superseded
  /\ postW' = FALSE
  /\ conn' = c
  /\ get' = [get EXCEPT ![c] = "serving"]
  /\ UNCHANGED <<listening, tracked, closed, storeVars, prodVars, lastID, sink,
                 out, clientVars, cleanup>>

\* replayAndAttach, under the stream's mutex: supersede, replay, and attach
\* unless the stream is complete.  The replay fails on a purged log.
replayAndAttach(c) ==
  /\ get[c] = "found"
  /\ gone' = Superseded
  /\ postW' = FALSE
  /\ \/ /\ Contains(log, lastID[c])
        /\ out' = [out EXCEPT ![c] = Replay(lastID[c])]
        /\ conn' = IF closed THEN None ELSE c
        /\ get' = [get EXCEPT ![c] = IF closed THEN "ended" ELSE "serving"]
     \/ /\ ~Contains(log, lastID[c])
        /\ conn' = None
        /\ get' = [get EXCEPT ![c] = "ended"]
        /\ UNCHANGED out
  /\ UNCHANGED <<listening, tracked, closed, storeVars, prodVars, lastID, sink, clientVars,
                 cleanup>>

\* A write of the replay fails, the client having left or being too slow for
\* setWriteDeadline; k events were written before.  The flush behind an event
\* reports nothing, so that the failure of the last one goes unseen: the
\* connection is attached all the same, to a response that takes no more and
\* whose request context ends, which serve finds at once.
replayCut(c, k, unseen) ==
  /\ get[c] = "found"
  /\ Contains(log, lastID[c]) /\ k < Len(Replay(lastID[c]))
  /\ unseen => ~closed /\ k = Len(Replay(lastID[c])) - 1
  /\ out' = [out EXCEPT ![c] = SubSeq(Replay(lastID[c]), 1, k)]
  /\ postW' = FALSE
  /\ conn' = IF unseen THEN c ELSE None
  /\ gone' = [Superseded EXCEPT ![c] = unseen]
  /\ get' = [get EXCEPT ![c] = IF unseen THEN "cutting" ELSE "cut"]
  /\ UNCHANGED <<listening, tracked, closed, storeVars, prodVars, lastID, sink, clientVars,
                 cleanup>>

\* handleResumeGet without a tracked stream: replay what the store has, or what
\* of it the deadline allows.
ReplayUntracked(c) ==
  /\ get[c] = "lost"
  /\ IF Contains(log, lastID[c])
       THEN \E k \in 0..Len(Replay(lastID[c])) :
              out' = [out EXCEPT ![c] = SubSeq(Replay(lastID[c]), 1, k)]
       ELSE out' = [out EXCEPT ![c] = <<>>]
  /\ get' = [get EXCEPT ![c] = "ended"]
  /\ UNCHANGED <<streamVars, storeVars, prodVars, lastID, sink, gone, clientVars,
                 cleanup>>

\* Mutant: a failed write ends the connection without closing gone.
ServeEvent_KeepsGone(c, fails) ==
  /\ get[c] = "serving"
  /\ sink[c] # <<>>
  /\ fails => c \in hungUp
  /\ sink' = [sink EXCEPT ![c] = Tail(@)]
  /\ out' = [out EXCEPT ![c] = IF fails THEN @ ELSE Append(@, Head(sink[c]))]
  /\ get' = [get EXCEPT ![c] = IF fails \/ Head(sink[c]).last THEN "closing" ELSE @]
  /\ UNCHANGED <<streamVars, storeVars, prodVars, lastID, gone, clientVars, cleanup>>

\* serve takes an event off the sink and writes it; the last one, or a failed
\* write, closes gone and ends the connection.
ServeEvent(c, fails) ==
  /\ get[c] = "serving"
  /\ sink[c] # <<>>
  /\ fails => c \in hungUp
  /\ sink' = [sink EXCEPT ![c] = Tail(@)]
  /\ out' = [out EXCEPT ![c] = IF fails THEN @ ELSE Append(@, Head(sink[c]))]
  /\ IF fails \/ Head(sink[c]).last
     THEN /\ gone' = [gone EXCEPT ![c] = TRUE]
          /\ get' = [get EXCEPT ![c] = "closing"]
     ELSE UNCHANGED <<gone, get>>
  /\ UNCHANGED <<streamVars, storeVars, prodVars, lastID, clientVars, cleanup>>

\* serve finds the connection superseded.
ServeGone(c) ==
  /\ get[c] = "serving"
  /\ gone[c]
  /\ get' = [get EXCEPT ![c] = "ended"]
  /\ UNCHANGED <<streamVars, storeVars, prodVars, lastID, sink, gone, out,
                 clientVars, cleanup>>

\* serve finds its request context ended.
ServeCtxDone(c) ==
  /\ get[c] = "serving"
  /\ c \in hungUp
  /\ gone' = [gone EXCEPT ![c] = TRUE]
  /\ get' = [get EXCEPT ![c] = "closing"]
  /\ UNCHANGED <<streamVars, storeVars, prodVars, lastID, sink, out, clientVars,
                 cleanup>>

\* Mutant: a connection that ends detaches whatever is attached.
detachIf_Any(c) ==
  /\ get[c] = "closing"
  /\ conn' = None
  /\ get' = [get EXCEPT ![c] = "ended"]
  /\ UNCHANGED <<listening, tracked, postW, closed, storeVars, prodVars, lastID,
                 sink, gone, out, clientVars, cleanup>>

\* detachIf: only a connection that is still attached is detached.
detachIf(c) ==
  /\ get[c] \in {"closing", "cutting"}
  /\ conn' = IF conn = c THEN None ELSE conn
  /\ get' = [get EXCEPT ![c] = IF @ = "closing" THEN "ended" ELSE "cut"]
  /\ UNCHANGED <<listening, tracked, postW, closed, storeVars, prodVars, lastID, sink, gone,
                 out, clientVars, cleanup>>

\* A heartbeat ping: transient and without an ID.  It goes to the connection
\* that was attached when it was sent, which may be superseded by now.
\* Bound: one message without an ID at a time.
deliverTransient(c) ==
  /\ get[c] \in {"serving", "closing"}
  /\ Len(sink[c]) < SinkCap
  /\ \A d \in Conns : \A i \in DOMAIN (out[d] \o sink[d]) : (out[d] \o sink[d])[i].id # 0
  /\ sink' = [sink EXCEPT ![c] = Append(@, [id |-> 0, last |-> FALSE])]
  /\ UNCHANGED <<streamVars, storeVars, prodVars, get, lastID, gone, out,
                 clientVars, cleanup>>

-----------------------------------------------------------------------------
(* The client.                                                             *)

\* The client reads the next event of its connection.
ClientReads ==
  /\ cur # None
  /\ cur \notin hungUp
  /\ read < Len(out[cur])
  /\ read' = read + 1
  /\ got' = LET id == out[cur][read + 1].id IN IF id = 0 THEN got ELSE Append(got, id)
  /\ UNCHANGED <<streamVars, storeVars, prodVars, connVars, hungUp, cur, cleanup>>

\* The client loses its connection, which the server may notice much later,
\* and opens another one.
Reconnect(c) ==
  /\ c = IF cur \in Conns THEN cur + 1 ELSE 1
  /\ cur \in Conns => get[cur] # "unused"
  /\ hungUp' = IF cur = None THEN hungUp ELSE hungUp \union {cur}
  /\ cur' = c
  /\ read' = 0
  /\ UNCHANGED <<streamVars, storeVars, prodVars, connVars, got, cleanup>>

-----------------------------------------------------------------------------
(* The session ends: cleanupResumableState.                                *)

\* The pump is told to stop.
CleanupPump ==
  /\ cleanup = "no"
  /\ cleanup' = "pump"
  /\ pump' = IF listening /\ pump = "on" THEN "stopping" ELSE pump
  /\ UNCHANGED <<streamVars, storeVars, produced, push, connVars, clientVars>>

\* A tracked stream is detached and dropped.
CleanupStreams ==
  /\ cleanup = "pump"
  /\ cleanup' = "streams"
  /\ IF tracked = "yes"
     THEN tracked' = "dropped" /\ gone' = Superseded /\ conn' = None /\ postW' = FALSE
     ELSE UNCHANGED <<listening, tracked, gone, conn, postW>>
  /\ UNCHANGED <<listening, closed, storeVars, prodVars, get, lastID, sink, out,
                 clientVars>>

\* PurgeSession.
CleanupPurge ==
  /\ cleanup = "streams"
  /\ cleanup' = "done"
  /\ log' = <<>>
  /\ UNCHANGED <<streamVars, recorded, prodVars, connVars, clientVars>>

-----------------------------------------------------------------------------
Produce ==
  \/ \E stored, last, ctxErr \in BOOLEAN : deliver(stored, last, ctxErr)
  \/ \E c \in Conns : PushToSink(c)
  \/ PushDropped
  \/ PushToPost
  \/ PushToPostFails
  \/ clearPostWriterIf
  \/ PumpExits
  \/ PostReturns

Handle(c) ==
  \/ serveListeningStream(c)
  \/ handleResumeGet(c)
  \/ FindStream(c)
  \/ replayAndAttach(c)
  \/ \E k \in 0..MaxEvents, unseen \in BOOLEAN : replayCut(c, k, unseen)
  \/ ReplayUntracked(c)
  \/ \E fails \in BOOLEAN : ServeEvent(c, fails)
  \/ ServeGone(c)
  \/ ServeCtxDone(c)
  \/ detachIf(c)

Next ==
  \/ Produce
  \/ \E c \in Conns : Handle(c) \/ deliverTransient(c) \/ Reconnect(c)
  \/ ClientReads
  \/ CleanupPump \/ CleanupStreams \/ CleanupPurge

Spec == Init /\ [][Next]_vars

\* Handlers and the pump run on; a write to a client either succeeds or fails,
\* at the latest when it runs into the deadline of a replay;
\* the client reads what it is sent.  Nobody has to send, to reconnect or to
\* end the session.
Fairness ==
  /\ WF_vars((\E c \in Conns : PushToSink(c)) \/ PushDropped \/ PushToPost
               \/ PushToPostFails \/ clearPostWriterIf)
  /\ \A c \in Conns : WF_vars(Handle(c))
  /\ WF_vars(ClientReads)

FairSpec == Spec /\ Fairness

-----------------------------------------------------------------------------
\* What was written to c, or waits to be written; what the producer is about
\* to hand over to c.
Carried(c) == out[c] \o sink[c]
InHand(c) == IF push.to = c THEN Ids(<<push.msg>>) ELSE {}

\* The events recorded after the one c continues from.
Due(c) == {e \in ToSet(recorded) : e > lastID[c]}

\* Messages with their IDs in the order of the store, none of them twice.
InOrder(messages) ==
  \A i, j \in DOMAIN messages :
    i < j /\ messages[i].id # 0 /\ messages[j].id # 0 => messages[i].id < messages[j].id

\* IDs that leave out none before one they have, of those that are due.
NoGap(ids, due) == ids \subseteq due /\ \A f \in ids, e \in due : e < f => e \in ids

\* "An event reaches the attaching connection either through the replay or
\* live afterwards, never both and never neither": what a served connection
\* carries is what was recorded after its Last-Event-ID, in order; and while it
\* is the attached one, all of it but what the producer is about to hand over
\* (replayAndAttach, attach, deliver).
NeverBothNeverNeither ==
  \A c \in Conns :
    get[c] = "serving" =>
      /\ InOrder(Carried(c)) /\ NoGap(Ids(Carried(c)), Due(c))
      /\ conn = c /\ ~gone[c] => Due(c) \ Ids(Carried(c)) = InHand(c)

\* Over all its connections the client reads a run of the recorded events:
\* none twice, none out of order and none left out, however connections break
\* and overlap (handleResumeGet, serve, deliver).
ClientReadsRun ==
  \E k \in 0..Len(recorded) :
    /\ k + Len(got) <= Len(recorded)
    /\ \A i \in DOMAIN got : got[i] = recorded[k + i]

\* The client's connection was superseded, not by a newer one but by one the
\* client had given up, whose handler was slow to attach.
Overtaken ==
  /\ cur \in Conns /\ gone[cur]
  /\ \A i \in DOMAIN out[cur] : ~out[cur][i].last
  /\ \E c \in 1..(cur - 1) : get[c] \in {"serving", "closing", "cutting", "ended", "cut"}

\* The replay of the client's connection failed: the write deadline ended it.
CutShort == cur \in Conns /\ get[cur] \in {"cutting", "cut"}

\* As long as the session lives, the server ends the connection of a client
\* that is still there only once it carried everything recorded and the stream
\* is complete, or when another connection attached after it; a replay that ran
\* into its deadline is "cut" instead (replayAndAttach, serve).
EndsOnlyComplete ==
  cur \in Conns /\ get[cur] = "ended" /\ cleanup = "no"
    => (closed /\ Ids(out[cur]) = Due(cur)) \/ Overtaken

\* A client that has read an event, and stays, reads every recorded event
\* unless the session ends, its connection is overtaken or its replay runs into
\* the deadline (deliver, serve, detachIf).
CatchesUp ==
  \A e \in 1..MaxEvents :
    (got # <<>> /\ e > Seen /\ e \in ToSet(recorded))
      ~> (e \in ToSet(got) \/ cleanup # "no" \/ Overtaken \/ CutShort)

\* The producer never stays blocked on a connection: whoever ends or supersedes
\* it closes gone (deliver, serve, detachLocked).
ProducerReleased == push.pc # "idle" ~> push.pc = "idle"

\* Once the session is terminated none of its event IDs can be resumed from.
PurgedForGood == cleanup = "done" => log = <<>>
=============================================================================
