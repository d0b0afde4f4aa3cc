--------------------------- MODULE ServerRequests ---------------------------
(***************************************************************************)
(* What the streamable HTTP server asks its client (server/                *)
(* streamable_http.go): sampling, roots, elicitation, for handlers that    *)
(* wait for the answer.                                                    *)
(*                                                                         *)
(* A request goes out on the stream of a GET or, for elicitation, of the   *)
(* POST whose handler asks.  The answer comes in a POST of its own, and is *)
(* routed by the session id, to whichever object activeSessions has for it *)
(* by then, and by the id of the request.  Streams end, objects are        *)
(* replaced, answers come twice or late, and handlers stop waiting.        *)
(***************************************************************************)
EXTENDS Integers, Sequences, FiniteSets

CONSTANTS
  MaxAsks,     \* bound: POSTs whose handler asks, or a goroutine it leaves behind
  Gets,        \* GETs; like a POST, each with an object of its own
  InitPost,    \* initialize, whose object stays if the server is stateful
  Methods,     \* of sampling/createMessage, roots/list, elicitation/create
  QueueCap,    \* capacity of a session's request channels, 10 in the code
  WriteCap,    \* what a GET holds: writeChan's 16, and one the forwarder has
  MaxAnswers,  \* bound: answers
  MaxMessages, \* bound: requests and answers
  None

Askers == 1..MaxAsks  \* in the order in which they ask
Objects == Gets \union Askers \union {InitPost}

VARIABLES
  requestIDCounter,
  activeSessions,   \* the object of the session id, or None
  terminated,       \* the session id manager
  asker,            \* each with its POST
  samplingRequests, \* of each object: the ids that are pending, and whose
  requestChan,      \* of each object, a channel for each method
  get,
  received,         \* the requests the client has got
  answers,          \* its answers
  lost              \* askers whose request ended with the stream it was on

vars == <<requestIDCounter, activeSessions, terminated, asker, samplingRequests,
          requestChan, get, received, answers, lost>>

-----------------------------------------------------------------------------
\* open: the POST's stream can carry the request; holds: it has it; owns:
\* ownsRegistration.
NoAsk == [pc |-> "idle", id |-> 0, method |-> None, object |-> None, open |-> FALSE,
          holds |-> FALSE, owns |-> FALSE, response |-> <<>>, outcome |-> <<>>]
NoGet == [pc |-> "none", object |-> None, holds |-> <<>>, owns |-> FALSE]
NoAnswer == [pc |-> "none", to |-> None, id |-> 0, empty |-> FALSE, object |-> None]

Init ==
  /\ requestIDCounter = 0
  /\ activeSessions \in {None, InitPost} /\ terminated = FALSE
  /\ asker = [a \in Askers |-> NoAsk]
  /\ samplingRequests = [o \in Objects |-> {}]
  /\ requestChan = [o \in Objects |-> [m \in Methods |-> <<>>]]
  /\ get = [g \in Gets |-> NoGet]
  /\ received = {} /\ lost = {}
  /\ answers = [n \in 1..MaxAnswers |-> NoAnswer]

InBounds ==
  requestIDCounter + Cardinality({n \in DOMAIN answers : answers[n].pc # "none"}) < MaxMessages

-----------------------------------------------------------------------------
(* GETs; HttpSessions has the races for the maps.                           *)

GetSame == UNCHANGED <<requestIDCounter, terminated, asker, samplingRequests, answers>>

Get(g) ==
  /\ get[g].pc = "none"
  /\ LET o == IF activeSessions = None THEN g ELSE activeSessions IN
     /\ activeSessions' = o
     /\ get' = [get EXCEPT ![g] = [@ EXCEPT !.pc = "open", !.object = o, !.owns = o = g]]
  /\ GetSame /\ UNCHANGED <<requestChan, received, lost>>

\* The forwarder takes a request off a channel.
Forward(g, m) ==
  LET o == get[g].object IN
  /\ get[g].pc = "open" /\ Len(get[g].holds) < WriteCap
  /\ requestChan[o][m] # <<>>
  /\ get' = [get EXCEPT ![g].holds = Append(@, Head(requestChan[o][m]))]
  /\ requestChan' = [requestChan EXCEPT ![o][m] = Tail(@)]
  /\ GetSame /\ UNCHANGED <<activeSessions, received, lost>>

Write(g) ==
  /\ get[g].holds # <<>>
  /\ received' = received \union {Head(get[g].holds)}
  /\ get' = [get EXCEPT ![g].holds = Tail(@)]
  /\ GetSame /\ UNCHANGED <<activeSessions, requestChan, lost>>

AskersOf(requests) == {requests[i].by : i \in DOMAIN requests}

\* What the GET holds is gone with it; the GET that made the object removes it.
GetEnds(g) ==
  /\ get[g].pc = "open"
  /\ lost' = lost \union AskersOf(get[g].holds)
  /\ get' = [get EXCEPT ![g] = [NoGet EXCEPT !.pc = "over"]]
  /\ activeSessions' = IF get[g].owns THEN None ELSE activeSessions
  /\ GetSame /\ UNCHANGED <<requestChan, received>>

\* DELETE or the sweeper; a stateless id manager terminates nothing.
CleanUp ==
  /\ activeSessions # None /\ activeSessions' = None
  /\ terminated' \in {terminated, TRUE}
  /\ UNCHANGED <<requestIDCounter, asker, samplingRequests, requestChan, get, received,
                 answers, lost>>

-----------------------------------------------------------------------------
(* POSTs and RequestSampling, ListRoots, RequestElicitation.                *)

Request(a) == [id |-> asker[a].id, by |-> a]

\* Mutant: each object counts for itself.
NextID_OfTheObject(o) == Cardinality({a \in Askers : asker[a].object = o}) + 1

\* The counter is the server's, so that an id is of one request, whichever
\* object of the session made it.
NextID(o) == requestIDCounter + 1

\* The POST finds its object, or has its own, and its handler asks: the
\* request is pending before it can be answered.  An elicitation goes on the
\* POST's stream, if it can have one.
Store(a, m, stream) ==
  LET o == IF activeSessions = None THEN a ELSE activeSessions IN
  /\ a = requestIDCounter + 1 /\ ~terminated /\ InBounds
  /\ stream => m = "elicitation/create"
  /\ requestIDCounter' = requestIDCounter + 1
  /\ asker' = [asker EXCEPT ![a] = [@ EXCEPT !.pc = "stored", !.open = stream,
                                      !.id = NextID(o), !.method = m, !.object = o]]
  /\ samplingRequests' = [samplingRequests EXCEPT ![o] =
                            @ \union {[id |-> NextID(o), method |-> m, by |-> a]}]
  /\ UNCHANGED <<activeSessions, terminated, requestChan, get, received, answers, lost>>

AskSame == UNCHANGED <<requestIDCounter, terminated, get, answers>>

\* trySend has the session routable first ...
Register(a) ==
  /\ asker[a].pc = "stored" /\ asker[a].open
  /\ asker' = [asker EXCEPT ![a] = [@ EXCEPT !.pc = "registered",
                                      !.owns = activeSessions = None]]
  /\ activeSessions' = IF activeSessions = None THEN asker[a].object ELSE activeSessions
  /\ AskSame /\ UNCHANGED <<samplingRequests, requestChan, received, lost>>

\* ... and gives the request to the stream, which has room for one.
TrySend(a) ==
  /\ asker[a].pc = "registered" /\ asker[a].open
  /\ asker' = [asker EXCEPT ![a] = [@ EXCEPT !.pc = "waiting", !.holds = TRUE]]
  /\ AskSame /\ UNCHANGED <<activeSessions, samplingRequests, requestChan, received, lost>>

PostWrite(a) ==
  /\ asker[a].holds
  /\ asker' = [asker EXCEPT ![a].holds = FALSE]
  /\ received' = received \union {Request(a)}
  /\ AskSame /\ UNCHANGED <<activeSessions, samplingRequests, requestChan, lost>>

\* Requests not yet written are not drained, and the POST that stored the
\* object removes it if it is still there.
PostReturns(a) ==
  /\ asker[a].open
  /\ asker' = [asker EXCEPT ![a] = [@ EXCEPT !.open = FALSE, !.holds = FALSE]]
  /\ lost' = IF asker[a].holds THEN lost \union {a} ELSE lost
  /\ activeSessions' = IF asker[a].owns /\ activeSessions = asker[a].object
                         THEN None ELSE activeSessions
  /\ AskSame /\ UNCHANGED <<samplingRequests, requestChan, received>>

\* The session's channel, if it has room, for what no POST's stream carries: a
\* stream that is gone, or that had no room until the context ended.
Queue(a) ==
  LET o == asker[a].object m == asker[a].method IN
  /\ \/ asker[a].pc = "registered"
     \/ asker[a].pc = "stored" /\ ~asker[a].open
  /\ IF Len(requestChan[o][m]) < QueueCap
       THEN /\ requestChan' = [requestChan EXCEPT ![o][m] = Append(@, Request(a))]
            /\ asker' = [asker EXCEPT ![a].pc = "waiting"]
       ELSE /\ asker' = [asker EXCEPT ![a].pc = "returning"]
            /\ UNCHANGED requestChan
  /\ AskSame /\ UNCHANGED <<activeSessions, samplingRequests, received, lost>>

AskerStep(a, next) ==
  /\ asker' = [asker EXCEPT ![a] = next]
  /\ AskSame /\ UNCHANGED <<activeSessions, requestChan, received, lost>>

Take(a) ==
  /\ asker[a].pc = "waiting" /\ asker[a].response # <<>>
  /\ AskerStep(a, [asker[a] EXCEPT !.pc = "returning", !.outcome = asker[a].response,
                                   !.response = <<>>])
  /\ UNCHANGED samplingRequests

\* Beside the stream, beside the channel, whether that has room or not, and
\* while it waits.
ContextEnds(a) ==
  /\ \/ asker[a].pc = "stored" /\ ~asker[a].open
     \/ asker[a].pc \in {"registered", "waiting"}
  /\ AskerStep(a, [asker[a] EXCEPT !.pc = "returning"])
  /\ UNCHANGED samplingRequests

Return(a) ==
  /\ asker[a].pc = "returning"
  /\ AskerStep(a, [asker[a] EXCEPT !.pc = "over", !.response = <<>>, !.outcome = <<>>])
  /\ samplingRequests' = [samplingRequests EXCEPT ![asker[a].object] =
                            {r \in @ : r.id # asker[a].id}]

-----------------------------------------------------------------------------
(* The client, and the POST of its answer.                                  *)

\* A result or an error, or an empty result.  Not every client answers once.
Answer(n, request, empty) ==
  /\ InBounds /\ answers[n].pc = "none" /\ (n > 1 => answers[n - 1].pc # "none")
  /\ answers' = [answers EXCEPT ![n] = [@ EXCEPT !.pc = "sent", !.to = request.by,
                                          !.id = request.id, !.empty = empty]]
  /\ UNCHANGED <<requestIDCounter, activeSessions, terminated, asker, samplingRequests,
                 requestChan, get, received, lost>>

Handle(n, next) ==
  /\ answers' = [answers EXCEPT ![n] = next]
  /\ UNCHANGED <<requestIDCounter, activeSessions, terminated, samplingRequests,
                 requestChan, get, received, lost>>

\* handlePost takes an empty result for the answer to a ping; then 404 for an
\* id that is terminated, or that no object is there for ...
Locate(n) ==
  /\ answers[n].pc = "sent"
  /\ Handle(n, IF answers[n].empty THEN [answers[n] EXCEPT !.pc = "accepted"]
               ELSE IF terminated \/ activeSessions = None
                 THEN [answers[n] EXCEPT !.pc = "refused"]
                 ELSE [answers[n] EXCEPT !.pc = "located", !.object = activeSessions])
  /\ UNCHANGED asker

\* An error is labelled with the method the pending request is for.
Response(pending, answer) == [from |-> answer.to, method |-> pending.method]

\* ... 400 unless the id is pending there, 500 if an answer is there already.
\* The asker that leaves between the two just leaves the answer where it is.
Deliver(n) ==
  LET found == {r \in samplingRequests[answers[n].object] : r.id = answers[n].id}
      open == {r \in found : asker[r.by].response = <<>>}
  IN
  /\ answers[n].pc = "located"
  /\ Handle(n, [answers[n] EXCEPT !.pc = IF open = {} THEN "refused" ELSE "accepted"])
  /\ asker' = [a \in Askers |->
       [asker[a] EXCEPT !.response = IF \E r \in open : r.by = a
          THEN <<Response(CHOOSE r \in open : r.by = a, answers[n])>> ELSE @]]

Next ==
  \/ \E g \in Gets : Get(g) \/ Write(g) \/ GetEnds(g) \/ \E m \in Methods : Forward(g, m)
  \/ CleanUp
  \/ \E a \in Askers :
       \/ \E m \in Methods, stream \in BOOLEAN : Store(a, m, stream)
       \/ Register(a) \/ TrySend(a) \/ PostWrite(a) \/ PostReturns(a)
       \/ Queue(a) \/ Take(a) \/ ContextEnds(a) \/ Return(a)
  \/ \E n \in 1..MaxAnswers :
       \/ \E request \in received, empty \in BOOLEAN : Answer(n, request, empty)
       \/ Locate(n) \/ Deliver(n)

Spec == Init /\ [][Next]_vars
-----------------------------------------------------------------------------
TypeOK ==
  /\ requestIDCounter \in 0..Cardinality(Askers)
  /\ activeSessions \in Objects \union {None} /\ terminated \in BOOLEAN
  /\ \A a \in Askers : Len(asker[a].response) <= 1
  /\ \A o \in Objects, m \in Methods : Len(requestChan[o][m]) <= QueueCap
  /\ \A g \in Gets : Len(get[g].holds) <= WriteCap
  /\ lost \subseteq Askers

\* An asker gets the client's answer to what it asked, under its own method,
\* whichever objects the session has had, and however many answers there are
\* (deliverSamplingResponse, nextRequestID).
OwnAnswer ==
  \A a \in Askers : \A i \in DOMAIN asker[a].outcome :
    LET answer == asker[a].outcome[i] IN
    /\ answer.from = a /\ answer.method = asker[a].method
    /\ \E n \in 1..MaxAnswers :
         answers[n].to = a /\ answers[n].pc = "accepted" /\ ~answers[n].empty

\* What is pending is what goroutines are asking now (deferred Delete).
PendingIsAsked ==
  \A o \in Objects :
    {r.by : r \in samplingRequests[o]} =
      {a \in Askers : asker[a].object = o /\ asker[a].pc # "over"}

\* The places a request is in.
Places(a) ==
  {q \in Objects \X Methods : a \in AskersOf(requestChan[q[1]][q[2]])}
    \union {<<"GET", g>> : g \in {g \in Gets : a \in AskersOf(get[g].holds)}}
    \union {<<"client", r>> : r \in {r \in received : r.by = a}}
    \union (IF asker[a].holds THEN {<<"POST", a>>} ELSE {})
    \union (IF a \in lost THEN {<<"lost", a>>} ELSE {})

\* A request goes to the client once: it is in one place, the asker's
\* session's queue, a stream, the client, or gone with a stream.  While its
\* asker waits, an answer is under way or was not for the asker's session.
AskedOnce ==
  \A a \in Askers :
    LET places == Places(a) IN
    /\ asker[a].pc \in {"stored", "registered"} => places = {}
    /\ Cardinality(places) <= 1
    /\ asker[a].pc = "waiting" /\ asker[a].response = <<>> =>
         /\ places # {}
         /\ \A n \in 1..MaxAnswers : answers[n].to = a =>
              \/ answers[n].pc \in {"sent", "located"} \/ answers[n].empty
              \/ answers[n].pc = "refused" /\ answers[n].object # asker[a].object

AsksAnswered == OwnAnswer /\ PendingIsAsked /\ AskedOnce

\* The session of an elicitation that an open POST has sent is routable
\* ("Registration makes responses to request-scoped server requests routable",
\* streamable_http.go): unless the session was cleaned up.
ElicitationsRoutable ==
  \A a \in Askers :
    asker[a].pc = "waiting" /\ asker[a].open /\ ~terminated => activeSessions # None
=============================================================================
