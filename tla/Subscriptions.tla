--------------------------- MODULE Subscriptions ----------------------------
(***************************************************************************)
(* subscriptions/listen over streamable HTTP (client/subscriptions.go,     *)
(* server/subscriptions.go, the broadcast of server/session.go, and what   *)
(* handlePost of server/streamable_http.go does for a listen stream).      *)
(*                                                                         *)
(* A client calls Listen with the topics it wants, again and from several  *)
(* goroutines, and a later call takes the place of an earlier one.  The    *)
(* server serves each call with a session of its own, which broadcasts     *)
(* reach from the moment it is registered, and which passes them its       *)
(* filter from the moment that is recorded.                                *)
(*                                                                         *)
(* The connection is a modern one: on an older one Listen fails at once.   *)
(* Resource URIs are left out: none of the repository's sessions keeps     *)
(* track of them, so they only make a filter that is not empty.            *)
(***************************************************************************)
EXTENDS Integers, Sequences, FiniteSets, Functions

CONSTANTS
  Listens,       \* calls of Listen
  Topics,        \* what a filter can ask for
  Offered,       \* what the capabilities of the server allow
  Casters,       \* goroutines of the server that broadcast
  None,
  Cap,           \* capacity of a session's notification channel
  MaxCasts       \* bound: broadcasts

VARIABLES
  owner,         \* cancel: the call whose stream it ends
  generation,
  listen,        \* each call of Listen
  stream,        \* the server's side of each call
  caster,        \* what each broadcasting goroutine is doing
  casts          \* bound

vars == <<owner, generation, listen, stream, caster, casts>>

NoStream == [pc |-> "none", filter |-> {}, queue |-> <<>>, written |-> <<>>]
CasterIdle == [pc |-> "idle", topic |-> None, visited |-> {}, target |-> None, owed |-> {}]

Init ==
  /\ owner = None /\ generation = 0
  /\ listen = [l \in Listens |-> [pc |-> "idle", filter |-> {}, generation |-> 0,
                                  cancelled |-> FALSE]]
  /\ stream = [l \in Listens |-> NoStream]
  /\ caster = [b \in Casters |-> CasterIdle]
  /\ casts = 0

-----------------------------------------------------------------------------
(* The client.                                                              *)

Cancel(calls, l) == IF l \in DOMAIN calls THEN [calls EXCEPT ![l].cancelled = TRUE] ELSE calls

\* The critical section of Listen.  What it asks for is the filter it is given
\* and what Subscribe recorded since, here any set.
Listen(l, wanted) ==
  /\ listen[l].pc = "idle"
  /\ generation' = generation + 1
  /\ listen' = [Cancel(listen, owner) EXCEPT
       ![l].pc = "opening", ![l].filter = wanted, ![l].generation = generation + 1]
  /\ owner' = l
  /\ UNCHANGED <<stream, caster, casts>>

\* The caller's context ends; or the function ListenAsync returned is called.
Stop(l) ==
  /\ listen[l].pc \in {"opening", "open"} /\ ~listen[l].cancelled
  /\ listen' = Cancel(listen, l)
  /\ UNCHANGED <<owner, generation, stream, caster, casts>>

\* The request reaches the server, which registers the session it made for it.
Post(l) ==
  /\ listen[l].pc = "opening" /\ ~listen[l].cancelled
  /\ listen' = [listen EXCEPT ![l].pc = "open"]
  /\ stream' = [stream EXCEPT ![l].pc = "registered"]
  /\ UNCHANGED <<owner, generation, caster, casts>>

\* The request ended: with the context, or with the stream.
Ended(l) ==
  /\ listen[l].pc \in {"opening", "open"}
  /\ listen[l].cancelled \/ stream[l].pc = "closed"
  /\ listen' = [listen EXCEPT ![l].pc = "returning"]
  /\ UNCHANGED <<owner, generation, stream, caster, casts>>

\* A call that was superseded leaves the state to its successor.
Return(l) ==
  /\ listen[l].pc = "returning"
  /\ owner' = IF generation = listen[l].generation THEN None ELSE owner
  /\ listen' = [listen EXCEPT ![l].pc = "returned"]
  /\ UNCHANGED <<generation, stream, caster, casts>>

-----------------------------------------------------------------------------
(* The server: handlePost and handleSubscriptionsListen.                    *)

Serving(l, pc) ==
  /\ stream[l].pc = pc
  /\ UNCHANGED <<owner, generation, listen, caster, casts>>

\* allowedSubscriptions
Allowed(want) == want \intersect Offered

Record(l) ==
  /\ Serving(l, "registered")
  /\ stream' = [stream EXCEPT ![l].pc = "recorded", ![l].filter = Allowed(listen[l].filter)]

Room(l) == Len(stream[l].queue) < Cap

\* Nothing was allowed, or there is no room for the acknowledgement: the stream
\* ends.
Acknowledge(l) ==
  /\ Serving(l, "recorded")
  /\ stream' = [stream EXCEPT
       ![l].pc = IF Room(l) /\ stream[l].filter # {} THEN "holding" ELSE "leaving",
       ![l].queue = IF Room(l) THEN Append(@, "acknowledged") ELSE @]

\* The client cancelled the request, or its connection is gone.
Disconnected(l) ==
  /\ listen[l].cancelled
  /\ Serving(l, "holding")
  /\ stream' = [stream EXCEPT ![l].pc = "leaving"]

\* The deferred call.
Clear(l) ==
  /\ Serving(l, "leaving")
  /\ stream' = [stream EXCEPT ![l].pc = "cleared", ![l].filter = {}]

Unregister(l) ==
  /\ Serving(l, "cleared")
  /\ stream' = [stream EXCEPT ![l].pc = "unregistered"]

\* The forwarder, which tags what it writes with the request's id.
Forward(l) ==
  /\ stream[l].pc \notin {"none", "closed"} /\ stream[l].queue # <<>>
  /\ stream' = [stream EXCEPT ![l].queue = Tail(@),
                              ![l].written = Append(@, Head(stream[l].queue))]
  /\ UNCHANGED <<owner, generation, listen, caster, casts>>

\* What is queued goes before the response.
Respond(l) ==
  /\ Serving(l, "unregistered")
  /\ stream' = [stream EXCEPT ![l].pc = "closed", ![l].queue = <<>>,
       ![l].written = @ \o stream[l].queue \o <<"response">>]

-----------------------------------------------------------------------------
(* Broadcasts: sendNotificationToAllClients, over listenSessions.           *)

Registered(l) == stream[l].pc \notin {"none", "unregistered", "closed"}

\* Mutant: a session is filtered from the moment its filter is recorded.
Passes_OnceRecorded(l, topic) ==
  stream[l].pc \in {"registered", "cleared"} \/ topic \in stream[l].filter

\* subscriptionAllowsNotification: the session counts as filtered for as long
\* as it serves the stream, with or without a filter.
Passes(l, topic) == topic \in stream[l].filter

\* owed: the streams that are open, and want it.
Broadcast(b, topic) ==
  /\ caster[b].pc \in {"idle", "over"} /\ casts < MaxCasts /\ casts' = casts + 1
  /\ caster' = [caster EXCEPT ![b] =
       [CasterIdle EXCEPT !.pc = "ranging", !.topic = topic,
          !.owed = {l \in Listens : /\ "acknowledged" \in Range(stream[l].written)
                                    /\ stream[l].pc = "holding"
                                    /\ topic \in Allowed(listen[l].filter)}]]
  /\ UNCHANGED <<owner, generation, listen, stream>>

\* broadcastToSession reads the filter, and sends after that.
Visit(b, l) ==
  /\ caster[b].pc = "ranging" /\ Registered(l) /\ l \notin caster[b].visited
  /\ caster' = [caster EXCEPT ![b].visited = @ \union {l},
       ![b].pc = IF Passes(l, caster[b].topic) THEN "sending" ELSE @,
       ![b].target = IF Passes(l, caster[b].topic) THEN l ELSE @]
  /\ UNCHANGED <<owner, generation, listen, stream, casts>>

\* It never waits: a full channel loses the notification.
SendTo(b, l) ==
  /\ caster[b].pc = "sending" /\ caster[b].target = l
  /\ stream' = IF Room(l) THEN [stream EXCEPT ![l].queue = Append(@, caster[b].topic)]
                          ELSE stream
  /\ caster' = [caster EXCEPT ![b].pc = "ranging", ![b].target = None,
                              ![b].owed = @ \ {l}]
  /\ UNCHANGED <<owner, generation, listen, casts>>

\* Range sees every session that is there all the time.
Over(b) ==
  /\ caster[b].pc = "ranging"
  /\ \A l \in Listens : Registered(l) => l \in caster[b].visited
  /\ caster' = [caster EXCEPT ![b].pc = "over"]
  /\ UNCHANGED <<owner, generation, listen, stream, casts>>

Next ==
  \/ \E l \in Listens :
       \/ \E wanted \in SUBSET Topics : Listen(l, wanted)
       \/ Stop(l) \/ Post(l) \/ Ended(l) \/ Return(l)
       \/ Record(l) \/ Acknowledge(l) \/ Disconnected(l)
       \/ Clear(l) \/ Unregister(l) \/ Forward(l) \/ Respond(l)
       \/ \E b \in Casters : Visit(b, l) \/ SendTo(b, l)
  \/ \E b \in Casters : Over(b) \/ \E topic \in Topics : Broadcast(b, topic)

Spec == Init /\ [][Next]_vars
-----------------------------------------------------------------------------
TypeOK ==
  /\ owner \in Listens \union {None} /\ generation \in 0..Cardinality(Listens)
  /\ listen \in [Listens -> [pc : {"idle", "opening", "open", "returning", "returned"},
                             filter : SUBSET (Topics),
                             generation : 0..Cardinality(Listens), cancelled : BOOLEAN]]
  /\ \A l \in Listens :
       /\ stream[l].pc \in {"none", "registered", "recorded", "holding", "leaving",
                            "cleared", "unregistered", "closed"}
       /\ stream[l].filter \subseteq Topics
       /\ Range(stream[l].queue \o stream[l].written)
            \subseteq Topics \union {"acknowledged", "response"}
  /\ \A b \in Casters : caster[b].pc \in {"idle", "ranging", "sending", "over"}

\* What reaches a stream is what its call asked for and the server allows, and
\* the acknowledgement of that (SEP-2575, broadcastToSession): nothing before
\* the filter is and nothing after it is cleared that was not decided
\* before.
OptIn ==
  \A l \in Listens :
    /\ Range(stream[l].queue \o stream[l].written)
         \subseteq Allowed(listen[l].filter) \union {"acknowledged", "response"}
    /\ stream[l].pc \in {"none", "registered"} => stream[l].queue \o stream[l].written = <<>>

\* A client that read the acknowledgement misses no broadcast of what it asked
\* for while the stream is held open, but what finds the channel full
\* (handleSubscriptionsListen records the filter before it acknowledges it).
MissesNothing ==
  \A b \in Casters, l \in Listens :
    caster[b].pc = "over" /\ l \in caster[b].owed => stream[l].pc # "holding"

\* One stream: a call that is still wanted is the last, its cancel function is
\* the one kept, and a call that returned has left none behind (Listen).
OneStream ==
  /\ \A l \in Listens :
       listen[l].pc \in {"opening", "open"} /\ ~listen[l].cancelled =>
         owner = l /\ listen[l].generation = generation
  /\ owner # None => listen[owner].pc \in {"opening", "open", "returning"}

Subscribed == OptIn /\ MissesNothing /\ OneStream
=============================================================================
