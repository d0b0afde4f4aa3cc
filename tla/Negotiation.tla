---------------------------- MODULE Negotiation -----------------------------
(***************************************************************************)
(* How a client and a server settle on a protocol version                  *)
(* (client/protocol.go, client/client.go, server/discover.go, the          *)
(* initialize handler of server/server.go, mcp/version.go).                *)
(*                                                                         *)
(* The client probes with server/discover, and does the handshake of the   *)
(* earlier versions when the probe does not show a modern server.  A probe *)
(* that timed out, or a call that was given up, is still handled by the    *)
(* server later, in order; its answer is dropped.                          *)
(***************************************************************************)
EXTENDS Integers, Sequences, FiniteSets, FiniteSetsExt

CONSTANTS
  MaxVersion,    \* versions are 1..MaxVersion, and 0 is none
  Known,         \* ValidProtocolVersions
  FirstModern,   \* the first version without a handshake
  MaxRequests    \* bound: requests the client sends

VARIABLES
  server,        \* what the server speaks
  session,       \* the server's session: initialized, and in which version
  requests,      \* on their way to the server, in order
  answer,        \* the answer to the request the client waits for
  client,        \* the call of Initialize
  version,       \* protocolVersion
  initialized,
  serverIsModern,\* history: this call was shown that the server is
  sent           \* bound

vars == <<server, session, requests, answer, client, version, initialized,
          serverIsModern, sent>>

Versions == 1..MaxVersion
IsModern(v) == v >= FirstModern
Highest(versions) == IF versions = {} THEN 0 ELSE Max(versions)
Latest == Highest(Known)
LatestLegacy == Highest({v \in Known : ~IsModern(v)})

\* NegotiateMutuallySupportedVersion
Mutual(supported) == Highest(Known \intersect supported)

\* NegotiateLegacyVersion: the client always names a version.
NegotiateLegacy(v) == IF v \in Known /\ ~IsModern(v) THEN v ELSE LatestLegacy

NoAnswer == [kind |-> "none", version |-> 0]
ClientIdle == [pc |-> "idle", preferred |-> 0, previous |-> 0, attempts |-> 0, modern |-> FALSE]

\* A modern server is this SDK's, or a newer one: it lists what its transport
\* can serve, and rejects the rest, or, when it is not strict, only what it
\* does not know.  An old one does not know the probe, and may ignore it.
Init ==
  /\ server \in [speaks : {"modern", "old", "silent"}, strict : BOOLEAN,
                 supports : SUBSET Versions \ {{}}]
  /\ server.speaks # "modern" => server.strict /\ server.supports = Known
  /\ session = [initialized |-> FALSE, version |-> 0]
  /\ requests = <<>> /\ answer = NoAnswer
  /\ client = ClientIdle /\ version = 0 /\ initialized = FALSE
  /\ serverIsModern = FALSE /\ sent = 0

-----------------------------------------------------------------------------
(* The client.                                                              *)

Send(method, era, v) ==
  /\ sent < MaxRequests /\ sent' = sent + 1
  /\ requests' = Append(requests, [id |-> sent + 1, method |-> method,
                                   era |-> era, version |-> v])
  /\ answer' = NoAnswer

\* negotiateModern: the version goes in the probe itself, so it is set first.
Probe(v) ==
  /\ version' = v
  /\ Send("discover", v, v)

\* initializeLegacy, which names the newest version that has a handshake.
Handshake(preferred, era) ==
  /\ client' = [client EXCEPT !.pc = "asking", !.preferred = preferred]
  /\ Send("initialize", era,
          IF preferred = 0 \/ IsModern(preferred) THEN LatestLegacy ELSE preferred)

\* Initialize.  It may be called again when it failed.
Initialize(preferred, legacyOnly) ==
  /\ client.pc = "idle" /\ ~initialized
  /\ serverIsModern' = FALSE
  /\ IF ~legacyOnly /\ (preferred = 0 \/ IsModern(preferred))
       THEN /\ Probe(IF preferred = 0 THEN Latest ELSE preferred)
            /\ client' = [ClientIdle EXCEPT !.pc = "probing", !.preferred = preferred,
                                            !.previous = version]
       ELSE Handshake(preferred, version) /\ UNCHANGED version
  /\ UNCHANGED <<server, session, initialized>>

\* discoveredVersion: 0 if there is none.
DiscoveredVersion(v, supported) ==
  IF v \in supported THEN v
  ELSE IF IsModern(Mutual(supported)) THEN Mutual(supported) ELSE 0

Discovered ==
  LET v == DiscoveredVersion(version, server.supports) IN
  /\ client.pc = "probing" /\ answer.kind = "discovered"
  /\ serverIsModern' = TRUE
  /\ version' = IF v = 0 THEN client.previous ELSE v
  /\ initialized' = (v # 0)
  /\ client' = ClientIdle /\ answer' = NoAnswer
  /\ UNCHANGED <<server, session, requests, sent>>

\* The second probe goes out even at the version that was just rejected.
Renegotiates ==
  LET v == Mutual(server.supports) IN
  /\ client.pc = "probing" /\ answer.kind = "unsupported"
  /\ client.attempts = 0 /\ IsModern(v)
  /\ serverIsModern' = TRUE
  /\ client' = [client EXCEPT !.attempts = 1, !.modern = TRUE]
  /\ Probe(v)
  /\ UNCHANGED <<server, session, initialized>>

\* Mutant: only the last attempt says whether the server is modern.
ProbeFails_OfTheLast(identified) ==
  /\ version' = client.previous
  /\ IF identified
       THEN /\ client' = ClientIdle
            /\ UNCHANGED <<requests, answer, sent>>
       ELSE Handshake(client.preferred, client.previous)
  /\ UNCHANGED <<server, session, initialized>>

\* Nothing is left of the probe; and a server known to be modern is not asked
\* for a handshake.
ProbeFails(identified) ==
  /\ version' = client.previous
  /\ IF client.modern \/ identified
       THEN /\ client' = ClientIdle
            /\ UNCHANGED <<requests, answer, sent>>
       ELSE Handshake(client.preferred, client.previous)
  /\ UNCHANGED <<server, session, initialized>>

Unsupported ==
  /\ client.pc = "probing" /\ answer.kind = "unsupported"
  /\ client.attempts = 1 \/ ~IsModern(Mutual(server.supports))
  /\ serverIsModern' = TRUE
  /\ ProbeFails(TRUE)

\* Another error, or the probe's timeout, which the two attempts share.
NoDiscovery ==
  /\ client.pc = "probing" /\ answer.kind \in {"none", "error"}
  /\ ProbeFails(FALSE)
  /\ UNCHANGED serverIsModern

Answered ==
  /\ client.pc = "asking" /\ answer.kind = "initialized"
  /\ answer.version \in Known
  /\ version' = answer.version
  /\ client' = [client EXCEPT !.pc = "notifying"] /\ answer' = NoAnswer
  /\ UNCHANGED <<server, session, requests, initialized, serverIsModern, sent>>

\* notifications/initialized, which may fail.
Notified(sends) ==
  /\ client.pc = "notifying"
  /\ initialized' = sends
  /\ client' = ClientIdle
  /\ UNCHANGED <<server, session, requests, answer, version, serverIsModern, sent>>

\* An error, or the end of the caller's context.
GivesUp ==
  /\ client.pc = "asking" /\ answer.kind \in {"none", "error"}
  /\ client' = ClientIdle /\ answer' = NoAnswer
  /\ UNCHANGED <<server, session, requests, version, initialized, serverIsModern, sent>>

-----------------------------------------------------------------------------
(* The server.                                                              *)

Respond(request, response) ==
  /\ requests' = Tail(requests)
  /\ answer' = IF request.id = sent /\ client.pc \in {"probing", "asking"}
                 THEN response ELSE answer
  /\ UNCHANGED <<server, client, version, initialized, serverIsModern, sent>>

Accepts(v) == v \in server.supports \/ (~server.strict /\ v \in Known)

\* handleDiscover, behind the checks every modern request goes through.  The
\* session is taken to be initialized; it has no version.
HandleDiscover ==
  /\ requests # <<>> /\ Head(requests).method = "discover"
  /\ server.speaks = "modern"
  /\ IF Accepts(Head(requests).version)
       THEN /\ Respond(Head(requests), [kind |-> "discovered", version |-> 0])
            /\ session' = [session EXCEPT !.initialized = TRUE]
       ELSE /\ Respond(Head(requests), [kind |-> "unsupported", version |-> 0])
            /\ UNCHANGED session

\* A server of earlier versions: an error, or nothing.
RefuseDiscover ==
  /\ requests # <<>> /\ Head(requests).method = "discover"
  /\ server.speaks # "modern"
  /\ Respond(Head(requests), [kind |-> IF server.speaks = "old" THEN "error" ELSE "none",
                              version |-> 0])
  /\ UNCHANGED session

\* handleInitialize; there is no such method in a modern request.
HandleInitialize ==
  /\ requests # <<>> /\ Head(requests).method = "initialize"
  /\ IF IsModern(Head(requests).era)
       THEN /\ Respond(Head(requests), [kind |-> "error", version |-> 0])
            /\ UNCHANGED session
       ELSE LET v == NegotiateLegacy(Head(requests).version) IN
            /\ Respond(Head(requests), [kind |-> "initialized", version |-> v])
            /\ session' = [initialized |-> TRUE, version |-> v]

-----------------------------------------------------------------------------
Next ==
  \/ \E preferred \in 0..MaxVersion, legacyOnly \in BOOLEAN : Initialize(preferred, legacyOnly)
  \/ Discovered \/ Renegotiates \/ Unsupported \/ NoDiscovery
  \/ Answered \/ (\E sends \in BOOLEAN : Notified(sends)) \/ GivesUp
  \/ HandleDiscover \/ RefuseDiscover \/ HandleInitialize

Spec == Init /\ [][Next]_vars
-----------------------------------------------------------------------------
TypeOK ==
  /\ server \in [speaks : {"modern", "old", "silent"}, strict : BOOLEAN,
                 supports : SUBSET Versions]
  /\ session \in [initialized : BOOLEAN, version : 0..MaxVersion]
  /\ requests \in Seq([id : 1..MaxRequests, method : {"discover", "initialize"},
                       era : 0..MaxVersion, version : Versions])
  /\ answer \in [kind : {"none", "error", "discovered", "unsupported", "initialized"},
                 version : 0..MaxVersion]
  /\ client \in [pc : {"idle", "probing", "asking", "notifying"}, preferred : 0..MaxVersion,
                 previous : 0..MaxVersion, attempts : 0..1, modern : BOOLEAN]
  /\ version \in 0..MaxVersion
  /\ initialized \in BOOLEAN /\ serverIsModern \in BOOLEAN /\ sent \in 0..MaxRequests

\* A client that is initialized has a version the server has: one it lists, or
\* the one its session records.  A client that failed has none, unless the
\* handshake was over but for its notification, so a later handshake is not
\* refused for the version of a probe.  And a server that showed it is modern
\* is not asked for a handshake.
Negotiated ==
  /\ initialized =>
       IF IsModern(version) THEN server.speaks = "modern" /\ version \in server.supports
                            ELSE session.initialized /\ session.version = version
  /\ client.pc = "idle" /\ ~initialized => ~IsModern(version)
  /\ client.pc = "asking" => ~IsModern(version) /\ ~serverIsModern
=============================================================================
