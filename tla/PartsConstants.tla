--------------------------- MODULE PartsConstants ---------------------------
(***************************************************************************)
(* The constants of the components that are checked in one run, and what   *)
(* is assumed of them.  Each is described in the module it belongs to.     *)
(***************************************************************************)
EXTENDS Integers, Sequences, FiniteSets

CONSTANTS
  None,
  Issuers, Callers, Flows, Refresher, MaxOnces, MaxURLs, MaxTokens, MaxVersions,
  Kinds, RegistryItems, DisplayName, MaxRedefined, Changers, PageLimit, ChannelCap, MaxChanges, MaxLogs,
  Gets, Posts, InitPost, Cleaners, EventStore,
  Starters, Closers, Requests,
  Ids, MaxRoundTrips, MaxLoadShedding,
  Newest, Known, FirstModern, MaxRequests,
  Listens, Topics, Offered, Casters, StreamCap, MaxCasts,
  CallItems, MaxCalls, MaxMoves,
  Params, HeaderNames, Listers, MaxDefinitions,
  MaxAsks, Methods, Streams, QueueCap, WriteCap,
  MaxAnswers, MaxMessages,
  IntSize, Significand, NarrowSizes, MaxHops,
  Definers, Savers, MaxBuilds, ToolTypes, SchemaKeys, NoKey,
  Null, MaxProxies,
  InSession, Values, Schemas, ToolCallers, MaxRedefinitions,
  MaxEvents, MaxReceipts, MaxStreams

\* HttpSessions: each request has an object of its own.
ASSUME HttpSessionsAssumption ==
  /\ Gets \intersect Posts = {} /\ InitPost \notin Gets \union Posts
  /\ None \notin Gets \union Posts \union {InitPost}

\* OAuth: "preset" and None are not issuers, the goroutine of the refresh is
\* none of the flows, and there are a Once and a token to begin with.
ASSUME OAuthAssumption ==
  /\ None \notin Issuers \union {"preset"} /\ "preset" \notin Issuers
  /\ Refresher \notin Flows
  /\ MaxOnces \in Nat \ {0} /\ MaxTokens \in Nat \ {0} /\ MaxURLs \in Nat
  /\ MaxVersions \in Nat

\* Registry: the items are finitely many, none has the number of the cursor
\* that is not there, and names are in an order.
ASSUME RegistryAssumption ==
  /\ IsFiniteSet(RegistryItems) /\ RegistryItems \subseteq Int \ {0}
  /\ DisplayName \in [RegistryItems -> Int]
  /\ MaxRedefined \in Nat /\ Changers \subseteq Int
  /\ PageLimit \in Nat /\ ChannelCap \in Nat /\ MaxChanges \in Nat /\ MaxLogs \in Nat

\* InProcess and StdioClient: the calls of Start are not those of Close.
ASSUME TransportsAssumption == Starters \intersect Closers = {}

\* RoundTrips: the attempts are counted.
ASSUME RoundTripsAssumption == MaxRoundTrips \in Nat /\ MaxLoadShedding \in Nat \ {0}

\* Negotiation: the client knows versions with a handshake and versions without.
ASSUME NegotiationAssumption ==
  /\ Newest \in Nat /\ MaxRequests \in Nat /\ FirstModern \in Int
  /\ Known \subseteq 1..Newest
  /\ \E v \in Known : v < FirstModern
  /\ \E v \in Known : v >= FirstModern

\* Subscriptions: None is not a call of Listen.
ASSUME SubscriptionsAssumption == None \notin Listens

\* There are finitely many of them, which their numbers count.
ASSUME ListensAssumption == IsFiniteSet(Listens)

\* ServerRequests: None is no object, and the channels have capacities.
ASSUME ServerRequestsAssumption ==
  /\ MaxAsks \in Nat /\ None \notin Streams \union (1..MaxAsks) \union {InitPost}
  /\ QueueCap \in Nat /\ WriteCap \in Nat

\* Headers: None is no header, no definition and no value.
ASSUME HeadersAssumption ==
  /\ None \notin HeaderNames /\ None \notin [Params -> HeaderNames \union {None}]
  /\ None \notin [form : {"plain", "base64", "broken"}, value : {"word", "padded", "empty"}]

\* SchemaCache: no key is the one that stands for none, None is no schema, and
\* there is a process to begin with.
ASSUME SchemaCacheAssumption ==
  /\ NoKey \notin SchemaKeys /\ MaxBuilds \in Nat \ {0}
  /\ None \notin [of : ToolTypes, build : Nat]

\* Calls: a tool's support of tasks is one of those there are.
ASSUME CallsAssumption ==
  \A item \in CallItems : item.support \in {"none", "optional", "required"}

\* Arguments: the significand of a float64 is no longer than an int, the other
\* integers have no more than an int, and None is no numeral and no list.
ASSUME ArgumentsAssumption ==
  /\ MaxHops \in Nat /\ IntSize \in Nat /\ IntSize >= 3 /\ Significand \in 1..IntSize
  /\ NarrowSizes \subseteq 1..IntSize
  /\ None \notin [type : {"number"}, is : [form : {"integer", "point", "exponent", "long"}, h : Int]]
  /\ None \notin [type : {"list"}, is : {<<>>} \union Seq([type : {"number", "string", "bool", "nil"},
                     is : BOOLEAN \union Int \union
                            [form : {"integer", "point", "exponent", "long", "spaced", "word", "true"}, h : Int]])]

\* Arithmetic that the provers are not told of: the powers of two that it takes.
ASSUME PowersAssumption ==
  2 ^ 0 = 1 /\ \A k \in 0..(IntSize + 2) : 2 ^ k \in Nat /\ 2 ^ (k + 1) = 2 * 2 ^ k

\* Content: a block as it may be on the wire, with what a list of its own may be.
WireAnnotations ==
  {None} \union [audience : SUBSET {"user", "system", "assistant"},
                 priority : {"none", "number", "numeral"}]
WireMeta == {"none", "object", "string"}
WireSizes == {"none", "number", "negative", "numeral"}
WireVariants == {"text", "blob", "both", "neither", "blob, text a number"}
WireResourceMeta == {"none", "null", "object", "string"}
WirePayloads == {"none", "null", "small", "big", "rounded"}
Wire(items) ==
  [type : {"text", "image", "audio", "resource_link", "resource", "tool_use", "tool_result"},
   blank : SUBSET {"data", "mimeType", "uri", "name", "id", "toolUseId"},
   annotations : WireAnnotations, meta : WireMeta, size : WireSizes, variant : WireVariants,
   resourceMeta : WireResourceMeta, payload : WirePayloads, items : items]
WireLeaf == Wire({Null})
WireBlock == Wire({None, Null} \union Seq(WireLeaf))

\* A list that is absent or null is no list.
ASSUME ContentAssumption ==
  /\ MaxProxies \in Nat /\ None # Null
  /\ None \notin Seq(WireBlock) \union Seq(WireLeaf) /\ Null \notin Seq(WireBlock) \union Seq(WireLeaf)
  /\ None \notin [audience : SUBSET {"user", "system", "assistant"},
                 priority : {"none", "number", "numeral"}]
=============================================================================
