------------------------------ MODULE MCParts ------------------------------
(***************************************************************************)
(* The components small enough to be checked in one run, each an instance. *)
(* They do not interact here: `part' says which of them a behavior is of.  *)
(* Its variables are held in the slots; the slots it does not need stay 0. *)
(* A variable that several components have is in one slot for all of them, *)
(* so that PartsTheorems can take the proofs about them in one instance.   *)
(***************************************************************************)
EXTENDS Integers, Sequences, PartsConstants

VARIABLES
  part,
  slot1, slot2, slot3, slot4, slot5, slot6, slot7, slot8, slot9, slot10,
  slot11, slot12, slot13, slot14, slot15, slot16, slot17, slot18

ManyItems ==
  {[support |-> s, visible |-> v] : s \in {"none", "optional"}, v \in BOOLEAN}
    \union {[support |-> "required", visible |-> TRUE]}

\* Two items of one display name.
TwoItems == 1..2
SameName == [i \in TwoItems |-> 1]

OA == INSTANCE OAuth WITH serverMetadata <- slot1, metadataOnce <- slot2,
    fetchErr <- slot3, call <- slot4, knownIssuer <- slot5,
    credentials <- slot6, store <- slot7, refresh <- slot8,
    registration <- slot9, discovery <- slot10, flow <- slot11,
    expectedState <- slot12, authorizationTransaction <- slot13,
    urls <- slot14, issued <- slot15, presetSentTo <- slot16,
    codeSends <- slot17, replaced <- slot18
HS == INSTANCE HttpSessions WITH closed <- slot1, activeSessions <- slot2,
    sessions <- slot3, terminated <- slot4, init <- slot5, hooks <- slot6,
    get <- slot7, post <- slot8, cleaner <- slot9, object <- slot10,
    sender <- slot11, owns <- slot12
RG == INSTANCE Registry WITH Items <- RegistryItems, NameOf <- DisplayName,
    MaxVersion <- MaxRedefined, kind <- slot1, capability <- slot2, items <- slot3,
    taskTools <- slot4, sessionItems <- slot5, changes <- slot6,
    client <- slot7, changer <- slot8, notifications <- slot9, view <- slot10,
    again <- slot11, dropped <- slot12, stayed <- slot13, logs <- slot14
SC == INSTANCE StdioClient WITH isCommand <- slot1, started <- slot2,
    resourcesReady <- slot3, call <- slot4, child <- slot5, answer <- slot6,
    done <- slot7, current <- slot8, responses <- slot9, reader <- slot10,
    cleanup <- slot11, request <- slot12, stdin <- slot13, stdout <- slot14,
    closeCalled <- slot15
IP == INSTANCE InProcess WITH closed <- slot1, started <- slot2,
    session <- slot3, call <- slot4, starting <- slot5, hooks <- slot6,
    done <- slot7, registered <- slot8, forwarders <- slot9, result <- slot10
RT == INSTANCE RoundTrips WITH driver <- slot1, pc <- slot2, calls <- slot3,
    loadShedding <- slot4, asked <- slot5, askedAt <- slot6, state <- slot7,
    helper <- slot8, answers <- slot9, gathered <- slot10, failed <- slot11
NG == INSTANCE Negotiation WITH MaxVersion <- Newest, sent <- slot1,
    server <- slot2, session <- slot3, requests <- slot4, version <- slot5,
    answer <- slot6, client <- slot7, initialized <- slot8,
    serverIsModern <- slot9
SB == INSTANCE Subscriptions WITH Cap <- StreamCap, owner <- slot1,
    generation <- slot2, listen <- slot3, stream <- slot4, caster <- slot5,
    casts <- slot6
CL == INSTANCE Calls WITH Items <- CallItems, family <- slot1, layers <- slot2,
    message <- slot3, caller <- slot4, options <- slot5, listed <- slot6,
    served <- slot7, moves <- slot8
HD == INSTANCE Headers WITH tools <- slot1, toolName <- slot2,
    toolHeaderBindings <- slot3, sessionTools <- slot4, knownTools <- slot5,
    lister <- slot6, callTool <- slot7, current <- slot8, definitions <- slot9
SR == INSTANCE ServerRequests WITH Gets <- Streams, requestIDCounter <- slot1,
    activeSessions <- slot2, asker <- slot3, terminated <- slot4,
    samplingRequests <- slot5, requestChan <- slot6, get <- slot7,
    received <- slot8, answers <- slot9, lost <- slot10
AR == INSTANCE Arguments WITH sent <- slot1, arguments <- slot2,
    rawArguments <- slot3, saturates <- slot4, hops <- slot5
SH == INSTANCE SchemaCache WITH Types <- ToolTypes, Keys <- SchemaKeys,
    build <- slot1, processes <- slot2, schemas <- slot3,
    definer <- slot4, saver <- slot5, file <- slot6, tempFiles <- slot7,
    marshaled <- slot8, users <- slot9
CO == INSTANCE Content WITH first <- slot1, refused <- slot2, message <- slot3,
    hop <- slot4
VA == INSTANCE Validation WITH Callers <- ToolCallers, MaxChanges <- MaxRedefinitions,
    tools <- slot1, cached <- slot2, invalidating <- slot3, call <- slot4,
    compiles <- slot5, changes <- slot6
RS == INSTANCE ResponseStream WITH modern <- slot1, hasHandler <- slot2,
    session <- slot3, caller <- slot4, events <- slot5, connection <- slot6,
    streams <- slot7, cursor <- slot8, responses <- slot9, reader <- slot10,
    ctxDone <- slot11, incoming <- slot12, handled <- slot13,
    unfinished <- slot14

\* The slots from one on are not used.
Above15 == <<slot16, slot17, slot18>>
Above14 == <<slot15, Above15>>
Above12 == <<slot13, slot14, Above14>>
Above11 == <<slot12, Above12>>
Above10 == <<slot11, Above11>>
Above9 == <<slot10, Above10>>
Above8 == <<slot9, Above9>>
Above6 == <<slot7, slot8, Above8>>
Above5 == <<slot6, Above6>>
Above4 == <<slot5, Above5>>
Zero15 == slot16 = 0 /\ slot17 = 0 /\ slot18 = 0
Zero14 == slot15 = 0 /\ Zero15
Zero12 == slot13 = 0 /\ slot14 = 0 /\ Zero14
Zero11 == slot12 = 0 /\ Zero12
Zero10 == slot11 = 0 /\ Zero11
Zero9 == slot10 = 0 /\ Zero10
Zero8 == slot9 = 0 /\ Zero9
Zero6 == slot7 = 0 /\ slot8 = 0 /\ Zero8
Zero5 == slot6 = 0 /\ Zero6
Zero4 == slot5 = 0 /\ Zero5

PartsInit ==
  \/ part = "oauth" /\ OA!Init
  \/ part = "sessions" /\ HS!Init /\ Zero12
  \/ part = "registry" /\ RG!Init /\ Zero14
  \/ part = "stdio" /\ SC!Init /\ Zero15
  \/ part = "inprocess" /\ IP!Init /\ Zero10
  \/ part = "roundtrips" /\ RT!Init /\ Zero11
  \/ part = "negotiation" /\ NG!Init /\ Zero9
  \/ part = "subscriptions" /\ SB!Init /\ Zero6
  \/ part = "calls" /\ CL!Init /\ Zero8
  \/ part = "headers" /\ HD!Init /\ Zero9
  \/ part = "asks" /\ SR!Init /\ Zero10
  \/ part = "arguments" /\ AR!Init /\ Zero5
  \/ part = "schemas" /\ SH!Init /\ Zero9
  \/ part = "content" /\ CO!Init /\ Zero4
  \/ part = "validation" /\ VA!Init /\ Zero6
  \/ part = "responses" /\ RS!Init /\ Zero14

PartsNext ==
  /\ UNCHANGED part
  /\ \/ part = "oauth" /\ OA!Next
     \/ part = "sessions" /\ HS!Next /\ UNCHANGED Above12
     \/ part = "registry" /\ RG!Next /\ UNCHANGED Above14
     \/ part = "stdio" /\ SC!Next /\ UNCHANGED Above15
     \/ part = "inprocess" /\ IP!Next /\ UNCHANGED Above10
     \/ part = "roundtrips" /\ RT!Next /\ UNCHANGED Above11
     \/ part = "negotiation" /\ NG!Next /\ UNCHANGED Above9
     \/ part = "subscriptions" /\ SB!Next /\ UNCHANGED Above6
     \/ part = "calls" /\ CL!Next /\ UNCHANGED Above8
     \/ part = "headers" /\ HD!Next /\ UNCHANGED Above9
     \/ part = "asks" /\ SR!Next /\ UNCHANGED Above10
     \/ part = "arguments" /\ AR!Next /\ UNCHANGED Above5
     \/ part = "schemas" /\ SH!Next /\ UNCHANGED Above9
     \/ part = "content" /\ CO!Next /\ UNCHANGED Above4
     \/ part = "validation" /\ VA!Next /\ UNCHANGED Above6
     \/ part = "responses" /\ RS!Next /\ UNCHANGED Above14

PartsVars == <<part, slot1, slot2, slot3, slot4, slot5, slot6, slot7, slot8,
                slot9, slot10, slot11, slot12, slot13, slot14, slot15,
                slot16, slot17, slot18>>
PartsSpec == PartsInit /\ [][PartsNext]_PartsVars
-----------------------------------------------------------------------------
\* The variables of each component have their types; a name is the name of a
\* regular tool or of a task tool, not of both (AddTools, AddTaskTools).
PartsTypeOK ==
  /\ part = "oauth" => OA!TypeOK
  /\ part = "sessions" => HS!TypeOK
  /\ part = "registry" => RG!TypeOK
  /\ part = "stdio" => SC!TypeOK
  /\ part = "inprocess" => IP!TypeOK
  /\ part = "roundtrips" => RT!TypeOK
  /\ part = "negotiation" => NG!TypeOK
  /\ part = "subscriptions" => SB!TypeOK
  /\ part = "calls" => CL!TypeOK
  /\ part = "headers" => HD!TypeOK
  /\ part = "asks" => SR!TypeOK
  /\ part = "arguments" => AR!TypeOK
  /\ part = "schemas" => SH!TypeOK
  /\ part = "content" => CO!TypeOK
  /\ part = "validation" => VA!TypeOK
  /\ part = "responses" => RS!TypeOK

\* HttpSessions!LeavesNothing: however GETs, POSTs, initialize and clean-ups
\* remove one another's entries, no entry of the server's maps is left to a
\* handler that has returned (handleGet, handlePost, handleDelete).
LeavesNothing == part = "sessions" => HS!LeavesNothing

\* Registry!ClientSeesTheRegistry: pages neither skip nor repeat what was there
\* all along (listByPagination), and a client that lists when it is notified
\* ends up with what the server has (broadcastToSession).
ClientSeesTheRegistry == part = "registry" => RG!ClientSeesTheRegistry

\* StdioClient!LetsGo: once closed, the transport has waited for its process or
\* said that it gave up, and a call that was answered returns its response
\* (stdio.go).
StdioLetsGo == part = "stdio" => SC!LetsGo

\* InProcess!LetsGo: once closed, the transport has no session with the server,
\* also when a hook of the registration closes it (inprocess.go).
InProcessLetsGo == part = "inprocess" => IP!LetsGo

\* RoundTrips!AnswersComplete: a handler that asked for input is called again
\* with all the answers and its own state (multiRoundTrip, resolveMultiRoundTrip).
AnswersComplete == part = "roundtrips" => RT!AnswersComplete

\* Negotiation!Negotiated: client and server agree on the version the client
\* settles on, and a modern server is not asked for a handshake (Initialize).
Negotiated == part = "negotiation" => NG!Negotiated

\* What streams bring the client.  Subscriptions!Subscribed: a subscription carries
\* what was asked for and allowed and misses none of it while it is open, and a client
\* has one at a time (Listen, handleSubscriptionsListen, broadcastToSession).
\* ResponseStream!StreamRead: the events of a stream that ends and is resumed are
\* handled in order, with none left out (handleSSEResponse, readSSEWithCursor).
StreamsDeliver ==
  /\ part = "subscriptions" => SB!Subscribed
  /\ part = "responses" => RS!StreamRead

\* Calls!Served: hooks come in pairs, and what a call runs is what the lists show
\* and the filters let pass (HandleMessage, handleToolCall).
Served == part = "calls" => CL!Served

\* Headers!HeadersAgree: a call that passes says the same in its headers as in
\* its body, and a call by a definition just listed does pass
\* (GenerateParamHeaders, ValidateParamHeadersWithBindings).
HeadersAgree == part = "headers" => HD!HeadersAgree

\* ServerRequests!AsksAnswered: a handler that asks the client gets the answer to
\* its own request, once, and nothing it was asking stays pending
\* (RequestSampling and its siblings, deliverSamplingResponse).
AsksAnswered == part = "asks" => SR!AsksAnswered

\* Arguments!ArgumentsRead and Content!ContentArrives: what one side builds the
\* other reads, through any number of proxies that decode it and encode it again:
\* numbers to the last digit, and no reader wraps around (CallToolParams, GetInt,
\* ParseInt, UnmarshalContent, ParseContent and their siblings).
DataArrives ==
  /\ part = "arguments" => AR!ArgumentsRead
  /\ part = "content" => CO!ContentArrives

\* SchemaCache!SchemasKept and Validation!SchemasApply: a tool has the schema of
\* its own type, the saved cache is whole whatever crashes, and calls and results
\* are judged by the schema of the definition they belong to (schema_cache.go,
\* input_validation.go, output_validation.go).
SchemasFit ==
  /\ part = "schemas" => SH!SchemasKept
  /\ part = "validation" => VA!SchemasApply

\* OAuth!CredentialsStayHome (oauth.go): whatever interleaves, credentials, codes and
\* tokens go to the issuer they are from, and single-use ones go once.
CredentialsStayHome == part = "oauth" => OA!CredentialsStayHome
=============================================================================
