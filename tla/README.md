# mcp-go: a TLA+ verification project

mcp-go (module `github.com/mark3labs/mcp-go`) is a Go library for the Model Context
Protocol: an MCP server core, the transports that carry it (stdio, SSE, streamable
HTTP, in-process), a client with the matching transports, and the protocol types. This directory
holds TLA+ models of the parts whose correctness depends on the order in which goroutines,
clients and timers act, the TLC configurations that check them, and TLAPS proofs.

All line references are to the repository at the commit the models were written from;
`PROJECT.json` (`map`) gives the lines of every definition.

## 1. Inventory

| Component | State it keeps | Operations that change it | Why it is hard |
|---|---|---|---|
| Task-augmented tools (`server/server.go`, `server/task_hooks.go`) | `tasks`, `expiredTasks`, `activeTasks`; per entry status, result, `done`, `cancelFunc`, hook queue | `createTask`, `executeTaskTool`, `executeRegularToolAsTask`, `completeTask`, `cancelTaskEntry`, `scheduleTaskCleanup`, `tasks/get`, `tasks/result`, `tasks/cancel` | four goroutines per task meet at one mutex and go on without it |
| Resumable streams and event store (`server/streamable_http_resume.go`, `server/event_store.go`) | per stream: attached connection, POST writer, closed flag; per session: the log | `deliver`, `deliverTransient`, `replayAndAttach`, `serve`, `detachIf`, `handleResumeGet`, `serveListeningStream`, `cleanupResumableState` | hand-over of events outside the lock while the client reconnects |
| Stdio server (`server/stdio.go`) | queue, worker pool, pending server requests, goroutine group | `processMessage`, `toolCallWorker`, `handleRequest`, `RequestSampling` and siblings, the response handlers, `Listen` | one read loop feeds everyone, and handlers wait for what it reads |
| Dispatch and in-flight cancellation (`server/request_handler.go`, `server.go`) | `inflightCancels` by session and request id | `HandleMessage`, `trackInflight`, `handleNotification` | two registrations of one request, cancelled at any moment |
| Session registry, broadcast, subscriptions (`server/session.go`, `server/subscriptions.go`) | `sessions`, `listenSessions`, per-session tools and filters, bounded notification channels | `RegisterSession`, `UnregisterSession`, `SendNotificationTo*`, `AddSessionTools`, `DeleteSessionTools`, `subscriptions/listen` | lost updates, full channels, ordering of registration and broadcast |
| Tools, resources, prompts registry (`server/server.go`) | the maps, capabilities | `Add*`, `Delete*`, `Set*`, `listByPagination` | list-changed notifications; cursors over a changing list |
| Streamable HTTP server (`server/streamable_http.go`, `_handle.go`, `_modern.go`) | sessions, last activity, pending samplings and elicitations | `handlePost`, `handleGet`, `handleDelete`, idle sweeper | forwarder against response path; sweeper against requests |
| SSE server (`server/sse.go`) | sessions, event queues | `handleSSE`, `handleMessage`, `Shutdown` | bounded queue, close against enqueue |
| Client and transports (`client/`, `client/transport/`) | pending requests, handlers, session id, protocol version | `Start`, `Initialize`, `SendRequest`, `Close`, reconnection | response correlation against close and timeouts |
| OAuth client (`client/transport/oauth*.go`) | discovered metadata, credentials, token store, pending flow | discovery, registration, refresh, authorization code flow | what was read before a request to the network is used after it |
| `subscriptions/listen` (`server/subscriptions.go`, `client/subscriptions.go`) | the current listen and its generation; a session and a filter per stream | `Listen`, `Subscribe`, `Unsubscribe`, `handleSubscriptionsListen`, broadcasts | registration, filter and acknowledgement are three moments |
| Requests of the server (`server/sampling.go`, `elicitation.go`, `roots.go`, both ends of streamable HTTP) | pending requests by id, request channels | `RequestSampling` and siblings, `handleSamplingResponse`, `handleIncomingRequest` | answers come late, twice, and to an object that was replaced |
| Multi round-trip requests (`server/mrtr.go`, `client/mrtr.go`) | the answers and the state of the round | `multiRoundTrip`, `resolveMultiRoundTrip` | goroutines of one round, load shedding, limits |
| Protocol versions and headers (`client/protocol.go`, `server/discover.go`, `mcp/headers.go`) | version, known tools and their bindings | probe, handshake, header validation | late answers of a probe, stale definitions |
| Arguments and content (`mcp/tools.go`, `mcp/utils.go`, `mcp/types.go`) | a value on its way | getters, parsers, decoders and encoders | precision, width, two decoders for one format |
| Schemas (`mcp/schema_cache.go`, `server/input_validation.go`, `output_validation.go`) | schemas by type and key, a file; compiled schemas by tool | `WarmFor`, `Save`, `LoadSchemaCache`; `lookupOrCompile`, `invalidate` | crashes while saving, tools redefined while called |
| Other types and builders, HTTP helpers, logging and tracing | none | | conversions and observers |

How the components interact: a transport owns the sessions' channels and calls
`MCPServer.HandleMessage` for every message it reads; the server core writes
notifications into the session's bounded channel, and a transport goroutine
forwards them; tool handlers call back into the session (`RequestSampling`, ...) and wait for a
response that the transport routes to them by id; `notifications/cancelled` reaches a
running handler through `inflightCancels`; the streamable HTTP server records what it sends through the
event store when one is configured. Shared state is guarded by a mutex or a `sync.Map`, and nearly every hazard in
`PROJECT.json` (`hazards`) is something done after an unlock with what was read before it.

What makes the modelled components correct, in words:

- *Tasks*: a task ends once, with the outcome its clients are told; the slot it occupies is
  given back once; a cancellation always reaches its handler; hooks come in order; every
  started task ends and everybody who waits for it is answered.
- *Resumable streams*: over all its connections the client reads every event after the one it
  started from, once and in order; a response ends by itself only when the stream is complete
  or was taken over; the producer is never blocked for good by a dead connection.
- *A POST of streamable HTTP*: what was accepted for its stream is written, in its order, before the
  response; the response is an event stream or one document, not both; the client's answers to elicitations find their
  session; the POST ends even when goroutines it does not control still send.
- *Stdio*: every accepted request is answered exactly once, a cancellation that was read reaches its
  request, and `Listen` returns, leaving nothing behind.
- *Transports of the client*: `Close` leaves no stream, process, reader or registration behind whatever it races; an answer
  reaches the request it belongs to; a session is given up only when the server has forgotten it.
- *OAuth*: credentials, codes and tokens go to the issuer they came from, and single-use ones go once.
- *Sessions*: no entry of the server's maps outlives the handlers that look after it.
- *Registries*: pages neither skip nor repeat what was there all along, and a client that lists when it is told to ends up with what there is.
- *Requests*: hooks come in pairs, and a call runs what the lists show and the filters let pass; headers and bodies agree; a tool's
  arguments and results are judged by its own schema.
- *Data*: what one side builds the other reads, numbers to the last digit, through any number of proxies.

## 2. Modules

| Module | Contents |
|---|---|
| `Tasks` | the task facility: `tools/call`, handler, TTL and client-request goroutines |
| `TaskLifecycle` | what a task promises its clients; `Tasks` implements it |
| `TasksProofs` | the inductive invariant and the theorems about `Tasks` |
| `ResumableStream` | one stream, its producer, its connections, the event store and the reconnecting client |
| `ResumableProofs` | the inductive invariant and the theorems about `ResumableStream` |
| `Stdio` | read loop, queue, workers, request goroutines, requests to the client, in-flight cancellation, shutdown |
| `StdioProofs` | the inductive invariants and the theorems about `Stdio` |
| `PostStream` | one POST of streamable HTTP: its channels, senders, forwarder, drain, response and temporary registration |
| `PostStreamProofs` | the inductive invariants and the theorems about `PostStream` |
| `Sse`, `SseProofs` | the legacy SSE transport, both ends, and the theorems about it |
| `HttpClient` | the session of the streamable HTTP client: requests, initialize, the listener, Close |
| `HttpClientProofs` | the inductive invariant and the theorems about `HttpClient` |
| `ResponseStream` | the event stream that answers one request of that client, its resumption, the server's requests that come by it |
| `HttpSessions` | who knows a session of the streamable HTTP server: two maps, and all that enters and removes entries |
| `ServerRequests` | what that server asks its client: the way out, the answer's route back |
| `Subscriptions` | `subscriptions/listen`, both ends, and broadcasts |
| `Registry` | tools, resources, templates, prompts; pages, list-changed notifications, the client that lists |
| `Calls` | `HandleMessage`: gates, hooks, the search for what a request names, filters, the handler |
| `Headers` | parameters and names in HTTP headers, both ends |
| `Validation` | the schemas of tools, compiled on demand, while tools are redefined |
| `Arguments`, `Content` | how numbers and content survive decoding and encoding |
| `SchemaCache` | the cache of schemas of Go types, its file, crashes |
| `Negotiation` | the version that client and server settle on |
| `RoundTrips` | both drivers of multi round-trip requests |
| `OAuth` | the OAuth handler of the client transports |
| `StdioClient`, `InProcess` | the other two client transports |
| `MCTasks`, `MCResumable`, `MCStdio`, `MCPost`, `MCSse`, `MCHttpClient` | instances for TLC |
| `MCParts` | one instance of each module from `HttpSessions` and `ResponseStream` on that has no instance of its own |
| `PartsConstants` | the constants of those modules, and what is assumed of them |
| `PartsProofs` | an inductive invariant for each of 12 of those modules, and the theorem about it |
| `PartsTheorems` | the invariants of `MCParts` as theorems of its specification, and the inductive invariants of the other four modules |

Operators named `Definition_Mistake` right before a definition are plausible wrong versions of it
("Mutant: ..."). None is used by a specification; each is there to show that the property it is
paired with in `PROJECT.json` (`mutants`) is violated by that mistake.

### Tasks

One action is one critical section of `tasksMu` with the local steps around it that no other
goroutine sees. `call[t]`, `exec[t]`, `ttl[t]` are the program counters of the three goroutines a task
has, `finish[t]` what the goroutine that ended the task still does after unlocking (call the
cancel function it read, send the notification, fire the hook), and `req[r]` a client's
`tasks/get`, `tasks/result` or `tasks/cancel` in progress. Contexts are two flags: `reqDone` is the
`tools/call`'s context, ended by `HandleMessage`'s deferred cancel, `taskDone` the child the handler
runs with. A task's payload is abstracted to which kind of outcome it is.

`RegisterCancel` is the critical section of `executeTaskTool` and `executeRegularToolAsTask` that stores the cancel function and
checks whether the task ended or was deleted before; `HandlerReturns` takes any
outcome a handler can have. A context error need not be that of the handler's own context: the code asks only
`errors.Is`, and a handler may have made a context of its own.

Not in the model: `tasks/list`, which only reads; the delivery of status notifications (a
broadcast that never blocks); the panic of a regular tool run as a task when `WithRecovery` is not installed, which ends the process (`executeRegularToolAsTask` does not recover, `executeTaskTool` does).

### ResumableStream

One stream, either the session's listening stream (its producer is the pump) or a
POST's stream (its producer is the handler's forwarder and response path, one at a time
by the code's own lock). `deliver` is the critical section that records; the message it then
holds (`push`) is handed over in later steps, so everything can happen in between. GET handlers go
`probed -> found | lost -> serving -> closing -> ended` as in `handleResumeGet` and `serve`; connections are numbered in the order the client
opens them, and the client reads one at a time, resuming after the last event ID it read (`got`). A replay may fail at any of its events, the client having left
or being slower than the write deadline allows (`replayCut`): such a connection ends as `cut`, after `cutting` if the failure of the last flush was not noticed and
the connection was attached first. Event
IDs are positions in the log; that `InMemoryEventStore` derives strings from a counter
is not relevant to any property. The store may fail to record a message, which then has no
ID. `CleanupPump`, `CleanupStreams` and `CleanupPurge` are the three steps of
`cleanupResumableState` at the end of a session.

Heartbeats and other messages without an ID are sent one at a time (`deliverTransient`
sends when the sink has room and never blocks; more of them add nothing).
The listening stream and its pump appear in one step; the window between the
two is listed as a hazard without a property.

### PostStream

`handlePost` from the moment it calls `HandleMessage`. `post` says which kind of POST it is and is chosen once: streaming or not, modern
(2026-07-28) or legacy, with an event store or not, with a response or not (a notification from the client), and whether a GET stream takes
from the session's channel too. `at[s]` and `msg[s]` are a sending goroutine's program counter and message: `Main` runs the
handler, `Background` goroutines use its context, `Detached` ones a context that does not end (`context.WithoutCancel`),
and `Casters` broadcast to the session. `SenderNext` follows `trySend`, `trySendNotification` and `sendWhileOpen`
step by step, with `sendMu` and `done`, and the fallback to the session's own channels. `fwd` is the forwarder with the message it has taken off a channel;
`resp` the response path. `Write` is what `forward`, `drain` and `deliverResumable` have in common: `out` is
what reaches the client, `stored` what the resumable stream was given. That one stream is
`ResumableStream`'s subject; here it is only a list.

`owed` is a history variable: the notifications the code has undertaken to deliver, which are those `trySendNotification` reported
as sent and those queued on the session's channel while the handler ran, if the POST is that channel's only reader.

`active` is the session's entry in `activeSessions`, this POST's or another's. `OthersRegister` and `OthersRemove` are what goes on around the POST: a GET, an initialization or another POST enters the
session where no entry is, and a GET that ends, a registration that fails or the clean-up of the session removes the entry, whosever it is. `known` says that the POST found its session registered, so that
others hold the same object and its own removal may hit their entry (`CompareAndDelete` compares objects). `register` runs once: an entry removed after that is not put back by a later elicitation,
and the answer is refused. `removed` (history) records it, and `AnswerRoutable` says that this is the only way for an answer to miss its session while the POST runs (finding 22).

Not in the model: validation of the request and the lookup of its session (before `HandleMessage`), the filter and tags of
`subscriptions/listen`, and sampling and roots requests, which only use the session's channels.

### Stdio

`loop` is the read loop with the phases of `Listen` after it; `queue` is the tool call queue. A
request's `at` and `by` say how far it is and who serves it: a worker, its own
goroutine, or the read loop itself when the queue is full. `inflight` maps a request id to
the cancel function stored last: `trackInflight`'s outer one or `HandleMessage`'s inner one. `asker`,
`pending`, `arrived`, `replied` are the session's own requests to the client. A response nobody waits for is
served as a request in the code (`echo`), and so it is here. Keys of `inflight` are plain numbers because both sides number their
requests, and the same number can be in use on both sides. `displaced` (history) names the requests in flight whose entry such a response took over or removed.

Not in the model: `handleNotifications`, a loop that copies notifications to stdout until the
context ends; the user's notification handlers, which run on the read loop; the parsing
of a line. A failed write matters only where it ends the loop.

### Sse

The client's attempts to start are numbered by the goroutine that makes them; an attempt is one GET, one stream and one session of the
server. `start`, `joined`, `startDone` follow `Start`: who makes the attempt, who waits for it, and what it finds when it is over.
`canceler` is `cancelSSEStream`, `live` the contexts not cancelled, and `CloseFlip`, `CloseCancel`, `CloseChannels` the three critical sections of `Close`.
A request is registered in `responses`, accepted by the server with 202, answered by a handler goroutine through
`eventQueue`, written to the stream and read by the client; `Feeders` are the pinger and the notification pump, which share that queue.
On the server, `Serve`, `Write` and `Leave` are `handleSSE`; `CloseSession` and `SendEventToSession` may come at any time.

Not in the model: the formatting of events, dynamic base paths, and what a handler does.

### HttpClient

`call[c]` is a request under way, which carries the session it read; `init[i]` follows an initialize from the answer on through its three steps
(store, load, mark). `listener` is the goroutine of `listenForever`: it records its connection, sends the GET, and moves or
waits when the session has moved or ended. `sessionEnded` is a channel, hence a number, and `closedChannels` those that were closed. `Forget` is a
server that restarts or expires a session.

Not in the model: OAuth on the way (see `OAuth`), retries after a rejected version, and the bodies of requests (see `ResponseStream`).

### ResponseStream

One request is answered by an event stream. `events` is what the server sends, each stored under an ID or not; `connection` is
what the reader still has to read, and how it ends: whole, in the middle of an event, or broken off. `reader` follows the goroutine of
`handleSSEResponse` through `readSSEWithCursor` and `resumeSSE`; `caller` is the outcome of the call; `incoming` the
goroutines of `handleIncomingRequest`. `SessionMoves` replaces the session meanwhile, so that a GET that resumes carries another one.

Left out: single lines, the `retry` field, the size limit of a message, and more than one response on one stream.

### HttpSessions

The registrations of one session id. Each request that finds no object makes one of its own, so objects are named by the request.
`init`, `get[g]`, `post[p]`, `cleaner[c]` follow the handlers of initialize, GET, POST and of DELETE, the idle sweeper and
`CloseSessions`, one step per operation on a map (each is atomic by itself, no two together). `sender[p]` is a goroutine of the POST
that uses its stream and may outlive it.

### ServerRequests

An asker is a POST's handler, or a goroutine it has left behind, that calls `RequestSampling`, `ListRoots` or
`RequestElicitation`. Its request goes to the POST's own stream or into its session's channel (unless its context ends first, which may happen before, beside and after the send), from there to a GET's, and to the client, which
answers in a POST (`Answer`, `Locate`, `Deliver`): by the session id, to whichever object is registered then, and by the request's id there.
Objects are replaced as GETs end and sessions are cleaned up.

### Subscriptions

`listen[l]` is a call of `Listen` on the client, `stream[l]` the server's side, a session of its own: registered, its filter recorded,
acknowledged, held open, cleared. `caster[b]` visits the sessions one by one as a broadcast does, decides, and sends without
blocking. Resource URIs only make a filter that is not empty: none of the repository's sessions keeps track of them.

### Registry

The items of one kind at a time, for everyone and for one session, with the display name that resources are sorted by, which may repeat, and their
definitions. `Changers` are goroutines of the application: they change the maps in one step and announce the change in another.
A session's own map is read, changed and stored in three. `client` lists page by page (`List`, `ReadBase`, `Page`, `Listed`); a page takes the items of everyone in one step and those
of the session in another. Sorting is stated by what it gives: `RestOf` is what comes after the cursor, and `IsPage` says which sequences are a page of that, in the order of `comparePageKey` and as many as the limit allows; there is just one. The model shows that concurrent updates of a session's map are lost; the code promises nothing else.

### Calls

One request at a time is served by `HandleMessage`, from the gates (protocol era, capability, form) on through the hooks to the answer. `layers` says
what the requested name stands for in each of the places the server looks; they change between the looks.
Properties speak of what was there `during` the request. Filters are a property of an item, since the filters a user installs see one tool at a time.

### Headers

`tools` and `toolHeaderBindings` are what the server keeps, `sessionTools` what a session has of its own, `knownTools` what the client last listed. `Other` is a sender
that is not this client, with any header. Values are the kinds that the encoding tells apart: empty, plain, and one that needs base64.

### Validation

A schema is the set of values it accepts, or malformed, or absent; its digest is itself. `CallTool`, `Handler`, `Validated` are the synchronous call, `StartTask` the
task; `Look` and `Compile` are the two lock sections of `lookupOrCompile`. `SetTools` and `DeleteTools` change the definition and invalidate in two steps, `AddTools` and
session tools do not invalidate. One schema stands for both sides, which are validated apart; digests do not collide.

### Arguments and Content

Both are pure functions, applied once per proxy. `Arguments` counts in halves, with a float64 of `Significand` bits and an int of `IntSize`, both
small enough to enumerate; `Forward` is decoding and encoding, and each getter and parser is an operator on what has arrived.
What a conversion out of range gives depends on the processor (`saturates`). Go slices a caller passes in place of JSON are left out.
`Content` has the two decoders, `UnmarshalContent` by the Go types and `ParseContent` by hand, and what each makes of an absent, empty, null or present field;
blocks in a tool's result are one level deep, and fields do not have the wrong JSON type.

### SchemaCache

`schemas` is the map by key; `Look`, `Warm`, `WarmFor` are its readers and writers. `Save` is four steps (marshal, create the temporary file, write, rename), any of which
may fail, and `Restart` ends the process at any moment and starts another, of the same build or a newer one, that loads the file. The machine does not crash: without fsync the
code promises nothing then.

### Negotiation, RoundTrips

`Negotiation`: `requests` are the client's, in the order in which the server handles them, those whose caller has given up
included; versions are numbers, `FirstModern` the first without a handshake. `RoundTrips`: `driver` says who drives the loop;
`helper[i]` is the goroutine that gets the answer to one input request; `askedAt` numbers the handler's calls so that an answer can be told from that of an earlier round.

### OAuth

`serverMetadata` and the `sync.Once` on record (`metadataOnce`) as in the handler; `discovery`, `refresh`, `registration`, `flow` are what each goroutine read before it went to the network
and has not used yet. A request to a server is two steps, with any outcome. Issuers, clients, tokens and codes carry where they
came from, which is what the property is about; PKCE and the parsing of metadata are left out. `checkKnownTokenIssuer` decides only whether a good token is returned or an error, and changes nothing.

Not in the model: the exported `RefreshToken`, which sends a refresh token of the application's choice, to the issuer the store has for it or the one the application asserted, and does not join the refresh in flight.
An application that calls it with the stored token beside a request can send that token twice, so what `CredentialsStayHome` says of refresh tokens is about the handler's own refreshes.

### StdioClient, InProcess

`StdioClient`: `Start` spawns the process, then publishes it and its reader; `Close` may find any of that; a server may die at any point, or never.
`Wait` runs in a goroutine of the clean-up (`WaitReturns`); `Close` returns when it has (`CleanedUp`) or, after signal and kill, without it (`GivesUp`: `ErrChildShutdownTimeout`, or the error met before), and then the goroutine waits on. `InProcess`: `Start` registers without holding a lock since hooks may
call `Close`; `call[c]` is how far each call is.

## 3. Runs

| Run | Instance | Shows |
|---|---|---|
| `tasks_one` | 1 task, 2 sessions and no session, 2 requests, limit 1, hooks | `HookOrder`, `CancellationReachesHandler`, `AnswersAgree`; under fairness `TaskEnds`, `WaiterAnswered`, `TerminalHookRuns` |
| `tasks_two` | 2 tasks, 1 request, limit 1, no hooks | `SlotAccounting`, `ImplementsLifecycle` |
| `tasks_doc` | 1 task, 1 request | finding: `CancelledByClient` is violated |
| `resumable` | 3 messages, the POST response and 2 GETs, sinks of 1 | `NeverBothNeverNeither`, `ClientReadsRun`, `EndsOnlyComplete`; under fairness `CatchesUp`, `ProducerReleased` |
| `resumable_purge` | the same | finding: `PurgedForGood` is violated |
| `stdio` | 3 tool calls, 1 other request, 1 worker, queue of 1, 1 request to the client, 1 cancellation; both sides number their requests from 1 | `ListenLeavesNothing`, `CancellationLostOnlyToLateReply`; under fairness `ServesToTheEnd`: every accepted call is answered unless the loop stalls, and `Listen` ends when its input has |
| `post_stream` | every kind of POST; handler, 1 detached goroutine, 1 broadcaster; 2 messages, which may both be elicitations; channels of 1; others register and remove the session | `NothingStranded`, `InOrder`, `AnswerRoutable`; under fairness `PostEnds` |
| `sse` | 2 goroutines that call `Start`, so 2 attempts; 1 request; a pinger; a queue of 1 | `NoStreamOutlivesClose`, `ChannelsInTheMapAreOpen`; under fairness `AcceptedIsAnswered`, `WorkersReleased` |
| `http_client` | 1 caller, 2 goroutines that initialize, the listener, Close; 2 sessions, 1 of them forgotten, 1 broken connection | `NoWaiterOnOldChannel`, `DroppedOnlyIfForgotten` (a property of steps); under fairness `StreamFollowsSession` |
| `parts` | one instance of each of the 16 modules below, see `Parts.cfg` | one invariant for each or for two that belong together |
| `stdio_stall` | 3 tool calls | finding: `NeverStalls` is violated |
| `stdio_late` | 2 tool calls, numbered from 1 as the session's requests are | finding: `CancellationReaches` is violated |

`parts` checks modules that share nothing in one state space: `part` says which one a behaviour is about, and the modules' variables share the
variables `slot1` to `slot18` (`INSTANCE ... WITH`). Variables of one name in several modules share a slot, so that `PartsTheorems` can instantiate `PartsProofs` once. Its invariants are those of the modules, each guarded by `part`:

| Invariant | Module and its property | What it says |
|---|---|---|
| `CredentialsStayHome` | `OAuth!CredentialsStayHome` | whatever is discovered, registered and refreshed meanwhile, secrets go to the issuer they are from and single-use ones once |
| `LeavesNothing` | `HttpSessions!LeavesNothing` | no entry is left to a handler that has returned, no answer is routed to one, hooks are paired |
| `ClientSeesTheRegistry` | `Registry!ClientSeesTheRegistry` | pages neither skip nor repeat; a client that lists when notified ends up with what there is, unless its channel was full of other things |
| `StdioLetsGo` | `StdioClient!LetsGo` | once all calls have returned, the process has been waited for, or `Close` has said that it gave up; a response that was read is not replaced by an error |
| `InProcessLetsGo` | `InProcess!LetsGo` | the server has no session of a closed transport, registrations are paired, and there is one forwarder |
| `AnswersComplete` | `RoundTrips!AnswersComplete` | a handler is called again with all answers of its last round and its own state, a bounded number of times |
| `Negotiated` | `Negotiation!Negotiated` | both sides agree on the version; a modern server is not asked for a handshake |
| `StreamsDeliver` | `Subscriptions!Subscribed`, `ResponseStream!StreamRead` | a subscription carries what was asked for and allowed, misses none of it while open, and there is one at a time; a resumed stream is read in order, without gaps, and its end has the right reason |
| `Served` | `Calls!Served` | hooks are paired; what runs is what was there and what the lists show |
| `HeadersAgree` | `Headers!HeadersAgree` | the bindings kept are the tool's; a call by a definition just listed passes; an accepted call says the same twice |
| `AsksAnswered` | `ServerRequests!AsksAnswered` | an asker gets the answer to its own request, which goes out once, and nothing stays pending |
| `DataArrives` | `Arguments!ArgumentsRead`, `Content!ContentArrives` | numbers and content arrive as sent |
| `SchemasFit` | `SchemaCache!SchemasKept`, `Validation!SchemasApply` | a tool has its own type's schema, the file is whole, calls are judged by the definition they belong to |

Why the bounds are enough:

- *Tasks.* Two tasks are the smallest number that compete for a slot, and tasks interact in no other way; two
  requests are enough for two clients to race each other and the task's own goroutines. The safety
  properties are also proved for any number.
- *Resumable.* Two GETs supersede each other and the POST's response; with three messages one can be replayed, one be on its way and
  one be recorded later; a sink of one fills up with the second event. `MaxConns` bounds the
  client's reconnections, which it never has to make.
  The safety properties were also explored with three GETs and two messages.
- *Stdio.* With one worker and a queue of one, three calls reach all three ways of serving a call (worker, queue, loop). The session's one request has the number of the first call, so a late response to it meets that call at every stage.
  Calls are read in the order of their numbers, which loses nothing since they are alike.
- *PostStream.* A detached goroutine can do all that a background one can and outlives the handler too. With channels of one, two messages
  make a sender wait for room with `sendMu` held, leave one message with the forwarder while the other is queued, and fill the session's channel. Two elicitations show
  what becomes of the second when the entry of the first was removed. The safety properties are proved for any number.
  The disconnection and the cancellation of the request may come at any point. `MaxSends` and
  `MaxAsks` bound what handlers send, which they need not.

- *Sse.* Two attempts are the least for a late stream, a failed `Start` and a retry; one ping fills the queue of one just when the response needs it.
- *HttpClient.* Two sessions and one that is forgotten give a 404 that is late; two goroutines can initialize at once.
- *Parts.* Two discoveries can name two issuers, and with `MaxVersions` 2 a client that was registered with one is dropped and registered again with the other. The numbers are the least at which the races of each component occur: two GETs, a POST, initialize and two clean-ups for one session; two changers
  and two changes of two items that come one to a page; two listens of which one supersedes the other; two callers of one tool and one redefinition;
  two events of a response stream that is cut and resumed twice. Several modules were also checked by themselves with more: `SchemaCache` with
  two savers, `Validation` with two changes and two schemas, `Headers` with two goroutines that list,
  `ResponseStream` with three events and two of the server's requests.
  `Arguments` has an int of 5 bits and a significand of 3: what matters is that the first is the wider one.

Deadlock checking is off everywhere: a session whose clients stop sending and whose bounded messages are
used up legitimately stands still. That nobody is stuck meanwhile is what the liveness properties say.

### Fairness

All fairness is weak, per goroutine, and stands for: the Go scheduler runs every runnable goroutine; timers
fire; a handler or hook returns. Clients are never forced to send, cancel or reconnect. Specifically:
in `Tasks` the handler returns with some outcome of its choice and `TTLNext` is fair because a timer fires; in `ResumableStream` the
handlers of connections and the producer's hand-over run on, and the client reads what was written
to the connection it has open; in `Stdio` tool
handlers return once they have their answers, other handlers (`subscriptions/listen`)
only when cancelled, a wait for the client ends with the response or the context, and the client answers what it is asked.

In `Sse` the server's goroutines run on, handlers return, and the client reads what is on the stream it has; nothing is assumed to end a
stream, to time a request out, or to start or close anything. In `HttpClient` the listener runs on, a connection whose context was cancelled
ends, and an initialize that was answered completes its steps; the server never has to answer, to forget or to break anything. `MCParts` has no fairness and no liveness property.

In `PostStream` the senders, the forwarder and the response path run on; the handler never has to return (`PostEnds` starts
when it has), the client never has to answer, and nothing is assumed of a goroutine that waits for it.

### Findings

1. *A task can end cancelled although nobody cancelled it* (`tasks_doc`). The status follows from the error the handler returns. An error that wraps
   `context.Canceled` or `DeadlineExceeded` is enough, also one of a context the handler made itself, which is TLC's trace. And a handler that honours the context it was given always ends up
   there: it descends from the `tools/call`'s, which `HandleMessage` cancels when it returns the answer that announces the task.
2. *A purged session's log can come back* (`resumable_purge`). A request still in flight
   when its session is cleaned up records its message afterwards; nothing purges it again.
3. *A full queue can stall the stdio server* (`stdio_stall`). The read loop runs the call itself;
   if the call asks the client, only that loop could read the answer.
4. *A late response takes over a cancellation entry* (`stdio_late`). A response whose asker has given up is served as
   a request and stores, then deletes, the in-flight entry under its own id, which a client request may share.

The others came out of modules whose runs check what does hold; each has been seen by checking the property named in parentheses, or by reading the code the
model follows.

5. *A 404 between an initialize's store and its load* makes requests go out without a session (`HttpClient!NeverWithoutSession`).
6. *A late endpoint event* of a superseded attempt replaces the endpoint of the new one (`Sse!EndpointOfTheStart`).
7. *A refresh answered after a 401 elsewhere reset the metadata* is thrown away, and its spent token sent again.
8. *A GET between an initialize's response and its registration* removes the entry of initialize; every later GET of the session gets 400.
9. *DELETE and the sweeper leave an open GET behind*, which `CloseSessions` cannot find.
10. *The client's limit of round trips* counts the first call, the server's does not.
11. *The task path of a tool call does not ask the filters again* when it looks the tool up a second time.
12. *A panic of a prompt handler* is not recovered by any option, so hooks are not paired.
13. *Lists and calls use different filter functions*, unlike the comment on `filteredTools`.
14. *`PendingSubscriptionFilter`* returns the last `Listen`'s own filter too.
15. *Headers are not compared* with a body that has no arguments object.
16. *The POST that stored a registration removes it* while another one relies on it (`ServerRequests!ElicitationsRoutable`).
17. *`RequireInt` converts a number out of range* (`Arguments!OutOfRangeIsAnError`).
18. *Items of an integer slice are rounded* where the argument itself would not be (`Arguments!ItemsExact`).
19. *The structured content of a `tool_result`* is rounded by one of the two decoders.
20. *Redefining a tool by `AddTools` does not invalidate its schemas*; the digest keeps them apart all the same.
21. *A handler of the client that ran into its deadline* is answered for with a context that has ended, so the server hears nothing (`ResponseStream!TimeoutIsTold`).
22. *`register` runs once per POST* (found with `PostStream!AnswerRoutable`): when the entry is removed afterwards, by a GET that ends or a clean-up, a later elicitation of the same POST does not register again, and its answer gets 404.

`PROJECT.json` (`findings`) quotes the lines of documentation or comments each one contradicts.

## 4. Proofs

`TasksProofs` proves, for every finite set of tasks, any sessions and requests, any limit, with and without hooks:
`TypeCorrect`, `SlotsAccounted`, `HooksOrdered`, `CancellationReaches`, `AnswersSound` (each
`Spec => []P` for the invariant the runs check) and `Refinement` (`Spec => ImplementsLifecycle`). The only
assumption is `TasksAssumption`: the set of tasks is finite, the limit a natural number, the
hooks present or not.

None of the invariants is inductive by itself. `IndInv` adds
`Linked` (which program counters go with which status: without it a task could be ended
before it exists, and the counter would go wrong), `HookPlace` (where the terminal hook is between the
end of the task and its run), `Reach` (a running handler has registered its cancel function, so whoever ends or
deletes the task later reads it) and `Asked` (what a request found out before it unlocked and still relies on). The proof has one lemma per action and conjunct that
the action can disturb. Slot accounting rests on two lemmas about the cardinality of `Working`.
The refinement is the identity on `status` and `stored`; each step ends a working task, starts one below the limit, or stutters.

`StdioProofs` proves `TypeOK`, `CancellationLostOnlyToLateReply` and `ListenLeavesNothing` for any requests, pool, queue and bounds
(`StdioTypeCorrect`, `StdioCancellation`, `StdioListenLeavesNothing`), whatever numbers the two sides give their requests: mcp-go's own client counts from 1, as the server's session does.
`CancellationReaches`, without the exception for a late response of the same number, is false: this is the run `stdio_late`.
`StdioAssumption` says that request ids are numbers, calls and other requests differ, and pool and queue are not empty.
`TypeInv` adds to the types that the set of busy calls is finite, which the bound on its size needs. `ServeInv` is the
rest of the induction: `Queued` (what is queued waits for a worker, once), `Inline` (the loop serves one call and reads nothing meanwhile; otherwise its return could reopen a loop that has
ended), `Waits` (who waits for the client is running), `Counted` (when a request has been answered, and a late error reply with its number rejected), `Tracked`
(what the in-flight map holds at each stage of a request that no late response has displaced), `Entries` (an entry belongs to a request in flight or to a late response being served; `ListenLeavesNothing` needs it when numbers collide) and `Joined` (nothing moves after `Listen` returned). There is one lemma per conjunct,
with one step per action that can disturb it.

`PostStreamProofs` proves `TypeOK`, `NothingStranded`, `OneContentType` and `AnswerRoutable` (`PostTypeCorrect`, `PostNothingStranded`,
`PostOneContentType`, `PostAnswerRoutable`) for any goroutines, bounds and capacities; `PostStreamAssumption` says that the kinds of goroutines are disjoint and channels
have room for something. `NothingStranded` alone is not inductive: that the drain leaves nothing behind needs `Locking` (who is `sending` holds
`sendMu`) and `Phases` (once the response path is past `close`, nobody holds `sendMu`, and once it drains, the forwarder has exited with nothing in hand), and
`Kinds` (which messages are in which channel, so that the one the forwarder drops, a request after `done`, is not owed). The proof
goes step by step: `KeepsOwing` for steps that leave the wire alone, `WriteSafe` for those that write. `OneContentType` needs `Content`: no header means an empty body. `AnswerRoutable` needs `Registered`: wherever an
elicitation is on its way, `register` has run, and since then there is an entry or somebody else has removed it.

`PostInOrder` (what a sender queued on one channel is written once and in its order, and nothing is written after the response) adds `Flow`, `Numbers` and `LastWord`. `Flow` is about the places a message
can be in, from the wire back to the queue: written, held by the forwarder, queued. In each place the messages are in order, and those further on come before those behind. `Numbers` says that whoever is about to
send has a number nobody has seen from it, `LastWord` that the response comes last.

`SseProofs` proves `TypeOK`, `NoStreamOutlivesClose` and `ChannelsInTheMapAreOpen` (`TypeCorrect`, `NothingOutlivesClose`, `ChannelsStayOpen`) for any goroutines, requests and
queue. `SseAssumption` says that `None` is not a goroutine and the queue has room. The first needs `Lifecycle`: one attempt at a time is in flight (`OneAttempt`), a live
context is the one that `cancelSSEStream` cancels (`LiveIsPublished`), and `closed` is set before anything is cancelled (`ClosedFirst`), so an attempt that comes late sees it. The last is
inductive with the types.

`ResumableProofs` proves `TypeOK`, `NeverBothNeverNeither`, `ClientReadsRun` and `EndsOnlyComplete` (`ResumableTypes`, `NothingTwiceNothingLost`, `ReadsRun`, `EndsComplete`) for any number of connections and messages
and any capacity of a sink; the head of the module gives the argument. `IInv` has one part for each place an event can be in: the store and its log (`StoreInv`), the producer's hand (`PushInv`), the tracking of the stream
(`TrackInv`), the client's current connection (`CurInv`), the attached one (`ConnInv`). `ChainInv` is the heart: what a connection has written, what waits in its sink and what the producer holds for it are, in this order, a run of the
recorded events without a gap, and all that is due while it is attached. Neither of the two properties about what the client reads is inductive without it, since a hand-over in progress is in none of the variables they mention.
`ReadInv` ties the client's last event ID to the connection it reads, `LastInv` and `EndInv` say when the server may end it (a replay that was cut keeps the chain up to the last event it wrote), `PostInv` is the same for the POST's response.

`HttpClientProofs` proves `TypeOK`, `NoWaiterOnOldChannel` and the step property `DroppedOnlyIfForgotten` (`HttpClientTypes`, `NoLostWakeUp`, `OnlyForgottenDropped`) for any callers, initializations, sessions and broken connections.
`HttpClientAssumption` says that the bounds are numbers. `StoredOnce` (a session ID that was replaced is not stored again, as the server does not issue one twice), `ChannelInv` (each channel stands for a session
that was stored and dropped, the last one is open) and the conjuncts on the listener's position (`RecordedInv`, `SentInv`, `OpenInv`, `LostInv`, `WaitInv`) say what it still relies on of what it read before; without them the
listener may hold a channel that is no longer current when it starts to wait.

`PartsProofs` has, for each module below, an inductive invariant that holds for every value of the constants under the assumption named after the module in `PartsConstants`. The assumptions only tell objects apart (a GET from a POST, `None` from a session) and
ask for what a model cannot do without (a version with a handshake, a process). What each invariant adds to the property:

- `HttpSessions` (`SessionsInv`): only a POST that was let in sends or has stored an object (`Owned`), nobody has the object of a GET that did not make one (`Made`), a registered session is initialize's or a GET's that will remove it (`Kept`), and every entry has somebody who looks after it (`Looked`).
- `InProcess` (`InProcessInv`): one call of `Start` at a time is at work until the session is published (`OneStart`), and a registered session is published or some call will unregister it (`LookedFor`).
- `StdioClient` (`StdioInv`): one starter (`OneStarter`), a child nobody has waited for yet is about to be published, will be cleaned up, or was given up by a `Close` that said so (`ChildHeld`), and the entry of a call that was answered is the reader's to delete (`EntriesKept`).
- `RoundTrips` (`RoundTripsInv`): a call of the handler is counted before it is made (`Counted`); what the helpers have gathered is what they were asked in this round (`Gathered`).
- `Negotiation` (`NegotiationInv`): requests are taken in the order of their numbers (`Numbered`), an answer says what the server is (`Truthful`), and what the client takes the version for at each step (`Settled`). That the highest common version exists is a lemma by well-foundedness of the numbers.
- `ServerRequests` (`AsksInv`): what is pending is what is asked (`Pending`), an answer is to a request the client has got and counts once (`Heard`), and a request is in one place at a time, in a queue, with a GET, with its POST, with the client, or lost (`OnePlace`).
- `OAuth` (`OAuthInv`): what a goroutine has read and not used yet carries the issuer it came from: metadata (`MetaInv`), client credentials (`CredInv`, `PresetInv`), tokens (`TokenInv`) and codes (`CodeInv`).
- `Headers` (`HeadersInv`): what a list holds and what the client knows while nothing has changed (`ListsHold`), and what a call built from it says (`CallsSay`).
- `Validation` (`ValidationInv`): each call on its own, whatever the others and the definitions do, has the tool it found and passed or failed that tool's schema (`Judged`).
- `SchemaCache` (`CacheInv`): the schemas in any table, saved or not, are of types their keys were used for (`TablesInv`), a definer has one of those (`DefinersInv`), and a temporary file about to be renamed holds all of a table (`SaversInv`).
- `ResponseStream` (`ResponseInv`): the stored events after the cursor and those on the way are not before any event handled (`ToCome`), a connection brings its events without a gap (`OnTheWay`), those up to the cursor were handled (`HandledSoFar`),
  and the response, the last event, is handled once (`AnsweredInv`). `StreamRead` is not inductive without `OnTheWay`: the gap would open only when the next event is dispatched.
- `Registry` (`RegistryInv`): what has been collected is in order and ends where the cursor is (`PagesInOrder`); what has been there since the listing began is in it once the listing has come past it (`StayedListed`); a client that nothing will tell to list
  again has what there is, as far as it has come (`ViewIsFresh`), where `ToldToList` names the places the news of a change can be: with a changer that is about to announce it, in the channel, with the client, or dropped. Without the capability there is nothing to list yet (`NothingYet`).

`PartsTheorems` makes these theorems of the specification that `parts` checks. A behaviour of `MCParts` with a given `part` is one of the module in question: the lemmas named `...Same` show that the module instantiated in `MCParts` and the one
instantiated in `PartsProofs` have the same initial predicate, next-state relation, types and property, and the lemmas named `...Part` carry the invariant over. `Calls`, `Subscriptions`, `Arguments` and `Content` are many operators on few variables, so
`PartsTheorems` proves them in the slots of `MCParts` directly, and needs no second copy:

- `Calls` (`CallsInv`): the hooks that ran at each step (`HooksInv`), where an item that was found comes from and that it was there (`FoundInv`, `RanInv`), that without a change the looks so far determine what the name stands for (`UnmovedInv`), and that the list shown agrees (`ListedInv`).
- `Subscriptions` (`SubscriptionInv`): only the last `Listen` may be wanted (`OneOwner`), a stream has the filter it acknowledges from before it does until it leaves (`Filtered`), and a broadcast owes only streams it still has to come to (`Casting`).
- `Arguments` (`ArgumentsInv`): the handler has the caller's value, or what its text decodes to, with the text beside it; a number it has is then the caller's (`SameProcess`) or a float64 with the caller's numeral (`OffTheWire`).
  What remains is arithmetic, for any width. `StepIs` and `StepThere` find the step between the float64s near a number, `IsHeld` says what a float64 can be, and `FloatIs` concludes that rounding again changes nothing, that an even
  number stays even, and that only 0 becomes less than the smallest whole number. `ConvertFits` and `WholeFits`, `FloatFits` are the checks of the parsers, `ConvertedIs` counts what is taken of a slice. Two of these are inductions, over the exponents and over the items: `Induction` does them on sets of numbers, since a
  nonempty set of naturals has a least element (`Least`, from the well-foundedness of `<`).
- `Content` (`ContentInv`, `ArrivedInv`): every message is one that can be on the wire (`ContentInv`), and as long as none is refused, the message is what the first hop made of it (`ArrivedInv`). That rests on `ParseAgain`: what a decoder has made, it makes
  again of itself, shown from the fields (`FieldsAgain`) through the leaves and the items of a tool's result to the kinds of message. `BuiltMade` says that a message the library builds is taken, and as the same; `DecodersAgreed` that both decoders take what Go can hold, each as the same.

With them all thirteen invariants about the components of `parts` are theorems, and `PartsTyped` that every component keeps its types. The assumptions beyond telling objects apart are about sizes: `Listens`, the items of the registry and of a
task set are finite, bounds and capacities are numbers, an int has at least 3 bits and a float64's significand no more than it (`ArgumentsAssumption`), and a list on the wire is neither absent nor null (`ContentAssumption`). `PowersAssumption` is not about the program: the provers take `^` for an
unknown operator, so it says that 2 to the 0 is 1 and that each next power is twice the last. TLC evaluates it like the others.

Every safety property that a passing run checks is now a theorem, of steps or of states. The types of every module (`PartsTypeOK` for those of `parts`) are theorems and no longer invariants of their runs; `OneContentType` is only a theorem.

Left to TLC are the ten properties under fairness, which the prover does not handle: `TaskEnds`, `WaiterAnswered`, `TerminalHookRuns`, `CatchesUp`, `ProducerReleased`,
`ServesToTheEnd`, `PostEnds`, `AcceptedIsAnswered`, `WorkersReleased`, `StreamFollowsSession`; and the four that do not hold (section 3).

## 5. Plan

Done: every module of section 2, and the proofs of section 4. What is left, in this order:

1. Compositions: `HttpSessions` with `ServerRequests`, so that the objects an answer is routed to are those that the registry's own races leave; `HttpClient` with `ResponseStream`.
2. Liveness of the modules of `parts` that wait: a call of `StdioClient`, an asker of `ServerRequests`, a follower of an OAuth refresh.
3. An abstract specification of a client's request (it completes once, with its own response or an error), implemented by `Sse`, `StdioClient` and `ResponseStream`.

## 6. Not modelled

- *Builders and data types* (`mcp/`, `With...` options): assignments to fields. Their conversions that can lose something are in `Arguments` and `Content`.
- *The derivation of a schema from a Go type* and *what a JSON schema accepts*: reflection and a library; taken as given by `SchemaCache` and `Validation`.
- *HTTP helpers* (CORS, localhost protection, metadata of protected resources): one decision on one request's headers, no state.
- *Logging and tracing*: observers.
- *The parsing of bodies and events, base paths, origins and content types*: conversions and checks before anything changes.
- *`tasks/list`* and other requests that only read; *completions* and *log levels* appear in `Calls` as requests among others.
- *Session data that one assignment sets* (log level, client information).
