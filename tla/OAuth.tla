------------------------------- MODULE OAuth -------------------------------
(***************************************************************************)
(* The OAuth handler of the client transports (client/transport/oauth.go,  *)
(* oauth_binding.go).                                                      *)
(*                                                                         *)
(* The handler discovers the authorization server of a resource, registers *)
(* a client with it, sends a user to it and exchanges the code that comes  *)
(* back, and refreshes the token it got.  The requests of the client and   *)
(* the application's authorization flows do this concurrently, a 401 may   *)
(* make the handler forget what it discovered at any time, and the next    *)
(* discovery may name another authorization server.  No lock is held while *)
(* a request is on the network, so what was read before one is checked     *)
(* again after it.                                                         *)
(*                                                                         *)
(* Left out: the exported RefreshToken, with which the application may     *)
(* refresh a token of its choice beside the handler's own refresh.         *)
(***************************************************************************)
EXTENDS Integers, Sequences, FiniteSets

CONSTANTS
  Issuers,       \* authorization servers the resource may name
  None,
  Callers,       \* goroutines that need an authorization header
  Flows,         \* goroutines of the application's authorization flows
  Refresher,     \* the goroutine of the refresh in flight
  MaxOnces,      \* bound: resets of the discovery and failed discoveries
  MaxURLs,       \* bound: authorization URLs
  MaxTokens,     \* bound: tokens that the servers issue
  MaxVersions    \* bound: the version of the credentials a registration starts at

Procs == Flows \union {Refresher}
URLs == 1..MaxURLs
Tokens == 1..MaxTokens

VARIABLES
  serverMetadata,  \* what has been discovered: its identity, and its issuer
  metadataOnce,    \* the sync.Once on record
  fetchErr,        \* metadataFetchErr
  knownIssuer,
  credentials,     \* the client, the issuer it is bound to, the version, and
                   \* whether it was registered dynamically (credentialsDCR)
  store,           \* the token store: NoToken or a token
  refresh,         \* the refresh in flight
  registration,    \* the registration in flight
  call,            \* getValidToken of each caller
  discovery,       \* getServerMetadata of each process
  flow,            \* what each flow is doing
  expectedState, authorizationTransaction,
  urls,            \* the issuer each URL sent the user to: the state is its number
  issued,          \* tokens issued so far
  (* history *)
  presetSentTo,    \* issuers that were sent the client the application gave
  codeSends,       \* how often the code of each URL was sent
  replaced         \* refresh tokens whose successor is or was in the store

metaVars == <<serverMetadata, metadataOnce, fetchErr, knownIssuer>>
flowVars == <<flow, expectedState, authorizationTransaction, urls, codeSends>>
vars == <<metaVars, credentials, store, refresh, registration, call, discovery,
          flowVars, issued, presetSentTo, replaced>>

NoMetadata == [id |-> 0, issuer |-> None]
NoToken == [good |-> FALSE, token |-> 0, by |-> None, issuer |-> None]
NoCredentials == [client |-> None, issuer |-> None, version |-> 0, dcr |-> FALSE]
NoTransaction == [state |-> 0, issuer |-> None, client |-> None]
FlowIdle == [pc |-> "idle", op |-> "none", meta |-> NoMetadata,
             cred |-> NoCredentials, trans |-> NoTransaction]
NoRefresh == [pc |-> "none", token |-> NoToken, meta |-> NoMetadata,
              cred |-> NoCredentials]
NoRegistration == [pc |-> "none", meta |-> NoMetadata, version |-> 0]
NoDiscovery == [at |-> "none", once |-> 0]

\* A client the application gave, which it may have bound to an issuer, or
\* none; and an expired token it kept from an earlier run, or none.
Init ==
  /\ serverMetadata = NoMetadata /\ fetchErr = FALSE /\ knownIssuer = None
  /\ metadataOnce = [id |-> 1, fresh |-> TRUE]
  /\ \E i \in Issuers \union {None}, client \in {"preset", None} :
       /\ client = None => i = None
       /\ credentials = [NoCredentials EXCEPT !.client = client, !.issuer = i]
  /\ \/ store = NoToken /\ issued = 0
     \/ \E i \in Issuers :
          /\ store = [good |-> FALSE, token |-> 1, by |-> i, issuer |-> i]
          /\ issued = 1
  /\ refresh = NoRefresh /\ registration = NoRegistration
  /\ call = [c \in Callers |-> "idle"]
  /\ discovery = [p \in Procs |-> NoDiscovery]
  /\ flow = [f \in Flows |-> FlowIdle]
  /\ expectedState = 0 /\ authorizationTransaction = NoTransaction
  /\ urls = <<>> /\ codeSends = [n \in URLs |-> 0]
  /\ presetSentTo = {} /\ replaced = {}

-----------------------------------------------------------------------------
(* Discovery: getServerMetadata.                                            *)

\* The Once on record is taken, and run unless it has been or is being run.
\* A reset between the two changes nothing for the one that is taken.
Discover(p) ==
  /\ discovery' = [discovery EXCEPT ![p] =
                     [at |-> IF metadataOnce.fresh THEN "fetching" ELSE "awaiting",
                      once |-> metadataOnce.id]]
  /\ metadataOnce' = [metadataOnce EXCEPT !.fresh = FALSE]
  /\ UNCHANGED <<serverMetadata, fetchErr, knownIssuer>>

\* The fetch names an issuer, or fails and may be tried again; its result is
\* discarded if the handler was reset meanwhile.
FetchEnds(p) ==
  /\ discovery[p].at = "fetching"
  /\ discovery' = [discovery EXCEPT ![p].at = "ready"]
  /\ \/ /\ discovery[p].once # metadataOnce.id
        /\ UNCHANGED metaVars
     \/ /\ discovery[p].once = metadataOnce.id
        /\ \E i \in Issuers :
             /\ serverMetadata' = [id |-> metadataOnce.id, issuer |-> i]
             /\ knownIssuer' = i
        /\ fetchErr' = FALSE
        /\ UNCHANGED metadataOnce
     \/ /\ discovery[p].once = metadataOnce.id /\ metadataOnce.id < MaxOnces
        /\ fetchErr' = TRUE
        /\ metadataOnce' = [id |-> metadataOnce.id + 1, fresh |-> TRUE]
        /\ UNCHANGED <<serverMetadata, knownIssuer>>
  /\ UNCHANGED <<credentials, store, refresh, registration, call, flowVars,
                 issued, presetSentTo, replaced>>

\* Whoever waits for the same Once goes on when it has run.
AwaitEnds(p) ==
  /\ discovery[p].at = "awaiting"
  /\ \A q \in Procs : discovery[q].at = "fetching" => discovery[q].once # discovery[p].once
  /\ discovery' = [discovery EXCEPT ![p].at = "ready"]
  /\ UNCHANGED <<metaVars, credentials, store, refresh, registration, call,
                 flowVars, issued, presetSentTo, replaced>>

Discovered(p) == discovery[p].at = "ready" /\ ~fetchErr /\ serverMetadata # NoMetadata

\* SetProtectedResourceMetadataURL, also by way of HandleUnauthorizedResponse.
SetProtectedResourceMetadataURL ==
  /\ metadataOnce.id < MaxOnces
  /\ serverMetadata' = NoMetadata /\ fetchErr' = FALSE
  /\ metadataOnce' = [id |-> metadataOnce.id + 1, fresh |-> TRUE]
  /\ UNCHANGED <<knownIssuer, credentials, store, refresh, registration, call,
                 discovery, flowVars, issued, presetSentTo, replaced>>

-----------------------------------------------------------------------------
(* Credentials: oauth_binding.go.                                           *)

\* boundCredentials: credentials without an issuer are bound to this one.
Binding(meta) ==
  IF credentials.issuer = None
    THEN [credentials EXCEPT !.issuer = meta.issuer, !.version = @ + 1]
    ELSE credentials

Bindable(meta) ==
  /\ serverMetadata = meta
  /\ credentials.issuer \in {None, meta.issuer}
  /\ ~(credentials.dcr /\ credentials.client = None)

\* saveBoundToken: nothing that the request was bound to has changed.
StillBound(meta, cred) == credentials.version = cred.version /\ serverMetadata = meta

SentTo(client, i) ==
  presetSentTo' = IF client = "preset" THEN presetSentTo \union {i} ELSE presetSentTo

-----------------------------------------------------------------------------
(* The header of a request, and the refresh its callers share.              *)

\* getValidToken reads the store.  A good token, which it returns unless
\* checkKnownTokenIssuer refuses it, changes nothing and is no step.
GetValidToken(c) ==
  /\ call[c] = "idle" /\ store # NoToken /\ ~store.good
  /\ call' = [call EXCEPT ![c] = "expired"]
  /\ UNCHANGED <<metaVars, credentials, store, refresh, registration, discovery,
                 flowVars, issued, presetSentTo, replaced>>

\* startRefresh: the refresh in flight is joined, or one is started.  What the
\* caller read may be out of date: refreshStoredToken reads the store again.
StartRefresh(c) ==
  /\ call[c] = "expired"
  /\ call' = [call EXCEPT ![c] = "waiting"]
  /\ refresh' = IF refresh.pc # "none" THEN refresh ELSE [refresh EXCEPT !.pc = "started"]
  /\ UNCHANGED <<metaVars, credentials, store, registration, discovery,
                 flowVars, issued, presetSentTo, replaced>>

\* A caller whose context is done leaves the refresh to the others.
StopWaiting(c) ==
  /\ call[c] = "waiting"
  /\ call' = [call EXCEPT ![c] = "idle"]
  /\ UNCHANGED <<metaVars, credentials, store, refresh, registration, discovery,
                 flowVars, issued, presetSentTo, replaced>>

\* The refresh is over: whoever waits for it has its result.
RefreshOver ==
  /\ refresh' = NoRefresh
  /\ call' = [c \in Callers |-> IF call[c] = "waiting" THEN "idle" ELSE call[c]]

\* A token that is good again is the result of the refresh; whether
\* checkKnownTokenIssuer refuses it changes only what the callers return.
RefreshStoredToken ==
  /\ refresh.pc = "started"
  /\ \/ /\ store.good /\ RefreshOver /\ UNCHANGED <<metaVars, discovery>>
     \/ /\ ~store.good
        /\ refresh' = [refresh EXCEPT !.pc = "discovering", !.token = store]
        /\ Discover(Refresher)
        /\ UNCHANGED call
  /\ UNCHANGED <<credentials, store, registration, flowVars, issued,
                 presetSentTo, replaced>>

\* Mutant: the issuer of the token is not compared with the one discovered.
RefreshDiscovered_AnyIssuer ==
  /\ refresh.pc = "discovering" /\ discovery[Refresher].at = "ready"
  /\ discovery' = [discovery EXCEPT ![Refresher] = NoDiscovery]
  /\ \/ /\ Discovered(Refresher)
        /\ refresh' = [refresh EXCEPT !.pc = "bind", !.meta = serverMetadata]
        /\ UNCHANGED call
     \/ /\ ~Discovered(Refresher)
        /\ RefreshOver
  /\ UNCHANGED <<metaVars, credentials, store, registration, flowVars, issued,
                 presetSentTo, replaced>>

\* The token goes to the issuer it came from, or nowhere.
RefreshDiscovered ==
  /\ refresh.pc = "discovering" /\ discovery[Refresher].at = "ready"
  /\ discovery' = [discovery EXCEPT ![Refresher] = NoDiscovery]
  /\ \/ /\ Discovered(Refresher) /\ serverMetadata.issuer = refresh.token.issuer
        /\ refresh' = [refresh EXCEPT !.pc = "bind", !.meta = serverMetadata]
        /\ UNCHANGED call
     \/ /\ ~(Discovered(Refresher) /\ serverMetadata.issuer = refresh.token.issuer)
        /\ RefreshOver
  /\ UNCHANGED <<metaVars, credentials, store, registration, flowVars, issued,
                 presetSentTo, replaced>>

SendRefresh ==
  /\ refresh.pc = "bind"
  /\ \/ /\ Bindable(refresh.meta)
        /\ credentials' = Binding(refresh.meta)
        /\ refresh' = [refresh EXCEPT !.pc = "sent", !.cred = Binding(refresh.meta)]
        /\ SentTo(credentials.client, refresh.meta.issuer)
        /\ UNCHANGED call
     \/ /\ ~Bindable(refresh.meta)
        /\ RefreshOver
        /\ UNCHANGED <<credentials, presetSentTo>>
  /\ UNCHANGED <<metaVars, store, registration, discovery, flowVars, issued, replaced>>

\* The server answers with a new refresh token, which uses up the one it was
\* sent, or with none, and the old one is kept.
RefreshAnswered ==
  /\ refresh.pc = "sent"
  /\ \E rotates \in BOOLEAN :
       LET token == IF rotates THEN issued + 1 ELSE refresh.token.token IN
       /\ rotates => issued < MaxTokens
       /\ issued' = IF rotates THEN token ELSE issued
       /\ IF StillBound(refresh.meta, refresh.cred)
            THEN /\ store' = [good |-> TRUE, token |-> token,
                              by |-> refresh.meta.issuer, issuer |-> refresh.meta.issuer]
                 /\ replaced' = replaced \union ({refresh.token.token} \ {token})
            ELSE UNCHANGED <<store, replaced>>
  /\ RefreshOver
  /\ UNCHANGED <<metaVars, credentials, registration, discovery, flowVars, presetSentTo>>

\* An error of the network or of the server, or the timeout.
RefreshFails ==
  /\ refresh.pc = "sent"
  /\ RefreshOver
  /\ UNCHANGED <<metaVars, credentials, store, registration, discovery, flowVars,
                 issued, presetSentTo, replaced>>

TokenExpires ==
  /\ store.good
  /\ store' = [store EXCEPT !.good = FALSE]
  /\ UNCHANGED <<metaVars, credentials, refresh, registration, call, discovery,
                 flowVars, issued, presetSentTo, replaced>>

-----------------------------------------------------------------------------
(* Registration: registerClient, whose flight the flows share.              *)

\* A flow that migrates drops the client of the other issuer, unless another
\* flow has registered one with this issuer meanwhile.
Register(f) ==
  LET meta == flow[f].meta
      migrates == flow[f].op = "url"
      known == migrates /\ credentials.issuer = meta.issuer /\ credentials.client # None
      joins == serverMetadata = meta /\ ~known
  IN
  /\ flow[f].pc = "register"
  /\ flow' = [flow EXCEPT ![f] = IF serverMetadata # meta THEN FlowIdle
                                 ELSE [@ EXCEPT !.pc = IF known THEN "bind" ELSE "joined"]]
  /\ IF joins /\ registration.pc = "none"
       THEN /\ credentials.version < MaxVersions
            /\ LET cred == IF migrates
                             THEN [credentials EXCEPT !.client = None, !.version = @ + 1]
                             ELSE credentials
               IN /\ credentials' = cred
                  /\ registration' = [pc |-> "sent", meta |-> meta, version |-> cred.version]
       ELSE UNCHANGED <<credentials, registration>>
  /\ UNCHANGED <<metaVars, store, refresh, call, discovery, expectedState,
                 authorizationTransaction, urls, codeSends, issued, presetSentTo, replaced>>

\* The flight is over.  A flow that joined one for another issuer looks again.
RegistrationOver(ok) ==
  /\ registration' = NoRegistration
  /\ flow' = [f \in Flows |->
       IF flow[f].pc # "joined" THEN flow[f]
       ELSE IF flow[f].meta.issuer # registration.meta.issuer
              THEN [flow[f] EXCEPT !.pc = "register"]
       ELSE IF ok /\ flow[f].op = "url" THEN [flow[f] EXCEPT !.pc = "bind"]
       ELSE FlowIdle]

\* performRegistration publishes the client if nothing has changed meanwhile.
Registered ==
  /\ registration.pc = "sent"
  /\ LET ok == StillBound(registration.meta, registration) IN
       /\ RegistrationOver(ok)
       /\ credentials' = IF ok THEN [client |-> registration.meta.issuer,
                                     issuer |-> registration.meta.issuer,
                                     version |-> credentials.version + 1, dcr |-> TRUE]
                               ELSE credentials
  /\ UNCHANGED <<metaVars, store, refresh, call, discovery, expectedState,
                 authorizationTransaction, urls, codeSends, issued, presetSentTo, replaced>>

RegistrationFails ==
  /\ registration.pc = "sent"
  /\ RegistrationOver(FALSE)
  /\ UNCHANGED <<metaVars, credentials, store, refresh, call, discovery, expectedState,
                 authorizationTransaction, urls, codeSends, issued, presetSentTo, replaced>>

-----------------------------------------------------------------------------
(* A flow of the application: RegisterClient, GetAuthorizationURL, and      *)
(* ProcessAuthorizationCallback with the code of a URL.                     *)

RegisterClient(f) ==
  /\ flow[f].pc = "idle"
  /\ flow' = [flow EXCEPT ![f] = [FlowIdle EXCEPT !.pc = "discovering", !.op = "register"]]
  /\ Discover(f)
  /\ UNCHANGED <<credentials, store, refresh, registration, call, expectedState,
                 authorizationTransaction, urls, codeSends, issued, presetSentTo, replaced>>

GetAuthorizationURL(f) ==
  /\ flow[f].pc = "idle" /\ Len(urls) < MaxURLs
  /\ flow' = [flow EXCEPT ![f] = [FlowIdle EXCEPT !.pc = "discovering", !.op = "url"]]
  /\ Discover(f)
  /\ UNCHANGED <<credentials, store, refresh, registration, call, expectedState,
                 authorizationTransaction, urls, codeSends, issued, presetSentTo, replaced>>

\* processAuthorizationResponse: the state and its transaction are consumed
\* together, whatever comes of the response.  One for another state, or with
\* no flow pending, changes nothing.
Callback(f) ==
  /\ flow[f].pc = "idle" /\ expectedState # 0
  /\ flow' = [flow EXCEPT ![f] = [FlowIdle EXCEPT !.pc = "discovering", !.op = "code",
                                                 !.trans = authorizationTransaction]]
  /\ expectedState' = 0 /\ authorizationTransaction' = NoTransaction
  /\ Discover(f)
  /\ UNCHANGED <<credentials, store, refresh, registration, call, urls, codeSends,
                 issued, presetSentTo, replaced>>

\* authorizationCredentials: a registered client of another issuer, or one
\* that a migration dropped, has to be replaced first.
Migrates(meta) ==
  credentials.dcr /\ (credentials.issuer # meta.issuer \/ credentials.client = None)

NeedsClient(f, meta) ==
  flow[f].op = "register" \/ (flow[f].op = "url" /\ Migrates(meta))

\* What the flow does with the metadata; an authorization server that is not
\* the one of the transaction gets no code.
FlowDiscovered(f) ==
  LET meta == serverMetadata
      goes == /\ Discovered(f)
              /\ flow[f].op = "code" => flow[f].trans.issuer = meta.issuer
  IN
  /\ flow[f].pc = "discovering" /\ discovery[f].at = "ready"
  /\ discovery' = [discovery EXCEPT ![f] = NoDiscovery]
  /\ flow' = [flow EXCEPT ![f] =
       IF ~goes THEN FlowIdle
       ELSE [@ EXCEPT !.meta = meta,
                      !.pc = IF NeedsClient(f, meta) THEN "register" ELSE "bind"]]
  /\ UNCHANGED <<metaVars, credentials, store, refresh, registration, call,
                 expectedState, authorizationTransaction, urls, codeSends, issued,
                 presetSentTo, replaced>>

\* GetAuthorizationURL binds the client, ...
BindURL(f) ==
  /\ flow[f].pc = "bind" /\ flow[f].op = "url"
  /\ IF Bindable(flow[f].meta)
       THEN /\ credentials' = Binding(flow[f].meta)
            /\ flow' = [flow EXCEPT ![f].pc = "publish",
                                    ![f].cred = Binding(flow[f].meta)]
       ELSE /\ flow' = [flow EXCEPT ![f] = FlowIdle]
            /\ UNCHANGED credentials
  /\ UNCHANGED <<metaVars, store, refresh, registration, call, discovery,
                 expectedState, authorizationTransaction, urls, codeSends, issued,
                 presetSentTo, replaced>>

\* ... and saves the transaction if nothing has changed since.
PublishURL(f) ==
  /\ flow[f].pc = "publish"
  /\ IF StillBound(flow[f].meta, flow[f].cred)
       THEN /\ Len(urls) < MaxURLs
            /\ urls' = Append(urls, flow[f].meta.issuer)
            /\ expectedState' = Len(urls) + 1
            /\ authorizationTransaction' = [state |-> Len(urls) + 1,
                                            issuer |-> flow[f].meta.issuer,
                                            client |-> flow[f].cred.client]
       ELSE UNCHANGED <<urls, expectedState, authorizationTransaction>>
  /\ flow' = [flow EXCEPT ![f] = FlowIdle]
  /\ UNCHANGED <<metaVars, credentials, store, refresh, registration, call,
                 discovery, codeSends, issued, presetSentTo, replaced>>

\* The code is exchanged with the client of the transaction, which has to be
\* the current one, at the transaction's token endpoint.
ExchangeCode(f) ==
  LET trans == flow[f].trans IN
  /\ flow[f].pc = "bind" /\ flow[f].op = "code"
  /\ IF Bindable(flow[f].meta)
       THEN /\ credentials' = Binding(flow[f].meta)
            /\ IF trans.client = credentials.client
                 THEN /\ flow' = [flow EXCEPT ![f].pc = "exchanging",
                                              ![f].cred = Binding(flow[f].meta)]
                      /\ codeSends' = [codeSends EXCEPT ![trans.state] = @ + 1]
                      /\ SentTo(trans.client, trans.issuer)
                 ELSE /\ flow' = [flow EXCEPT ![f] = FlowIdle]
                      /\ UNCHANGED <<codeSends, presetSentTo>>
       ELSE /\ flow' = [flow EXCEPT ![f] = FlowIdle]
            /\ UNCHANGED <<credentials, codeSends, presetSentTo>>
  /\ UNCHANGED <<metaVars, store, refresh, registration, call, discovery,
                 expectedState, authorizationTransaction, urls, issued, replaced>>

\* The server's token, by the issuer the code was sent to, is saved under the
\* issuer discovered.
Exchanged(f) ==
  /\ flow[f].pc = "exchanging" /\ issued < MaxTokens
  /\ issued' = issued + 1
  /\ store' = IF StillBound(flow[f].meta, flow[f].cred)
                THEN [good |-> TRUE, token |-> issued + 1,
                      by |-> flow[f].trans.issuer, issuer |-> flow[f].meta.issuer]
                ELSE store
  /\ flow' = [flow EXCEPT ![f] = FlowIdle]
  /\ UNCHANGED <<metaVars, credentials, refresh, registration, call, discovery,
                 expectedState, authorizationTransaction, urls, codeSends,
                 presetSentTo, replaced>>

\* A request fails, or the context of the flow ends while it waits.
GivesUp(f) ==
  /\ flow[f].pc \in {"exchanging", "joined"}
  /\ flow' = [flow EXCEPT ![f] = FlowIdle]
  /\ UNCHANGED <<metaVars, credentials, store, refresh, registration, call,
                 discovery, expectedState, authorizationTransaction, urls, codeSends,
                 issued, presetSentTo, replaced>>
-----------------------------------------------------------------------------
Refreshing ==
  \/ RefreshStoredToken \/ RefreshDiscovered \/ SendRefresh \/ RefreshAnswered
  \/ RefreshFails \/ TokenExpires

Flowing(f) ==
  \/ RegisterClient(f) \/ GetAuthorizationURL(f) \/ Callback(f) \/ FlowDiscovered(f)
  \/ Register(f) \/ BindURL(f) \/ PublishURL(f) \/ ExchangeCode(f) \/ Exchanged(f)
  \/ GivesUp(f)

Next ==
  \/ \E p \in Procs : FetchEnds(p) \/ AwaitEnds(p)
  \/ SetProtectedResourceMetadataURL
  \/ \E c \in Callers : GetValidToken(c) \/ StartRefresh(c) \/ StopWaiting(c)
  \/ Refreshing \/ Registered \/ RegistrationFails
  \/ \E f \in Flows : Flowing(f)

Spec == Init /\ [][Next]_vars
-----------------------------------------------------------------------------
Clients == Issuers \union {"preset", None}
IssuerOrNone == Issuers \union {None}
Metadata == [id : 0..MaxOnces, issuer : IssuerOrNone]
Credentials == [client : Clients, issuer : IssuerOrNone, version : Nat, dcr : BOOLEAN]
TokenRecord == [good : BOOLEAN, token : 0..MaxTokens, by : IssuerOrNone,
                issuer : IssuerOrNone]
Transactions == [state : 0..MaxURLs, issuer : IssuerOrNone, client : Clients]

TypeOK ==
  /\ serverMetadata \in Metadata /\ fetchErr \in BOOLEAN
  /\ metadataOnce \in [id : 1..MaxOnces, fresh : BOOLEAN]
  /\ knownIssuer \in IssuerOrNone /\ credentials \in Credentials
  /\ store \in TokenRecord /\ issued \in 0..MaxTokens
  /\ refresh \in [pc : {"none", "started", "discovering", "bind", "sent"},
                  token : TokenRecord, meta : Metadata, cred : Credentials]
  /\ registration \in [pc : {"none", "sent"}, meta : Metadata, version : Nat]
  /\ call \in [Callers -> {"idle", "expired", "waiting"}]
  /\ discovery \in [Procs -> [at : {"none", "fetching", "awaiting", "ready"},
                             once : 0..MaxOnces]]
  /\ flow \in [Flows -> [pc : {"idle", "discovering", "register", "joined", "bind",
                               "publish", "exchanging"},
                         op : {"none", "register", "url", "code"},
                         meta : Metadata, cred : Credentials, trans : Transactions]]
  /\ expectedState \in 0..MaxURLs /\ authorizationTransaction \in Transactions
  /\ urls \in Seq(Issuers) /\ Len(urls) \in 0..MaxURLs
  /\ codeSends \in [URLs -> Nat]
  /\ presetSentTo \subseteq Issuers /\ replaced \subseteq Tokens

\* A client that was registered goes only to the issuer that registered it.
Belongs(client, i) == client \in Issuers => client = i

\* "Discovery may invalidate a pending transaction, but must never change the
\* issuer, endpoint or credentials used for its code exchange": codes, refresh
\* tokens and the credentials they are sent with go to the issuer they came
\* from, however discovery, registration and refreshes interleave; the client
\* the application gave goes to one issuer only; and a token is stored under
\* the issuer it came from.  "A refresh token may be good for a single use, so
\* they must not each send it": it is not sent once another has been stored for
\* it, and a code is sent once, however many callers found the token expired or
\* came back with the code.
CredentialsStayHome ==
  /\ refresh.pc = "sent" =>
       /\ refresh.token.by = refresh.meta.issuer
       /\ Belongs(refresh.cred.client, refresh.meta.issuer)
       /\ refresh.token.token \notin replaced
  /\ \A f \in Flows : flow[f].pc = "exchanging" =>
       /\ urls[flow[f].trans.state] = flow[f].trans.issuer
       /\ Belongs(flow[f].trans.client, flow[f].trans.issuer)
  /\ Cardinality(presetSentTo) <= 1
  /\ store.by = store.issuer
  /\ \A n \in URLs : codeSends[n] <= 1
=============================================================================
