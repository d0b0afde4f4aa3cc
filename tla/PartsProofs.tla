----------------------------- MODULE PartsProofs -----------------------------
(***************************************************************************)
(* Proofs about the components that are checked in one run, for every      *)
(* value of their constants.  Each is an instance whose variables are the  *)
(* ones declared here under their own names; where two components have a   *)
(* variable of one name, the two proofs have nothing else in common.       *)
(***************************************************************************)
EXTENDS PartsConstants, SequenceTheorems, FiniteSetTheorems, WellFoundedInduction, TLAPS

VARIABLES
  sessions, activeSessions, closed, terminated, init, get, post, cleaner, object, sender,
  owns, hooks,
  started, starting, session, registered, done, call, forwarders, result,
  isCommand, resourcesReady, child, cleanup, request, responses, answer, stdin, stdout, reader,
  current, closeCalled,
  driver, pc, calls, loadShedding, asked, askedAt, state, answers, helper, gathered, failed,
  server, requests, client, version, initialized, serverIsModern, sent,
  requestIDCounter, asker, samplingRequests, requestChan, received, lost,
  serverMetadata, metadataOnce, fetchErr, knownIssuer, credentials, store, refresh,
  registration, discovery, flow, expectedState, authorizationTransaction, urls, issued,
  presetSentTo, codeSends, replaced,
  toolName, tools, toolHeaderBindings, sessionTools, knownTools, lister, callTool,
  definitions,
  cached, invalidating, compiles, changes,
  build, processes, schemas, definer, saver, file, tempFiles, marshaled, users,
  modern, hasHandler, caller, events, connection, streams, cursor, ctxDone, incoming, handled,
  unfinished,
  kind, capability, items, taskTools, sessionItems, changer, notifications, view, again,
  dropped, stayed, logs

-----------------------------------------------------------------------------
(* OAuth: however discoveries, registrations, refreshes and authorization   *)
(* flows interleave, secrets go to the issuer they are from, and those for  *)
(* a single use go once (client/transport/oauth.go, oauth_binding.go).      *)
(* What the handler read before a request it checks again after it: the     *)
(* invariant says what a goroutine may rely on at each of its steps.        *)
OA == INSTANCE OAuth

\* The types, but for what the rest of the invariant says of the values.
DiscoveryTypes ==
  /\ serverMetadata \in OA!Metadata /\ fetchErr \in BOOLEAN
  /\ metadataOnce \in [id : 1..MaxOnces, fresh : BOOLEAN]
  /\ knownIssuer \in OA!IssuerOrNone
  /\ discovery \in [OA!Procs -> [at : {"none", "fetching", "awaiting", "ready"},
                                 once : 0..MaxOnces]]

Refreshes == [pc : {"none", "started", "discovering", "bind", "sent"},
              token : OA!TokenRecord, meta : OA!Metadata, cred : OA!Credentials]
RefreshTypes ==
  /\ credentials \in OA!Credentials
  /\ store \in OA!TokenRecord /\ issued \in 0..MaxTokens
  /\ refresh \in Refreshes
  /\ registration \in [pc : {"none", "sent"}, meta : OA!Metadata, version : Nat]
  /\ call \in [Callers -> {"idle", "expired", "waiting"}]

AuthFlows == [pc : {"idle", "discovering", "register", "joined", "bind", "publish",
                    "exchanging"},
              op : {"none", "register", "url", "code"},
              meta : OA!Metadata, cred : OA!Credentials, trans : OA!Transactions]
FlowTypes ==
  /\ flow \in [Flows -> AuthFlows]
  /\ expectedState \in 0..MaxURLs /\ authorizationTransaction \in OA!Transactions
  /\ urls \in Seq(Issuers) /\ Len(urls) \in 0..MaxURLs
  /\ codeSends \in [OA!URLs -> Nat]

OAuthTypes == DiscoveryTypes /\ RefreshTypes /\ FlowTypes

\* What was discovered has an issuer, and so has what was taken from it.
MetaInv ==
  /\ serverMetadata = OA!NoMetadata \/ serverMetadata.issuer \in Issuers
  /\ refresh.pc \in {"bind", "sent"} => refresh.meta.issuer \in Issuers
  /\ registration.pc = "sent" => registration.meta.issuer \in Issuers
  /\ \A f \in Flows :
       flow[f].pc \in {"register", "joined", "bind", "publish", "exchanging"}
         => flow[f].meta.issuer \in Issuers

LEMMA OAuthNothing ==
  /\ OA!NoMetadata \in OA!Metadata /\ OA!NoToken \in OA!TokenRecord
  /\ OA!NoCredentials \in OA!Credentials /\ OA!NoTransaction \in OA!Transactions
  <1> USE OAuthAssumption DEF OAuthAssumption
  <1>1. OA!NoMetadata \in OA!Metadata
    BY DEF OA!NoMetadata, OA!Metadata, OA!IssuerOrNone
  <1>2. OA!NoToken \in OA!TokenRecord
    BY DEF OA!NoToken, OA!TokenRecord, OA!IssuerOrNone
  <1>3. OA!NoCredentials \in OA!Credentials
    BY DEF OA!NoCredentials, OA!Credentials, OA!Clients, OA!IssuerOrNone
  <1>4. OA!NoTransaction \in OA!Transactions
    BY DEF OA!NoTransaction, OA!Transactions, OA!Clients, OA!IssuerOrNone
  <1> QED BY <1>1, <1>2, <1>3, <1>4

\* Binding credentials changes their issuer, if they had none, and nothing else
\* but the version.
LEMMA BindingTypes ==
  ASSUME credentials \in OA!Credentials, NEW meta \in OA!Metadata
  PROVE  /\ OA!Binding(meta) \in OA!Credentials
         /\ OA!Binding(meta).client = credentials.client
         /\ OA!Bindable(meta) /\ meta.issuer \in Issuers => OA!Binding(meta).issuer = meta.issuer
  <1>1. credentials.version + 1 \in Nat /\ meta.issuer \in OA!IssuerOrNone
    BY DEF OA!Credentials, OA!Metadata
  <1>2. CASE credentials.issuer = None
    <2>1. OA!Binding(meta) = [credentials EXCEPT !.issuer = meta.issuer,
                                                 !.version = credentials.version + 1]
      BY <1>2 DEF OA!Binding
    <2>2. OA!Binding(meta) \in OA!Credentials
      BY <2>1, <1>1 DEF OA!Credentials
    <2>3. /\ OA!Binding(meta).client = credentials.client
          /\ OA!Binding(meta).issuer = meta.issuer
      BY <2>1 DEF OA!Credentials
    <2> QED BY <2>2, <2>3
  <1>3. CASE credentials.issuer # None
    BY <1>3 DEF OA!Binding, OA!Bindable
  <1> QED BY <1>2, <1>3

\* Discovery.
LEMMA DiscoveryTypesStep == DiscoveryTypes /\ [OA!Next]_OA!vars => DiscoveryTypes'
  <1> SUFFICES ASSUME DiscoveryTypes, [OA!Next]_OA!vars PROVE DiscoveryTypes'
    OBVIOUS
  <1> USE DEF DiscoveryTypes
  <1>0. /\ metadataOnce.id \in 1..MaxOnces /\ metadataOnce.id \in 0..MaxOnces
        /\ metadataOnce.id < MaxOnces => metadataOnce.id + 1 \in 1..MaxOnces
        /\ [metadataOnce EXCEPT !.fresh = FALSE] \in [id : 1..MaxOnces, fresh : BOOLEAN]
    <2>1. metadataOnce \in [id : 1..MaxOnces, fresh : BOOLEAN]
      OBVIOUS
    <2>2. metadataOnce.id \in 1..MaxOnces
      BY <2>1
    <2>3. metadataOnce.id \in 0..MaxOnces
      BY <2>2
    <2>4. metadataOnce.id < MaxOnces => metadataOnce.id + 1 \in 1..MaxOnces
      BY <2>2, OAuthAssumption DEF OAuthAssumption
    <2>5. [metadataOnce EXCEPT !.fresh = FALSE] \in [id : 1..MaxOnces, fresh : BOOLEAN]
      BY <2>1
    <2> QED BY <2>2, <2>3, <2>4, <2>5
  <1>1. ASSUME NEW p \in OA!Procs, OA!FetchEnds(p) \/ OA!AwaitEnds(p) PROVE DiscoveryTypes'
    <2>1. CASE OA!FetchEnds(p)
      <3>1. discovery' \in [OA!Procs -> [at : {"none", "fetching", "awaiting", "ready"},
                                        once : 0..MaxOnces]]
        BY <2>1 DEF OA!FetchEnds
      <3>2. metadataOnce' \in [id : 1..MaxOnces, fresh : BOOLEAN] /\ fetchErr' \in BOOLEAN
        <4>1. CASE UNCHANGED metadataOnce
          BY <2>1, <4>1 DEF OA!FetchEnds, OA!metaVars
        <4>2. CASE /\ metadataOnce.id < MaxOnces /\ fetchErr' = TRUE
                   /\ metadataOnce' = [id |-> metadataOnce.id + 1, fresh |-> TRUE]
          BY <1>0, <4>2
        <4> QED BY <2>1, <4>1, <4>2 DEF OA!FetchEnds, OA!metaVars
      <3>3. serverMetadata' \in OA!Metadata /\ knownIssuer' \in OA!IssuerOrNone
        BY <2>1, OAuthAssumption
           DEF OAuthAssumption, OA!FetchEnds, OA!metaVars, OA!Metadata, OA!IssuerOrNone
      <3> QED BY <3>1, <3>2, <3>3
    <2>2. CASE OA!AwaitEnds(p)
      BY <2>2 DEF OA!AwaitEnds, OA!metaVars
    <2> QED BY <1>1, <2>1, <2>2
  <1>2. CASE OA!SetProtectedResourceMetadataURL
    <2>1. [id |-> metadataOnce.id + 1, fresh |-> TRUE] \in [id : 1..MaxOnces, fresh : BOOLEAN]
      BY <1>0, <1>2 DEF OA!SetProtectedResourceMetadataURL
    <2> QED BY <1>2, <2>1, OAuthNothing DEF OA!SetProtectedResourceMetadataURL
  <1>3. ASSUME NEW p \in OA!Procs, OA!Discover(p) PROVE DiscoveryTypes'
    <2>1. metadataOnce.id \in 0..MaxOnces /\ metadataOnce' \in [id : 1..MaxOnces, fresh : BOOLEAN]
      BY <1>0, <1>3 DEF OA!Discover
    <2>2. [at |-> IF metadataOnce.fresh THEN "fetching" ELSE "awaiting", once |-> metadataOnce.id]
            \in [at : {"none", "fetching", "awaiting", "ready"}, once : 0..MaxOnces]
      BY <2>1
    <2> QED BY <1>3, <2>1, <2>2 DEF OA!Discover
  <1>4. ASSUME NEW p \in OA!Procs, discovery' = [discovery EXCEPT ![p] = OA!NoDiscovery],
               UNCHANGED OA!metaVars
        PROVE  DiscoveryTypes'
    BY <1>4, OAuthAssumption DEF OAuthAssumption, OA!NoDiscovery, OA!metaVars
  <1>5. CASE UNCHANGED <<OA!metaVars, discovery>>
    BY <1>5 DEF OA!metaVars
  <1>6. Refresher \in OA!Procs /\ Flows \subseteq OA!Procs
    BY DEF OA!Procs
  <1>7. ASSUME NEW f \in Flows, OA!Flowing(f) PROVE DiscoveryTypes'
    <2>1. CASE OA!Discover(f)
      BY <2>1, <1>3, <1>6
    <2>2. CASE OA!FlowDiscovered(f)
      BY <2>2, <1>4, <1>6 DEF OA!FlowDiscovered
    <2>3. CASE UNCHANGED <<OA!metaVars, discovery>>
      BY <2>3, <1>5
    <2> QED BY <1>7, <2>1, <2>2, <2>3
            DEF OA!Flowing, OA!RegisterClient, OA!GetAuthorizationURL, OA!Callback, OA!Register,
                OA!BindURL, OA!PublishURL, OA!ExchangeCode, OA!Exchanged, OA!GivesUp
  <1>8. CASE OA!Refreshing
    <2>1. CASE OA!Discover(Refresher)
      BY <2>1, <1>3, <1>6
    <2>2. CASE OA!RefreshDiscovered
      BY <2>2, <1>4, <1>6 DEF OA!RefreshDiscovered
    <2>3. CASE UNCHANGED <<OA!metaVars, discovery>>
      BY <2>3, <1>5
    <2> QED BY <1>8, <2>1, <2>2, <2>3
            DEF OA!Refreshing, OA!RefreshStoredToken, OA!SendRefresh, OA!RefreshAnswered,
                OA!RefreshFails, OA!TokenExpires
  <1>9. \/ \E c \in Callers : OA!GetValidToken(c) \/ OA!StartRefresh(c) \/ OA!StopWaiting(c)
        \/ OA!Registered \/ OA!RegistrationFails \/ UNCHANGED OA!vars
        => UNCHANGED <<OA!metaVars, discovery>>
    BY DEF OA!GetValidToken, OA!StartRefresh, OA!StopWaiting, OA!Registered,
           OA!RegistrationFails, OA!vars
  <1> QED BY <1>1, <1>2, <1>5, <1>7, <1>8, <1>9 DEF OA!Next

\* The refresh, the registration and the credentials.
LEMMA RefreshTypesStep ==
  DiscoveryTypes /\ RefreshTypes /\ FlowTypes /\ [OA!Next]_OA!vars => RefreshTypes'
  <1> SUFFICES ASSUME DiscoveryTypes, RefreshTypes, FlowTypes, [OA!Next]_OA!vars
               PROVE  RefreshTypes'
    OBVIOUS
  <1> USE DEF RefreshTypes
  <1>0. serverMetadata \in OA!Metadata /\ flow \in [Flows -> AuthFlows]
    BY DEF DiscoveryTypes, FlowTypes
  <1>1. OA!NoRefresh \in Refreshes
    BY OAuthNothing DEF OA!NoRefresh, Refreshes
  <1>2. ASSUME OA!RefreshOver
        PROVE  refresh' \in Refreshes /\ call' \in [Callers -> {"idle", "expired", "waiting"}]
    BY <1>1, <1>2 DEF OA!RefreshOver
  <1>3. ASSUME NEW c \in Callers, OA!GetValidToken(c) \/ OA!StartRefresh(c) \/ OA!StopWaiting(c)
        PROVE  RefreshTypes'
    BY <1>3 DEF OA!GetValidToken, OA!StartRefresh, OA!StopWaiting, Refreshes
  <1>4. CASE OA!Refreshing
    <2>1. CASE OA!RefreshStoredToken
      BY <2>1, <1>2 DEF OA!RefreshStoredToken, Refreshes
    <2>2. CASE OA!RefreshDiscovered
      BY <2>2, <1>2, <1>0 DEF OA!RefreshDiscovered, Refreshes
    <2>3. CASE OA!SendRefresh
      <3>1. refresh.meta \in OA!Metadata
        BY DEF Refreshes
      <3>2. OA!Binding(refresh.meta) \in OA!Credentials
        BY <3>1, BindingTypes
      <3> QED BY <2>3, <3>2, <1>2 DEF OA!SendRefresh, Refreshes
    <2>4. CASE OA!RefreshAnswered
      <3>1. refresh.token \in OA!TokenRecord /\ refresh.meta \in OA!Metadata
        BY DEF Refreshes
      <3>2. issued' \in 0..MaxTokens /\ store' \in OA!TokenRecord
        <4>1. PICK rotates \in BOOLEAN :
                LET token == IF rotates THEN issued + 1 ELSE refresh.token.token IN
                /\ rotates => issued < MaxTokens
                /\ issued' = IF rotates THEN token ELSE issued
                /\ store' = store \/ store' = [good |-> TRUE, token |-> token,
                     by |-> refresh.meta.issuer, issuer |-> refresh.meta.issuer]
          BY <2>4 DEF OA!RefreshAnswered
        <4>2. \A n \in 0..MaxTokens :
                [good |-> TRUE, token |-> n, by |-> refresh.meta.issuer,
                 issuer |-> refresh.meta.issuer] \in OA!TokenRecord
          BY <3>1 DEF OA!TokenRecord, OA!Metadata
        <4>3. CASE rotates
          <5>1. issued + 1 \in 0..MaxTokens
            BY <4>1, <4>3, OAuthAssumption DEF OAuthAssumption
          <5> QED BY <4>1, <4>2, <4>3, <5>1
        <4>4. CASE ~rotates
          <5>1. refresh.token.token \in 0..MaxTokens
            BY <3>1 DEF OA!TokenRecord
          <5> QED BY <4>1, <4>2, <4>4, <5>1
        <4> QED BY <4>3, <4>4
      <3>3. UNCHANGED <<credentials, registration>>
        BY <2>4 DEF OA!RefreshAnswered
      <3>4. refresh' \in Refreshes /\ call' \in [Callers -> {"idle", "expired", "waiting"}]
        BY <2>4, <1>2 DEF OA!RefreshAnswered
      <3> QED BY <3>2, <3>3, <3>4
    <2>5. CASE OA!RefreshFails
      BY <2>5, <1>2 DEF OA!RefreshFails
    <2>6. CASE OA!TokenExpires
      BY <2>6 DEF OA!TokenExpires, OA!TokenRecord
    <2> QED BY <1>4, <2>1, <2>2, <2>3, <2>4, <2>5, <2>6 DEF OA!Refreshing
  <1>5. CASE OA!Registered
    BY <1>5, OAuthNothing
       DEF OA!Registered, OA!RegistrationOver, OA!NoRegistration, OA!Metadata,
           OA!Credentials, OA!Clients, OA!IssuerOrNone
  <1>6. CASE OA!RegistrationFails
    BY <1>6, OAuthNothing DEF OA!RegistrationFails, OA!RegistrationOver, OA!NoRegistration
  <1>7. ASSUME NEW f \in Flows, OA!Flowing(f) PROVE RefreshTypes'
    <2>0. flow[f] \in AuthFlows /\ flow[f].meta \in OA!Metadata
      BY <1>0 DEF AuthFlows
    <2>1. CASE OA!Register(f)
      <3>1. UNCHANGED <<store, refresh, call, issued>>
        BY <2>1 DEF OA!Register
      <3>2. \/ UNCHANGED <<credentials, registration>>
            \/ \E cred \in {credentials, [credentials EXCEPT !.client = None,
                                                           !.version = credentials.version + 1]} :
                 /\ credentials' = cred
                 /\ registration' = [pc |-> "sent", meta |-> flow[f].meta, version |-> cred.version]
        BY <2>1 DEF OA!Register
      <3>3. [credentials EXCEPT !.client = None, !.version = credentials.version + 1]
              \in OA!Credentials
        <4>1. credentials.version + 1 \in Nat /\ None \in OA!Clients
          BY DEF OA!Credentials, OA!Clients
        <4> QED BY <4>1 DEF OA!Credentials
      <3>4. credentials' \in OA!Credentials
        BY <3>2, <3>3
      <3>5. registration' \in [pc : {"none", "sent"}, meta : OA!Metadata, version : Nat]
        <4>1. \A cred \in OA!Credentials : cred.version \in Nat
          BY DEF OA!Credentials
        <4> QED BY <3>2, <3>3, <2>0, <4>1
      <3> QED BY <3>1, <3>4, <3>5
    <2>2. CASE OA!BindURL(f) \/ OA!ExchangeCode(f)
      <3>1. OA!Binding(flow[f].meta) \in OA!Credentials
        BY <2>0, BindingTypes
      <3> QED BY <2>2, <3>1 DEF OA!BindURL, OA!ExchangeCode
    <2>3. CASE OA!Exchanged(f)
      <3>1. flow[f].trans \in OA!Transactions
        BY <2>0 DEF AuthFlows
      <3> QED BY <2>3, <2>0, <3>1, OAuthAssumption
              DEF OAuthAssumption, OA!Exchanged, OA!TokenRecord, OA!Metadata, OA!Transactions
    <2>4. CASE UNCHANGED <<credentials, store, refresh, registration, call, issued>>
      BY <2>4
    <2> QED BY <1>7, <2>1, <2>2, <2>3, <2>4
            DEF OA!Flowing, OA!RegisterClient, OA!GetAuthorizationURL, OA!Callback,
                OA!FlowDiscovered, OA!PublishURL, OA!GivesUp
  <1>8. CASE UNCHANGED <<credentials, store, refresh, registration, call, issued>>
    BY <1>8
  <1>9. \/ \E p \in OA!Procs : OA!FetchEnds(p) \/ OA!AwaitEnds(p)
        \/ OA!SetProtectedResourceMetadataURL \/ UNCHANGED OA!vars
        => UNCHANGED <<credentials, store, refresh, registration, call, issued>>
    BY DEF OA!FetchEnds, OA!AwaitEnds, OA!SetProtectedResourceMetadataURL, OA!vars
  <1> QED BY <1>3, <1>4, <1>5, <1>6, <1>7, <1>8, <1>9 DEF OA!Next

\* The flows.
LEMMA FlowTypesStep ==
  DiscoveryTypes /\ RefreshTypes /\ FlowTypes /\ MetaInv /\ [OA!Next]_OA!vars => FlowTypes'
  <1> SUFFICES ASSUME DiscoveryTypes, RefreshTypes, FlowTypes, MetaInv, [OA!Next]_OA!vars
               PROVE  FlowTypes'
    OBVIOUS
  <1> USE DEF FlowTypes
  <1>0. serverMetadata \in OA!Metadata /\ credentials \in OA!Credentials
    BY DEF DiscoveryTypes, RefreshTypes
  <1>1. OA!FlowIdle \in AuthFlows /\ OA!FlowIdle.cred \in OA!Credentials
    BY OAuthNothing DEF OA!FlowIdle, AuthFlows
  <1>2. ASSUME NEW f \in Flows, OA!Flowing(f) PROVE FlowTypes'
    <2>0. /\ flow[f] \in AuthFlows /\ flow[f].meta \in OA!Metadata
          /\ OA!Binding(flow[f].meta) \in OA!Credentials
      BY <1>0, BindingTypes DEF AuthFlows
    <2>a. ASSUME NEW q \in AuthFlows, flow' = [flow EXCEPT ![f] = q],
                 UNCHANGED <<expectedState, authorizationTransaction, urls, codeSends>>
          PROVE  FlowTypes'
      BY <2>a
    <2>1. CASE OA!RegisterClient(f) \/ OA!GetAuthorizationURL(f)
      <3>1. \A op \in {"register", "url"} :
              [OA!FlowIdle EXCEPT !.pc = "discovering", !.op = op] \in AuthFlows
        BY <1>1 DEF AuthFlows
      <3>2. UNCHANGED <<expectedState, authorizationTransaction, urls, codeSends>>
        BY <2>1 DEF OA!RegisterClient, OA!GetAuthorizationURL
      <3>3. \E op \in {"register", "url"} :
              flow' = [flow EXCEPT ![f] = [OA!FlowIdle EXCEPT !.pc = "discovering", !.op = op]]
        BY <2>1 DEF OA!RegisterClient, OA!GetAuthorizationURL
      <3> QED BY <2>a, <3>1, <3>2, <3>3
    <2>2. CASE OA!Callback(f)
      <3>1. [OA!FlowIdle EXCEPT !.pc = "discovering", !.op = "code",
                                !.trans = authorizationTransaction] \in AuthFlows
        BY <1>1 DEF AuthFlows
      <3>2. /\ flow' = [flow EXCEPT ![f] = [OA!FlowIdle EXCEPT
                    !.pc = "discovering", !.op = "code", !.trans = authorizationTransaction]]
            /\ expectedState' = 0 /\ authorizationTransaction' = OA!NoTransaction
            /\ UNCHANGED <<urls, codeSends>>
        BY <2>2 DEF OA!Callback
      <3>3. flow' \in [Flows -> AuthFlows]
        BY <3>1, <3>2
      <3> QED BY <3>2, <3>3, OAuthNothing, OAuthAssumption DEF OAuthAssumption
    <2>3. CASE OA!FlowDiscovered(f)
      <3>1. \A at \in {"register", "bind"} :
              [flow[f] EXCEPT !.meta = serverMetadata, !.pc = at] \in AuthFlows
        BY <2>0, <1>0 DEF AuthFlows
      <3>2. \/ flow' = [flow EXCEPT ![f] = OA!FlowIdle]
            \/ \E at \in {"register", "bind"} :
                 flow' = [flow EXCEPT ![f] = [flow[f] EXCEPT !.meta = serverMetadata, !.pc = at]]
        BY <2>3 DEF OA!FlowDiscovered
      <3>3. UNCHANGED <<expectedState, authorizationTransaction, urls, codeSends>>
        BY <2>3 DEF OA!FlowDiscovered
      <3> QED BY <2>a, <1>1, <3>1, <3>2, <3>3
    <2>4. CASE OA!Register(f)
      <3>1. \A at \in {"bind", "joined"} : [flow[f] EXCEPT !.pc = at] \in AuthFlows
        BY <2>0 DEF AuthFlows
      <3>2. \/ flow' = [flow EXCEPT ![f] = OA!FlowIdle]
            \/ \E at \in {"bind", "joined"} :
                 flow' = [flow EXCEPT ![f] = [flow[f] EXCEPT !.pc = at]]
        BY <2>4 DEF OA!Register
      <3>3. UNCHANGED <<expectedState, authorizationTransaction, urls, codeSends>>
        BY <2>4 DEF OA!Register
      <3> QED BY <2>a, <1>1, <3>1, <3>2, <3>3
    <2>5. CASE OA!BindURL(f)
      <3>1. [flow[f] EXCEPT !.pc = "publish", !.cred = OA!Binding(flow[f].meta)] \in AuthFlows
        BY <2>0 DEF AuthFlows
      <3>2. flow' \in [Flows -> AuthFlows]
        BY <2>5, <1>1, <3>1 DEF OA!BindURL
      <3> QED BY <2>5, <3>2 DEF OA!BindURL
    <2>6. CASE OA!PublishURL(f)
      <3>1. flow' \in [Flows -> AuthFlows] /\ codeSends' = codeSends
        BY <2>6, <1>1 DEF OA!PublishURL
      <3>2. flow[f].meta.issuer \in Issuers /\ flow[f].cred.client \in OA!Clients
        BY <2>6, <2>0 DEF OA!PublishURL, MetaInv, AuthFlows, OA!Credentials
      <3>3. /\ Append(urls, flow[f].meta.issuer) \in Seq(Issuers)
            /\ Len(Append(urls, flow[f].meta.issuer)) = Len(urls) + 1
        BY <3>2, AppendProperties
      <3>4. CASE OA!StillBound(flow[f].meta, flow[f].cred)
        <4>1. /\ Len(urls) + 1 \in 0..MaxURLs /\ urls' = Append(urls, flow[f].meta.issuer)
              /\ expectedState' = Len(urls) + 1
              /\ authorizationTransaction' = [state |-> Len(urls) + 1,
                   issuer |-> flow[f].meta.issuer, client |-> flow[f].cred.client]
          BY <2>6, <3>4, OAuthAssumption DEF OAuthAssumption, OA!PublishURL
        <4>2. authorizationTransaction' \in OA!Transactions
          BY <4>1, <3>2 DEF OA!Transactions, OA!IssuerOrNone
        <4> QED BY <3>1, <3>3, <4>1, <4>2
      <3>5. CASE ~OA!StillBound(flow[f].meta, flow[f].cred)
        BY <2>6, <3>1, <3>5 DEF OA!PublishURL
      <3> QED BY <3>4, <3>5
    <2>7. CASE OA!ExchangeCode(f)
      <3>1. [flow[f] EXCEPT !.pc = "exchanging", !.cred = OA!Binding(flow[f].meta)] \in AuthFlows
        BY <2>0 DEF AuthFlows
      <3>2. flow' \in [Flows -> AuthFlows]
        BY <2>7, <1>1, <3>1 DEF OA!ExchangeCode
      <3>3. codeSends' \in [OA!URLs -> Nat]
        BY <2>7 DEF OA!ExchangeCode
      <3> QED BY <2>7, <3>2, <3>3 DEF OA!ExchangeCode
    <2>8. CASE OA!Exchanged(f) \/ OA!GivesUp(f)
      BY <2>8, <1>1 DEF OA!Exchanged, OA!GivesUp
    <2> QED BY <1>2, <2>1, <2>2, <2>3, <2>4, <2>5, <2>6, <2>7, <2>8 DEF OA!Flowing
  <1>3. CASE OA!Registered \/ OA!RegistrationFails
    <2>1. PICK ok : OA!RegistrationOver(ok)
      <3>1. CASE OA!Registered
        BY <3>1 DEF OA!Registered
      <3>2. CASE OA!RegistrationFails
        BY <3>2 DEF OA!RegistrationFails
      <3> QED BY <1>3, <3>1, <3>2
    <2>2. UNCHANGED <<expectedState, authorizationTransaction, urls, codeSends>>
      BY <1>3 DEF OA!Registered, OA!RegistrationFails
    <2>3. \A f \in Flows :
            flow'[f] \in {flow[f], [flow[f] EXCEPT !.pc = "register"],
                          [flow[f] EXCEPT !.pc = "bind"], OA!FlowIdle}
      BY <2>1 DEF OA!RegistrationOver
    <2>4. \A f \in Flows, at \in {"register", "bind"} :
            flow[f] \in AuthFlows /\ [flow[f] EXCEPT !.pc = at] \in AuthFlows
      BY DEF AuthFlows
    <2>5. flow' \in [Flows -> AuthFlows]
      <3>1. \A f \in Flows : flow'[f] \in AuthFlows
        BY <2>3, <2>4, <1>1
      <3> QED BY <2>1, <3>1 DEF OA!RegistrationOver
    <2> QED BY <2>2, <2>5
  <1>4. CASE UNCHANGED OA!flowVars
    BY <1>4 DEF OA!flowVars
  <1>5. \/ \E f \in Flows : OA!Flowing(f)
        \/ OA!Registered \/ OA!RegistrationFails \/ UNCHANGED OA!flowVars
    BY DEF OA!Next, OA!FetchEnds, OA!AwaitEnds, OA!SetProtectedResourceMetadataURL,
           OA!GetValidToken, OA!StartRefresh, OA!StopWaiting, OA!Refreshing,
           OA!RefreshStoredToken, OA!RefreshDiscovered, OA!SendRefresh, OA!RefreshAnswered,
           OA!RefreshFails, OA!TokenExpires, OA!vars
  <1> QED BY <1>2, <1>3, <1>4, <1>5

\* A client goes to its own issuer.
CredInv ==
  /\ OA!Belongs(credentials.client, credentials.issuer)
  /\ refresh.pc = "sent" => OA!Belongs(refresh.cred.client, refresh.meta.issuer)
  /\ \A f \in Flows :
       flow[f].pc = "publish" => OA!Belongs(flow[f].cred.client, flow[f].meta.issuer)

\* The client the application gave is sent to the issuer it is bound to, as long
\* as it is there, and to nobody once it is not.
PresetInv ==
  /\ credentials.client = "preset" => presetSentTo \subseteq {credentials.issuer}
  /\ presetSentTo \subseteq Issuers
  /\ \E i \in OA!IssuerOrNone : presetSentTo \subseteq {i}

\* The discovery of whoever takes a step is over, and so is what it found.
LEMMA MetaInvStep == OAuthTypes /\ MetaInv /\ [OA!Next]_OA!vars => MetaInv'
  <1> SUFFICES ASSUME OAuthTypes, MetaInv, [OA!Next]_OA!vars PROVE MetaInv'
    OBVIOUS
  <1>0. /\ refresh \in Refreshes
        /\ registration \in [pc : {"none", "sent"}, meta : OA!Metadata, version : Nat]
        /\ flow \in [Flows -> AuthFlows]
    BY DEF OAuthTypes, RefreshTypes, FlowTypes
  <1>1. serverMetadata' = OA!NoMetadata \/ serverMetadata'.issuer \in Issuers
    <2>1. \/ UNCHANGED serverMetadata \/ serverMetadata' = OA!NoMetadata
          \/ \E i \in Issuers : serverMetadata' = [id |-> metadataOnce.id, issuer |-> i]
      BY DEF OA!Next, OA!FetchEnds, OA!AwaitEnds, OA!SetProtectedResourceMetadataURL, OA!metaVars,
             OA!GetValidToken, OA!StartRefresh, OA!StopWaiting, OA!Refreshing,
             OA!RefreshStoredToken, OA!RefreshDiscovered, OA!SendRefresh, OA!RefreshAnswered,
             OA!RefreshFails, OA!TokenExpires, OA!Registered, OA!RegistrationFails, OA!Flowing,
             OA!RegisterClient, OA!GetAuthorizationURL, OA!Callback, OA!FlowDiscovered, OA!Register,
             OA!BindURL, OA!PublishURL, OA!ExchangeCode, OA!Exchanged, OA!GivesUp, OA!Discover,
             OA!vars
    <2> QED BY <2>1 DEF MetaInv
  <1>2. refresh'.pc \in {"bind", "sent"} => refresh'.meta.issuer \in Issuers
    <2>1. \/ UNCHANGED refresh \/ refresh' = OA!NoRefresh
          \/ \E at \in {"started", "discovering"}, token \in {refresh.token, store} :
               refresh' = [refresh EXCEPT !.pc = at, !.token = token]
          \/ /\ refresh' = [refresh EXCEPT !.pc = "bind", !.meta = serverMetadata]
             /\ OA!Discovered(Refresher)
          \/ /\ refresh' = [refresh EXCEPT !.pc = "sent", !.cred = OA!Binding(refresh.meta)]
             /\ refresh.pc = "bind"
      <3>1. refresh.pc = "none" => [refresh EXCEPT !.pc = "started"] =
              [refresh EXCEPT !.pc = "started", !.token = refresh.token]
        BY <1>0 DEF Refreshes
      <3>2. ASSUME NEW c \in Callers, OA!StartRefresh(c)
            PROVE  \/ UNCHANGED refresh
                   \/ refresh' = [refresh EXCEPT !.pc = "started", !.token = refresh.token]
        BY <3>1, <3>2, <1>0 DEF OA!StartRefresh, Refreshes
      <3>3. CASE OA!Refreshing
        BY <3>3 DEF OA!Refreshing, OA!RefreshStoredToken, OA!RefreshDiscovered, OA!SendRefresh,
             OA!RefreshAnswered, OA!RefreshFails, OA!TokenExpires, OA!RefreshOver
      <3>4. \/ \E c \in Callers : OA!StartRefresh(c)
            \/ OA!Refreshing \/ UNCHANGED refresh
        BY DEF OA!Next, OA!FetchEnds, OA!AwaitEnds, OA!SetProtectedResourceMetadataURL,
             OA!GetValidToken, OA!StopWaiting, OA!Registered, OA!RegistrationFails, OA!Flowing,
             OA!RegisterClient, OA!GetAuthorizationURL, OA!Callback, OA!FlowDiscovered, OA!Register,
             OA!BindURL, OA!PublishURL, OA!ExchangeCode, OA!Exchanged, OA!GivesUp, OA!vars
      <3> QED BY <3>2, <3>3, <3>4
    <2>2. OA!Discovered(Refresher) => serverMetadata.issuer \in Issuers
      BY DEF OA!Discovered, MetaInv
    <2>3. ASSUME NEW at \in {"started", "discovering"}, NEW token \in {refresh.token, store},
                 refresh' = [refresh EXCEPT !.pc = at, !.token = token]
          PROVE  <1>2
      <3>1. refresh'.pc = at
        BY <2>3, <1>0 DEF Refreshes
      <3> QED BY <3>1
    <2>4. CASE /\ refresh' = [refresh EXCEPT !.pc = "bind", !.meta = serverMetadata]
               /\ OA!Discovered(Refresher)
      BY <2>4, <2>2, <1>0 DEF Refreshes, MetaInv
    <2>5. CASE /\ refresh' = [refresh EXCEPT !.pc = "sent", !.cred = OA!Binding(refresh.meta)]
               /\ refresh.pc = "bind"
      BY <2>5, <1>0 DEF Refreshes, MetaInv
    <2>6. CASE UNCHANGED refresh \/ refresh' = OA!NoRefresh
      BY <2>6 DEF MetaInv, OA!NoRefresh
    <2> QED BY <2>1, <2>3, <2>4, <2>5, <2>6
  <1> DEFINE Flying ==
        /\ registration.pc = "sent" => registration.meta.issuer \in Issuers
        /\ \A f \in Flows :
             flow[f].pc \in {"register", "joined", "bind", "publish", "exchanging"}
               => flow[f].meta.issuer \in Issuers
  <1>3. Flying'
    <2>1. ASSUME NEW f \in Flows, OA!Flowing(f) PROVE Flying'
      <3>1. CASE OA!Register(f)
        BY <3>1, <1>0 DEF OA!Register, MetaInv, AuthFlows, OA!FlowIdle
      <3>2. CASE OA!RegisterClient(f) \/ OA!GetAuthorizationURL(f) \/ OA!Callback(f)
        <4>1. flow'[f].pc = "discovering"
          BY <3>2, <1>0 DEF OA!RegisterClient, OA!GetAuthorizationURL, OA!Callback, OA!FlowIdle
        <4>2. UNCHANGED registration /\ \A g \in Flows \ {f} : flow'[g] = flow[g]
          BY <3>2, <1>0 DEF OA!RegisterClient, OA!GetAuthorizationURL, OA!Callback
        <4> QED BY <4>1, <4>2 DEF MetaInv
      <3>3. CASE OA!FlowDiscovered(f)
        BY <3>3, <1>0 DEF OA!FlowDiscovered, OA!Discovered, MetaInv, AuthFlows, OA!FlowIdle
      <3>4. CASE OA!BindURL(f) \/ OA!ExchangeCode(f)
        BY <3>4, <1>0 DEF OA!BindURL, OA!ExchangeCode, MetaInv, AuthFlows, OA!FlowIdle
      <3>5. CASE OA!PublishURL(f) \/ OA!Exchanged(f) \/ OA!GivesUp(f)
        BY <3>5, <1>0 DEF OA!PublishURL, OA!Exchanged, OA!GivesUp, MetaInv, AuthFlows, OA!FlowIdle
      <3> QED BY <2>1, <3>1, <3>2, <3>3, <3>4, <3>5 DEF OA!Flowing
    <2>2. CASE OA!Registered \/ OA!RegistrationFails
      BY <2>2, <1>0 DEF OA!Registered, OA!RegistrationFails, OA!RegistrationOver,
                        OA!NoRegistration, OA!FlowIdle, MetaInv, AuthFlows
    <2>3. CASE UNCHANGED <<registration, flow>>
      BY <2>3 DEF MetaInv
    <2>4. \/ \E f \in Flows : OA!Flowing(f)
          \/ OA!Registered \/ OA!RegistrationFails \/ UNCHANGED <<registration, flow>>
      BY DEF OA!Next, OA!FetchEnds, OA!AwaitEnds, OA!SetProtectedResourceMetadataURL,
             OA!GetValidToken, OA!StartRefresh, OA!StopWaiting, OA!Refreshing,
             OA!RefreshStoredToken, OA!RefreshDiscovered, OA!SendRefresh, OA!RefreshAnswered,
             OA!RefreshFails, OA!TokenExpires, OA!vars, OA!flowVars
    <2> QED BY <2>1, <2>2, <2>3, <2>4
  <1> QED BY <1>1, <1>2, <1>3 DEF MetaInv

LEMMA CredInvStep == OAuthTypes /\ MetaInv /\ CredInv /\ [OA!Next]_OA!vars => CredInv'
  <1> SUFFICES ASSUME OAuthTypes, MetaInv, CredInv, [OA!Next]_OA!vars PROVE CredInv'
    OBVIOUS
  <1>0. /\ credentials \in OA!Credentials /\ refresh \in Refreshes
        /\ registration \in [pc : {"none", "sent"}, meta : OA!Metadata, version : Nat]
        /\ flow \in [Flows -> AuthFlows]
    BY DEF OAuthTypes, RefreshTypes, FlowTypes
  <1>1. ASSUME NEW meta \in OA!Metadata, OA!Bindable(meta), meta.issuer \in Issuers
        PROVE  /\ OA!Belongs(OA!Binding(meta).client, meta.issuer)
               /\ OA!Binding(meta).issuer = meta.issuer
    <2>1. /\ OA!Binding(meta).client = credentials.client
          /\ OA!Binding(meta).issuer = meta.issuer
      BY <1>0, <1>1, BindingTypes
    <2>2. credentials.issuer = None => credentials.client \notin Issuers
      BY OAuthAssumption DEF OAuthAssumption, CredInv, OA!Belongs
    <2> QED BY <2>1, <2>2, <1>1 DEF CredInv, OA!Belongs, OA!Bindable
  <1>2. CASE OA!SendRefresh
    <2>1. refresh.meta \in OA!Metadata /\ refresh.pc = "bind" /\ refresh.meta.issuer \in Issuers
      BY <1>0, <1>2 DEF OA!SendRefresh, Refreshes, MetaInv
    <2>2. UNCHANGED flow
      BY <1>2 DEF OA!SendRefresh, OA!flowVars
    <2>3. CASE OA!Bindable(refresh.meta)
      <3>1. /\ credentials' = OA!Binding(refresh.meta)
            /\ refresh'.cred = OA!Binding(refresh.meta) /\ refresh'.meta = refresh.meta
        BY <1>2, <2>3, <1>0 DEF OA!SendRefresh, Refreshes
      <3> QED BY <3>1, <2>1, <2>2, <2>3, <1>1 DEF CredInv
    <2>4. CASE ~OA!Bindable(refresh.meta)
      BY <1>2, <2>4, <2>2 DEF OA!SendRefresh, OA!RefreshOver, OA!NoRefresh, CredInv
    <2> QED BY <2>3, <2>4
  <1>3. CASE OA!Refreshing /\ ~OA!SendRefresh
    <2>1. refresh'.pc = "sent" => UNCHANGED refresh
      <3>1. OA!RefreshOver => refresh'.pc = "none"
        BY DEF OA!RefreshOver, OA!NoRefresh
      <3>2. CASE OA!RefreshStoredToken
        BY <3>1, <3>2, <1>0 DEF OA!RefreshStoredToken, Refreshes
      <3>3. CASE OA!RefreshDiscovered
        BY <3>1, <3>3, <1>0 DEF OA!RefreshDiscovered, Refreshes
      <3>4. CASE OA!RefreshAnswered \/ OA!RefreshFails \/ OA!TokenExpires
        BY <3>1, <3>4 DEF OA!RefreshAnswered, OA!RefreshFails, OA!TokenExpires
      <3> QED BY <1>3, <3>2, <3>3, <3>4 DEF OA!Refreshing
    <2>2. UNCHANGED <<credentials, flow>>
      BY <1>3 DEF OA!Refreshing, OA!RefreshStoredToken, OA!RefreshDiscovered,
           OA!RefreshAnswered, OA!RefreshFails, OA!TokenExpires, OA!flowVars
    <2> QED BY <2>1, <2>2 DEF CredInv
  <1>4. CASE OA!Registered \/ OA!RegistrationFails
    <2>1. /\ UNCHANGED refresh
          /\ \A f \in Flows : flow'[f].pc = "publish" => flow'[f] = flow[f]
      BY <1>4, <1>0 DEF OA!Registered, OA!RegistrationFails, OA!RegistrationOver, OA!FlowIdle,
                        AuthFlows
    <2>2. OA!Belongs(credentials'.client, credentials'.issuer)
      <3>1. \/ credentials' = credentials
            \/ credentials' = [client |-> registration.meta.issuer,
                               issuer |-> registration.meta.issuer,
                               version |-> credentials.version + 1, dcr |-> TRUE]
        BY <1>4 DEF OA!Registered, OA!RegistrationFails
      <3> QED BY <3>1 DEF CredInv, OA!Belongs
    <2> QED BY <2>1, <2>2 DEF CredInv
  <1>5. ASSUME NEW f \in Flows, OA!Flowing(f) PROVE CredInv'
    <2>0. flow[f] \in AuthFlows /\ flow[f].meta \in OA!Metadata
      BY <1>0 DEF AuthFlows
    <2>1. UNCHANGED refresh /\ \A g \in Flows \ {f} : flow'[g] = flow[g]
      BY <1>5, <1>0 DEF OA!Flowing, OA!RegisterClient, OA!GetAuthorizationURL, OA!Callback,
           OA!FlowDiscovered, OA!Register, OA!BindURL, OA!PublishURL, OA!ExchangeCode,
           OA!Exchanged, OA!GivesUp
    <2>2. CASE OA!BindURL(f)
      <3>1. CASE OA!Bindable(flow[f].meta)
        <4>1. /\ credentials' = OA!Binding(flow[f].meta)
              /\ flow'[f].cred = OA!Binding(flow[f].meta) /\ flow'[f].meta = flow[f].meta
          BY <2>2, <3>1, <2>0, <1>0 DEF OA!BindURL, AuthFlows
        <4>2. flow[f].meta.issuer \in Issuers
          BY <2>2 DEF OA!BindURL, MetaInv
        <4> QED BY <4>1, <4>2, <3>1, <2>0, <2>1, <1>1 DEF CredInv
      <3>2. CASE ~OA!Bindable(flow[f].meta)
        BY <2>2, <3>2, <2>1, <1>0 DEF OA!BindURL, OA!FlowIdle, CredInv
      <3> QED BY <3>1, <3>2
    <2>3. CASE OA!ExchangeCode(f)
      <3>1. flow'[f].pc # "publish"
        BY <2>3, <2>0, <1>0 DEF OA!ExchangeCode, OA!FlowIdle, AuthFlows
      <3>2. flow[f].meta.issuer \in Issuers
        BY <2>3 DEF OA!ExchangeCode, MetaInv
      <3>3. \/ UNCHANGED credentials
            \/ credentials' = OA!Binding(flow[f].meta) /\ OA!Bindable(flow[f].meta)
        BY <2>3 DEF OA!ExchangeCode
      <3> QED BY <3>1, <3>2, <3>3, <2>0, <2>1, <1>1 DEF CredInv
    <2>4. CASE OA!Register(f)
      <3>1. flow'[f].pc # "publish"
        BY <2>4, <2>0, <1>0 DEF OA!Register, OA!FlowIdle, AuthFlows
      <3>2. credentials'.client \in {credentials.client, None} /\ credentials'.issuer = credentials.issuer
        BY <2>4, <1>0 DEF OA!Register, OA!Credentials
      <3> QED BY <3>1, <3>2, <2>1, OAuthAssumption DEF OAuthAssumption, CredInv, OA!Belongs
    <2>5. CASE /\ ~OA!BindURL(f) /\ ~OA!ExchangeCode(f) /\ ~OA!Register(f)
      <3>1. UNCHANGED credentials
        BY <1>5, <2>5 DEF OA!Flowing, OA!RegisterClient, OA!GetAuthorizationURL,
             OA!Callback, OA!FlowDiscovered, OA!PublishURL, OA!Exchanged, OA!GivesUp
      <3>2. CASE OA!RegisterClient(f) \/ OA!GetAuthorizationURL(f) \/ OA!Callback(f)
        <4>1. flow'[f].pc = "discovering"
          BY <3>2, <1>0 DEF OA!RegisterClient, OA!GetAuthorizationURL, OA!Callback, OA!FlowIdle
        <4> QED BY <4>1, <3>1, <2>1 DEF CredInv
      <3>3. CASE OA!FlowDiscovered(f) \/ OA!PublishURL(f) \/ OA!Exchanged(f) \/ OA!GivesUp(f)
        <4>1. CASE OA!FlowDiscovered(f)
          <5>1. flow'[f] = OA!FlowIdle
                  \/ \E at \in {"register", "bind"} :
                       flow'[f] = [flow[f] EXCEPT !.meta = serverMetadata, !.pc = at]
            BY <4>1, <1>0 DEF OA!FlowDiscovered
          <5>2. ASSUME NEW at \in {"register", "bind"},
                       flow'[f] = [flow[f] EXCEPT !.meta = serverMetadata, !.pc = at]
                PROVE  flow'[f].pc = at
            BY <5>2, <2>0 DEF AuthFlows
          <5>3. flow'[f] = OA!FlowIdle => flow'[f].pc = "idle"
            BY DEF OA!FlowIdle
          <5>4. flow'[f].pc # "publish"
            BY <5>1, <5>2, <5>3
          <5> QED BY <5>4, <3>1, <2>1 DEF CredInv
        <4>2. CASE OA!PublishURL(f) \/ OA!Exchanged(f) \/ OA!GivesUp(f)
          <5>1. flow'[f] = OA!FlowIdle
            BY <4>2, <1>0 DEF OA!PublishURL, OA!Exchanged, OA!GivesUp
          <5>2. flow'[f].pc # "publish"
            BY <5>1 DEF OA!FlowIdle
          <5> QED BY <5>2, <3>1, <2>1 DEF CredInv
        <4> QED BY <3>3, <4>1, <4>2
      <3> QED BY <1>5, <2>5, <3>2, <3>3 DEF OA!Flowing
    <2> QED BY <2>2, <2>3, <2>4, <2>5
  <1>6. ASSUME NEW c \in Callers, OA!StartRefresh(c) PROVE CredInv'
    <2>1. refresh'.pc = "sent" => UNCHANGED refresh
      BY <1>6, <1>0 DEF OA!StartRefresh, Refreshes
    <2>2. UNCHANGED <<credentials, flow>>
      BY <1>6 DEF OA!StartRefresh, OA!flowVars
    <2> QED BY <2>1, <2>2 DEF CredInv
  <1>7. CASE UNCHANGED <<credentials, refresh, flow>>
    BY <1>7 DEF CredInv
  <1>8. \/ OA!Refreshing \/ OA!Registered \/ OA!RegistrationFails
        \/ \E f \in Flows : OA!Flowing(f)
        \/ \E c \in Callers : OA!StartRefresh(c)
        \/ UNCHANGED <<credentials, refresh, flow>>
    BY DEF OA!Next, OA!FetchEnds, OA!AwaitEnds, OA!SetProtectedResourceMetadataURL,
           OA!GetValidToken, OA!StopWaiting, OA!vars, OA!flowVars
  <1> QED BY <1>2, <1>3, <1>4, <1>5, <1>6, <1>7, <1>8

\* What a goroutine was sent is checked in the step that sends it.
LEMMA PresetInvStep ==
  ASSUME OAuthTypes, MetaInv, CredInv, PresetInv, [OA!Next]_OA!vars,
         \A f \in Flows : flow[f].pc = "bind" /\ flow[f].op = "code"
                            => flow[f].trans.issuer = flow[f].meta.issuer
  PROVE  PresetInv'
  <1>0. /\ credentials \in OA!Credentials /\ refresh \in Refreshes
        /\ registration \in [pc : {"none", "sent"}, meta : OA!Metadata, version : Nat]
        /\ flow \in [Flows -> AuthFlows]
    BY DEF OAuthTypes, RefreshTypes, FlowTypes
  \* What is sent is sent with credentials bound to the issuer it goes to.
  <1>1. ASSUME NEW meta \in OA!Metadata, OA!Bindable(meta), meta.issuer \in Issuers,
               credentials' = OA!Binding(meta),
               \/ UNCHANGED presetSentTo \/ OA!SentTo(credentials.client, meta.issuer)
        PROVE  PresetInv'
    <2>1. credentials'.client = credentials.client /\ credentials'.issuer = meta.issuer
      BY <1>0, <1>1, BindingTypes
    <2>2. CASE credentials.client = "preset"
      <3>1. presetSentTo \subseteq {meta.issuer}
        <4>1. CASE credentials.issuer = meta.issuer
          BY <4>1, <2>2 DEF PresetInv
        <4>2. CASE credentials.issuer = None
          <5>1. presetSentTo \subseteq {None} /\ presetSentTo \subseteq Issuers
            BY <4>2, <2>2 DEF PresetInv
          <5> QED BY <5>1, OAuthAssumption DEF OAuthAssumption
        <4> QED BY <4>1, <4>2, <1>1 DEF OA!Bindable
      <3>2. presetSentTo' \subseteq {meta.issuer}
        BY <3>1, <1>1 DEF OA!SentTo
      <3> QED BY <3>2, <2>1, <1>1 DEF PresetInv, OA!IssuerOrNone
    <2>3. CASE credentials.client # "preset"
      BY <2>1, <2>3, <1>1 DEF PresetInv, OA!SentTo
    <2> QED BY <2>2, <2>3
  <1>2. CASE UNCHANGED presetSentTo
             /\ \/ UNCHANGED credentials
                \/ credentials'.client # "preset"
                \/ /\ credentials'.client = credentials.client
                   /\ credentials'.issuer = credentials.issuer
    BY <1>2 DEF PresetInv
  <1>3. CASE OA!SendRefresh
    <2>1. refresh.meta \in OA!Metadata /\ refresh.meta.issuer \in Issuers
      BY <1>0, <1>3 DEF OA!SendRefresh, Refreshes, MetaInv
    <2> QED BY <1>1, <1>2, <1>3, <2>1 DEF OA!SendRefresh
  <1>4. CASE OA!Registered \/ OA!RegistrationFails
    <2>1. registration.meta.issuer # "preset"
      BY <1>4, OAuthAssumption
         DEF OAuthAssumption, OA!Registered, OA!RegistrationFails, MetaInv
    <2>2. UNCHANGED presetSentTo
      BY <1>4 DEF OA!Registered, OA!RegistrationFails
    <2>3. \/ credentials' = credentials
          \/ credentials' = [client |-> registration.meta.issuer,
                             issuer |-> registration.meta.issuer,
                             version |-> credentials.version + 1, dcr |-> TRUE]
      BY <1>4 DEF OA!Registered, OA!RegistrationFails
    <2> QED BY <2>1, <2>2, <2>3, <1>2
  <1>5. ASSUME NEW f \in Flows, OA!Flowing(f) PROVE PresetInv'
    <2>0. flow[f] \in AuthFlows /\ flow[f].meta \in OA!Metadata
      BY <1>0 DEF AuthFlows
    <2>1. CASE OA!BindURL(f)
      <3>1. flow[f].meta.issuer \in Issuers
        BY <2>1 DEF OA!BindURL, MetaInv
      <3> QED BY <2>0, <2>1, <3>1, <1>1, <1>2 DEF OA!BindURL
    <2>2. CASE OA!ExchangeCode(f)
      <3>1. flow[f].meta.issuer \in Issuers /\ flow[f].trans.issuer = flow[f].meta.issuer
        BY <2>2 DEF OA!ExchangeCode, MetaInv
      <3>2. \/ UNCHANGED <<credentials, presetSentTo>>
            \/ /\ OA!Bindable(flow[f].meta) /\ credentials' = OA!Binding(flow[f].meta)
               /\ \/ UNCHANGED presetSentTo
                  \/ /\ flow[f].trans.client = credentials.client
                     /\ OA!SentTo(flow[f].trans.client, flow[f].trans.issuer)
        BY <2>2 DEF OA!ExchangeCode
      <3> QED BY <2>0, <3>1, <3>2, <1>1, <1>2
    <2>3. CASE OA!Register(f)
      <3>1. UNCHANGED presetSentTo
        BY <2>3 DEF OA!Register
      <3>2. credentials'.client \in {credentials.client, None} /\ credentials'.issuer = credentials.issuer
        BY <2>3, <1>0 DEF OA!Register, OA!Credentials
      <3>3. None # "preset"
        BY OAuthAssumption DEF OAuthAssumption
      <3> QED BY <3>1, <3>2, <3>3, <1>2
    <2>4. CASE UNCHANGED <<credentials, presetSentTo>>
      BY <2>4, <1>2
    <2> QED BY <1>5, <2>1, <2>2, <2>3, <2>4
            DEF OA!Flowing, OA!RegisterClient, OA!GetAuthorizationURL, OA!Callback,
                OA!FlowDiscovered, OA!PublishURL, OA!Exchanged, OA!GivesUp
  <1>6. \/ OA!SendRefresh \/ OA!Registered \/ OA!RegistrationFails
        \/ \E f \in Flows : OA!Flowing(f)
        \/ UNCHANGED <<credentials, presetSentTo>>
    BY DEF OA!Next, OA!FetchEnds, OA!AwaitEnds, OA!SetProtectedResourceMetadataURL,
           OA!GetValidToken, OA!StartRefresh, OA!StopWaiting, OA!Refreshing,
           OA!RefreshStoredToken, OA!RefreshDiscovered, OA!RefreshAnswered,
           OA!RefreshFails, OA!TokenExpires, OA!vars
  <1> QED BY <1>2, <1>3, <1>4, <1>5, <1>6

\* A refresh token that is in the store, or about to be sent, has not been used
\* up, was issued, and is with the issuer it came from.
TokenInv ==
  /\ store.by = store.issuer /\ store.token <= issued /\ store.token \notin replaced
  /\ replaced \subseteq 1..issued
  /\ store = OA!NoToken \/ store.token # 0
  /\ refresh.pc # "none" \/ (\E c \in Callers : call[c] # "idle") => store.token # 0
  /\ refresh.pc \in {"discovering", "bind", "sent"} =>
       /\ refresh.token.by = refresh.token.issuer
       /\ refresh.token.token \in 1..issued /\ refresh.token.token \notin replaced
  /\ refresh.pc \in {"bind", "sent"} => refresh.token.issuer = refresh.meta.issuer

LEMMA TokenInvStep ==
  ASSUME OAuthTypes, MetaInv, TokenInv, [OA!Next]_OA!vars,
         \A f \in Flows : flow[f].pc = "exchanging" => flow[f].trans.issuer = flow[f].meta.issuer
  PROVE  TokenInv'
  <1> DEFINE Stored == /\ store.by = store.issuer /\ store.token <= issued
                       /\ store.token \notin replaced /\ replaced \subseteq 1..issued
                       /\ store = OA!NoToken \/ store.token # 0
             Wanted == refresh.pc # "none" \/ (\E c \in Callers : call[c] # "idle")
                         => store.token # 0
             Sent == /\ refresh.pc \in {"discovering", "bind", "sent"} =>
                          /\ refresh.token.by = refresh.token.issuer
                          /\ refresh.token.token \in 1..issued
                          /\ refresh.token.token \notin replaced
                     /\ refresh.pc \in {"bind", "sent"} =>
                          refresh.token.issuer = refresh.meta.issuer
  <1>0. /\ store \in OA!TokenRecord /\ refresh \in Refreshes /\ issued \in 0..MaxTokens
        /\ call \in [Callers -> {"idle", "expired", "waiting"}] /\ flow \in [Flows -> AuthFlows]
    BY DEF OAuthTypes, RefreshTypes, FlowTypes
  <1>a. issued \in Nat /\ store.token \in Nat /\ refresh.token \in OA!TokenRecord
        /\ refresh.token.token \in Nat
    BY <1>0, OAuthAssumption DEF OAuthAssumption, OA!TokenRecord, Refreshes
  <1>b. Stored /\ Wanted /\ Sent
    BY DEF TokenInv
  <1>c. ASSUME Stored', Wanted', Sent' PROVE TokenInv'
    BY <1>c DEF TokenInv
  <1>1. CASE OA!RefreshStoredToken
    <2>1. UNCHANGED <<store, issued, replaced>>
      BY <1>1 DEF OA!RefreshStoredToken
    <2>2. Wanted'
      <3>1. store.token # 0
        BY <1>1, <1>b DEF OA!RefreshStoredToken
      <3> QED BY <2>1, <3>1
    <2>3. Sent'
      <3>1. CASE store.good
        BY <1>1, <3>1 DEF OA!RefreshStoredToken, OA!RefreshOver, OA!NoRefresh
      <3>2. CASE ~store.good
        <4>1. refresh'.pc = "discovering" /\ refresh'.token = store
          BY <1>0, <1>1, <3>2 DEF OA!RefreshStoredToken, Refreshes
        <4>2. store.token # 0
          BY <1>1, <1>b DEF OA!RefreshStoredToken
        <4>3. store.token \in 1..issued
          BY <4>2, <1>a, <1>b
        <4> QED BY <2>1, <4>1, <4>3, <1>b
      <3> QED BY <3>1, <3>2
    <2> QED BY <2>1, <2>2, <2>3, <1>b, <1>c
  <1>2. CASE OA!RefreshDiscovered
    <2>1. UNCHANGED <<store, issued, replaced>>
      BY <1>2 DEF OA!RefreshDiscovered
    <2>2. Wanted'
      BY <2>1, <1>2, <1>b DEF OA!RefreshDiscovered
    <2>3. Sent'
      <3>1. CASE OA!Discovered(Refresher) /\ serverMetadata.issuer = refresh.token.issuer
        <4>1. /\ refresh'.pc = "bind" /\ refresh'.token = refresh.token
              /\ refresh'.meta = serverMetadata /\ refresh.pc = "discovering"
          BY <1>0, <1>2, <3>1 DEF OA!RefreshDiscovered, Refreshes
        <4> QED BY <2>1, <3>1, <4>1, <1>b
      <3>2. CASE ~(OA!Discovered(Refresher) /\ serverMetadata.issuer = refresh.token.issuer)
        BY <1>2, <3>2 DEF OA!RefreshDiscovered, OA!RefreshOver, OA!NoRefresh
      <3> QED BY <3>1, <3>2
    <2> QED BY <2>1, <2>2, <2>3, <1>b, <1>c
  <1>3. CASE OA!SendRefresh
    <2>1. UNCHANGED <<store, issued, replaced>>
      BY <1>3 DEF OA!SendRefresh
    <2>2. Wanted'
      BY <2>1, <1>3, <1>b DEF OA!SendRefresh
    <2>3. Sent'
      <3>1. CASE OA!Bindable(refresh.meta)
        <4>1. /\ refresh'.pc = "sent" /\ refresh'.token = refresh.token
              /\ refresh'.meta = refresh.meta /\ refresh.pc = "bind"
          BY <1>0, <1>3, <3>1 DEF OA!SendRefresh, Refreshes
        <4> QED BY <2>1, <3>1, <4>1, <1>b
      <3>2. CASE ~OA!Bindable(refresh.meta)
        BY <1>3, <3>2 DEF OA!SendRefresh, OA!RefreshOver, OA!NoRefresh
      <3> QED BY <3>1, <3>2
    <2> QED BY <2>1, <2>2, <2>3, <1>b, <1>c
  <1>4. CASE OA!RefreshAnswered
    <2>1. PICK rotates \in BOOLEAN :
            /\ issued' = IF rotates THEN issued + 1 ELSE issued
            /\ \/ UNCHANGED <<store, replaced>>
               \/ \E token \in {IF rotates THEN issued + 1 ELSE refresh.token.token} :
                    /\ store' = [good |-> TRUE, token |-> token, by |-> refresh.meta.issuer,
                                 issuer |-> refresh.meta.issuer]
                    /\ replaced' = replaced \union ({refresh.token.token} \ {token})
      BY <1>4 DEF OA!RefreshAnswered
    <2>2. refresh.token.token \in 1..issued /\ refresh.token.token \notin replaced
      BY <1>4, <1>b DEF OA!RefreshAnswered
    <2>3. Stored'
      <3>1. CASE UNCHANGED <<store, replaced>>
        <4>1. store.token <= issued' /\ 1..issued \subseteq 1..issued'
          BY <2>1, <1>a, <1>b
        <4> QED BY <3>1, <4>1, <1>b
      <3>2. CASE rotates /\ ~UNCHANGED <<store, replaced>>
        <4>1. /\ store'.token = issued + 1 /\ store'.by = store'.issuer /\ issued' = issued + 1
              /\ replaced' = replaced \union ({refresh.token.token} \ {issued + 1})
          BY <2>1, <3>2
        <4>2. issued + 1 \notin 1..issued /\ 1..issued \subseteq 1..(issued + 1) /\ issued + 1 # 0
              /\ issued + 1 <= issued + 1
          BY <1>a
        <4> QED BY <4>1, <4>2, <2>2, <1>b
      <3>3. CASE ~rotates /\ ~UNCHANGED <<store, replaced>>
        <4>1. /\ store'.token = refresh.token.token /\ store'.by = store'.issuer
              /\ issued' = issued /\ replaced' = replaced
          <5>1. replaced \union ({refresh.token.token} \ {refresh.token.token}) = replaced
            OBVIOUS
          <5>2. issued' = issued
            BY <2>1, <3>3
          <5>3. /\ store' = [good |-> TRUE, token |-> refresh.token.token,
                             by |-> refresh.meta.issuer, issuer |-> refresh.meta.issuer]
                /\ replaced' = replaced \union ({refresh.token.token} \ {refresh.token.token})
            BY <2>1, <3>3
          <5> QED BY <5>1, <5>2, <5>3
        <4>2. refresh.token.token <= issued /\ refresh.token.token # 0
          BY <2>2
        <4> QED BY <4>1, <4>2, <2>2, <1>b
      <3> QED BY <3>1, <3>2, <3>3
    <2>4. store'.token # 0
      <3>1. store.token # 0
        BY <1>4, <1>b DEF OA!RefreshAnswered
      <3>2. issued + 1 # 0 /\ refresh.token.token # 0
        BY <1>a, <2>2
      <3> QED BY <2>1, <3>1, <3>2
    <2>5. refresh'.pc = "none"
      BY <1>4 DEF OA!RefreshAnswered, OA!RefreshOver, OA!NoRefresh
    <2> QED BY <2>3, <2>4, <2>5, <1>c
  <1>5. CASE OA!RefreshFails \/ OA!TokenExpires
    <2>1. CASE OA!RefreshFails
      <3>1. UNCHANGED <<store, issued, replaced>> /\ refresh'.pc = "none"
        BY <2>1 DEF OA!RefreshFails, OA!RefreshOver, OA!NoRefresh
      <3>2. Wanted'
        BY <3>1, <2>1, <1>b DEF OA!RefreshFails
      <3> QED BY <3>1, <3>2, <1>b, <1>c
    <2>2. CASE OA!TokenExpires
      <3>1. UNCHANGED <<refresh, call, issued, replaced>> /\ store' = [store EXCEPT !.good = FALSE]
        BY <2>2 DEF OA!TokenExpires
      <3>2. store'.token = store.token /\ store'.by = store.by /\ store'.issuer = store.issuer
        BY <3>1, <1>0 DEF OA!TokenRecord
      <3>3. store # OA!NoToken
        BY <2>2 DEF OA!TokenExpires, OA!NoToken
      <3> QED BY <3>1, <3>2, <3>3, <1>b, <1>c
    <2> QED BY <1>5, <2>1, <2>2
  <1>6. ASSUME NEW c \in Callers, OA!GetValidToken(c) \/ OA!StartRefresh(c) \/ OA!StopWaiting(c)
        PROVE  TokenInv'
    <2>1. UNCHANGED <<store, issued, replaced>>
      BY <1>6 DEF OA!GetValidToken, OA!StartRefresh, OA!StopWaiting
    <2>2. store.token # 0
      BY <1>6, <1>b DEF OA!GetValidToken, OA!StartRefresh, OA!StopWaiting
    <2>3. UNCHANGED refresh \/ refresh'.pc = "started"
      BY <1>6, <1>0 DEF OA!GetValidToken, OA!StartRefresh, OA!StopWaiting, Refreshes
    <2> QED BY <2>1, <2>2, <2>3, <1>b, <1>c
  <1>7. ASSUME NEW f \in Flows, OA!Exchanged(f) PROVE TokenInv'
    <2>1. UNCHANGED <<refresh, call, replaced>> /\ issued' = issued + 1
      BY <1>7 DEF OA!Exchanged
    <2>2. /\ issued + 1 \notin 1..issued /\ issued + 1 # 0
          /\ 1..issued \subseteq 1..(issued + 1) /\ store.token <= issued + 1
          /\ issued + 1 <= issued + 1
      BY <1>a, <1>b
    <2>3. \/ store' = store
          \/ store' = [good |-> TRUE, token |-> issued + 1, by |-> flow[f].trans.issuer,
                       issuer |-> flow[f].meta.issuer]
      BY <1>7 DEF OA!Exchanged
    <2>4. flow[f].trans.issuer = flow[f].meta.issuer
      BY <1>7 DEF OA!Exchanged
    <2>5. CASE store' = store
      BY <2>1, <2>2, <2>5, <1>b, <1>c
    <2>6. CASE store' # store
      BY <2>1, <2>2, <2>3, <2>4, <2>6, <1>b, <1>c
    <2> QED BY <2>5, <2>6
  <1>8. CASE UNCHANGED <<store, refresh, call, issued, replaced>>
    BY <1>8, <1>b, <1>c
  <1>9. \/ OA!RefreshStoredToken \/ OA!RefreshDiscovered \/ OA!SendRefresh \/ OA!RefreshAnswered
        \/ OA!RefreshFails \/ OA!TokenExpires
        \/ \E c \in Callers : OA!GetValidToken(c) \/ OA!StartRefresh(c) \/ OA!StopWaiting(c)
        \/ \E f \in Flows : OA!Exchanged(f)
        \/ UNCHANGED <<store, refresh, call, issued, replaced>>
    BY ZenonT(30)
       DEF OA!Next, OA!FetchEnds, OA!AwaitEnds, OA!SetProtectedResourceMetadataURL, OA!Refreshing,
           OA!Registered, OA!RegistrationFails, OA!Flowing, OA!RegisterClient,
           OA!GetAuthorizationURL, OA!Callback, OA!FlowDiscovered, OA!Register, OA!BindURL,
           OA!PublishURL, OA!ExchangeCode, OA!GivesUp, OA!vars
  <1> QED BY <1>1, <1>2, <1>3, <1>4, <1>5, <1>6, <1>7, <1>8, <1>9

\* A transaction is that of a URL, whose client and issuer it holds.
Sound(us, t) ==
  t.state \in 1..Len(us) /\ us[t.state] = t.issuer /\ OA!Belongs(t.client, t.issuer)

Holds(f) == flow[f].op = "code" /\ flow[f].pc \in {"discovering", "bind", "exchanging"}

\* The code of a URL is with the handler, until a flow takes it, or with one flow.
FlowPending ==
  expectedState # 0 =>
    /\ authorizationTransaction.state = expectedState /\ Sound(urls, authorizationTransaction)
    /\ codeSends[expectedState] = 0
Taken ==
  /\ \A f \in Flows : Holds(f) =>
       /\ Sound(urls, flow[f].trans) /\ flow[f].trans.state # expectedState
       /\ flow[f].pc # "exchanging" => codeSends[flow[f].trans.state] = 0
       /\ flow[f].pc # "discovering" => flow[f].trans.issuer = flow[f].meta.issuer
  /\ \A f, g \in Flows :
       Holds(f) /\ Holds(g) /\ flow[f].trans.state = flow[g].trans.state => f = g
CodeSends == \A n \in OA!URLs : codeSends[n] <= 1 /\ (n > Len(urls) => codeSends[n] = 0)
\* The steps of a flow that has a code, and of one that has not.
Ops == \A f \in Flows :
  /\ flow[f].pc = "exchanging" => flow[f].op = "code"
  /\ flow[f].pc \in {"register", "joined", "publish"} => flow[f].op # "code"

CodeInv == FlowPending /\ Taken /\ CodeSends /\ Ops

\* A flow's step leaves the others', and holds on to a code it has or lets go of
\* it; unless it takes one, it gets none.
LEMMA FlowingStep ==
  ASSUME flow \in [Flows -> AuthFlows], Ops, NEW f \in Flows, OA!Flowing(f)
  PROVE  /\ \A g \in Flows \ {f} : flow'[g] = flow[g]
         /\ \/ OA!Callback(f)
            \/ ~Holds(f)'
            \/ /\ Holds(f) /\ flow'[f].trans = flow[f].trans
               /\ \/ /\ flow'[f].pc = "bind" /\ flow[f].pc = "discovering"
                     /\ flow'[f].meta.issuer = flow[f].trans.issuer
                     /\ UNCHANGED codeSends
                  \/ /\ flow'[f].pc = "exchanging" /\ flow[f].pc = "bind"
                     /\ flow'[f].meta = flow[f].meta
                     /\ codeSends' = [codeSends EXCEPT ![flow[f].trans.state] = @ + 1]
  <1>0. flow[f] \in AuthFlows
    OBVIOUS
  <1>1. CASE OA!RegisterClient(f)
    BY <1>1 DEF OA!RegisterClient, OA!FlowIdle, Holds
  <1>2. CASE OA!GetAuthorizationURL(f)
    BY <1>2 DEF OA!GetAuthorizationURL, OA!FlowIdle, Holds
  <1>3. CASE OA!Callback(f)
    BY <1>3 DEF OA!Callback
  <1>4. CASE OA!FlowDiscovered(f)
    <2>1. \A g \in Flows \ {f} : flow'[g] = flow[g]
      BY <1>4 DEF OA!FlowDiscovered
    <2>2. CASE flow'[f] = OA!FlowIdle
      BY <2>1, <2>2 DEF OA!FlowIdle, Holds
    <2>3. CASE flow'[f] # OA!FlowIdle
      <3>1. /\ flow[f].op = "code" => flow[f].trans.issuer = serverMetadata.issuer
            /\ flow[f].pc = "discovering" /\ UNCHANGED codeSends
            /\ \E at \in {"register", "bind"} :
                 flow'[f] = [flow[f] EXCEPT !.meta = serverMetadata, !.pc = at]
        BY <1>4, <2>3 DEF OA!FlowDiscovered
      <3>2. PICK at \in {"register", "bind"} :
              flow'[f] = [flow[f] EXCEPT !.meta = serverMetadata, !.pc = at]
        BY <3>1
      <3>3. /\ flow'[f].pc = at /\ flow'[f].meta = serverMetadata
            /\ flow'[f].op = flow[f].op /\ flow'[f].trans = flow[f].trans
        BY <3>2, <1>0 DEF AuthFlows
      <3> QED BY <3>1, <3>3, <2>1 DEF Holds
    <2> QED BY <2>2, <2>3
  <1>5. CASE OA!Register(f)
    <2>1. \A g \in Flows \ {f} : flow'[g] = flow[g]
      BY <1>5 DEF OA!Register
    <2>2. flow[f].pc = "register" /\ flow[f].op # "code"
      BY <1>5 DEF OA!Register, Ops
    <2>3. flow'[f] = OA!FlowIdle
          \/ \E at \in {"joined", "bind"} : flow'[f] = [flow[f] EXCEPT !.pc = at]
      BY <1>5 DEF OA!Register
    <2>4. ASSUME NEW at \in {"joined", "bind"}, flow'[f] = [flow[f] EXCEPT !.pc = at]
          PROVE  flow'[f].op = flow[f].op
      BY <2>4, <1>0 DEF AuthFlows
    <2>5. flow'[f] = OA!FlowIdle => flow'[f].op = "none"
      BY DEF OA!FlowIdle
    <2> QED BY <2>1, <2>2, <2>3, <2>4, <2>5 DEF Holds
  <1>6. CASE OA!BindURL(f)
    <2>1. \A g \in Flows \ {f} : flow'[g] = flow[g]
      BY <1>6 DEF OA!BindURL
    <2>2. flow'[f].op # "code"
      BY <1>6, <1>0 DEF OA!BindURL, OA!FlowIdle, AuthFlows
    <2> QED BY <2>1, <2>2 DEF Holds
  <1>7. CASE OA!ExchangeCode(f)
    <2>1. \A g \in Flows \ {f} : flow'[g] = flow[g]
      BY <1>7 DEF OA!ExchangeCode
    <2>2. CASE flow'[f] = OA!FlowIdle
      BY <2>1, <2>2 DEF OA!FlowIdle, Holds
    <2>3. CASE flow'[f] # OA!FlowIdle
      <3>1. /\ flow[f].op = "code" /\ flow[f].pc = "bind"
            /\ flow' = [flow EXCEPT ![f].pc = "exchanging", ![f].cred = OA!Binding(flow[f].meta)]
            /\ codeSends' = [codeSends EXCEPT ![flow[f].trans.state] = @ + 1]
        BY <1>7, <2>3 DEF OA!ExchangeCode
      <3>2. /\ flow'[f].pc = "exchanging" /\ flow'[f].meta = flow[f].meta
            /\ flow'[f].trans = flow[f].trans
        BY <3>1, <1>0 DEF AuthFlows
      <3> QED BY <3>1, <3>2, <2>1 DEF Holds
    <2> QED BY <2>2, <2>3
  <1>8. CASE OA!PublishURL(f) \/ OA!Exchanged(f) \/ OA!GivesUp(f)
    <2>1. /\ \A g \in Flows \ {f} : flow'[g] = flow[g]
          /\ flow'[f] = OA!FlowIdle
      BY <1>8 DEF OA!PublishURL, OA!Exchanged, OA!GivesUp
    <2> QED BY <2>1 DEF Holds, OA!FlowIdle
  <1> QED BY <1>1, <1>2, <1>3, <1>4, <1>5, <1>6, <1>7, <1>8 DEF OA!Flowing

\* No URL is forgotten, and the ones there are keep their issuers.
LEMMA SoundStays ==
  ASSUME FlowTypes, UNCHANGED urls \/ \E i \in Issuers : urls' = Append(urls, i)
  PROVE  /\ \A t \in OA!Transactions : Sound(urls, t) => Sound(urls', t)
         /\ Len(urls') >= Len(urls)
  <1>1. CASE UNCHANGED urls
    BY <1>1 DEF Sound, FlowTypes
  <1>2. ASSUME NEW i \in Issuers, urls' = Append(urls, i)
        PROVE  /\ \A t \in OA!Transactions : Sound(urls, t) => Sound(urls', t)
               /\ Len(urls') >= Len(urls)
    <2>1. /\ Len(urls') = Len(urls) + 1 /\ Len(urls) \in Nat
          /\ \A n \in 1..Len(urls) : urls'[n] = urls[n]
      BY <1>2, AppendProperties DEF FlowTypes
    <2>2. ASSUME NEW t \in OA!Transactions, Sound(urls, t) PROVE Sound(urls', t)
      BY <2>1, <2>2 DEF Sound
    <2> QED BY <2>1, <2>2
  <1> QED BY <1>1, <1>2

LEMMA OpsStep == OAuthTypes /\ Ops /\ [OA!Next]_OA!vars => Ops'
  <1> SUFFICES ASSUME OAuthTypes, Ops, [OA!Next]_OA!vars PROVE Ops'
    OBVIOUS
  <1>0. flow \in [Flows -> AuthFlows]
    BY DEF OAuthTypes, FlowTypes
  <1>1. ASSUME NEW f \in Flows, OA!Flowing(f) PROVE Ops'
    <2>0. flow[f] \in AuthFlows
      BY <1>0
    <2>1. \A g \in Flows \ {f} : flow'[g] = flow[g]
      BY <1>0, <1>1, FlowingStep
    <2>2. ASSUME flow'[f].pc \in {"idle", "discovering"} PROVE Ops'
      BY <2>1, <2>2 DEF Ops
    <2>3. CASE OA!RegisterClient(f) \/ OA!GetAuthorizationURL(f) \/ OA!Callback(f)
      <3>1. flow'[f].pc = "discovering"
        BY <2>3, <1>0 DEF OA!RegisterClient, OA!GetAuthorizationURL, OA!Callback, OA!FlowIdle
      <3> QED BY <3>1, <2>2
    <2>4. CASE OA!FlowDiscovered(f)
      <3>1. /\ flow'[f] = OA!FlowIdle
            \/ flow'[f] = [flow[f] EXCEPT !.meta = serverMetadata,
                 !.pc = IF OA!NeedsClient(f, serverMetadata) THEN "register" ELSE "bind"]
        BY <2>4, <1>0 DEF OA!FlowDiscovered
      <3>2. flow'[f] = OA!FlowIdle => flow'[f].pc = "idle"
        BY DEF OA!FlowIdle
      <3>3. CASE flow'[f] # OA!FlowIdle
        <4>1. /\ flow'[f].op = flow[f].op
              /\ flow'[f].pc = IF OA!NeedsClient(f, serverMetadata) THEN "register" ELSE "bind"
          BY <3>1, <3>3, <2>0 DEF AuthFlows
        <4>2. OA!NeedsClient(f, serverMetadata) => flow[f].op # "code"
          BY DEF OA!NeedsClient
        <4> QED BY <4>1, <4>2, <2>1 DEF Ops
      <3> QED BY <3>2, <3>3, <2>2
    <2>5. CASE OA!Register(f)
      <3>1. flow'[f] = OA!FlowIdle
            \/ \E at \in {"joined", "bind"} : flow'[f] = [flow[f] EXCEPT !.pc = at]
        BY <2>5, <1>0 DEF OA!Register
      <3>2. flow'[f] = OA!FlowIdle => flow'[f].pc = "idle"
        BY DEF OA!FlowIdle
      <3>3. ASSUME NEW at \in {"joined", "bind"}, flow'[f] = [flow[f] EXCEPT !.pc = at]
            PROVE  Ops'
        <4>1. flow'[f].op = flow[f].op /\ flow'[f].pc = at
          BY <3>3, <2>0 DEF AuthFlows
        <4>2. flow[f].op # "code"
          BY <2>5 DEF OA!Register, Ops
        <4> QED BY <4>1, <4>2, <2>1 DEF Ops
      <3> QED BY <3>1, <3>2, <3>3, <2>2
    <2>6. CASE OA!BindURL(f)
      <3>1. flow'[f].op # "code" /\ flow'[f].pc # "exchanging"
        BY <2>6, <1>0, <2>0 DEF OA!BindURL, OA!FlowIdle, AuthFlows
      <3> QED BY <3>1, <2>1 DEF Ops
    <2>7. CASE OA!ExchangeCode(f)
      <3>1. flow'[f] = OA!FlowIdle \/ (flow'[f].op = "code" /\ flow'[f].pc = "exchanging")
        BY <2>7, <1>0, <2>0 DEF OA!ExchangeCode, AuthFlows
      <3>2. flow'[f] = OA!FlowIdle => flow'[f].pc = "idle"
        BY DEF OA!FlowIdle
      <3> QED BY <3>1, <3>2, <2>1, <2>2 DEF Ops
    <2>8. CASE OA!PublishURL(f) \/ OA!Exchanged(f) \/ OA!GivesUp(f)
      <3>1. flow'[f] = OA!FlowIdle
        BY <2>8, <1>0 DEF OA!PublishURL, OA!Exchanged, OA!GivesUp
      <3> QED BY <3>1, <2>2 DEF OA!FlowIdle
    <2> QED BY <1>1, <2>3, <2>4, <2>5, <2>6, <2>7, <2>8 DEF OA!Flowing
  <1>2. CASE OA!Registered \/ OA!RegistrationFails
    <2>1. ASSUME NEW g \in Flows
          PROVE  \/ flow'[g] = flow[g] \/ flow'[g] = OA!FlowIdle
                 \/ /\ flow[g].pc = "joined"
                    /\ \E at \in {"register", "bind"} : flow'[g] = [flow[g] EXCEPT !.pc = at]
      BY <1>2, <1>0 DEF OA!Registered, OA!RegistrationFails, OA!RegistrationOver
    <2>2. ASSUME NEW g \in Flows, NEW at \in {"register", "bind"},
                 flow'[g] = [flow[g] EXCEPT !.pc = at]
          PROVE  flow'[g].op = flow[g].op /\ flow'[g].pc = at
      BY <2>2, <1>0 DEF AuthFlows
    <2>3. OA!FlowIdle.pc = "idle"
      BY DEF OA!FlowIdle
    <2>4. ASSUME NEW g \in Flows
          PROVE  \/ flow'[g].pc = flow[g].pc /\ flow'[g].op = flow[g].op
                 \/ flow'[g].pc = "idle"
                 \/ /\ flow[g].pc = "joined" /\ flow'[g].op = flow[g].op
                    /\ flow'[g].pc \in {"register", "bind"}
      BY <2>1, <2>2, <2>3
    <2> QED BY <2>4 DEF Ops
  <1>3. CASE UNCHANGED flow
    BY <1>3 DEF Ops
  <1>4. \/ \E f \in Flows : OA!Flowing(f)
        \/ OA!Registered \/ OA!RegistrationFails \/ UNCHANGED flow
    BY DEF OA!Next, OA!FetchEnds, OA!AwaitEnds, OA!SetProtectedResourceMetadataURL,
           OA!GetValidToken, OA!StartRefresh, OA!StopWaiting, OA!Refreshing,
           OA!RefreshStoredToken, OA!RefreshDiscovered, OA!SendRefresh, OA!RefreshAnswered,
           OA!RefreshFails, OA!TokenExpires, OA!vars, OA!flowVars
  <1> QED BY <1>1, <1>2, <1>3, <1>4

LEMMA CodeInvStep == OAuthTypes /\ MetaInv /\ CredInv /\ CodeInv /\ [OA!Next]_OA!vars => CodeInv'
  <1> SUFFICES ASSUME OAuthTypes, MetaInv, CredInv, CodeInv, [OA!Next]_OA!vars PROVE CodeInv'
    OBVIOUS
  <1>0. /\ flow \in [Flows -> AuthFlows] /\ FlowTypes
        /\ codeSends \in [OA!URLs -> Nat] /\ Len(urls) \in 0..MaxURLs
        /\ expectedState \in 0..MaxURLs
    BY DEF OAuthTypes, FlowTypes
  <1>a. FlowPending /\ Taken /\ CodeSends /\ Ops /\ Ops'
    BY OpsStep DEF CodeInv
  <1>b. \A f \in Flows : flow[f].trans \in OA!Transactions
    BY <1>0 DEF AuthFlows
  <1>c. ASSUME NEW t, Sound(urls, t) PROVE t.state \in OA!URLs /\ t.state # 0
    BY <1>c, <1>0, OAuthAssumption DEF OAuthAssumption, Sound, OA!URLs
  \* A step that changes nothing but who is flowing.
  <1>1. ASSUME \A g \in Flows : Holds(g)' => flow'[g] = flow[g],
               UNCHANGED <<expectedState, authorizationTransaction, urls, codeSends>>
        PROVE  CodeInv'
    <2>1. FlowPending' /\ CodeSends'
      BY <1>1, <1>a DEF FlowPending, CodeSends, Sound
    <2>2. \A g \in Flows : Holds(g)' => Holds(g) /\ flow'[g] = flow[g]
      BY <1>1 DEF Holds
    <2>3. Taken'
      BY <2>2, <1>1, <1>a DEF Taken, Sound
    <2> QED BY <2>1, <2>3, <1>a DEF CodeInv
  <1>2. CASE OA!Registered \/ OA!RegistrationFails
    <2>1. UNCHANGED <<expectedState, authorizationTransaction, urls, codeSends>>
      BY <1>2 DEF OA!Registered, OA!RegistrationFails
    <2>2. ASSUME NEW g \in Flows
          PROVE  \/ flow'[g] = flow[g] \/ flow'[g] = OA!FlowIdle
                 \/ /\ flow[g].pc = "joined"
                    /\ \E at \in {"register", "bind"} : flow'[g] = [flow[g] EXCEPT !.pc = at]
      BY <1>2, <1>0 DEF OA!Registered, OA!RegistrationFails, OA!RegistrationOver
    <2>3. ASSUME NEW g \in Flows, NEW at \in {"register", "bind"},
                 flow'[g] = [flow[g] EXCEPT !.pc = at]
          PROVE  flow'[g].op = flow[g].op
      BY <2>3, <1>0 DEF AuthFlows
    <2>4. OA!FlowIdle.op = "none"
      BY DEF OA!FlowIdle
    <2>5. \A g \in Flows : Holds(g)' => flow'[g] = flow[g]
      BY <2>2, <2>3, <2>4, <1>a DEF Holds, Ops
    <2> QED BY <2>1, <2>5, <1>1
  <1>3. ASSUME NEW f \in Flows, OA!Flowing(f) PROVE CodeInv'
    <2>1. /\ \A g \in Flows \ {f} : flow'[g] = flow[g]
          /\ \/ OA!Callback(f)
             \/ ~Holds(f)'
             \/ /\ Holds(f) /\ flow'[f].trans = flow[f].trans
                /\ \/ /\ flow'[f].pc = "bind" /\ flow[f].pc = "discovering"
                      /\ flow'[f].meta.issuer = flow[f].trans.issuer
                      /\ UNCHANGED codeSends
                   \/ /\ flow'[f].pc = "exchanging" /\ flow[f].pc = "bind"
                      /\ flow'[f].meta = flow[f].meta
                      /\ codeSends' = [codeSends EXCEPT ![flow[f].trans.state] = @ + 1]
      BY <1>0, <1>3, <1>a, FlowingStep
    <2>2. CASE OA!Callback(f)
      <3>1. /\ expectedState # 0 /\ expectedState' = 0 /\ UNCHANGED <<urls, codeSends>>
            /\ flow'[f].trans = authorizationTransaction /\ flow'[f].pc = "discovering"
            /\ flow[f].pc = "idle"
        BY <2>2, <1>0 DEF OA!Callback, OA!FlowIdle
      <3>2. /\ Sound(urls, authorizationTransaction) /\ codeSends[expectedState] = 0
            /\ authorizationTransaction.state = expectedState
        BY <3>1, <1>a DEF FlowPending
      <3>3. FlowPending' /\ CodeSends'
        BY <3>1, <1>a DEF FlowPending, CodeSends
      <3>4. \A g \in Flows \ {f} : Holds(g)' => Holds(g)
        BY <2>1 DEF Holds
      <3>5. Taken'
        <4>1. ASSUME NEW g \in Flows, Holds(g)'
              PROVE  /\ Sound(urls', flow'[g].trans) /\ flow'[g].trans.state # 0
                     /\ flow'[g].pc # "exchanging" => codeSends[flow'[g].trans.state] = 0
                     /\ flow'[g].pc # "discovering" => flow'[g].trans.issuer = flow'[g].meta.issuer
          <5>1. CASE g = f
            BY <3>1, <3>2, <5>1, <1>c DEF Sound
          <5>2. CASE g # f
            BY <4>1, <5>2, <2>1, <3>1, <3>4, <1>a, <1>c DEF Taken, Sound
          <5> QED BY <5>1, <5>2
        <4>2. ASSUME NEW g \in Flows, NEW h \in Flows, Holds(g)', Holds(h)',
                     flow'[g].trans.state = flow'[h].trans.state, g # h
              PROVE  FALSE
          BY <4>2, <2>1, <3>1, <3>2, <3>4, <1>a DEF Taken
        <4> QED BY <4>1, <4>2, <3>1 DEF Taken
      <3> QED BY <3>3, <3>5, <1>a DEF CodeInv
    <2>3. CASE OA!PublishURL(f)
      <3>1. flow'[f] = OA!FlowIdle /\ flow[f].pc = "publish" /\ UNCHANGED codeSends
        BY <2>3, <1>0 DEF OA!PublishURL
      <3>2. \A g \in Flows : Holds(g)' => flow'[g] = flow[g]
        BY <2>1, <3>1 DEF Holds, OA!FlowIdle
      <3>3. CASE ~OA!StillBound(flow[f].meta, flow[f].cred)
        BY <2>3, <3>2, <3>3, <1>1 DEF OA!PublishURL
      <3>4. CASE OA!StillBound(flow[f].meta, flow[f].cred)
        <4>1. /\ urls' = Append(urls, flow[f].meta.issuer) /\ Len(urls) < MaxURLs
              /\ expectedState' = Len(urls) + 1
              /\ authorizationTransaction' = [state |-> Len(urls) + 1,
                   issuer |-> flow[f].meta.issuer, client |-> flow[f].cred.client]
          BY <2>3, <3>4 DEF OA!PublishURL
        <4>2. /\ flow[f].meta.issuer \in Issuers
              /\ OA!Belongs(flow[f].cred.client, flow[f].meta.issuer)
          BY <3>1 DEF MetaInv, CredInv
        <4>3. /\ Len(urls') = Len(urls) + 1 /\ urls'[Len(urls) + 1] = flow[f].meta.issuer
              /\ Len(urls) + 1 \in 1..MaxURLs /\ Len(urls) \in Nat
          BY <4>1, <4>2, <1>0, AppendProperties, OAuthAssumption DEF OAuthAssumption, FlowTypes
        <4>4. \A t \in OA!Transactions : Sound(urls, t) => Sound(urls', t)
          BY <4>1, <4>2, <1>0, SoundStays
        <4>5. FlowPending'
          <5>1. Sound(urls', authorizationTransaction')
            BY <4>1, <4>2, <4>3 DEF Sound
          <5>2. codeSends[Len(urls) + 1] = 0
            BY <4>3, <1>a DEF CodeSends, OA!URLs
          <5> QED BY <5>1, <5>2, <4>1, <3>1 DEF FlowPending
        <4>6. CodeSends'
          BY <4>3, <3>1, <1>a DEF CodeSends, OA!URLs
        <4>7. \A g \in Flows : Holds(g)' => Holds(g) /\ flow'[g] = flow[g]
          BY <3>2 DEF Holds
        <4>8. ASSUME NEW g \in Flows, Holds(g)
              PROVE  Sound(urls', flow[g].trans) /\ flow[g].trans.state # expectedState'
          BY <4>8, <4>1, <4>3, <4>4, <1>a, <1>b DEF Taken, Sound
        <4>9. ASSUME NEW g \in Flows, Holds(g)'
              PROVE  Sound(urls', flow'[g].trans) /\ flow'[g].trans.state # expectedState'
          <5>1. Holds(g) /\ flow'[g] = flow[g]
            BY <4>7, <4>9
          <5>2. Sound(urls', flow[g].trans) /\ flow[g].trans.state # expectedState'
            BY <5>1, <4>8
          <5> QED BY <5>1, <5>2 DEF Sound
        <4>10. Taken'
          BY <4>7, <4>9, <3>1, <1>a DEF Taken
        <4> QED BY <4>5, <4>6, <4>10, <1>a DEF CodeInv
      <3> QED BY <3>3, <3>4
    <2>4. CASE OA!ExchangeCode(f) /\ Holds(f)'
      <3>1. /\ Holds(f) /\ flow'[f].trans = flow[f].trans
            /\ flow'[f].pc = "exchanging" /\ flow[f].pc = "bind"
            /\ flow'[f].meta = flow[f].meta
            /\ codeSends' = [codeSends EXCEPT ![flow[f].trans.state] = @ + 1]
        BY <2>1, <2>4 DEF OA!ExchangeCode, OA!Callback
      <3>2. UNCHANGED <<expectedState, authorizationTransaction, urls>>
        BY <2>4 DEF OA!ExchangeCode
      <3>3. /\ flow[f].trans.state \in OA!URLs /\ codeSends[flow[f].trans.state] = 0
            /\ flow[f].trans.state # expectedState /\ flow[f].trans.state <= Len(urls)
            /\ Sound(urls, flow[f].trans) /\ flow[f].trans.issuer = flow[f].meta.issuer
        BY <3>1, <1>a, <1>c DEF Taken, Sound
      <3>4. /\ codeSends'[flow[f].trans.state] = 1
            /\ \A n \in OA!URLs \ {flow[f].trans.state} : codeSends'[n] = codeSends[n]
        BY <3>1, <3>3, <1>0
      <3>5. CodeSends'
        BY <3>2, <3>3, <3>4, <1>a, <1>0 DEF CodeSends, OA!URLs
      <3>6. FlowPending'
        <4>1. expectedState # 0 => expectedState \in OA!URLs
          BY <1>0, OAuthAssumption DEF OAuthAssumption, OA!URLs
        <4>2. expectedState # 0 => codeSends'[expectedState] = 0
          BY <4>1, <3>3, <3>4, <1>a DEF FlowPending
        <4> QED BY <4>2, <3>2, <1>a DEF FlowPending, Sound
      <3>7. \A g \in Flows \ {f} : Holds(g)' => Holds(g)
        BY <2>1 DEF Holds
      <3>8. Taken'
        <4>1. ASSUME NEW g \in Flows, Holds(g)'
              PROVE  /\ Sound(urls', flow'[g].trans) /\ flow'[g].trans.state # expectedState'
                     /\ flow'[g].pc # "exchanging" => codeSends'[flow'[g].trans.state] = 0
                     /\ flow'[g].pc # "discovering" => flow'[g].trans.issuer = flow'[g].meta.issuer
          <5>1. CASE g = f
            BY <3>1, <3>2, <3>3, <5>1 DEF Sound
          <5>2. CASE g # f
            <6>1. Holds(g) /\ flow'[g] = flow[g]
              BY <4>1, <5>2, <2>1, <3>7
            <6>2. /\ flow[g].trans.state \in OA!URLs
                  /\ flow[g].trans.state # flow[f].trans.state
              BY <6>1, <5>2, <3>1, <1>a, <1>c DEF Taken
            <6> QED BY <6>1, <6>2, <3>2, <3>4, <1>a DEF Taken, Sound
          <5> QED BY <5>1, <5>2
        <4>2. ASSUME NEW g \in Flows, NEW h \in Flows, Holds(g)', Holds(h)',
                     flow'[g].trans.state = flow'[h].trans.state, g # h
              PROVE  FALSE
          BY <4>2, <2>1, <3>1, <3>7, <1>a DEF Taken
        <4> QED BY <4>1, <4>2 DEF Taken
      <3> QED BY <3>5, <3>6, <3>8, <1>a DEF CodeInv
    <2>5. CASE OA!FlowDiscovered(f) /\ Holds(f)'
      <3>1. /\ Holds(f) /\ flow'[f].trans = flow[f].trans
            /\ flow'[f].pc = "bind" /\ flow'[f].meta.issuer = flow[f].trans.issuer
            /\ flow[f].pc = "discovering"
        BY <2>1, <2>5 DEF OA!FlowDiscovered, OA!Callback
      <3>2. UNCHANGED <<expectedState, authorizationTransaction, urls, codeSends>>
        BY <2>5 DEF OA!FlowDiscovered
      <3>3. FlowPending' /\ CodeSends'
        BY <3>2, <1>a DEF FlowPending, CodeSends, Sound
      <3>4. \A g \in Flows : Holds(g)' => Holds(g) /\ flow'[g].trans = flow[g].trans
        BY <2>1, <3>1 DEF Holds
      <3>5. Taken'
        <4>1. ASSUME NEW g \in Flows, Holds(g)'
              PROVE  /\ flow'[g].pc # "exchanging" => flow[g].pc # "exchanging"
                     /\ flow'[g].pc # "discovering" => flow'[g].trans.issuer = flow'[g].meta.issuer
          BY <4>1, <2>1, <3>1, <3>4, <1>a DEF Taken
        <4> QED BY <3>2, <3>4, <4>1, <1>a DEF Taken, Sound
      <3> QED BY <3>3, <3>5, <1>a DEF CodeInv
    <2>6. CASE /\ ~OA!Callback(f) /\ ~OA!PublishURL(f)
               /\ ~(OA!ExchangeCode(f) /\ Holds(f)') /\ ~(OA!FlowDiscovered(f) /\ Holds(f)')
      <3>1. UNCHANGED <<expectedState, authorizationTransaction, urls>>
        BY <2>6, <1>3 DEF OA!Flowing, OA!RegisterClient, OA!GetAuthorizationURL, OA!FlowDiscovered,
             OA!Register, OA!BindURL, OA!ExchangeCode, OA!Exchanged, OA!GivesUp
      <3>2. Holds(f) /\ flow[f].pc = "discovering" => OA!FlowDiscovered(f)
        BY <1>3 DEF OA!Flowing, OA!RegisterClient, OA!GetAuthorizationURL, OA!Callback,
             OA!Register, OA!BindURL, OA!PublishURL, OA!ExchangeCode, OA!Exchanged, OA!GivesUp
      <3>3. Holds(f) /\ flow[f].pc = "bind" => OA!ExchangeCode(f)
        BY <1>3 DEF Holds, OA!Flowing, OA!RegisterClient, OA!GetAuthorizationURL, OA!Callback,
             OA!FlowDiscovered, OA!Register, OA!BindURL, OA!PublishURL, OA!Exchanged, OA!GivesUp
      <3>4. ~Holds(f)'
        BY <2>1, <2>6, <3>2, <3>3
      <3>5. UNCHANGED codeSends
        <4>1. CASE OA!ExchangeCode(f)
          <5>1. flow[f] \in AuthFlows /\ flow[f].op = "code" /\ flow[f].pc = "bind"
            BY <4>1, <1>0 DEF OA!ExchangeCode
          <5>2. \/ UNCHANGED codeSends
                \/ flow' = [flow EXCEPT ![f].pc = "exchanging",
                                        ![f].cred = OA!Binding(flow[f].meta)]
            BY <4>1 DEF OA!ExchangeCode
          <5>3. CASE flow' = [flow EXCEPT ![f].pc = "exchanging",
                                          ![f].cred = OA!Binding(flow[f].meta)]
            <6>1. flow'[f].op = "code" /\ flow'[f].pc = "exchanging"
              BY <5>1, <5>3, <1>0 DEF AuthFlows
            <6> QED BY <6>1, <3>4 DEF Holds
          <5> QED BY <5>2, <5>3
        <4>2. CASE ~OA!ExchangeCode(f)
          BY <2>6, <4>2, <1>3 DEF OA!Flowing, OA!RegisterClient, OA!GetAuthorizationURL,
               OA!FlowDiscovered, OA!Register, OA!BindURL, OA!Exchanged, OA!GivesUp
        <4> QED BY <4>1, <4>2
      <3> QED BY <3>1, <3>4, <3>5, <2>1, <1>1
    <2> QED BY <2>2, <2>3, <2>4, <2>5, <2>6
  <1>4. CASE UNCHANGED OA!flowVars
    BY <1>4, <1>1 DEF OA!flowVars
  <1>5. \/ \E f \in Flows : OA!Flowing(f)
        \/ OA!Registered \/ OA!RegistrationFails \/ UNCHANGED OA!flowVars
    BY DEF OA!Next, OA!FetchEnds, OA!AwaitEnds, OA!SetProtectedResourceMetadataURL,
           OA!GetValidToken, OA!StartRefresh, OA!StopWaiting, OA!Refreshing,
           OA!RefreshStoredToken, OA!RefreshDiscovered, OA!SendRefresh, OA!RefreshAnswered,
           OA!RefreshFails, OA!TokenExpires, OA!vars
  <1> QED BY <1>2, <1>3, <1>4, <1>5

OAuthInv == OAuthTypes /\ MetaInv /\ CredInv /\ PresetInv /\ TokenInv /\ CodeInv

LEMMA OAuthInit == OA!Init => OAuthInv
  <1> SUFFICES ASSUME OA!Init PROVE OAuthInv
    OBVIOUS
  <1>0. PICK i \in OA!IssuerOrNone, id \in {"preset", None} :
          credentials = [OA!NoCredentials EXCEPT !.client = id, !.issuer = i]
    BY DEF OA!Init, OA!IssuerOrNone
  <1>a. credentials = [client |-> id, issuer |-> i, version |-> 0, dcr |-> FALSE]
    BY <1>0 DEF OA!NoCredentials
  <1>1. credentials \in OA!Credentials
    BY <1>a DEF OA!Credentials, OA!Clients
  <1>2. store \in OA!TokenRecord /\ issued \in 0..MaxTokens
    <2>1. 0 \in 0..MaxTokens /\ 1 \in 0..MaxTokens
      BY OAuthAssumption DEF OAuthAssumption
    <2>2. \A j \in Issuers : [good |-> FALSE, token |-> 1, by |-> j, issuer |-> j] \in OA!TokenRecord
      BY <2>1 DEF OA!TokenRecord, OA!IssuerOrNone
    <2> QED BY <2>1, <2>2, OAuthNothing DEF OA!Init
  <1>3. OAuthTypes
    <2>1. DiscoveryTypes
      <3>1. 0 \in 0..MaxOnces /\ 1 \in 1..MaxOnces
        BY OAuthAssumption DEF OAuthAssumption
      <3>2. /\ serverMetadata = OA!NoMetadata /\ fetchErr = FALSE /\ knownIssuer = None
            /\ metadataOnce = [id |-> 1, fresh |-> TRUE]
            /\ discovery = [p \in OA!Procs |-> OA!NoDiscovery]
        BY DEF OA!Init
      <3> QED BY <3>1, <3>2, OAuthNothing DEF DiscoveryTypes, OA!NoDiscovery, OA!IssuerOrNone
    <2>2. RefreshTypes
      BY <1>1, <1>2, OAuthNothing
         DEF OA!Init, RefreshTypes, Refreshes, OA!NoRefresh, OA!NoRegistration
    <2>3. FlowTypes
      <3>1. urls \in Seq(Issuers) /\ Len(urls) = 0
        BY EmptySeq DEF OA!Init
      <3> QED BY <3>1, OAuthNothing, OAuthAssumption
              DEF OAuthAssumption, OA!Init, FlowTypes, AuthFlows, OA!FlowIdle
    <2> QED BY <2>1, <2>2, <2>3 DEF OAuthTypes
  <1>4. MetaInv
    BY DEF OA!Init, MetaInv, OA!NoRefresh, OA!NoRegistration, OA!FlowIdle
  <1>5. CredInv
    BY <1>a, OAuthAssumption
       DEF OAuthAssumption, OA!Init, CredInv, OA!Belongs, OA!NoRefresh, OA!FlowIdle
  <1>6. PresetInv
    BY DEF OA!Init, PresetInv, OA!IssuerOrNone
  <1>7. TokenInv
    BY DEF OA!Init, TokenInv, OA!NoToken, OA!NoRefresh
  <1>8. CodeInv
    BY DEF OA!Init, CodeInv, FlowPending, Taken, CodeSends, Ops, Holds, OA!FlowIdle
  <1> QED BY <1>3, <1>4, <1>5, <1>6, <1>7, <1>8 DEF OAuthInv

LEMMA OAuthInvariant == OA!Spec => []OAuthInv
  <1>1. OAuthInv /\ [OA!Next]_OA!vars => OAuthInv'
    <2> SUFFICES ASSUME OAuthInv, [OA!Next]_OA!vars PROVE OAuthInv'
      OBVIOUS
    <2>1. OAuthTypes'
      BY DiscoveryTypesStep, RefreshTypesStep, FlowTypesStep DEF OAuthInv, OAuthTypes
    <2>2. MetaInv' /\ CredInv' /\ CodeInv'
      BY MetaInvStep, CredInvStep, CodeInvStep DEF OAuthInv
    <2>3. \A f \in Flows :
            /\ flow[f].pc = "bind" /\ flow[f].op = "code"
                 => flow[f].trans.issuer = flow[f].meta.issuer
            /\ flow[f].pc = "exchanging" => flow[f].trans.issuer = flow[f].meta.issuer
      BY DEF OAuthInv, CodeInv, Taken, Ops, Holds
    <2>4. PresetInv'
      BY <2>3, PresetInvStep DEF OAuthInv
    <2>5. TokenInv'
      BY <2>3, TokenInvStep DEF OAuthInv
    <2> QED BY <2>1, <2>2, <2>4, <2>5 DEF OAuthInv
  <1> QED BY OAuthInit, <1>1, PTL DEF OA!Spec

\* Credentials, codes and tokens go to the issuer they are from, and the ones
\* for a single use go once, however discoveries, registrations, refreshes and
\* authorization flows interleave (client/transport/oauth.go, oauth_binding.go).
THEOREM CredentialsAtHome == OA!Spec => []OA!CredentialsStayHome
  <1>1. OAuthInv => OA!CredentialsStayHome
    <2> SUFFICES ASSUME OAuthInv PROVE OA!CredentialsStayHome
      OBVIOUS
    <2>1. OA!Cardinality(presetSentTo) <= 1
      <3>1. PICK i : presetSentTo \subseteq {i}
        BY DEF OAuthInv, PresetInv
      <3>2. IsFiniteSet({i}) /\ Cardinality({i}) = 1
        BY FS_Singleton
      <3>3. Cardinality(presetSentTo) <= 1
        BY <3>1, <3>2, FS_Subset
      <3> QED BY <3>3 DEF Cardinality, OA!Cardinality, IsFiniteSet, OA!IsFiniteSet
    <2>2. refresh.pc = "sent" =>
            /\ refresh.token.by = refresh.meta.issuer
            /\ OA!Belongs(refresh.cred.client, refresh.meta.issuer)
            /\ refresh.token.token \notin replaced
      BY DEF OAuthInv, TokenInv, CredInv
    <2>3. \A f \in Flows : flow[f].pc = "exchanging" =>
            /\ urls[flow[f].trans.state] = flow[f].trans.issuer
            /\ OA!Belongs(flow[f].trans.client, flow[f].trans.issuer)
      BY DEF OAuthInv, CodeInv, Taken, Ops, Holds, Sound
    <2>4. store.by = store.issuer /\ \A n \in OA!URLs : codeSends[n] <= 1
      BY DEF OAuthInv, TokenInv, CodeInv, CodeSends
    <2> QED BY <2>1, <2>2, <2>3, <2>4 DEF OA!CredentialsStayHome
  <1> QED BY <1>1, OAuthInvariant, PTL

\* The handler's state is well typed; in particular what is sent goes to known
\* issuers only, and every replaced refresh token is one that was issued.
THEOREM OAuthTyped == OA!Spec => []OA!TypeOK
  <1>1. OAuthInv => OA!TypeOK
    <2> SUFFICES ASSUME OAuthInv PROVE OA!TypeOK
      OBVIOUS
    <2>1. replaced \subseteq OA!Tokens
      <3>1. replaced \subseteq 1..issued /\ issued \in 0..MaxTokens
        BY DEF OAuthInv, TokenInv, OAuthTypes, RefreshTypes
      <3> QED BY <3>1, OAuthAssumption DEF OAuthAssumption, OA!Tokens
    <2> QED BY <2>1 DEF OAuthInv, OAuthTypes, DiscoveryTypes, RefreshTypes, FlowTypes, Refreshes,
                        AuthFlows, PresetInv, OA!TypeOK
  <1> QED BY <1>1, OAuthInvariant, PTL

-----------------------------------------------------------------------------
(* Registry.                                                               *)
RG == INSTANCE Registry WITH Items <- RegistryItems, NameOf <- DisplayName,
    MaxVersion <- MaxRedefined

ListedEntries == RegistryItems \X RG!Versions
ListingClients ==
  [pc : {"idle", "listing", "merging", "listed"}, cursor : RegistryItems \union {0},
   base : RG!Maps, collected : Seq(ListedEntries)]
ItemsListed == {client.collected[n][1] : n \in DOMAIN client.collected}

\* An item the listing has come past.
IsPast(i) ==
  client.pc = "listed" \/ (client.cursor # 0 /\ ~RG!After(i, client.cursor))

RegistryTypes ==
  /\ RG!TypeOK /\ client \in ListingClients
  /\ kind # "tools" => taskTools = RG!Absent

\* The pages are in order, and end where the cursor is.
PagesInOrder ==
  /\ \A m, n \in DOMAIN client.collected :
       m < n => RG!After(client.collected[n][1], client.collected[m][1])
  /\ \A i \in ItemsListed : IsPast(i)
  /\ client.pc = "idle" => client.cursor = 0

\* What stayed is there, and listed once the listing has come past it.
StayedListed ==
  /\ stayed.all \subseteq RG!Present(RG!Base)
  /\ stayed.session \subseteq RG!Present(sessionItems)
  /\ client.pc = "merging" => stayed.all \subseteq RG!Present(client.base)
  /\ client.pc # "idle" =>
       \A i \in stayed.all \union stayed.session : IsPast(i) => i \in ItemsListed

\* What the client would list, and whether it has been, or will be, told to.
Offerings == RG!Merged(RG!Base, sessionItems)
ToldToList ==
  again \/ dropped \/ RG!IsQueued \/ \E c \in Changers : changer[c].pc = "changed"

\* A client that has nothing to wait for has what there is, as far as it has come.
ViewIsFresh ==
  capability = "listChanged" /\ ~ToldToList =>
    /\ client.pc = "idle" => view = Offerings
    /\ client.pc = "merging" => client.base = RG!Base
    /\ \A n \in DOMAIN client.collected :
         client.collected[n][2] = Offerings[client.collected[n][1]]
    /\ client.pc # "idle" =>
         \A i \in RG!Present(Offerings) : IsPast(i) => i \in ItemsListed

\* As long as there is no capability there is nothing, and nothing on its way.
NothingYet ==
  capability = "none" =>
    /\ items = RG!Absent /\ taskTools = RG!Absent /\ sessionItems = RG!Absent
    /\ view = RG!Absent /\ client.base = RG!Absent
    /\ client.collected = <<>> /\ client.cursor = 0
    /\ \A c \in Changers : changer[c].pc # "adding" /\ changer[c].copy = RG!Absent

RegistryInv ==
  RegistryTypes /\ PagesInOrder /\ StayedListed /\ ViewIsFresh /\ NothingYet

\* The order of the items is one (comparePageKey).
LEMMA ItemOrder ==
  ASSUME NEW a \in RegistryItems, NEW b \in RegistryItems, NEW c \in RegistryItems
  PROVE  /\ ~(RG!After(a, b) /\ RG!After(b, a))
         /\ RG!After(a, b) /\ RG!After(b, c) => RG!After(a, c)
         /\ a = b \/ RG!After(a, b) \/ RG!After(b, a)
  <1>1. {RG!Name(a), RG!Name(b), RG!Name(c), a, b, c} \subseteq Int
    BY RegistryAssumption DEF RegistryAssumption, RG!Name
  <1> QED BY <1>1 DEF RG!After

LEMMA MapFacts ==
  /\ RG!Absent \in RG!Maps /\ RG!Present(RG!Absent) = {}
  /\ \A base, own \in RG!Maps :
       /\ RG!Merged(base, own) \in RG!Maps
       /\ RG!Present(RG!Merged(base, own)) = RG!Present(base) \union RG!Present(own)
  /\ \A map \in RG!Maps, batch \in SUBSET RegistryItems, v \in 0..MaxRedefined :
       RG!Entered(map, batch, v) \in RG!Maps
  /\ \A map \in RG!Maps : \A i \in RG!Present(map) : i \in RegistryItems /\ map[i] \in RG!Versions
  <1> USE RegistryAssumption
      DEF RegistryAssumption, RG!Absent, RG!Maps, RG!Present, RG!Merged, RG!Entered, RG!Versions
  <1>1. RG!Absent \in RG!Maps /\ RG!Present(RG!Absent) = {}
    OBVIOUS
  <1>2. \A base, own \in RG!Maps :
          /\ RG!Merged(base, own) \in RG!Maps
          /\ RG!Present(RG!Merged(base, own)) = RG!Present(base) \union RG!Present(own)
    OBVIOUS
  <1>3. \A map \in RG!Maps, batch \in SUBSET RegistryItems, v \in 0..MaxRedefined :
          RG!Entered(map, batch, v) \in RG!Maps
    OBVIOUS
  <1>4. \A map \in RG!Maps : \A i \in RG!Present(map) :
          i \in RegistryItems /\ map[i] \in RG!Versions
    OBVIOUS
  <1> QED BY <1>1, <1>2, <1>3, <1>4

LEMMA RegistryStarts == RG!Init => RegistryInv
  <1> SUFFICES ASSUME RG!Init PROVE RegistryInv
    OBVIOUS
  <1> USE RegistryAssumption DEF RegistryAssumption, RG!Init
  <1>1. client = [pc |-> "idle", cursor |-> 0, collected |-> <<>>, base |-> RG!Absent]
    BY DEF RG!ClientIdle
  <1>2. client \in ListingClients /\ ItemsListed = {}
    BY <1>1, MapFacts DEF ListingClients, ItemsListed
  <1>3. RG!TypeOK
    <2>1. notifications \in Seq({"list_changed", "log"}) /\ Len(notifications) <= ChannelCap
      OBVIOUS
    <2>2. /\ changer \in [Changers -> [pc : {"idle", "adding", "deleting", "changed"},
                                      copy : RG!Maps]]
          /\ stayed \in [all : SUBSET RegistryItems, session : SUBSET RegistryItems]
      BY MapFacts
    <2>3. /\ client.pc = "idle" /\ client.cursor = 0 /\ client.base \in RG!Maps
          /\ client.collected \in Seq(RegistryItems \X RG!Versions)
      BY <1>1, MapFacts
    <2>4. /\ items \in RG!Maps /\ taskTools \in RG!Maps /\ sessionItems \in RG!Maps
          /\ view \in RG!Maps /\ RG!Present(items) \intersect RG!Present(taskTools) = {}
      BY MapFacts
    <2>5. /\ kind \in Kinds /\ capability \in {"none", "silent", "listChanged"}
          /\ again \in BOOLEAN /\ dropped \in BOOLEAN
      OBVIOUS
    <2>6. changes \in 0..MaxChanges /\ logs \in 0..MaxLogs
      OBVIOUS
    <2> HIDE DEF RG!Init
    <2> QED BY <2>1, <2>2, <2>3, <2>4, <2>5, <2>6 DEF RG!TypeOK
  <1>4. PagesInOrder /\ StayedListed /\ ViewIsFresh /\ NothingYet
    BY <1>1, <1>2 DEF PagesInOrder, StayedListed, ViewIsFresh, NothingYet, ToldToList
  <1> QED BY <1>2, <1>3, <1>4 DEF RegistryInv, RegistryTypes

\* A step that changes neither what is listed nor who is told.
LEMMA RegistryStays ==
  ASSUME RegistryInv, RegistryTypes',
         UNCHANGED <<kind, capability, items, taskTools, sessionItems, client, view, stayed>>,
         ToldToList => ToldToList',
         capability = "none" => \A c \in Changers :
           /\ changer'[c].copy = RG!Absent
           /\ changer'[c].pc = "adding" => changer[c].pc = "adding"
  PROVE  RegistryInv'
  <1>1. UNCHANGED <<RG!Base, Offerings, ItemsListed>> /\ \A i \in RegistryItems : IsPast(i)' = IsPast(i)
    BY DEF RG!Base, RG!Merged, Offerings, ItemsListed, IsPast, RG!After, RG!Name
  <1>2. \A i, j \in RegistryItems : RG!After(i, j)' = RG!After(i, j)
    BY DEF RG!After, RG!Name
  <1>3. \A n \in DOMAIN client.collected : client.collected[n][1] \in RegistryItems
    BY DEF RegistryInv, RegistryTypes, ListingClients, ListedEntries
  <1>4. ItemsListed \subseteq RegistryItems
    BY <1>3 DEF ItemsListed
  <1>5. PagesInOrder'
    BY <1>1, <1>2, <1>3, <1>4 DEF RegistryInv, PagesInOrder
  <1>6. stayed.all \subseteq RegistryItems /\ stayed.session \subseteq RegistryItems
    BY DEF RegistryInv, StayedListed, RG!Present
  <1>7. StayedListed'
    BY <1>1, <1>6 DEF RegistryInv, StayedListed, RG!Present
  <1>8. ViewIsFresh'
    BY <1>1 DEF RegistryInv, ViewIsFresh, RG!Present
  <1>9. NothingYet'
    <2>1. RG!Absent' = RG!Absent
      BY DEF RG!Absent
    <2> QED BY <2>1 DEF RegistryInv, NothingYet
  <1> QED BY <1>5, <1>7, <1>8, <1>9 DEF RegistryInv

\* What changes for everyone is announced, or is no change.
LEMMA RegistryChanged ==
  ASSUME RegistryInv, NEW c \in Changers, NEW map \in RG!Maps, NEW tasks \in RG!Maps,
         NEW announced \in BOOLEAN, RG!IsNext(c), RG!Change(c, map, tasks, announced),
         RG!Present(map) \intersect RG!Present(tasks) = {},
         kind # "tools" => tasks = RG!Absent,
         capability' = "none" =>
           capability = "none" /\ map = RG!Absent /\ tasks = RG!Absent,
         capability' \in {"none", "silent", "listChanged"},
         ~announced => map = items /\ tasks = taskTools /\ capability' = capability
  PROVE  RegistryInv'
  <1>0. RegistryTypes /\ PagesInOrder /\ StayedListed /\ ViewIsFresh /\ NothingYet
    BY DEF RegistryInv
  <1>1. /\ items' = map /\ taskTools' = tasks /\ changes' = changes + 1
        /\ changer[c].pc = "idle" /\ changes < MaxChanges
        /\ changer' = [changer EXCEPT ![c].pc = IF announced THEN "changed" ELSE "idle"]
        /\ stayed' = [stayed EXCEPT !.all =
             stayed.all \intersect (RG!Present(map) \union RG!Present(tasks))]
        /\ UNCHANGED <<kind, sessionItems, notifications, client, view, again, dropped, logs>>
    BY DEF RG!Change, RG!IsNext
  <1>2. /\ changer \in [Changers -> [pc : {"idle", "adding", "deleting", "changed"},
                                    copy : RG!Maps]]
        /\ stayed \in [all : SUBSET RegistryItems, session : SUBSET RegistryItems]
        /\ changes \in Nat /\ MaxChanges \in Nat
    BY <1>0, RegistryAssumption DEF RegistryAssumption, RegistryTypes, RG!TypeOK
  <1>3. /\ \A d \in Changers : changer'[d].copy = changer[d].copy
        /\ \A d \in Changers : d # c => changer'[d] = changer[d]
        /\ changer'[c].pc = IF announced THEN "changed" ELSE "idle"
        /\ changer' \in [Changers -> [pc : {"idle", "adding", "deleting", "changed"},
                                     copy : RG!Maps]]
    BY <1>1, <1>2
  <1>4. /\ stayed'.all = stayed.all \intersect (RG!Present(map) \union RG!Present(tasks))
        /\ stayed'.session = stayed.session
        /\ stayed' \in [all : SUBSET RegistryItems, session : SUBSET RegistryItems]
    BY <1>1, <1>2
  <1>5. changes' \in 0..MaxChanges
    BY <1>1, <1>2
  <1>6. RG!TypeOK'
    <2>1. /\ items' \in RG!Maps /\ taskTools' \in RG!Maps /\ sessionItems' \in RG!Maps
          /\ view' \in RG!Maps /\ client'.base \in RG!Maps
          /\ RG!Present(items') \intersect RG!Present(taskTools') = {}
      BY <1>0, <1>1 DEF RegistryTypes, RG!TypeOK
    <2>2. /\ kind' \in Kinds /\ again' \in BOOLEAN /\ dropped' \in BOOLEAN
          /\ notifications' \in Seq({"list_changed", "log"}) /\ Len(notifications') <= ChannelCap
          /\ client'.pc \in {"idle", "listing", "merging", "listed"}
          /\ client'.cursor \in RegistryItems \union {0}
          /\ client'.collected \in Seq(RegistryItems \X RG!Versions) /\ logs' \in 0..MaxLogs
      BY <1>0, <1>1 DEF RegistryTypes, RG!TypeOK
    <2>3. RG!Maps' = RG!Maps /\ RG!Versions' = RG!Versions
          /\ RG!Present(items)' = RG!Present(items') /\ RG!Present(taskTools)' = RG!Present(taskTools')
      BY DEF RG!Maps, RG!Versions, RG!Present
    <2> QED BY <1>3, <1>4, <1>5, <2>1, <2>2, <2>3 DEF RG!TypeOK
  <1>7. RegistryTypes'
    BY <1>0, <1>1, <1>6 DEF RegistryTypes, ListingClients, ListedEntries, RG!Versions, RG!Maps, RG!Absent
  <1>8. /\ ItemsListed' = ItemsListed /\ \A i \in RegistryItems : IsPast(i)' = IsPast(i)
        /\ \A i, j \in RegistryItems : RG!After(i, j)' = RG!After(i, j)
    BY <1>1 DEF ItemsListed, IsPast, RG!After, RG!Name
  <1>9. \A n \in DOMAIN client.collected : client.collected[n][1] \in RegistryItems
    BY <1>0 DEF RegistryTypes, ListingClients, ListedEntries
  <1>10. PagesInOrder'
    BY <1>0, <1>1, <1>8, <1>9 DEF PagesInOrder, ItemsListed
  <1>11. RG!Base' = RG!Merged(tasks, map)
    BY <1>1 DEF RG!Base, RG!Merged
  <1>12. StayedListed'
    <2>1. RG!Present(RG!Base') = RG!Present(tasks) \union RG!Present(map)
      BY <1>11, MapFacts
    <2>2. RG!Present(RG!Base)' = RG!Present(RG!Base') /\ RG!Present(sessionItems)' = RG!Present(sessionItems)
          /\ RG!Present(client.base)' = RG!Present(client.base)
      BY <1>1 DEF RG!Present
    <2> QED BY <1>0, <1>1, <1>2, <1>4, <1>8, <2>1, <2>2 DEF StayedListed
  <1>13. ViewIsFresh'
    <2>1. CASE announced
      <3>1. ToldToList'
        BY <1>3, <2>1 DEF ToldToList
      <3> QED BY <3>1 DEF ViewIsFresh
    <2>2. CASE ~announced
      <3>1. changer' = changer /\ items' = items /\ taskTools' = taskTools /\ capability' = capability
        BY <1>1, <1>2, <2>2
      <3>2. Offerings' = Offerings /\ RG!Base' = RG!Base /\ (ToldToList => ToldToList')
        BY <1>1, <3>1 DEF Offerings, RG!Base, RG!Merged, ToldToList, RG!IsQueued
      <3>3. RG!Present(Offerings)' = RG!Present(Offerings)
            /\ RG!Present(Offerings) \subseteq RegistryItems
        BY <3>2 DEF RG!Present
      <3> QED BY <1>0, <1>1, <1>8, <3>1, <3>2, <3>3 DEF ViewIsFresh
    <2> QED BY <2>1, <2>2
  <1>14. NothingYet'
    <2>1. RG!Absent' = RG!Absent
      BY DEF RG!Absent
    <2>2. \A d \in Changers : changer'[d].pc = "adding" => changer[d].pc = "adding"
      BY <1>3
    <2> QED BY <1>0, <1>1, <1>3, <2>1, <2>2 DEF NothingYet
  <1> QED BY <1>7, <1>10, <1>12, <1>13, <1>14 DEF RegistryInv

LEMMA RegistryChanging ==
  ASSUME RegistryInv, NEW c \in Changers, RG!Changing(c)
  PROVE  RegistryInv'
  <1>0. /\ RG!IsNext(c) /\ items \in RG!Maps /\ taskTools \in RG!Maps
        /\ capability \in {"none", "silent", "listChanged"}
        /\ RG!Present(items) \intersect RG!Present(taskTools) = {}
        /\ kind # "tools" => taskTools = RG!Absent
    BY DEF RegistryInv, RegistryTypes, RG!TypeOK, RG!Changing
  <1>1. \A default \in {"silent", "listChanged"} :
          RG!Implicitly(default) \in {"silent", "listChanged"}
    BY <1>0 DEF RG!Implicitly
  <1>2. RG!DefaultOf \in {"silent", "listChanged"}
    BY DEF RG!DefaultOf
  <1>3. RG!Versions \subseteq 0..MaxRedefined /\ 0 \in 0..MaxRedefined
    BY RegistryAssumption DEF RegistryAssumption, RG!Versions
  <1>4. RG!Present(RG!Absent) = {} /\ RG!Absent \in RG!Maps
    BY MapFacts
  <1>5. ASSUME RG!Add(c) \/ RG!Set(c),
               RG!Present(items') \intersect RG!Present(taskTools) = {}
        PROVE  RegistryInv'
    <2>1. PICK map \in RG!Maps : RG!Change(c, map, taskTools, TRUE)
      <3>1. \A base \in {items, RG!Absent}, batch \in SUBSET RegistryItems, v \in RG!Versions :
              RG!Entered(base, batch, v) \in RG!Maps
        BY <1>0, <1>3, <1>4, MapFacts
      <3> QED BY <1>5, <3>1 DEF RG!Add, RG!Set
    <2>2. items' = map /\ RG!Present(items') = RG!Present(map)
      BY <2>1 DEF RG!Change
    <2>3. capability' \in {"silent", "listChanged"}
      BY <1>5, <1>1, <1>2 DEF RG!Add, RG!Set
    <2> QED BY <1>0, <1>5, <2>1, <2>2, <2>3, RegistryChanged
  <1>6. ASSUME RG!Add(c) \/ RG!Set(c), kind # "tools" PROVE RegistryInv'
    BY <1>0, <1>4, <1>5, <1>6
  <1>7. ASSUME RG!Delete(c) PROVE RegistryInv'
    <2>1. PICK batch \in SUBSET RegistryItems :
            RG!Change(c, RG!Removed(items, batch), taskTools,
                      batch \intersect RG!Present(items) # {})
      BY <1>7 DEF RG!Delete
    <2>2. RG!Removed(items, batch) \in RG!Maps
      BY <1>0, <1>3, MapFacts DEF RG!Removed
    <2>3. RG!Present(RG!Removed(items, batch)) \subseteq RG!Present(items)
      BY DEF RG!Present, RG!Removed, RG!Entered
    <2>4. batch \intersect RG!Present(items) = {} => RG!Removed(items, batch) = items
      BY <1>0 DEF RG!Present, RG!Removed, RG!Entered, RG!Maps
    <2>5. capability' = capability
      BY <1>7 DEF RG!Delete
    <2>6. capability = "none" =>
            RG!Removed(items, batch) = RG!Absent /\ taskTools = RG!Absent
      <3>1. capability = "none" => items = RG!Absent /\ taskTools = RG!Absent
        BY DEF RegistryInv, NothingYet
      <3>2. RG!Removed(RG!Absent, batch) = RG!Absent
        BY DEF RG!Removed, RG!Entered, RG!Absent
      <3> QED BY <3>1, <3>2
    <2> DEFINE announced == batch \intersect RG!Present(items) # {}
    <2>7. announced \in BOOLEAN /\ RG!Change(c, RG!Removed(items, batch), taskTools, announced)
      BY <2>1
    <2>8. ~announced => RG!Removed(items, batch) = items
      BY <2>4
    <2> HIDE DEF announced
    <2> QED BY <1>0, <2>2, <2>3, <2>5, <2>6, <2>7, <2>8, RegistryChanged
  <1>8. CASE RG!AddTools(c) \/ RG!SetTools(c)
    BY <1>5, <1>8 DEF RG!AddTools, RG!SetTools
  <1>9. CASE RG!AddTaskTools(c)
    <2>1. PICK batch \in SUBSET RegistryItems, v \in RG!Versions :
            /\ batch \intersect RG!Present(items) = {}
            /\ RG!Change(c, items, RG!Entered(taskTools, batch, v), TRUE)
      BY <1>9 DEF RG!AddTaskTools
    <2>2. RG!Entered(taskTools, batch, v) \in RG!Maps
      BY <1>0, <1>3, MapFacts
    <2>3. RG!Present(items) \intersect RG!Present(RG!Entered(taskTools, batch, v)) = {}
      BY <1>0, <2>1 DEF RG!Present, RG!Entered
    <2>4. kind = "tools" /\ capability' \in {"silent", "listChanged"}
      BY <1>1, <1>9 DEF RG!AddTaskTools
    <2> QED BY <1>0, <2>1, <2>2, <2>3, <2>4, RegistryChanged
  <1>10. CASE RG!DeleteTools(c) \/ RG!DeleteResources(c) \/ RG!DeletePrompts(c)
    BY <1>7, <1>10 DEF RG!DeleteTools, RG!DeleteResources, RG!DeletePrompts
  <1>11. CASE \/ RG!AddResources(c) \/ RG!SetResources(c) \/ RG!AddResourceTemplates(c)
              \/ RG!SetResourceTemplates(c) \/ RG!AddPrompts(c) \/ RG!SetPrompts(c)
    BY <1>6, <1>11
       DEF RG!AddResources, RG!SetResources, RG!AddResourceTemplates,
           RG!SetResourceTemplates, RG!AddPrompts, RG!SetPrompts
  <1> QED BY <1>8, <1>9, <1>10, <1>11 DEF RG!Changing

\* The types after a step that leaves what the server has, and the client, alone.
LEMMA RegistryTyped ==
  ASSUME RegistryTypes,
         UNCHANGED <<kind, items, taskTools, client, view>>,
         capability' \in {"none", "silent", "listChanged"}, sessionItems' \in RG!Maps,
         changer' \in [Changers -> [pc : {"idle", "adding", "deleting", "changed"},
                                    copy : RG!Maps]],
         notifications' \in Seq({"list_changed", "log"}), Len(notifications') <= ChannelCap,
         again' \in BOOLEAN, dropped' \in BOOLEAN,
         stayed' \in [all : SUBSET RegistryItems, session : SUBSET RegistryItems],
         changes' \in 0..MaxChanges, logs' \in 0..MaxLogs
  PROVE  RegistryTypes'
  <1>1. /\ RG!Maps' = RG!Maps /\ RG!Versions' = RG!Versions /\ RG!Absent' = RG!Absent
        /\ RG!Present(items)' = RG!Present(items) /\ RG!Present(taskTools)' = RG!Present(taskTools)
        /\ ListingClients' = ListingClients
    BY DEF RG!Maps, RG!Versions, RG!Present, RG!Absent, ListingClients, ListedEntries
  <1> QED BY <1>1 DEF RegistryTypes, RG!TypeOK

LEMMA RegistrySession ==
  ASSUME RegistryInv, NEW c \in Changers, RG!ChangingSession(c)
  PROVE  RegistryInv'
  <1>0. RegistryTypes /\ PagesInOrder /\ StayedListed /\ ViewIsFresh /\ NothingYet
    BY DEF RegistryInv
  <1>1. /\ changer \in [Changers -> [pc : {"idle", "adding", "deleting", "changed"},
                                    copy : RG!Maps]]
        /\ stayed \in [all : SUBSET RegistryItems, session : SUBSET RegistryItems]
        /\ capability \in {"none", "silent", "listChanged"} /\ sessionItems \in RG!Maps
        /\ notifications \in Seq({"list_changed", "log"}) /\ Len(notifications) <= ChannelCap
        /\ again \in BOOLEAN /\ dropped \in BOOLEAN
    BY <1>0 DEF RegistryTypes, RG!TypeOK
  <1>2. changes \in 0..MaxChanges /\ logs \in 0..MaxLogs /\ MaxChanges \in Nat
    BY <1>0, RegistryAssumption DEF RegistryAssumption, RegistryTypes, RG!TypeOK
  <1>3. /\ UNCHANGED <<kind, items, taskTools, client>> =>
             ItemsListed' = ItemsListed /\ RG!Base' = RG!Base
        /\ UNCHANGED <<kind, client>> => \A i \in RegistryItems : IsPast(i)' = IsPast(i)
        /\ UNCHANGED kind => \A i, j \in RegistryItems : RG!After(i, j)' = RG!After(i, j)
    BY DEF ItemsListed, IsPast, RG!After, RG!Name, RG!Base, RG!Merged
  <1>4. /\ \A n \in DOMAIN client.collected : client.collected[n][1] \in RegistryItems
        /\ ItemsListed \subseteq RegistryItems
    BY <1>0 DEF RegistryTypes, ListingClients, ListedEntries, ItemsListed
  <1>5. ASSUME UNCHANGED <<kind, items, taskTools, client>> PROVE PagesInOrder'
    BY <1>0, <1>3, <1>4, <1>5 DEF PagesInOrder
  <1>6. ASSUME NEW registers \in BOOLEAN, RG!ReadSessionItems(c, registers)
        PROVE  RegistryInv'
    <2>1. /\ changer[c].pc = "idle" /\ changes < MaxChanges /\ changes' = changes + 1
          /\ capability' = IF registers THEN RG!Implicitly("listChanged") ELSE capability
          /\ changer' = [changer EXCEPT ![c] =
               [pc |-> IF registers THEN "adding" ELSE "deleting", copy |-> sessionItems]]
          /\ UNCHANGED <<kind, items, taskTools, sessionItems, notifications, client, view,
                         again, dropped, stayed, logs>>
      BY <1>6 DEF RG!ReadSessionItems, RG!IsNext
    <2>2. /\ changer' \in [Changers -> [pc : {"idle", "adding", "deleting", "changed"},
                                       copy : RG!Maps]]
          /\ changer'[c].pc = IF registers THEN "adding" ELSE "deleting"
          /\ changer'[c].copy = sessionItems
          /\ \A d \in Changers : d # c => changer'[d] = changer[d]
      BY <1>1, <2>1
    <2>3. /\ capability' \in {"none", "silent", "listChanged"}
          /\ capability # "none" => capability' = capability
          /\ registers => capability' # "none"
      BY <1>1, <2>1 DEF RG!Implicitly
    <2>4. changes' \in 0..MaxChanges
      BY <1>2, <2>1
    <2>5. RegistryTypes'
      BY <1>0, <1>1, <1>2, <2>1, <2>2, <2>3, <2>4, RegistryTyped
    <2>6. ToldToList' = ToldToList
      <3>1. \A d \in Changers : changer'[d].pc = "changed" <=> changer[d].pc = "changed"
        BY <2>1, <2>2
      <3> QED BY <2>1, <3>1 DEF ToldToList, RG!IsQueued
    <2>7. CASE capability = "none"
      <3>1. /\ items = RG!Absent /\ taskTools = RG!Absent /\ sessionItems = RG!Absent
            /\ view = RG!Absent /\ client.base = RG!Absent
            /\ client.collected = <<>> /\ client.cursor = 0
            /\ \A d \in Changers : changer[d].pc # "adding" /\ changer[d].copy = RG!Absent
        BY <1>0, <2>7 DEF NothingYet
      <3>2. RG!Base' = RG!Absent /\ Offerings' = RG!Absent
        BY <2>1, <3>1 DEF Offerings, RG!Base, RG!Merged, RG!Absent
      <3>3. RG!Present(Offerings') = {} /\ ItemsListed' = {}
        BY <2>1, <3>1, <3>2, MapFacts DEF ItemsListed
      <3>4. RG!Present(Offerings)' = {}
        BY <3>3 DEF RG!Present
      <3>5. ViewIsFresh'
        BY <2>1, <3>1, <3>2, <3>4 DEF ViewIsFresh
      <3>6. NothingYet'
        <4>1. RG!Absent' = RG!Absent
          BY DEF RG!Absent
        <4> QED BY <2>1, <2>2, <2>3, <3>1, <4>1 DEF NothingYet
      <3>7. StayedListed'
        BY <1>0, <1>1, <1>3, <2>1 DEF StayedListed, RG!Present
      <3> QED BY <1>5, <2>1, <2>5, <3>5, <3>6, <3>7 DEF RegistryInv
    <2>8. CASE capability # "none"
      BY <2>1, <2>3, <2>5, <2>6, <2>8, RegistryStays
    <2> QED BY <2>7, <2>8
  <1>7. ASSUME NEW map \in RG!Maps, RG!StoreSessionItems(c, map),
               capability = "none" => map = RG!Absent
        PROVE  RegistryInv'
    <2>1. /\ sessionItems' = map
          /\ stayed' = [stayed EXCEPT !.session = stayed.session \intersect RG!Present(map)]
          /\ changer' = [changer EXCEPT ![c] = [pc |-> "changed", copy |-> RG!Absent]]
          /\ UNCHANGED <<kind, capability, items, taskTools, notifications, client, view,
                         again, dropped, changes, logs>>
      BY <1>7 DEF RG!StoreSessionItems
    <2>2. /\ changer' \in [Changers -> [pc : {"idle", "adding", "deleting", "changed"},
                                       copy : RG!Maps]]
          /\ changer'[c].pc = "changed" /\ changer'[c].copy = RG!Absent
          /\ \A d \in Changers : d # c => changer'[d] = changer[d]
      BY <1>1, <2>1, MapFacts
    <2>3. /\ stayed' \in [all : SUBSET RegistryItems, session : SUBSET RegistryItems]
          /\ stayed'.all = stayed.all /\ stayed'.session \subseteq stayed.session
          /\ stayed'.session \subseteq RG!Present(map)
      BY <1>1, <2>1
    <2>4. RegistryTypes'
      BY <1>0, <1>1, <1>2, <2>1, <2>2, <2>3, RegistryTyped
    <2>5. StayedListed'
      <3>1. RG!Present(RG!Base)' = RG!Present(RG!Base) /\ RG!Present(sessionItems)' = RG!Present(map)
            /\ RG!Present(client.base)' = RG!Present(client.base)
        BY <1>3, <2>1 DEF RG!Present
      <3> QED BY <1>0, <1>1, <1>3, <2>1, <2>3, <3>1 DEF StayedListed
    <2>6. ViewIsFresh'
      BY <2>2 DEF ViewIsFresh, ToldToList
    <2>7. NothingYet'
      <3>1. RG!Absent' = RG!Absent
        BY DEF RG!Absent
      <3>2. \A d \in Changers : changer'[d].pc = "adding" => changer[d].pc = "adding"
        BY <2>2
      <3>3. \A d \in Changers : changer'[d].copy \in {changer[d].copy, RG!Absent}
        BY <2>2
      <3> QED BY <1>0, <1>7, <2>1, <3>1, <3>2, <3>3 DEF NothingYet
    <2> QED BY <1>5, <2>1, <2>4, <2>5, <2>6, <2>7 DEF RegistryInv
  <1>8. /\ changer[c].copy \in RG!Maps /\ RG!Versions \subseteq 0..MaxRedefined
        /\ 0 \in 0..MaxRedefined
    BY <1>1, RegistryAssumption DEF RegistryAssumption, RG!Versions
  <1>9. CASE RG!AddSessionItems(c)
    <2>1. PICK batch \in SUBSET RegistryItems, v \in RG!Versions :
            RG!StoreSessionItems(c, RG!Entered(changer[c].copy, batch, v))
      BY <1>9 DEF RG!AddSessionItems
    <2>2. RG!Entered(changer[c].copy, batch, v) \in RG!Maps
      BY <1>8, MapFacts
    <2>3. capability # "none"
      BY <1>0, <1>9 DEF NothingYet, RG!AddSessionItems
    <2> QED BY <1>7, <2>1, <2>2, <2>3
  <1>10. CASE RG!DeleteSessionItems(c)
    <2>1. PICK batch \in SUBSET RegistryItems :
            RG!StoreSessionItems(c, RG!Removed(changer[c].copy, batch))
      BY <1>10 DEF RG!DeleteSessionItems
    <2>2. RG!Removed(changer[c].copy, batch) \in RG!Maps
      BY <1>8, MapFacts DEF RG!Removed
    <2>3. RG!Removed(RG!Absent, batch) = RG!Absent
      BY DEF RG!Removed, RG!Entered, RG!Absent
    <2>4. capability = "none" => changer[c].copy = RG!Absent
      BY <1>0 DEF NothingYet
    <2> QED BY <1>7, <2>1, <2>2, <2>3, <2>4
  <1>11. CASE RG!LeaveSessionItems(c)
    <2>1. /\ changer[c].pc \in {"adding", "deleting"}
          /\ changer' = [changer EXCEPT ![c] = [pc |-> "idle", copy |-> RG!Absent]]
          /\ UNCHANGED <<kind, capability, items, taskTools, sessionItems, notifications,
                         client, view, again, dropped, stayed, changes, logs>>
      BY <1>11 DEF RG!LeaveSessionItems
    <2>2. /\ changer' \in [Changers -> [pc : {"idle", "adding", "deleting", "changed"},
                                       copy : RG!Maps]]
          /\ changer'[c].pc = "idle" /\ changer'[c].copy = RG!Absent
          /\ \A d \in Changers : d # c => changer'[d] = changer[d]
      BY <1>1, <2>1, MapFacts
    <2>3. RegistryTypes'
      BY <1>0, <1>1, <1>2, <2>1, <2>2, RegistryTyped
    <2>4. ToldToList => ToldToList'
      <3>1. \A d \in Changers : changer[d].pc = "changed" => changer'[d].pc = "changed"
        BY <2>1, <2>2
      <3> QED BY <2>1, <3>1 DEF ToldToList, RG!IsQueued
    <2>5. /\ capability = "none" => \A d \in Changers : changer[d].copy = RG!Absent
          /\ capability = "none" => \A d \in Changers : changer[d].pc # "adding"
      BY <1>0 DEF NothingYet
    <2> QED BY <2>1, <2>2, <2>3, <2>4, <2>5, RegistryStays
  <1> QED BY <1>6, <1>9, <1>10, <1>11 DEF RG!ChangingSession

\* What the channel has no room for is lost, and known to be.
LEMMA RegistryOffers ==
  ASSUME RegistryTypes, NEW n \in {"list_changed", "log"}, RG!Offer(n)
  PROVE  /\ notifications' \in Seq({"list_changed", "log"}) /\ Len(notifications') <= ChannelCap
         /\ dropped' \in BOOLEAN
         /\ dropped \/ RG!IsQueued => dropped' \/ RG!IsQueued'
         /\ n = "list_changed" => dropped' \/ RG!IsQueued'
  <1>1. /\ notifications \in Seq({"list_changed", "log"}) /\ Len(notifications) <= ChannelCap
        /\ ChannelCap \in Nat /\ dropped \in BOOLEAN
    BY RegistryAssumption DEF RegistryAssumption, RegistryTypes, RG!TypeOK
  <1>2. CASE Len(notifications) < ChannelCap
    <2>1. notifications' = Append(notifications, n) /\ dropped' = dropped
      BY <1>2 DEF RG!Offer
    <2>2. /\ notifications' \in Seq({"list_changed", "log"})
          /\ Len(notifications') = Len(notifications) + 1
          /\ notifications'[Len(notifications) + 1] = n
          /\ \A m \in 1..Len(notifications) : notifications'[m] = notifications[m]
      BY <1>1, <2>1
    <2>3. /\ Len(notifications') <= ChannelCap
          /\ Len(notifications) + 1 \in 1..Len(notifications')
          /\ 1..Len(notifications) \subseteq 1..Len(notifications')
      BY <1>1, <1>2, <2>2
    <2>4. RG!IsQueued => RG!IsQueued'
      BY <2>2, <2>3 DEF RG!IsQueued
    <2>5. n = "list_changed" => RG!IsQueued'
      BY <2>2, <2>3 DEF RG!IsQueued
    <2> QED BY <1>1, <2>1, <2>2, <2>3, <2>4, <2>5
  <1>3. CASE ~(Len(notifications) < ChannelCap)
    <2>1. notifications' = notifications
          /\ dropped' = (dropped \/ (n = "list_changed" /\ ~RG!IsQueued))
      BY <1>3 DEF RG!Offer
    <2>2. RG!IsQueued' <=> RG!IsQueued
      BY <2>1 DEF RG!IsQueued
    <2> QED BY <1>1, <2>1, <2>2
  <1> QED BY <1>2, <1>3

LEMMA RegistryTells ==
  ASSUME RegistryInv,
         (\E c \in Changers : RG!Announce(c)) \/ RG!SendLogMessage \/ RG!Receive
  PROVE  RegistryInv'
  <1>0. RegistryTypes /\ PagesInOrder /\ StayedListed /\ ViewIsFresh /\ NothingYet
    BY DEF RegistryInv
  <1>1. /\ changer \in [Changers -> [pc : {"idle", "adding", "deleting", "changed"},
                                    copy : RG!Maps]]
        /\ stayed \in [all : SUBSET RegistryItems, session : SUBSET RegistryItems]
        /\ capability \in {"none", "silent", "listChanged"} /\ sessionItems \in RG!Maps
        /\ notifications \in Seq({"list_changed", "log"}) /\ Len(notifications) <= ChannelCap
        /\ again \in BOOLEAN /\ dropped \in BOOLEAN
    BY <1>0 DEF RegistryTypes, RG!TypeOK
  <1>2. /\ changes \in 0..MaxChanges /\ logs \in 0..MaxLogs
        /\ MaxLogs \in Nat /\ ChannelCap \in Nat
    BY <1>0, RegistryAssumption DEF RegistryAssumption, RegistryTypes, RG!TypeOK
  <1>3. ASSUME NEW c \in Changers, RG!Announce(c) PROVE RegistryInv'
    <2>1. /\ changer[c].pc = "changed" /\ changer' = [changer EXCEPT ![c].pc = "idle"]
          /\ UNCHANGED <<kind, capability, items, taskTools, sessionItems, client, view, again,
                         stayed, changes, logs>>
          /\ capability = "listChanged" => RG!Offer("list_changed")
          /\ capability # "listChanged" => UNCHANGED <<notifications, dropped>>
      BY <1>3 DEF RG!Announce
    <2>2. /\ changer' \in [Changers -> [pc : {"idle", "adding", "deleting", "changed"},
                                       copy : RG!Maps]]
          /\ \A d \in Changers : changer'[d].copy = changer[d].copy
          /\ \A d \in Changers : changer'[d].pc = "adding" => changer[d].pc = "adding"
      BY <1>1, <2>1
    <2>3. /\ notifications' \in Seq({"list_changed", "log"}) /\ Len(notifications') <= ChannelCap
          /\ dropped' \in BOOLEAN
          /\ capability = "listChanged" => dropped' \/ RG!IsQueued'
      BY <1>0, <1>1, <2>1, RegistryOffers
    <2>4. RegistryTypes'
      BY <1>0, <1>1, <1>2, <2>1, <2>2, <2>3, RegistryTyped
    <2>5. /\ ItemsListed' = ItemsListed /\ RG!Base' = RG!Base
          /\ \A i \in RegistryItems : IsPast(i)' = IsPast(i)
          /\ \A i, j \in RegistryItems : RG!After(i, j)' = RG!After(i, j)
      BY <2>1 DEF ItemsListed, IsPast, RG!After, RG!Name, RG!Base, RG!Merged
    <2>6. /\ \A n \in DOMAIN client.collected : client.collected[n][1] \in RegistryItems
          /\ ItemsListed \subseteq RegistryItems
      BY <1>0 DEF RegistryTypes, ListingClients, ListedEntries, ItemsListed
    <2>7. PagesInOrder'
      BY <1>0, <2>1, <2>5, <2>6 DEF PagesInOrder
    <2>8. StayedListed'
      BY <1>0, <1>1, <2>1, <2>5 DEF StayedListed, RG!Present
    <2>9. ViewIsFresh'
      BY <2>1, <2>3 DEF ViewIsFresh, ToldToList
    <2>10. NothingYet'
      <3>1. RG!Absent' = RG!Absent
        BY DEF RG!Absent
      <3> QED BY <1>0, <2>1, <2>2, <3>1 DEF NothingYet
    <2> QED BY <2>4, <2>7, <2>8, <2>9, <2>10 DEF RegistryInv
  <1>4. CASE RG!SendLogMessage
    <2>1. /\ logs < MaxLogs /\ logs' = logs + 1 /\ RG!Offer("log")
          /\ UNCHANGED <<kind, capability, items, taskTools, sessionItems, changer, client,
                         view, again, stayed, changes>>
      BY <1>4 DEF RG!SendLogMessage
    <2>2. logs' \in 0..MaxLogs
      BY <1>2, <2>1
    <2>3. /\ notifications' \in Seq({"list_changed", "log"}) /\ Len(notifications') <= ChannelCap
          /\ dropped' \in BOOLEAN /\ (dropped \/ RG!IsQueued => dropped' \/ RG!IsQueued')
      BY <1>0, <2>1, RegistryOffers
    <2>4. RegistryTypes'
      BY <1>0, <1>1, <1>2, <2>1, <2>2, <2>3, RegistryTyped
    <2>5. ToldToList => ToldToList'
      BY <2>1, <2>3 DEF ToldToList
    <2> QED BY <1>0, <2>1, <2>4, <2>5, RegistryStays DEF NothingYet
  <1>5. CASE RG!Receive
    <2>1. /\ notifications # <<>> /\ notifications' = Tail(notifications)
          /\ again' = (again \/ Head(notifications) = "list_changed")
          /\ UNCHANGED <<kind, capability, items, taskTools, sessionItems, changer, client,
                         view, dropped, stayed, changes, logs>>
      BY <1>5 DEF RG!Receive
    <2>2. /\ notifications' \in Seq({"list_changed", "log"})
          /\ Len(notifications') = Len(notifications) - 1
          /\ Head(notifications) = notifications[1]
          /\ \A m \in 2..Len(notifications) : notifications'[m - 1] = notifications[m]
      BY <1>1, <2>1
    <2>3. /\ Len(notifications') <= ChannelCap
          /\ \A m \in 1..Len(notifications) : m = 1 \/ (m \in 2..Len(notifications)
                                                 /\ m - 1 \in 1..Len(notifications'))
      BY <1>1, <1>2, <2>2
    <2>4. RG!IsQueued => again' \/ RG!IsQueued'
      BY <2>1, <2>2, <2>3 DEF RG!IsQueued
    <2>5. again' \in BOOLEAN
      BY <1>1, <2>1
    <2>6. RegistryTypes'
      BY <1>0, <1>1, <1>2, <2>1, <2>2, <2>3, <2>5, RegistryTyped
    <2>7. ToldToList => ToldToList'
      BY <2>1, <2>4 DEF ToldToList
    <2> QED BY <1>0, <2>1, <2>6, <2>7, RegistryStays DEF NothingYet
  <1> QED BY <1>3, <1>4, <1>5

\* The same after a step of the listing.
LEMMA ListingTyped ==
  ASSUME RegistryTypes,
         UNCHANGED <<kind, capability, items, taskTools, sessionItems, changer,
                     notifications, dropped, changes, logs>>,
         client' \in ListingClients, view' \in RG!Maps, again' \in BOOLEAN,
         stayed' \in [all : SUBSET RegistryItems, session : SUBSET RegistryItems]
  PROVE  RegistryTypes'
  <1>1. /\ RG!Maps' = RG!Maps /\ RG!Versions' = RG!Versions /\ RG!Absent' = RG!Absent
        /\ RG!Present(items)' = RG!Present(items) /\ RG!Present(taskTools)' = RG!Present(taskTools)
        /\ ListingClients' = ListingClients
    BY DEF RG!Maps, RG!Versions, RG!Present, RG!Absent, ListingClients, ListedEntries
  <1>2. /\ client'.pc \in {"idle", "listing", "merging", "listed"}
        /\ client'.cursor \in RegistryItems \union {0} /\ client'.base \in RG!Maps
        /\ client'.collected \in Seq(RegistryItems \X RG!Versions)
    BY DEF ListingClients, ListedEntries
  <1> QED BY <1>1, <1>2 DEF RegistryTypes, RG!TypeOK

LEMMA RegistryListed ==
  ASSUME RegistryInv, RG!List \/ RG!ReadBase
  PROVE  RegistryInv'
  <1>0. RegistryTypes /\ PagesInOrder /\ StayedListed /\ ViewIsFresh /\ NothingYet
    BY DEF RegistryInv
  <1>1. /\ client \in ListingClients /\ view \in RG!Maps /\ again \in BOOLEAN
        /\ items \in RG!Maps /\ taskTools \in RG!Maps /\ sessionItems \in RG!Maps
        /\ stayed \in [all : SUBSET RegistryItems, session : SUBSET RegistryItems]
    BY <1>0 DEF RegistryTypes, RG!TypeOK
  <1>2. RG!Absent' = RG!Absent
    BY DEF RG!Absent
  <1>3. RG!Base \in RG!Maps
    BY <1>1, MapFacts DEF RG!Base
  <1>4. CASE RG!List
    <2>1. /\ client' = [pc |-> "listing", cursor |-> 0, collected |-> <<>>, base |-> RG!Absent]
          /\ again' = FALSE
          /\ stayed' = [all |-> RG!Present(RG!Base), session |-> RG!Present(sessionItems)]
          /\ UNCHANGED <<kind, capability, items, taskTools, sessionItems, changer,
                         notifications, view, dropped, changes, logs>>
      BY <1>4 DEF RG!List, RG!ClientIdle
    <2>2. client' \in ListingClients
      BY <2>1, MapFacts DEF ListingClients
    <2>3. stayed' \in [all : SUBSET RegistryItems, session : SUBSET RegistryItems]
      BY <2>1 DEF RG!Present
    <2>4. RegistryTypes'
      BY <1>0, <1>1, <2>1, <2>2, <2>3, ListingTyped
    <2>5. ItemsListed' = {} /\ \A i \in RegistryItems : ~IsPast(i)'
      BY <2>1 DEF ItemsListed, IsPast
    <2>6. PagesInOrder'
      BY <2>1, <2>5 DEF PagesInOrder
    <2>7. RG!Present(RG!Base)' = RG!Present(RG!Base)
          /\ RG!Present(sessionItems)' = RG!Present(sessionItems)
      BY <2>1 DEF RG!Present, RG!Base, RG!Merged
    <2>8. StayedListed'
      BY <2>1, <2>3, <2>5, <2>7 DEF StayedListed
    <2>9. ViewIsFresh'
      <3>1. RG!Present(Offerings)' \subseteq RegistryItems
        BY DEF RG!Present
      <3> QED BY <2>1, <2>5, <3>1 DEF ViewIsFresh
    <2>10. NothingYet'
      BY <1>0, <1>2, <2>1 DEF NothingYet
    <2> QED BY <2>4, <2>6, <2>8, <2>9, <2>10 DEF RegistryInv
  <1>5. CASE RG!ReadBase
    <2>1. /\ client.pc = "listing"
          /\ client' = [client EXCEPT !.pc = "merging", !.base = RG!Base]
          /\ UNCHANGED <<kind, capability, items, taskTools, sessionItems, changer,
                         notifications, view, again, dropped, stayed, changes, logs>>
      BY <1>5 DEF RG!ReadBase
    <2>2. /\ client' \in ListingClients
          /\ client'.pc = "merging" /\ client'.base = RG!Base
          /\ client'.cursor = client.cursor /\ client'.collected = client.collected
      BY <1>1, <1>3, <2>1 DEF ListingClients
    <2>3. RegistryTypes'
      BY <1>0, <1>1, <2>1, <2>2, ListingTyped
    <2>4. /\ ItemsListed' = ItemsListed /\ RG!Base' = RG!Base /\ Offerings' = Offerings
          /\ \A i \in RegistryItems : IsPast(i)' = IsPast(i)
          /\ \A i, j \in RegistryItems : RG!After(i, j)' = RG!After(i, j)
      BY <2>1, <2>2
         DEF ItemsListed, IsPast, RG!After, RG!Name, RG!Base, RG!Merged, Offerings
    <2>5. /\ \A n \in DOMAIN client.collected : client.collected[n][1] \in RegistryItems
          /\ ItemsListed \subseteq RegistryItems
      BY <1>1 DEF ListingClients, ListedEntries, ItemsListed
    <2>6. PagesInOrder'
      BY <1>0, <2>1, <2>2, <2>4, <2>5 DEF PagesInOrder
    <2>7. /\ RG!Present(RG!Base)' = RG!Present(RG!Base)
          /\ RG!Present(sessionItems)' = RG!Present(sessionItems)
          /\ RG!Present(client.base)' = RG!Present(RG!Base)
          /\ RG!Present(Offerings)' = RG!Present(Offerings)
          /\ RG!Present(Offerings) \subseteq RegistryItems
      BY <2>1, <2>2, <2>4 DEF RG!Present
    <2>8. StayedListed'
      BY <1>0, <1>1, <2>1, <2>2, <2>4, <2>7 DEF StayedListed
    <2>9. ToldToList' = ToldToList
      BY <2>1 DEF ToldToList, RG!IsQueued
    <2>10. ViewIsFresh'
      BY <1>0, <2>1, <2>2, <2>4, <2>7, <2>9 DEF ViewIsFresh
    <2>11. NothingYet'
      <3>1. capability = "none" => RG!Base = RG!Absent
        BY <1>0 DEF NothingYet, RG!Base, RG!Merged, RG!Absent
      <3> QED BY <1>0, <1>2, <2>1, <2>2, <3>1 DEF NothingYet
    <2> QED BY <2>3, <2>6, <2>8, <2>10, <2>11 DEF RegistryInv
  <1> QED BY <1>4, <1>5

LEMMA RegistryViewed ==
  ASSUME RegistryInv, RG!Listed
  PROVE  RegistryInv'
  <1>0. RegistryTypes /\ PagesInOrder /\ StayedListed /\ ViewIsFresh /\ NothingYet
    BY DEF RegistryInv
  <1>1. /\ client \in ListingClients /\ again \in BOOLEAN
        /\ items \in RG!Maps /\ taskTools \in RG!Maps /\ sessionItems \in RG!Maps
        /\ stayed \in [all : SUBSET RegistryItems, session : SUBSET RegistryItems]
    BY <1>0 DEF RegistryTypes, RG!TypeOK
  <1>2. /\ client.collected \in Seq(ListedEntries)
        /\ DOMAIN client.collected = 1..Len(client.collected)
        /\ \A n \in DOMAIN client.collected :
             client.collected[n][1] \in RegistryItems /\ client.collected[n][2] \in RG!Versions
    BY <1>1 DEF ListingClients, ListedEntries
  <1> DEFINE At(i) == CHOOSE n \in 1..Len(client.collected) : client.collected[n][1] = i
  <1>3. \A i \in ItemsListed : /\ At(i) \in DOMAIN client.collected
                               /\ client.collected[At(i)][1] = i
    <2> SUFFICES ASSUME NEW i \in ItemsListed
                 PROVE  At(i) \in DOMAIN client.collected /\ client.collected[At(i)][1] = i
      OBVIOUS
    <2>1. \E n \in 1..Len(client.collected) : client.collected[n][1] = i
      BY <1>2 DEF ItemsListed
    <2> QED BY <1>2, <2>1
  <1> HIDE DEF At
  <1>4. /\ client.pc = "listed" /\ client' = RG!ClientIdle
        /\ view' = [i \in RegistryItems |->
                      IF i \in ItemsListed THEN client.collected[At(i)][2] ELSE 0]
        /\ UNCHANGED <<kind, capability, items, taskTools, sessionItems, changer,
                       notifications, again, dropped, stayed, changes, logs>>
    <2>1. \A i \in RegistryItems : (\E n \in 1..Len(client.collected) : client.collected[n][1] = i)
                                <=> i \in ItemsListed
      BY <1>2 DEF ItemsListed
    <2> QED BY <2>1 DEF RG!Listed, At
  <1>5. view' \in RG!Maps
    <2>1. RG!Versions \subseteq 0..MaxRedefined /\ 0 \in 0..MaxRedefined
      BY RegistryAssumption DEF RegistryAssumption, RG!Versions
    <2>2. \A i \in ItemsListed : client.collected[At(i)][2] \in RG!Versions
      BY <1>2, <1>3
    <2> QED BY <1>4, <2>1, <2>2 DEF RG!Maps
  <1>6. client' = [pc |-> "idle", cursor |-> 0, collected |-> <<>>, base |-> RG!Absent]
    BY <1>4 DEF RG!ClientIdle
  <1>7. client' \in ListingClients
    BY <1>6, MapFacts DEF ListingClients
  <1>8. RegistryTypes'
    BY <1>0, <1>1, <1>4, <1>5, <1>7, ListingTyped
  <1>9. ItemsListed' = {}
    BY <1>6 DEF ItemsListed
  <1>10. PagesInOrder'
    BY <1>6, <1>9 DEF PagesInOrder
  <1>11. /\ RG!Base' = RG!Base /\ Offerings' = Offerings
         /\ RG!Present(RG!Base)' = RG!Present(RG!Base)
         /\ RG!Present(sessionItems)' = RG!Present(sessionItems)
    BY <1>4 DEF RG!Base, RG!Merged, Offerings, RG!Present
  <1>12. StayedListed'
    BY <1>0, <1>4, <1>6, <1>11 DEF StayedListed
  <1>13. ToldToList' = ToldToList
    BY <1>4 DEF ToldToList, RG!IsQueued
  <1>14. ViewIsFresh'
    <2>1. ASSUME capability = "listChanged", ~ToldToList PROVE view' = Offerings
      <3>1. /\ \A n \in DOMAIN client.collected :
                 client.collected[n][2] = Offerings[client.collected[n][1]]
            /\ \A i \in RG!Present(Offerings) : i \in ItemsListed
        BY <1>0, <1>4, <2>1 DEF ViewIsFresh, IsPast
      <3>2. \A i \in ItemsListed : client.collected[At(i)][2] = Offerings[i]
        BY <1>3, <3>1
      <3>3. \A i \in RegistryItems : i \notin ItemsListed => Offerings[i] = 0
        BY <3>1 DEF RG!Present
      <3>4. Offerings = [i \in RegistryItems |-> Offerings[i]]
        BY DEF Offerings, RG!Merged
      <3>5. view' = [i \in RegistryItems |-> Offerings[i]]
        BY <1>4, <3>2, <3>3
      <3> QED BY <3>4, <3>5
    <2> QED BY <1>4, <1>6, <1>11, <1>13, <2>1 DEF ViewIsFresh
  <1>15. NothingYet'
    <2>1. RG!Absent' = RG!Absent
      BY DEF RG!Absent
    <2>2. capability = "none" => view' = RG!Absent
      <3>1. capability = "none" => ItemsListed = {}
        BY <1>0 DEF NothingYet, ItemsListed
      <3> QED BY <1>4, <3>1 DEF RG!Absent
    <2> QED BY <1>0, <1>4, <1>6, <2>1, <2>2 DEF NothingYet
  <1> QED BY <1>8, <1>10, <1>12, <1>14, <1>15 DEF RegistryInv

\* A page is put after those before it.
LEMMA PagesJoin ==
  ASSUME NEW c \in Seq(ListedEntries), NEW fresh \in Seq(ListedEntries)
  PROVE  /\ c \o fresh \in Seq(ListedEntries)
         /\ DOMAIN (c \o fresh) = 1..(Len(c) + Len(fresh))
         /\ DOMAIN c = 1..Len(c) /\ Len(c) \in Nat
         /\ \A n \in 1..Len(c) : (c \o fresh)[n] = c[n]
         /\ \A n \in (Len(c) + 1)..(Len(c) + Len(fresh)) :
              n - Len(c) \in 1..Len(fresh) /\ (c \o fresh)[n] = fresh[n - Len(c)]
         /\ \A n \in 1..Len(fresh) : /\ Len(c) + n \in 1..(Len(c) + Len(fresh))
                                    /\ (c \o fresh)[Len(c) + n] = fresh[n]
         /\ \A n \in 1..(Len(c) + Len(fresh)) :
              n \in 1..Len(c) \/ n \in (Len(c) + 1)..(Len(c) + Len(fresh))
  <1>1. /\ c \o fresh \in Seq(ListedEntries) /\ Len(c \o fresh) = Len(c) + Len(fresh)
        /\ \A n \in 1..(Len(c) + Len(fresh)) :
             (c \o fresh)[n] = IF n <= Len(c) THEN c[n] ELSE fresh[n - Len(c)]
    BY ConcatProperties
  <1>2. /\ Len(c) \in Nat /\ DOMAIN c = 1..Len(c) /\ Len(fresh) \in Nat
        /\ DOMAIN (c \o fresh) = 1..Len(c \o fresh)
    BY <1>1
  <1>3. /\ \A n \in 1..Len(c) : n \in 1..(Len(c) + Len(fresh)) /\ n <= Len(c)
        /\ \A n \in (Len(c) + 1)..(Len(c) + Len(fresh)) :
             n \in 1..(Len(c) + Len(fresh)) /\ ~(n <= Len(c)) /\ n - Len(c) \in 1..Len(fresh)
        /\ \A n \in 1..Len(fresh) : /\ Len(c) + n \in 1..(Len(c) + Len(fresh))
                                   /\ ~(Len(c) + n <= Len(c)) /\ (Len(c) + n) - Len(c) = n
        /\ \A n \in 1..(Len(c) + Len(fresh)) :
             n \in 1..Len(c) \/ n \in (Len(c) + 1)..(Len(c) + Len(fresh))
    BY <1>2
  <1> QED BY <1>1, <1>2, <1>3

\* The items of a page come after those listed before, in order, and a page
\* leaves out none but those after its last.
LEMMA RegistryPaged ==
  ASSUME RegistryInv, RG!Page
  PROVE  RegistryInv'
  <1>0. RegistryTypes /\ PagesInOrder /\ StayedListed /\ ViewIsFresh /\ NothingYet
    BY DEF RegistryInv
  <1>1. /\ client \in ListingClients /\ view \in RG!Maps /\ again \in BOOLEAN
        /\ sessionItems \in RG!Maps /\ client.base \in RG!Maps
        /\ stayed \in [all : SUBSET RegistryItems, session : SUBSET RegistryItems]
    BY <1>0 DEF RegistryTypes, RG!TypeOK
  <1> DEFINE map == RG!Merged(client.base, sessionItems)
             rest == RG!RestOf(map, client.cursor)
             c == client.collected
             k == Len(c)
  <1>2. /\ map \in RG!Maps
        /\ RG!Present(map) = RG!Present(client.base) \union RG!Present(sessionItems)
        /\ \A i \in RG!Present(map) : i \in RegistryItems /\ map[i] \in RG!Versions
    BY <1>1, MapFacts
  <1>3. c \in Seq(ListedEntries) /\ client.pc = "merging"
    BY <1>1 DEF ListingClients, RG!Page
  <1>4. /\ rest \subseteq RG!Present(map)
        /\ \A i \in RG!Present(map) : i \in rest <=> ~IsPast(i)
    BY <1>3 DEF RG!RestOf, IsPast
  <1>5. rest \subseteq RegistryItems /\ Cardinality(rest) \in Nat
    <2>1. rest \subseteq RegistryItems
      BY <1>2, <1>4
    <2> HIDE DEF rest
    <2> QED BY <2>1, RegistryAssumption, FS_Subset, FS_CardinalityType DEF RegistryAssumption
  <1> HIDE DEF map, rest
  <1>6. PICK size \in 0..Cardinality(rest) : \E page \in [1..size -> rest] :
          LET all == c \o [n \in 1..size |-> <<page[n], map[page[n]]>>] IN
          /\ RG!IsPage(page, rest) /\ (PageLimit > 0 => size <= PageLimit)
          /\ client' = IF RG!IsFull(page)
                         THEN [client EXCEPT !.pc = "listing", !.base = RG!Absent,
                                             !.cursor = page[size], !.collected = all]
                         ELSE [client EXCEPT !.pc = "listed", !.base = RG!Absent,
                                             !.collected = all]
    <2>1. RG!Cardinality(rest) = Cardinality(rest)
      BY DEF RG!Cardinality, Cardinality
    <2> QED BY <2>1 DEF RG!Page, map, rest
  <1>7. PICK page \in [1..size -> rest] :
          LET all == c \o [n \in 1..size |-> <<page[n], map[page[n]]>>] IN
          /\ RG!IsPage(page, rest) /\ (PageLimit > 0 => size <= PageLimit)
          /\ client' = IF RG!IsFull(page)
                         THEN [client EXCEPT !.pc = "listing", !.base = RG!Absent,
                                             !.cursor = page[size], !.collected = all]
                         ELSE [client EXCEPT !.pc = "listed", !.base = RG!Absent,
                                             !.collected = all]
    BY <1>6
  <1> DEFINE all == c \o [n \in 1..size |-> <<page[n], map[page[n]]>>]
             full == RG!IsFull(page)
  <1>8. size \in Nat /\ DOMAIN page = 1..size /\ \A n \in 1..size : page[n] \in rest
    BY <1>5
  <1>9. page \in [1..size -> RegistryItems] /\ \A n \in 1..size : map[page[n]] \in RG!Versions
    BY <1>2, <1>4, <1>5, <1>8
  <1>10. /\ all \in Seq(ListedEntries) /\ DOMAIN all = 1..(k + size)
         /\ DOMAIN c = 1..k /\ k \in Nat
         /\ \A n \in 1..k : all[n] = c[n]
         /\ \A n \in (k + 1)..(k + size) :
              n - k \in 1..size /\ all[n] = <<page[n - k], map[page[n - k]]>>
         /\ \A n \in 1..size : /\ k + n \in 1..(k + size)
                              /\ all[k + n] = <<page[n], map[page[n]]>>
         /\ \A n \in 1..(k + size) : n \in 1..k \/ n \in (k + 1)..(k + size)
    <2> DEFINE fresh == [n \in 1..size |-> <<page[n], map[page[n]]>>]
    <2>1. /\ fresh \in Seq(ListedEntries) /\ Len(fresh) = size
          /\ \A n \in 1..size : fresh[n] = <<page[n], map[page[n]]>>
      <3>1. \A n \in 1..size : <<page[n], map[page[n]]>> \in ListedEntries
        BY <1>8, <1>9 DEF ListedEntries
      <3> HIDE DEF all, full, c, k
      <3> QED BY <1>8, <3>1
    <2>2. all = c \o fresh
      OBVIOUS
    <2> HIDE DEF all, fresh, c
    <2> QED BY <1>3, <1>8, <2>1, <2>2, PagesJoin
  <1>11. full => size \in 1..size /\ page[size] \in rest
    <2>1. Len(page) = size
      BY <1>8, <1>9
    <2>2. full => size > 0
      BY <2>1 DEF RG!IsFull
    <2> QED BY <1>8, <2>2
  <1>12. /\ client' \in ListingClients /\ client'.collected = all
         /\ client'.base = RG!Absent
         /\ full => client'.pc = "listing" /\ client'.cursor = page[size]
         /\ ~full => client'.pc = "listed" /\ client'.cursor = client.cursor
    <2>1. CASE full
      <3>1. client' = [client EXCEPT !.pc = "listing", !.base = RG!Absent,
                                     !.cursor = page[size], !.collected = all]
        BY <1>7, <2>1
      <3> HIDE DEF all, full
      <3> QED BY <1>1, <1>5, <1>10, <1>11, <2>1, <3>1, MapFacts DEF ListingClients
    <2>2. CASE ~full
      <3>1. client' = [client EXCEPT !.pc = "listed", !.base = RG!Absent, !.collected = all]
        BY <1>7, <2>2
      <3> HIDE DEF all, full
      <3> QED BY <1>1, <1>10, <2>2, <3>1, MapFacts DEF ListingClients
    <2> QED BY <2>1, <2>2
  <1>13. UNCHANGED <<kind, capability, items, taskTools, sessionItems, changer,
                     notifications, view, again, dropped, stayed, changes, logs>>
    BY DEF RG!Page
  <1>14. /\ \A m, n \in 1..size : m < n => RG!After(page[n], page[m])
         /\ \A i \in rest : \/ \E n \in 1..size : page[n] = i
                            \/ (full /\ \A n \in 1..size : RG!After(i, page[n]))
    BY <1>7, <1>8 DEF RG!IsPage
  <1> HIDE DEF all, full, c, k
  <1>15. ItemsListed' = ItemsListed \union {page[n] : n \in 1..size}
    <2>1. ItemsListed = {c[n][1] : n \in 1..k}
      BY <1>10 DEF ItemsListed, c
    <2>2. ItemsListed' = {all[n][1] : n \in 1..(k + size)}
      BY <1>10, <1>12 DEF ItemsListed
    <2>3. \A n \in 1..(k + size) : all[n][1] \in ItemsListed \union {page[m] : m \in 1..size}
      BY <1>10, <2>1
    <2>4. \A n \in 1..k : c[n][1] \in {all[m][1] : m \in 1..(k + size)}
      <3>1. \A n \in 1..k : n \in 1..(k + size)
        BY <1>8, <1>10
      <3> QED BY <1>10, <3>1
    <2>5. \A n \in 1..size : page[n] \in {all[m][1] : m \in 1..(k + size)}
      <3>1. \A n \in 1..size : k + n \in 1..(k + size) /\ all[k + n][1] = page[n]
        BY <1>10
      <3> QED BY <3>1
    <2> QED BY <2>1, <2>2, <2>3, <2>4, <2>5
  <1>16. ItemsListed \subseteq RegistryItems
    BY <1>1, <1>3 DEF ListingClients, ListedEntries, ItemsListed
  <1>17. /\ \A i, j \in RegistryItems : RG!After(i, j)' = RG!After(i, j)
         /\ \A i \in RegistryItems : ~RG!After(i, i)
    <2>1. \A i, j \in RegistryItems : RG!After(i, j)' = RG!After(i, j)
      BY <1>13 DEF RG!After, RG!Name
    <2> QED BY <2>1, ItemOrder
  \* What was listed before comes before what is on the page.
  <1>18. \A i \in ItemsListed, j \in rest : RG!After(j, i)
    <2> SUFFICES ASSUME NEW i \in ItemsListed, NEW j \in rest PROVE RG!After(j, i)
      OBVIOUS
    <2>1. client.cursor # 0 /\ ~RG!After(i, client.cursor) /\ RG!After(j, client.cursor)
      BY <1>0, <1>3, <1>4 DEF PagesInOrder, IsPast
    <2>2. client.cursor \in RegistryItems /\ i \in RegistryItems /\ j \in RegistryItems
      BY <1>1, <1>5, <1>16, <2>1 DEF ListingClients
    <2> QED BY <2>1, <2>2, ItemOrder
  \* The cursor is the last item of the page.
  <1>19. \A i \in RegistryItems : IsPast(i)' <=> ~full \/ ~RG!After(i, page[size])
    <2>1. full => page[size] # 0 /\ page[size] \in RegistryItems
      BY <1>5, <1>11, RegistryAssumption DEF RegistryAssumption
    <2> QED BY <1>12, <1>17, <2>1 DEF IsPast
  <1>20. \A i \in RG!Present(map) : IsPast(i)' => i \in ItemsListed' \/ IsPast(i)
    BY <1>2, <1>4, <1>11, <1>14, <1>15, <1>19
  <1>21. RegistryTypes'
    BY <1>0, <1>1, <1>12, <1>13, ListingTyped
  <1>22. PagesInOrder'
    <2>1. \A i \in ItemsListed' : IsPast(i)'
      <3>1. \A n \in 1..size : full => ~RG!After(page[n], page[size])
        <4>1. \A n \in 1..size : n < size \/ n = size
          BY <1>8
        <4> QED BY <1>5, <1>8, <1>11, <1>14, <1>17, <4>1, ItemOrder
      <3>2. \A i \in ItemsListed : full => ~RG!After(i, page[size])
        BY <1>5, <1>11, <1>16, <1>18, ItemOrder
      <3> QED BY <1>5, <1>8, <1>15, <1>16, <1>19, <3>1, <3>2
    <2>2. ASSUME NEW m \in 1..(k + size), NEW n \in 1..(k + size), m < n
          PROVE  RG!After(all[n][1], all[m][1])
      <3>1. CASE n \in 1..k
        <4>1. m \in 1..k
          BY <1>8, <1>10, <2>2, <3>1
        <4> QED BY <1>0, <1>10, <2>2, <3>1, <4>1 DEF PagesInOrder, c
      <3>2. CASE n \in (k + 1)..(k + size) /\ m \in 1..k
        <4>1. all[m][1] \in ItemsListed
          <5>1. all[m] = c[m] /\ m \in DOMAIN c
            BY <1>10, <3>2
          <5> QED BY <5>1 DEF ItemsListed, c
        <4>2. all[n][1] \in rest
          <5>1. n - k \in 1..size /\ all[n][1] = page[n - k]
            BY <1>10, <3>2
          <5> QED BY <1>8, <5>1
        <4> QED BY <1>18, <4>1, <4>2
      <3>3. CASE n \in (k + 1)..(k + size) /\ m \in (k + 1)..(k + size)
        <4>1. m - k \in 1..size /\ n - k \in 1..size /\ m - k < n - k
          BY <1>8, <1>10, <2>2, <3>3
        <4> QED BY <1>10, <1>14, <3>3, <4>1
      <3> QED BY <1>10, <3>1, <3>2, <3>3
    <2>3. \A n \in 1..(k + size) : all[n][1] \in RegistryItems
      BY <1>10 DEF ListedEntries
    <2>4. (\A m, n \in DOMAIN client.collected :
             m < n => RG!After(client.collected[n][1], client.collected[m][1]))'
      <3>1. client'.collected = all /\ DOMAIN all = 1..(k + size)
        BY <1>10, <1>12
      <3> QED BY <1>17, <2>2, <2>3, <3>1
    <2> QED BY <1>12, <2>1, <2>4 DEF PagesInOrder
  <1>23. /\ RG!Base' = RG!Base /\ Offerings' = Offerings
         /\ RG!Present(RG!Base)' = RG!Present(RG!Base)
         /\ RG!Present(sessionItems)' = RG!Present(sessionItems)
         /\ RG!Present(Offerings)' = RG!Present(Offerings)
    BY <1>13 DEF RG!Base, RG!Merged, Offerings, RG!Present
  <1>24. StayedListed'
    <2>1. \A i \in stayed.all \union stayed.session :
            i \in RG!Present(map) /\ (IsPast(i) => i \in ItemsListed)
      BY <1>0, <1>2, <1>3 DEF StayedListed
    <2>2. \A i \in stayed'.all \union stayed'.session : IsPast(i)' => i \in ItemsListed'
      BY <1>13, <1>15, <1>20, <2>1
    <2> QED BY <1>0, <1>12, <1>13, <1>23, <2>2 DEF StayedListed
  <1>25. ToldToList' = ToldToList
    BY <1>13 DEF ToldToList, RG!IsQueued
  <1>26. ViewIsFresh'
    <2>1. ASSUME capability = "listChanged", ~ToldToList
          PROVE  /\ \A n \in DOMAIN all : all[n][2] = Offerings[all[n][1]]
                 /\ \A i \in RG!Present(Offerings) : IsPast(i)' => i \in ItemsListed'
      <3>1. /\ map = Offerings
            /\ \A n \in DOMAIN c : c[n][2] = Offerings[c[n][1]]
            /\ \A i \in RG!Present(Offerings) : IsPast(i) => i \in ItemsListed
        BY <1>0, <1>3, <2>1 DEF ViewIsFresh, Offerings, map, c
      <3>2. \A n \in 1..(k + size) : all[n][2] = Offerings[all[n][1]]
        <4>1. \A n \in 1..k : all[n] = c[n] /\ n \in DOMAIN c
          BY <1>10
        <4>2. \A n \in (k + 1)..(k + size) : /\ all[n][1] = page[n - k]
                                          /\ all[n][2] = map[page[n - k]]
          BY <1>10
        <4>3. \A n \in 1..(k + size) : n \in 1..k \/ n \in (k + 1)..(k + size)
          BY <1>10
        <4> QED BY <3>1, <4>1, <4>2, <4>3
      <3> QED BY <1>10, <1>15, <1>20, <3>1, <3>2
    <2> QED BY <1>12, <1>13, <1>23, <1>25, <2>1 DEF ViewIsFresh
  <1>27. NothingYet'
    <2>1. RG!Absent' = RG!Absent
      BY DEF RG!Absent
    <2>2. ASSUME capability = "none" PROVE all = <<>> /\ ~full
      <3>1. client.base = RG!Absent /\ sessionItems = RG!Absent /\ c = <<>>
        BY <1>0, <2>2 DEF NothingYet, c
      <3>2. rest = {}
        BY <1>2, <1>4, <3>1, MapFacts
      <3>3. 1..size = {}
        BY <1>8, <3>2
      <3>4. size = 0
        BY <1>8, <3>3
      <3>5. DOMAIN all = 1..0 /\ all \in Seq(ListedEntries)
        <4>1. k = 0
          BY <3>1 DEF k
        <4> QED BY <1>10, <3>4, <4>1
      <3> QED BY <1>11, <3>3, <3>5
    <2> QED BY <1>0, <1>12, <1>13, <2>1, <2>2 DEF NothingYet
  <1> QED BY <1>21, <1>22, <1>24, <1>26, <1>27 DEF RegistryInv

\* However the pages interleave with the changes, and the notifications with
\* what fills the channel, the listing and the view are what they should be.
LEMMA RegistryKept == RG!Spec => []RegistryInv
  <1>1. RegistryInv /\ [RG!Next]_RG!vars => RegistryInv'
    <2> SUFFICES ASSUME RegistryInv, [RG!Next]_RG!vars PROVE RegistryInv'
      OBVIOUS
    <2>1. CASE UNCHANGED RG!vars
      <3>1. UNCHANGED <<kind, capability, items, taskTools, sessionItems, changer,
                        notifications, client, view, again, dropped, stayed, changes, logs>>
        BY <2>1 DEF RG!vars
      <3>2. RegistryTypes /\ client \in ListingClients /\ view \in RG!Maps /\ again \in BOOLEAN
            /\ stayed \in [all : SUBSET RegistryItems, session : SUBSET RegistryItems]
        BY DEF RegistryInv, RegistryTypes, RG!TypeOK
      <3>3. RegistryTypes'
        BY <3>1, <3>2, ListingTyped
      <3>4. ToldToList' = ToldToList
        BY <3>1 DEF ToldToList, RG!IsQueued
      <3> QED BY <3>1, <3>3, <3>4, RegistryStays DEF RegistryInv, NothingYet
    <2>2. CASE \E d \in Changers : RG!Changing(d)
      BY <2>2, RegistryChanging
    <2>3. CASE \E d \in Changers : RG!ChangingSession(d)
      BY <2>3, RegistrySession
    <2>4. CASE (\E d \in Changers : RG!Announce(d)) \/ RG!SendLogMessage \/ RG!Receive
      BY <2>4, RegistryTells
    <2>5. CASE RG!Listing
      BY <2>5, RegistryListed, RegistryPaged, RegistryViewed DEF RG!Listing
    <2> QED BY <2>1, <2>2, <2>3, <2>4, <2>5 DEF RG!Next
  <1> QED BY <1>1, RegistryStarts, PTL DEF RG!Spec

\* A listing has every item that was there all along, in order and once, and a client
\* that lists again when it is told knows what there is (listByPagination,
\* sendNotificationToSpecificClient, Client.ListTools).
THEOREM RegistrySeen == RG!Spec => []RG!ClientSeesTheRegistry
  <1>1. RegistryInv => RG!ClientSeesTheRegistry
    <2> SUFFICES ASSUME RegistryInv PROVE RG!ClientSeesTheRegistry
      OBVIOUS
    <2>1. RegistryTypes /\ PagesInOrder /\ StayedListed /\ ViewIsFresh
      BY DEF RegistryInv
    <2>2. DOMAIN client.collected = 1..Len(client.collected)
      BY <2>1 DEF RegistryTypes, ListingClients
    <2>3. client.pc = "listed" =>
            /\ \A n \in 1..Len(client.collected), m \in 1..Len(client.collected) :
                 n < m => RG!After(client.collected[m][1], client.collected[n][1])
            /\ stayed.all \union stayed.session
                 \subseteq {client.collected[n][1] : n \in 1..Len(client.collected)}
      BY <2>1, <2>2 DEF PagesInOrder, StayedListed, IsPast, ItemsListed
    <2>4. RG!Quiet /\ ~dropped /\ capability = "listChanged" => view = Offerings
      BY <2>1 DEF ViewIsFresh, ToldToList, RG!Quiet
    <2> QED BY <2>3, <2>4 DEF RG!ClientSeesTheRegistry, Offerings
  <1> QED BY <1>1, RegistryKept, PTL

LEMMA RegistryWellTyped == RG!Spec => []RG!TypeOK
  <1>1. RegistryInv => RG!TypeOK
    BY DEF RegistryInv, RegistryTypes, RG!TypeOK
  <1> QED BY <1>1, RegistryKept, PTL

-----------------------------------------------------------------------------
(* ServerRequests.                                                         *)
SR == INSTANCE ServerRequests WITH Gets <- Streams

\* A request, whose number is its asker's.
AskOf(a) == [id |-> a, by |-> a]
Asks == {AskOf(a) : a \in SR!Askers}
Responses == [from : SR!Askers, method : Methods]

AskerRecord ==
  [pc : {"idle", "stored", "registered", "waiting", "returning", "over"}, id : Nat,
   method : Methods \union {None}, object : SR!Objects \union {None}, open : BOOLEAN,
   holds : BOOLEAN, owns : BOOLEAN, response : Seq(Responses), outcome : Seq(Responses)]
GetRecord ==
  [pc : {"none", "open", "over"}, object : SR!Objects \union {None}, holds : Seq(Asks),
   owns : BOOLEAN]
AnswerRecord ==
  [pc : {"none", "sent", "located", "refused", "accepted"}, to : SR!Askers \union {None},
   id : Nat, empty : BOOLEAN, object : SR!Objects \union {None}]

AskTypes ==
  /\ requestIDCounter \in Nat /\ activeSessions \in SR!Objects \union {None}
  /\ asker \in [SR!Askers -> AskerRecord]
  /\ requestChan \in [SR!Objects -> [Methods -> Seq(Asks)]]
  /\ get \in [Streams -> GetRecord]
  /\ \A g \in Streams : get[g].pc = "open" => get[g].object \in SR!Objects
  /\ received \subseteq Asks /\ lost \subseteq SR!Askers
  /\ answers \in [1..MaxAnswers -> AnswerRecord]

\* The askers so far have numbers, and objects of the session.
AsksNumbered ==
  \A a \in SR!Askers :
    /\ a <= requestIDCounter =>
         /\ asker[a].pc # "idle" /\ asker[a].id = a
         /\ asker[a].object \in SR!Objects /\ asker[a].method \in Methods
    /\ ~(a <= requestIDCounter) => asker[a] = SR!NoAsk

\* What is pending is what is asked.
AskingOf(o) == {a \in SR!Askers : asker[a].object = o /\ asker[a].pc # "over"}
PendingOf(a) == [id |-> a, method |-> asker[a].method, by |-> a]
Pending ==
  samplingRequests = [o \in SR!Objects |-> {PendingOf(a) : a \in AskingOf(o)}]

\* An answer is to a request the client has got, and counts once.
AnswersTo(n, a) == answers[n].to = a /\ answers[n].pc = "accepted" /\ ~answers[n].empty
Heard ==
  /\ \A n \in 1..MaxAnswers :
       /\ answers[n].pc = "none" => answers[n].to = None
       /\ answers[n].pc # "none" =>
            /\ answers[n].to \in SR!Askers /\ answers[n].id = answers[n].to
            /\ AskOf(answers[n].to) \in received
       /\ answers[n].pc \in {"none", "sent"} => answers[n].object = None
       /\ answers[n].pc = "located" => answers[n].object \in SR!Objects /\ ~answers[n].empty
  /\ \A a \in SR!Askers :
       asker[a].pc = "waiting" /\ asker[a].response = <<>> =>
         \A n \in 1..MaxAnswers : answers[n].to = a =>
           \/ answers[n].pc \in {"sent", "located"} \/ answers[n].empty
           \/ answers[n].pc = "refused" /\ answers[n].object # asker[a].object

\* What an asker is given is the answer to its own request.
OwnOf(a, s) ==
  \A i \in DOMAIN s :
    /\ s[i].from = a /\ s[i].method = asker[a].method
    /\ \E n \in 1..MaxAnswers : AnswersTo(n, a)
Own == \A a \in SR!Askers : OwnOf(a, asker[a].response) /\ OwnOf(a, asker[a].outcome)

\* The places of a request: a queue, a GET, the client, its POST, or none at all.
By(s, a) == \E i \in DOMAIN s : s[i].by = a
Queued(a) == \E o \in SR!Objects, m \in Methods : By(requestChan[o][m], a)
Held(a) == \E g \in Streams : By(get[g].holds, a)
Got(a) == AskOf(a) \in received
Posted(a) == asker[a].holds
Lost(a) == a \in lost

\* It is in one of them, once.
Once(s) == \A i, j \in DOMAIN s : s[i].by = s[j].by => i = j
QueuesApart ==
  \A o \in SR!Objects, m \in Methods :
    /\ Once(requestChan[o][m])
    /\ \A a \in SR!Askers :
         By(requestChan[o][m], a) => asker[a].object = o /\ asker[a].method = m
GetsApart ==
  /\ \A g \in Streams : Once(get[g].holds)
  /\ \A g, h \in Streams : \A a \in SR!Askers :
       By(get[g].holds, a) /\ By(get[h].holds, a) => g = h
OnePlaceOf(a) ==
  /\ Queued(a) => ~Held(a) /\ ~Got(a) /\ ~Posted(a) /\ ~Lost(a)
  /\ Held(a) => ~Got(a) /\ ~Posted(a) /\ ~Lost(a)
  /\ Got(a) => ~Posted(a) /\ ~Lost(a)
  /\ Posted(a) => ~Lost(a)
  /\ asker[a].pc \in {"idle", "stored", "registered"} =>
       ~Queued(a) /\ ~Held(a) /\ ~Got(a) /\ ~Posted(a) /\ ~Lost(a)
  /\ asker[a].pc = "waiting" => Queued(a) \/ Held(a) \/ Got(a) \/ Posted(a) \/ Lost(a)
OnePlace == QueuesApart /\ GetsApart /\ \A a \in SR!Askers : OnePlaceOf(a)

AsksInv == AskTypes /\ AsksNumbered /\ Pending /\ Heard /\ Own /\ OnePlace

LEMMA AskFacts ==
  /\ None \notin SR!Objects /\ None \notin SR!Askers /\ SR!Askers \subseteq SR!Objects
  /\ SR!Askers \subseteq Nat
  /\ \A a \in SR!Askers : AskOf(a) \in Asks
  /\ \A r \in Asks : r.by \in SR!Askers /\ r = AskOf(r.by) /\ r.id = r.by
  /\ \A a, b : AskOf(a) = AskOf(b) => a = b
  <1>1. None \notin SR!Objects /\ None \notin SR!Askers /\ SR!Askers \subseteq SR!Objects
    BY ServerRequestsAssumption DEF ServerRequestsAssumption, SR!Objects, SR!Askers
  <1>2. SR!Askers \subseteq Nat
    BY ServerRequestsAssumption DEF ServerRequestsAssumption, SR!Askers
  <1>3. \A a : AskOf(a).by = a /\ AskOf(a).id = a
    BY DEF AskOf
  <1> QED BY <1>1, <1>2, <1>3 DEF Asks

\* What is at the end of a queue, and what is taken off it.
LEMMA ByAppended ==
  ASSUME NEW s \in Seq(Asks), NEW a \in SR!Askers
  PROVE  /\ Append(s, AskOf(a)) \in Seq(Asks)
         /\ \A b : By(Append(s, AskOf(a)), b) <=> By(s, b) \/ b = a
         /\ Once(s) /\ ~By(s, a) => Once(Append(s, AskOf(a)))
  <1> DEFINE t == Append(s, AskOf(a))
  <1>1. /\ t \in Seq(Asks) /\ Len(t) = Len(s) + 1 /\ t[Len(s) + 1] = AskOf(a)
        /\ \A i \in 1..Len(s) : t[i] = s[i]
        /\ Len(s) \in Nat /\ DOMAIN s = 1..Len(s) /\ DOMAIN t = 1..Len(t)
    BY AskFacts, AppendProperties, LenProperties
  <1>2. AskOf(a).by = a
    BY DEF AskOf
  <1> HIDE DEF t
  <1>3. DOMAIN t = DOMAIN s \union {Len(s) + 1} /\ Len(s) + 1 \notin DOMAIN s
    BY <1>1
  <1>4. \A b : By(t, b) <=> By(s, b) \/ b = a
    BY <1>1, <1>2, <1>3 DEF By
  <1>5. Once(s) /\ ~By(s, a) => Once(t)
    BY <1>1, <1>2, <1>3 DEF By, Once
  <1> QED BY <1>1, <1>4, <1>5 DEF t

LEMMA ByTaken ==
  ASSUME NEW s \in Seq(Asks), s # <<>>, Once(s)
  PROVE  /\ Tail(s) \in Seq(Asks) /\ Once(Tail(s))
         /\ \E c \in SR!Askers :
              /\ Head(s) = AskOf(c) /\ By(s, c)
              /\ \A b : By(Tail(s), b) <=> By(s, b) /\ b # c
  <1>1. /\ Head(s) \in Asks /\ Head(s) = s[1] /\ Tail(s) \in Seq(Asks)
        /\ Len(Tail(s)) = Len(s) - 1 /\ Len(s) \in Nat /\ Len(s) # 0
        /\ \A i \in 1..Len(Tail(s)) : Tail(s)[i] = s[i + 1]
        /\ DOMAIN s = 1..Len(s) /\ DOMAIN Tail(s) = 1..Len(Tail(s))
    BY HeadTailProperties, EmptySeq, LenProperties
  <1>2. PICK c \in SR!Askers : Head(s) = AskOf(c) /\ Head(s).by = c
    BY <1>1, AskFacts
  <1>3. By(s, c) /\ s[1].by = c /\ 1 \in DOMAIN s
    BY <1>1, <1>2 DEF By
  <1>4. \A i \in DOMAIN Tail(s) : i + 1 \in DOMAIN s /\ i + 1 # 1 /\ Tail(s)[i] = s[i + 1]
    BY <1>1
  <1>5. \A j \in DOMAIN s : j # 1 => j - 1 \in DOMAIN Tail(s) /\ s[j] = Tail(s)[j - 1]
    <2> SUFFICES ASSUME NEW j \in DOMAIN s, j # 1
                 PROVE  j - 1 \in DOMAIN Tail(s) /\ s[j] = Tail(s)[j - 1]
      OBVIOUS
    <2>1. j \in Int /\ j - 1 \in 1..Len(Tail(s)) /\ (j - 1) + 1 = j
      BY <1>1
    <2> QED BY <2>1, <1>1
  <1>6. Once(Tail(s))
    <2> SUFFICES ASSUME NEW i \in DOMAIN Tail(s), NEW j \in DOMAIN Tail(s),
                        Tail(s)[i].by = Tail(s)[j].by
                 PROVE  i = j
      BY DEF Once
    <2>1. i + 1 = j + 1
      BY <1>4 DEF Once
    <2>2. i \in Int /\ j \in Int
      BY <1>1
    <2> QED BY <2>1, <2>2
  <1>7. \A b : By(Tail(s), b) <=> By(s, b) /\ b # c
    <2>1. ASSUME NEW b, By(Tail(s), b) PROVE By(s, b) /\ b # c
      BY <2>1, <1>3, <1>4 DEF By, Once
    <2>2. ASSUME NEW b, By(s, b), b # c PROVE By(Tail(s), b)
      BY <2>2, <1>3, <1>5 DEF By
    <2> QED BY <2>1, <2>2
  <1> QED BY <1>1, <1>2, <1>3, <1>6, <1>7

\* An asker goes on.
LEMMA AskerGoesOn ==
  ASSUME AsksInv, NEW a \in SR!Askers, NEW next \in AskerRecord,
         asker' = [asker EXCEPT ![a] = next],
         UNCHANGED <<requestIDCounter, samplingRequests, answers>>,
         received \subseteq received',
         asker[a].pc # "idle" /\ next.pc # "idle",
         next.id = asker[a].id /\ next.object = asker[a].object /\ next.method = asker[a].method,
         next.pc = "over" <=> asker[a].pc = "over",
         next.response = <<>> \/ next.response = asker[a].response,
         next.outcome \in {<<>>, asker[a].response, asker[a].outcome},
         next.pc = "waiting" =>
           \/ asker[a].pc \in {"stored", "registered"}
           \/ asker[a].pc = "waiting" /\ next.response = asker[a].response
  PROVE  /\ asker' \in [SR!Askers -> AskerRecord]
         /\ AsksNumbered' /\ Pending' /\ Heard' /\ Own'
         /\ asker'[a] = next /\ \A b \in SR!Askers : b # a => asker'[b] = asker[b]
  <1>0. AskTypes /\ AsksNumbered /\ Pending /\ Heard /\ Own /\ OnePlace
    BY DEF AsksInv
  <1>1. /\ asker' \in [SR!Askers -> AskerRecord]
        /\ asker'[a] = next /\ \A b \in SR!Askers : b # a => asker'[b] = asker[b]
    BY <1>0 DEF AskTypes
  <1>2. AsksNumbered'
    <2>1. a <= requestIDCounter
      <3>1. SR!NoAsk.pc = "idle"
        BY DEF SR!NoAsk
      <3> QED BY <3>1, <1>0 DEF AsksNumbered
    <2>2. next.id = a /\ next.object \in SR!Objects /\ next.method \in Methods
      BY <2>1, <1>0 DEF AsksNumbered
    <2> QED BY <2>1, <2>2, <1>0, <1>1 DEF AsksNumbered
  <1>3. Pending'
    <2>1. \A o \in SR!Objects : AskingOf(o)' = AskingOf(o)
      BY <1>1 DEF AskingOf
    <2>2. \A b \in SR!Askers : PendingOf(b)' = PendingOf(b)
      BY <1>1 DEF PendingOf
    <2>3. \A o \in SR!Objects : AskingOf(o) \subseteq SR!Askers
      BY DEF AskingOf
    <2> QED BY <2>1, <2>2, <2>3, <1>0 DEF Pending
  <1>4. Heard'
    <2>1. ASSUME asker[a].pc \in {"stored", "registered"}, NEW n \in 1..MaxAnswers
          PROVE  answers[n].to # a
      <3>1. ~Got(a)
        BY <2>1, <1>0 DEF OnePlace, OnePlaceOf
      <3> QED BY <3>1, <1>0, AskFacts DEF Heard, Got
    <2> QED BY <2>1, <1>0, <1>1 DEF Heard
  <1>5. Own'
    <2>1. \A b \in SR!Askers : asker'[b].method = asker[b].method
      BY <1>1
    <2>2. \A b \in SR!Askers, n \in 1..MaxAnswers : AnswersTo(n, b)' <=> AnswersTo(n, b)
      BY DEF AnswersTo
    <2>3. \A b \in SR!Askers :
            /\ asker'[b].response \in {<<>>, asker[b].response}
            /\ asker'[b].outcome \in {<<>>, asker[b].response, asker[b].outcome}
      BY <1>1
    <2> QED BY <2>1, <2>2, <2>3, <1>0 DEF Own, OwnOf
  <1> QED BY <1>1, <1>2, <1>3, <1>4, <1>5

LEMMA PlacedAsBefore ==
  ASSUME NEW b \in SR!Askers, OnePlaceOf(b),
         asker'[b].pc = asker[b].pc, Posted(b)' <=> Posted(b), Lost(b)' <=> Lost(b),
         Queued(b)' <=> Queued(b), Held(b)' <=> Held(b), Got(b)' <=> Got(b)
  PROVE  OnePlaceOf(b)'
  BY DEF OnePlaceOf

\* A request moves on, and no asker does.
LEMMA RequestsMove ==
  ASSUME AsksInv,
         \/ SR!CleanUp
         \/ \E g \in Streams : \/ SR!Get(g) \/ SR!Write(g) \/ SR!GetEnds(g)
                               \/ \E m \in Methods : SR!Forward(g, m)
  PROVE  AsksInv'
  <1>0. /\ AskTypes /\ AsksNumbered /\ Pending /\ Heard /\ Own
        /\ OnePlace /\ QueuesApart /\ GetsApart /\ \A a \in SR!Askers : OnePlaceOf(a)
    BY DEF AsksInv, OnePlace
  <1>1. UNCHANGED <<requestIDCounter, asker, samplingRequests, answers>>
    BY DEF SR!CleanUp, SR!Get, SR!Write, SR!GetEnds, SR!Forward, SR!GetSame
  <1>2. AsksNumbered' /\ Pending' /\ Own'
    BY <1>0, <1>1
       DEF AsksNumbered, Pending, PendingOf, AskingOf, Own, OwnOf, AnswersTo
  <1>3. received \subseteq received' => Heard'
    BY <1>0, <1>1 DEF Heard
  <1>4. \A a \in SR!Askers : Posted(a)' <=> Posted(a)
    BY <1>1 DEF Posted
  <1>5. CASE \/ SR!CleanUp
             \/ \E g \in Streams : SR!Get(g)
    <2>1. /\ UNCHANGED <<requestChan, received, lost>>
          /\ activeSessions' \in SR!Objects \union {None}
          /\ get' \in [Streams -> GetRecord]
          /\ \A g \in Streams : /\ get'[g].holds = get[g].holds
                                /\ get'[g].pc = "open" => get'[g].object \in SR!Objects
      <3>1. CASE SR!CleanUp
        BY <3>1, <1>0 DEF SR!CleanUp, AskTypes
      <3>2. ASSUME NEW g \in Streams, SR!Get(g) PROVE <2>1!:
        <4> DEFINE o == IF activeSessions = None THEN g ELSE activeSessions
                   n == [get[g] EXCEPT !.pc = "open", !.object = o, !.owns = o = g]
        <4>1. /\ UNCHANGED <<requestChan, received, lost>>
              /\ activeSessions' = o /\ get' = [get EXCEPT ![g] = n]
          BY <3>2 DEF SR!Get
        <4>2. o \in SR!Objects
          BY <1>0 DEF AskTypes, SR!Objects
        <4> HIDE DEF o
        <4>3. n \in GetRecord /\ n.holds = get[g].holds /\ n.object = o
          BY <1>0, <4>2 DEF AskTypes, GetRecord
        <4> HIDE DEF n
        <4> QED BY <1>0, <4>1, <4>2, <4>3 DEF AskTypes
      <3> QED BY <1>5, <3>1, <3>2
    <2>2. AskTypes'
      BY <1>0, <1>1, <2>1 DEF AskTypes
    <2>3. QueuesApart' /\ GetsApart'
      BY <1>0, <1>1, <2>1 DEF QueuesApart, GetsApart
    <2>4. \A a \in SR!Askers : /\ Queued(a)' <=> Queued(a)
                               /\ Held(a)' <=> Held(a)
                               /\ Got(a)' <=> Got(a)
                               /\ Lost(a)' <=> Lost(a)
      BY <2>1 DEF Queued, Held, Got, Lost
    <2> QED BY <1>0, <1>1, <1>2, <1>3, <1>4, <2>1, <2>2, <2>3, <2>4, PlacedAsBefore
            DEF AsksInv, OnePlace
  <1>6. ASSUME NEW g \in Streams, NEW m \in Methods, SR!Forward(g, m) PROVE AsksInv'
    <2> DEFINE o == get[g].object
               n == [get[g] EXCEPT !.holds = Append(get[g].holds, Head(requestChan[o][m]))]
    <2>1. /\ UNCHANGED <<activeSessions, received, lost>>
          /\ get[g].pc = "open" /\ requestChan[o][m] # <<>>
          /\ get' = [get EXCEPT ![g] = n]
          /\ requestChan' = [requestChan EXCEPT ![o][m] = Tail(requestChan[o][m])]
      BY <1>6, <1>0 DEF SR!Forward, AskTypes
    <2>2. o \in SR!Objects /\ requestChan[o][m] \in Seq(Asks) /\ Once(requestChan[o][m])
          /\ get[g].holds \in Seq(Asks) /\ get[g] \in GetRecord
      BY <2>1, <1>0 DEF AskTypes, GetRecord, QueuesApart
    <2>3. PICK c \in SR!Askers :
            /\ Head(requestChan[o][m]) = AskOf(c) /\ By(requestChan[o][m], c)
            /\ Tail(requestChan[o][m]) \in Seq(Asks) /\ Once(Tail(requestChan[o][m]))
            /\ \A b : By(Tail(requestChan[o][m]), b) <=> By(requestChan[o][m], b) /\ b # c
      BY <2>1, <2>2, ByTaken
    <2>4. Queued(c) /\ asker[c].object = o /\ asker[c].method = m
      BY <2>2, <2>3, <1>0 DEF Queued, QueuesApart
    <2>5. ~Held(c) /\ ~Got(c) /\ ~Posted(c) /\ ~Lost(c)
          /\ asker[c].pc \notin {"idle", "stored", "registered"}
      BY <2>4, <1>0 DEF OnePlaceOf
    <2>6. ~By(get[g].holds, c) /\ Once(get[g].holds)
      BY <2>5, <1>0 DEF Held, GetsApart
    <2>7. /\ n.holds = Append(get[g].holds, AskOf(c)) /\ n.holds \in Seq(Asks)
          /\ n \in GetRecord /\ n.object = get[g].object /\ Once(n.holds)
          /\ \A b : By(n.holds, b) <=> By(get[g].holds, b) \/ b = c
      BY <2>2, <2>3, <2>6, ByAppended DEF GetRecord
    <2> HIDE DEF n
    <2>8. /\ get'[g] = n /\ \A h \in Streams : h # g => get'[h] = get[h]
          /\ requestChan'[o][m] = Tail(requestChan[o][m])
          /\ \A q \in SR!Objects, k \in Methods :
               q # o \/ k # m => requestChan'[q][k] = requestChan[q][k]
      BY <2>1, <2>2, <1>0 DEF AskTypes
    <2>9. AskTypes'
      BY <2>1, <2>2, <2>3, <2>7, <2>8, <1>0, <1>1 DEF AskTypes
    <2> HIDE DEF o
    <2>q. \A q \in SR!Objects, k \in Methods :
            /\ \A a : By(requestChan'[q][k], a) <=>
                        By(requestChan[q][k], a) /\ ~(q = o /\ k = m /\ a = c)
            /\ Once(requestChan'[q][k])
      BY <2>3, <2>8, <1>0 DEF QueuesApart
    <2>h. \A h \in Streams : /\ \A a : By(get'[h].holds, a) <=>
                                       By(get[h].holds, a) \/ (h = g /\ a = c)
                             /\ Once(get'[h].holds)
      BY <2>7, <2>8, <1>0 DEF GetsApart
    <2>10. QueuesApart'
      BY <2>q, <1>0, <1>1 DEF QueuesApart
    <2>11. GetsApart'
      BY <2>5, <2>h, <1>0 DEF GetsApart, Held
    <2>12. \A a \in SR!Askers : /\ Queued(a)' <=> Queued(a) /\ a # c
                                /\ Held(a)' <=> Held(a) \/ a = c
                                /\ Got(a)' <=> Got(a)
                                /\ Lost(a)' <=> Lost(a)
      <3>1. \A a \in SR!Askers : Queued(a)' <=> Queued(a) /\ a # c
        <4>1. ~Queued(c)'
          <5> SUFFICES ASSUME NEW q \in SR!Objects, NEW k \in Methods,
                              By(requestChan'[q][k], c)
                       PROVE  FALSE
            BY DEF Queued
          <5>1. By(requestChan[q][k], c) /\ ~(q = o /\ k = m)
            BY <2>q
          <5> QED BY <5>1, <2>4, <1>0 DEF QueuesApart
        <4>2. ASSUME NEW a \in SR!Askers, a # c PROVE Queued(a)' <=> Queued(a)
          BY <4>2, <2>q DEF Queued
        <4> QED BY <4>1, <4>2
      <3>2. \A a \in SR!Askers : Held(a)' <=> Held(a) \/ a = c
        BY <2>h DEF Held
      <3> QED BY <3>1, <3>2, <2>1 DEF Got, Lost
    <2>13. \A a \in SR!Askers : OnePlaceOf(a)'
      <3>1. OnePlaceOf(c)'
        BY <2>4, <2>5, <2>12, <1>1, <1>4 DEF OnePlaceOf
      <3>2. ASSUME NEW a \in SR!Askers, a # c PROVE OnePlaceOf(a)'
        BY <3>2, <2>12, <1>0, <1>1, <1>4, PlacedAsBefore
      <3> QED BY <3>1, <3>2
    <2> QED BY <1>2, <1>3, <2>1, <2>9, <2>10, <2>11, <2>13 DEF AsksInv, OnePlace
  <1>7. ASSUME NEW g \in Streams, SR!Write(g) PROVE AsksInv'
    <2> DEFINE n == [get[g] EXCEPT !.holds = Tail(get[g].holds)]
    <2>1. /\ UNCHANGED <<activeSessions, requestChan, lost>>
          /\ get[g].holds # <<>> /\ received' = received \union {Head(get[g].holds)}
          /\ get' = [get EXCEPT ![g] = n]
      BY <1>7, <1>0 DEF SR!Write, AskTypes
    <2>2. get[g].holds \in Seq(Asks) /\ get[g] \in GetRecord /\ Once(get[g].holds)
      BY <2>1, <1>0 DEF AskTypes, GetRecord, GetsApart
    <2>3. PICK c \in SR!Askers :
            /\ Head(get[g].holds) = AskOf(c) /\ By(get[g].holds, c)
            /\ Tail(get[g].holds) \in Seq(Asks) /\ Once(Tail(get[g].holds))
            /\ \A b : By(Tail(get[g].holds), b) <=> By(get[g].holds, b) /\ b # c
      BY <2>1, <2>2, ByTaken
    <2>4. Held(c)
      BY <2>3 DEF Held
    <2>5. ~Queued(c) /\ ~Got(c) /\ ~Posted(c) /\ ~Lost(c)
          /\ asker[c].pc \notin {"idle", "stored", "registered"}
      BY <2>4, <1>0 DEF OnePlaceOf
    <2>6. /\ n.holds = Tail(get[g].holds) /\ n \in GetRecord /\ n.object = get[g].object
          /\ n.pc = get[g].pc
      BY <2>2, <2>3 DEF GetRecord
    <2> HIDE DEF n
    <2>7. get'[g] = n /\ \A h \in Streams : h # g => get'[h] = get[h]
      BY <2>1, <1>0 DEF AskTypes
    <2>h. \A h \in Streams : /\ \A a : By(get'[h].holds, a) <=>
                                       By(get[h].holds, a) /\ ~(h = g /\ a = c)
                             /\ Once(get'[h].holds)
      BY <2>3, <2>6, <2>7, <1>0 DEF GetsApart
    <2>8. AskTypes'
      BY <2>1, <2>3, <2>6, <2>7, <1>0, <1>1, AskFacts DEF AskTypes
    <2>9. QueuesApart' /\ GetsApart'
      <3>1. QueuesApart'
        BY <2>1, <1>0, <1>1 DEF QueuesApart
      <3>2. GetsApart'
        BY <2>h, <1>0 DEF GetsApart
      <3> QED BY <3>1, <3>2
    <2>10. \A a \in SR!Askers : /\ Queued(a)' <=> Queued(a)
                                /\ Held(a)' <=> Held(a) /\ a # c
                                /\ Got(a)' <=> Got(a) \/ a = c
                                /\ Lost(a)' <=> Lost(a)
      <3>1. \A a \in SR!Askers : Queued(a)' <=> Queued(a)
        BY <2>1 DEF Queued
      <3>2. \A a \in SR!Askers : Held(a)' <=> Held(a) /\ a # c
        BY <2>3, <2>h, <1>0 DEF Held, GetsApart
      <3>3. \A a \in SR!Askers : Got(a)' <=> Got(a) \/ a = c
        BY <2>1, <2>3, AskFacts DEF Got
      <3> QED BY <3>1, <3>2, <3>3, <2>1 DEF Lost
    <2>11. \A a \in SR!Askers : OnePlaceOf(a)'
      <3>1. OnePlaceOf(c)'
        BY <2>4, <2>5, <2>10, <1>1, <1>4 DEF OnePlaceOf
      <3>2. ASSUME NEW a \in SR!Askers, a # c PROVE OnePlaceOf(a)'
        BY <3>2, <2>10, <1>0, <1>1, <1>4, PlacedAsBefore
      <3> QED BY <3>1, <3>2
    <2> QED BY <1>2, <1>3, <2>1, <2>8, <2>9, <2>11 DEF AsksInv, OnePlace
  <1>8. ASSUME NEW g \in Streams, SR!GetEnds(g) PROVE AsksInv'
    <2> DEFINE n == [SR!NoGet EXCEPT !.pc = "over"]
    <2>1. /\ UNCHANGED <<requestChan, received>>
          /\ lost' = lost \union SR!AskersOf(get[g].holds)
          /\ get' = [get EXCEPT ![g] = n]
          /\ activeSessions' \in {None, activeSessions}
      BY <1>8 DEF SR!GetEnds
    <2>2. get[g].holds \in Seq(Asks)
      BY <1>0 DEF AskTypes, GetRecord
    <2>3. \A b : b \in SR!AskersOf(get[g].holds) <=> By(get[g].holds, b)
      BY DEF SR!AskersOf, By
    <2>4. \A b : By(get[g].holds, b) => b \in SR!Askers
      BY <2>2, AskFacts, ElementOfSeq, LenProperties DEF By
    <2>5. /\ n \in GetRecord /\ n.pc # "open"
          /\ Once(n.holds) /\ \A a : ~By(n.holds, a)
      <3>1. n \in GetRecord /\ n.pc # "open" /\ n.holds = <<>>
        BY EmptySeq DEF GetRecord, SR!NoGet
      <3>2. Once(<<>>) /\ \A a : ~By(<<>>, a)
        BY DEF Once, By
      <3> HIDE DEF n
      <3> QED BY <3>1, <3>2
    <2> HIDE DEF n
    <2>6. get'[g] = n /\ \A h \in Streams : h # g => get'[h] = get[h]
      BY <2>1, <1>0 DEF AskTypes
    <2>7. AskTypes'
      BY <2>1, <2>3, <2>4, <2>5, <2>6, <1>0, <1>1 DEF AskTypes
    <2>8. QueuesApart' /\ GetsApart'
      <3>1. QueuesApart'
        BY <2>1, <1>0, <1>1 DEF QueuesApart
      <3>2. GetsApart'
        BY <2>5, <2>6, <1>0 DEF GetsApart
      <3> QED BY <3>1, <3>2
    <2>9. \A a \in SR!Askers : /\ Queued(a)' <=> Queued(a)
                               /\ Held(a)' <=> Held(a) /\ ~By(get[g].holds, a)
                               /\ Got(a)' <=> Got(a)
                               /\ Lost(a)' <=> Lost(a) \/ By(get[g].holds, a)
      <3>1. \A a \in SR!Askers : Queued(a)' <=> Queued(a)
        BY <2>1 DEF Queued
      <3>2. \A a \in SR!Askers : Held(a)' <=> Held(a) /\ ~By(get[g].holds, a)
        BY <2>5, <2>6, <1>0 DEF Held, GetsApart
      <3>3. \A a \in SR!Askers : Lost(a)' <=> Lost(a) \/ By(get[g].holds, a)
        BY <2>1, <2>3 DEF Lost
      <3> QED BY <3>1, <3>2, <3>3, <2>1 DEF Got
    <2>10. \A a \in SR!Askers : OnePlaceOf(a)'
      <3>1. ASSUME NEW c \in SR!Askers, By(get[g].holds, c) PROVE OnePlaceOf(c)'
        <4>1. Held(c)
          BY <3>1 DEF Held
        <4> QED BY <4>1, <3>1, <2>9, <1>0, <1>1, <1>4 DEF OnePlaceOf
      <3>2. ASSUME NEW a \in SR!Askers, ~By(get[g].holds, a) PROVE OnePlaceOf(a)'
        BY <3>2, <2>9, <1>0, <1>1, <1>4, PlacedAsBefore
      <3> QED BY <3>1, <3>2
    <2> QED BY <1>2, <1>3, <2>1, <2>7, <2>8, <2>10 DEF AsksInv, OnePlace
  <1> QED BY <1>5, <1>6, <1>7, <1>8

\* The requests stay where they are, and an asker goes on.
LEMMA RequestsStay ==
  ASSUME AsksInv, NEW a \in SR!Askers,
         UNCHANGED <<requestIDCounter, requestChan, get, received, lost>>,
         answers' \in [1..MaxAnswers -> AnswerRecord],
         activeSessions' \in SR!Objects \union {None},
         asker' \in [SR!Askers -> AskerRecord],
         \A b \in SR!Askers : b # a => asker'[b] = asker[b],
         asker'[a].object = asker[a].object, asker'[a].method = asker[a].method,
         asker'[a].holds = asker[a].holds,
         \/ asker'[a].pc \in {"returning", "over", asker[a].pc}
         \/ asker'[a].pc = "registered" /\ asker[a].pc = "stored"
  PROVE  AskTypes' /\ OnePlace'
  <1>0. AskTypes /\ QueuesApart /\ GetsApart /\ \A b \in SR!Askers : OnePlaceOf(b)
    BY DEF AsksInv, OnePlace
  <1>1. AskTypes'
    BY <1>0 DEF AskTypes
  <1>2. \A b \in SR!Askers : /\ Queued(b)' <=> Queued(b)
                             /\ Held(b)' <=> Held(b)
                             /\ Got(b)' <=> Got(b)
                             /\ Lost(b)' <=> Lost(b)
                             /\ Posted(b)' <=> Posted(b)
    BY DEF Queued, Held, Got, Lost, Posted
  <1>3. QueuesApart' /\ GetsApart'
    BY <1>0 DEF QueuesApart, GetsApart
  <1>4. ASSUME NEW b \in SR!Askers PROVE OnePlaceOf(b)'
    BY <1>0, <1>2 DEF OnePlaceOf
  <1> QED BY <1>1, <1>3, <1>4 DEF OnePlace

\* Its POST takes the request, writes it, or returns without it.
LEMMA PostsCarry ==
  ASSUME AsksInv, NEW a \in SR!Askers,
         SR!TrySend(a) \/ SR!PostWrite(a) \/ SR!PostReturns(a)
  PROVE  AsksInv'
  <1>0. /\ AskTypes /\ AsksNumbered
        /\ OnePlace /\ QueuesApart /\ GetsApart /\ \A b \in SR!Askers : OnePlaceOf(b)
    BY DEF AsksInv, OnePlace
  <1>1. asker[a] \in AskerRecord
    BY <1>0 DEF AskTypes
  <1>2. asker[a].pc # "idle" /\ asker[a].id = a
    <2>1. a <= requestIDCounter
      BY <1>0 DEF AsksNumbered, SR!TrySend, SR!PostWrite, SR!PostReturns, SR!NoAsk
    <2> QED BY <2>1, <1>0 DEF AsksNumbered
  <1> DEFINE next ==
        IF SR!TrySend(a) THEN [asker[a] EXCEPT !.pc = "waiting", !.holds = TRUE]
        ELSE IF SR!PostWrite(a) THEN [asker[a] EXCEPT !.holds = FALSE]
        ELSE [asker[a] EXCEPT !.open = FALSE, !.holds = FALSE]
  <1>3. asker' = [asker EXCEPT ![a] = next]
    BY <1>0 DEF SR!TrySend, SR!PostWrite, SR!PostReturns, AskTypes
  <1>4. /\ next \in AskerRecord /\ next.id = asker[a].id
        /\ next.object = asker[a].object /\ next.method = asker[a].method
        /\ next.response = asker[a].response /\ next.outcome = asker[a].outcome
        /\ next.holds <=> SR!TrySend(a)
        /\ next.pc = IF SR!TrySend(a) THEN "waiting" ELSE asker[a].pc
    <2>1. CASE SR!TrySend(a)
      BY <2>1, <1>1 DEF AskerRecord
    <2>2. CASE ~SR!TrySend(a) /\ SR!PostWrite(a)
      BY <2>2, <1>1 DEF AskerRecord
    <2>3. CASE ~SR!TrySend(a) /\ ~SR!PostWrite(a)
      BY <2>3, <1>1 DEF AskerRecord
    <2> QED BY <2>1, <2>2, <2>3
  <1> HIDE DEF next
  <1>5. /\ UNCHANGED <<requestIDCounter, samplingRequests, answers, get, requestChan>>
        /\ activeSessions' \in SR!Objects \union {None}
        /\ SR!TrySend(a) => /\ asker[a].pc = "registered"
                            /\ UNCHANGED <<received, lost>>
        /\ ~SR!TrySend(a) /\ SR!PostWrite(a) =>
             /\ asker[a].holds /\ received' = received \union {AskOf(a)} /\ UNCHANGED lost
        /\ ~SR!TrySend(a) /\ ~SR!PostWrite(a) =>
             /\ lost' = IF asker[a].holds THEN lost \union {a} ELSE lost
             /\ UNCHANGED received
    BY <1>0, <1>2
       DEF SR!TrySend, SR!PostWrite, SR!PostReturns, SR!AskSame, AskTypes, SR!Request, AskOf
  <1>6. AskOf(a) \in Asks
    BY AskFacts
  <1>7. /\ asker' \in [SR!Askers -> AskerRecord]
        /\ AsksNumbered' /\ Pending' /\ Heard' /\ Own'
        /\ asker'[a] = next /\ \A b \in SR!Askers : b # a => asker'[b] = asker[b]
    BY <1>2, <1>3, <1>4, <1>5, AskerGoesOn
  <1>8. AskTypes'
    BY <1>0, <1>5, <1>6, <1>7 DEF AskTypes
  <1>9. QueuesApart' /\ GetsApart'
    BY <1>0, <1>4, <1>5, <1>7 DEF QueuesApart, GetsApart
  <1>10. \A b \in SR!Askers : /\ Queued(b)' <=> Queued(b)
                              /\ Held(b)' <=> Held(b)
                              /\ b # a => (Posted(b)' <=> Posted(b))
                              /\ b # a => (Got(b)' <=> Got(b))
                              /\ b # a => (Lost(b)' <=> Lost(b))
    BY <1>5, <1>7, AskFacts DEF Queued, Held, Got, Lost, Posted
  <1>11. OnePlaceOf(a)'
    <2>0. OnePlaceOf(a)
      BY <1>0
    <2>1. Posted(a)' <=> SR!TrySend(a)
      BY <1>4, <1>7 DEF Posted
    <2>2. CASE SR!TrySend(a)
      BY <2>0, <2>1, <2>2, <1>4, <1>5, <1>7, <1>10 DEF OnePlaceOf, Got, Lost
    <2>3. CASE ~SR!TrySend(a) /\ SR!PostWrite(a)
      <3>1. Got(a)' /\ Posted(a) /\ (Lost(a)' <=> Lost(a))
        BY <2>3, <1>5 DEF Got, Lost, Posted
      <3> QED BY <2>0, <2>1, <2>3, <3>1, <1>4, <1>7, <1>10 DEF OnePlaceOf
    <2>4. CASE ~SR!TrySend(a) /\ ~SR!PostWrite(a)
      <3>1. (Got(a)' <=> Got(a)) /\ (Lost(a)' <=> Lost(a) \/ Posted(a))
        BY <2>4, <1>5 DEF Got, Lost, Posted
      <3> QED BY <2>0, <2>1, <2>4, <3>1, <1>4, <1>7, <1>10 DEF OnePlaceOf
    <2> QED BY <2>2, <2>3, <2>4
  <1>12. ASSUME NEW b \in SR!Askers, b # a PROVE OnePlaceOf(b)'
    BY <1>0, <1>7, <1>10, <1>12, PlacedAsBefore
  <1> QED BY <1>7, <1>8, <1>9, <1>11, <1>12 DEF AsksInv, OnePlace

\* The request goes to the queue of its session, if there is room.
LEMMA QueueTakes ==
  ASSUME AsksInv, NEW a \in SR!Askers, SR!Queue(a)
  PROVE  AsksInv'
  <1>0. /\ AskTypes /\ AsksNumbered
        /\ OnePlace /\ QueuesApart /\ GetsApart /\ \A b \in SR!Askers : OnePlaceOf(b)
    BY DEF AsksInv, OnePlace
  <1>1. asker[a] \in AskerRecord
    BY <1>0 DEF AskTypes
  <1>2. /\ asker[a].pc # "idle" /\ asker[a].id = a
        /\ asker[a].object \in SR!Objects /\ asker[a].method \in Methods
    <2>1. a <= requestIDCounter
      BY <1>0 DEF AsksNumbered, SR!Queue, SR!NoAsk
    <2> QED BY <2>1, <1>0 DEF AsksNumbered
  <1> DEFINE o == asker[a].object
             m == asker[a].method
             s == requestChan[o][m]
             queued == Len(s) < QueueCap
             next == [asker[a] EXCEPT !.pc = IF queued THEN "waiting" ELSE "returning"]
  <1>3. /\ UNCHANGED <<requestIDCounter, samplingRequests, answers, get, received, lost>>
        /\ activeSessions' = activeSessions
        /\ asker[a].pc \in {"stored", "registered"}
        /\ asker' = [asker EXCEPT ![a] = next]
        /\ queued => requestChan' = [requestChan EXCEPT ![o][m] = Append(s, AskOf(a))]
        /\ ~queued => UNCHANGED requestChan
    <2>1. SR!Request(a) = AskOf(a)
      BY <1>2 DEF SR!Request, AskOf
    <2> QED BY <2>1, <1>0, <1>2 DEF SR!Queue, SR!AskSame, AskTypes
  <1> HIDE DEF queued
  <1>4. /\ next \in AskerRecord /\ next.id = asker[a].id
        /\ next.object = asker[a].object /\ next.method = asker[a].method
        /\ next.response = asker[a].response /\ next.outcome = asker[a].outcome
        /\ next.holds = asker[a].holds
        /\ next.pc = IF queued THEN "waiting" ELSE "returning"
    BY <1>1 DEF AskerRecord
  <1> HIDE DEF next
  <1>5. /\ asker' \in [SR!Askers -> AskerRecord]
        /\ AsksNumbered' /\ Pending' /\ Heard' /\ Own'
        /\ asker'[a] = next /\ \A b \in SR!Askers : b # a => asker'[b] = asker[b]
    BY <1>2, <1>3, <1>4, AskerGoesOn
  <1>6. CASE ~queued
    <2>1. AskTypes' /\ OnePlace'
      BY <1>0, <1>3, <1>4, <1>5, <1>6, RequestsStay DEF AskTypes
    <2> QED BY <2>1, <1>5 DEF AsksInv
  <1>7. CASE queued
    <2>1. /\ ~Queued(a) /\ ~Held(a) /\ ~Got(a) /\ ~Posted(a) /\ ~Lost(a)
      BY <1>0, <1>3 DEF OnePlaceOf
    <2>2. s \in Seq(Asks) /\ Once(s) /\ ~By(s, a)
      BY <2>1, <1>0, <1>2 DEF AskTypes, QueuesApart, Queued
    <2> DEFINE t == Append(s, AskOf(a))
    <2>3. t \in Seq(Asks) /\ Once(t) /\ \A b : By(t, b) <=> By(s, b) \/ b = a
      BY <2>2, ByAppended
    <2>4. /\ requestChan'[o][m] = t
          /\ \A q \in SR!Objects, k \in Methods :
               q # o \/ k # m => requestChan'[q][k] = requestChan[q][k]
          /\ requestChan' \in [SR!Objects -> [Methods -> Seq(Asks)]]
      <3>1. /\ requestChan' = [requestChan EXCEPT ![o][m] = t]
            /\ o \in SR!Objects /\ m \in Methods
        BY <1>2, <1>3, <1>7
      <3> HIDE DEF o, m, s, t
      <3> QED BY <2>3, <3>1, <1>0 DEF AskTypes
    <2> HIDE DEF t
    <2>5. \A q \in SR!Objects, k \in Methods :
            /\ \A b : By(requestChan'[q][k], b) <=>
                        By(requestChan[q][k], b) \/ (q = o /\ k = m /\ b = a)
            /\ Once(requestChan'[q][k])
      BY <2>3, <2>4, <1>0 DEF QueuesApart
    <2> HIDE DEF s
    <2>6. AskTypes'
      BY <2>4, <1>0, <1>3, <1>5 DEF AskTypes
    <2>7. QueuesApart'
      BY <2>5, <1>0, <1>4, <1>5 DEF QueuesApart
    <2>8. GetsApart'
      BY <1>0, <1>3 DEF GetsApart
    <2>9. \A b \in SR!Askers : /\ Queued(b)' <=> Queued(b) \/ b = a
                               /\ Held(b)' <=> Held(b)
                               /\ Got(b)' <=> Got(b)
                               /\ Lost(b)' <=> Lost(b)
                               /\ Posted(b)' <=> Posted(b)
      <3>1. \A b \in SR!Askers : Queued(b)' <=> Queued(b) \/ b = a
        BY <2>5, <1>2 DEF Queued
      <3>2. \A b \in SR!Askers : Posted(b)' <=> Posted(b)
        BY <1>4, <1>5 DEF Posted
      <3> QED BY <3>1, <3>2, <1>3 DEF Held, Got, Lost
    <2>10. OnePlaceOf(a)'
      BY <2>1, <2>9, <1>4, <1>5, <1>7 DEF OnePlaceOf
    <2>11. ASSUME NEW b \in SR!Askers, b # a PROVE OnePlaceOf(b)'
      BY <2>9, <2>11, <1>0, <1>5, PlacedAsBefore
    <2> QED BY <2>6, <2>7, <2>8, <2>10, <2>11, <1>5 DEF AsksInv, OnePlace
  <1> QED BY <1>6, <1>7

\* An asker registers its session, takes its answer, or gives up.
LEMMA AskerWaits ==
  ASSUME AsksInv, NEW a \in SR!Askers, SR!Register(a) \/ SR!Take(a) \/ SR!ContextEnds(a)
  PROVE  AsksInv'
  <1>0. AskTypes /\ AsksNumbered
    BY DEF AsksInv
  <1>1. asker[a] \in AskerRecord
    BY <1>0 DEF AskTypes
  <1>2. asker[a].pc # "idle"
    BY DEF SR!Register, SR!Take, SR!ContextEnds
  <1>3. PICK next \in AskerRecord :
          /\ asker' = [asker EXCEPT ![a] = next]
          /\ next.id = asker[a].id
          /\ next.object = asker[a].object /\ next.method = asker[a].method
          /\ next.response \in {<<>>, asker[a].response}
          /\ next.outcome \in {asker[a].response, asker[a].outcome}
          /\ next.holds = asker[a].holds
          /\ \/ next.pc = "returning"
             \/ next.pc = "registered" /\ asker[a].pc = "stored"
          /\ asker[a].pc # "over"
    <2>1. CASE SR!Register(a)
      <3> DEFINE n == [asker[a] EXCEPT !.pc = "registered", !.owns = activeSessions = None]
      <3>1. asker' = [asker EXCEPT ![a] = n] /\ asker[a].pc = "stored"
        BY <2>1, <1>0 DEF SR!Register, AskTypes
      <3>2. n \in AskerRecord
        BY <1>1 DEF AskerRecord
      <3> QED BY <3>1, <3>2, <1>1 DEF AskerRecord
    <2>2. CASE SR!Take(a)
      <3> DEFINE n == [asker[a] EXCEPT !.pc = "returning", !.outcome = asker[a].response,
                                       !.response = <<>>]
      <3>1. asker' = [asker EXCEPT ![a] = n] /\ asker[a].pc = "waiting"
        BY <2>2, <1>0 DEF SR!Take, SR!AskerStep, AskTypes
      <3>2. n \in AskerRecord
        BY <1>1, EmptySeq DEF AskerRecord
      <3> QED BY <3>1, <3>2, <1>1 DEF AskerRecord
    <2>3. CASE SR!ContextEnds(a)
      <3> DEFINE n == [asker[a] EXCEPT !.pc = "returning"]
      <3>1. /\ asker' = [asker EXCEPT ![a] = n]
            /\ asker[a].pc \in {"stored", "registered", "waiting"}
        BY <2>3, <1>0 DEF SR!ContextEnds, SR!AskerStep, AskTypes
      <3>2. n \in AskerRecord
        BY <1>1 DEF AskerRecord
      <3> QED BY <3>1, <3>2, <1>1 DEF AskerRecord
    <2> QED BY <2>1, <2>2, <2>3
  <1>4. /\ UNCHANGED <<requestIDCounter, samplingRequests, answers, get, requestChan,
                       received, lost>>
        /\ activeSessions' \in SR!Objects \union {None}
    <2>1. a <= requestIDCounter
      BY <1>0, <1>2 DEF AsksNumbered, SR!NoAsk
    <2> QED BY <2>1, <1>0
            DEF SR!Register, SR!Take, SR!ContextEnds, SR!AskerStep, SR!AskSame, AskTypes,
                AsksNumbered
  <1>5. /\ asker' \in [SR!Askers -> AskerRecord]
        /\ AsksNumbered' /\ Pending' /\ Heard' /\ Own'
        /\ asker'[a] = next /\ \A b \in SR!Askers : b # a => asker'[b] = asker[b]
    BY <1>2, <1>3, <1>4, AskerGoesOn
  <1>6. AskTypes' /\ OnePlace'
    BY <1>0, <1>3, <1>4, <1>5, RequestsStay DEF AskTypes
  <1> QED BY <1>5, <1>6 DEF AsksInv

\* A request is pending before it is anywhere else.
LEMMA AskerAsks ==
  ASSUME AsksInv, NEW a \in SR!Askers, NEW m \in Methods, NEW open \in BOOLEAN,
         SR!Store(a, m, open)
  PROVE  AsksInv'
  <1>0. /\ AskTypes /\ AsksNumbered /\ Pending /\ Heard /\ Own
        /\ OnePlace /\ QueuesApart /\ GetsApart /\ \A b \in SR!Askers : OnePlaceOf(b)
    BY DEF AsksInv, OnePlace
  <1> DEFINE o == IF activeSessions = None THEN a ELSE activeSessions
             next == [asker[a] EXCEPT !.pc = "stored", !.open = open, !.id = a,
                                      !.method = m, !.object = o]
             entry == [id |-> a, method |-> m, by |-> a]
  <1>1. /\ UNCHANGED <<activeSessions, requestChan, get, received, answers, lost>>
        /\ a = requestIDCounter + 1 /\ requestIDCounter' = requestIDCounter + 1
        /\ asker' = [asker EXCEPT ![a] = next]
        /\ samplingRequests' =
             [samplingRequests EXCEPT ![o] = samplingRequests[o] \union {entry}]
    BY <1>0 DEF SR!Store, SR!NextID, AskTypes, Pending
  <1>2. o \in SR!Objects
    BY <1>0, AskFacts DEF AskTypes
  <1> HIDE DEF o
  <1>3. requestIDCounter \in Nat /\ a \in Nat /\ ~(a <= requestIDCounter)
        /\ requestIDCounter' \in Nat
        /\ \A b \in SR!Askers : b <= requestIDCounter' <=> b <= requestIDCounter \/ b = a
    <2>1. requestIDCounter \in Nat
      BY <1>0 DEF AskTypes
    <2> QED BY <2>1, <1>1, AskFacts
  <1>4. asker[a] = SR!NoAsk /\ asker[a] \in AskerRecord
    BY <1>0, <1>3 DEF AskTypes, AsksNumbered
  <1>5. /\ asker[a].pc = "idle" /\ asker[a].object = None /\ ~asker[a].holds
        /\ asker[a].response = <<>> /\ asker[a].outcome = <<>>
    BY <1>4 DEF SR!NoAsk
  <1>6. /\ next \in AskerRecord /\ next.pc = "stored" /\ next.id = a /\ next.method = m
        /\ next.object = o /\ next.response = <<>> /\ next.outcome = <<>> /\ ~next.holds
    BY <1>2, <1>3, <1>4, <1>5 DEF AskerRecord
  <1> HIDE DEF next
  <1>7. /\ asker' \in [SR!Askers -> AskerRecord]
        /\ asker'[a] = next /\ \A b \in SR!Askers : b # a => asker'[b] = asker[b]
    BY <1>0, <1>1, <1>6 DEF AskTypes
  <1>8. AskTypes'
    BY <1>0, <1>1, <1>3, <1>7 DEF AskTypes
  <1>9. AsksNumbered'
    BY <1>0, <1>2, <1>3, <1>6, <1>7 DEF AsksNumbered
  <1>10. Pending'
    <2>1. \A q \in SR!Objects : AskingOf(q)' = AskingOf(q) \union (IF q = o THEN {a} ELSE {})
      BY <1>5, <1>6, <1>7, AskFacts DEF AskingOf
    <2>2. \A q \in SR!Objects : a \notin AskingOf(q)
      BY <1>5, AskFacts DEF AskingOf
    <2>3. PendingOf(a)' = entry /\ \A b \in SR!Askers : b # a => PendingOf(b)' = PendingOf(b)
      BY <1>6, <1>7 DEF PendingOf
    <2>4. \A q \in SR!Objects : AskingOf(q) \subseteq SR!Askers
      BY DEF AskingOf
    <2> HIDE DEF entry
    <2>5. \A q \in SR!Objects :
            {PendingOf(b) : b \in AskingOf(q)}' =
              {PendingOf(b) : b \in AskingOf(q)} \union (IF q = o THEN {entry} ELSE {})
      BY <2>1, <2>2, <2>3, <2>4
    <2> QED BY <2>5, <1>0, <1>1, <1>2 DEF Pending
  <1>11. Heard'
    BY <1>0, <1>1, <1>6, <1>7 DEF Heard
  <1>12. Own'
    <2>1. OwnOf(a, <<>>)'
      BY DEF OwnOf
    <2>2. \A b \in SR!Askers, n \in 1..MaxAnswers : AnswersTo(n, b)' <=> AnswersTo(n, b)
      BY <1>1 DEF AnswersTo
    <2>3. ASSUME NEW b \in SR!Askers, b # a
          PROVE  (OwnOf(b, asker[b].response) /\ OwnOf(b, asker[b].outcome))'
      BY <2>2, <2>3, <1>0, <1>7 DEF Own, OwnOf
    <2>4. (OwnOf(a, asker[a].response) /\ OwnOf(a, asker[a].outcome))'
      BY <1>6, <1>7 DEF OwnOf
    <2> QED BY <2>3, <2>4 DEF Own
  <1>13. /\ ~Queued(a) /\ ~Held(a) /\ ~Got(a) /\ ~Posted(a) /\ ~Lost(a)
    BY <1>0, <1>5 DEF OnePlaceOf
  <1>14. \A b \in SR!Askers : /\ Queued(b)' <=> Queued(b)
                              /\ Held(b)' <=> Held(b)
                              /\ Got(b)' <=> Got(b)
                              /\ Lost(b)' <=> Lost(b)
                              /\ Posted(b)' <=> Posted(b)
    BY <1>1, <1>5, <1>6, <1>7 DEF Queued, Held, Got, Lost, Posted
  <1>15. QueuesApart' /\ GetsApart'
    BY <1>0, <1>1, <1>7, <1>13 DEF QueuesApart, GetsApart, Queued
  <1>16. OnePlaceOf(a)'
    BY <1>6, <1>7, <1>13, <1>14 DEF OnePlaceOf
  <1>17. ASSUME NEW b \in SR!Askers, b # a PROVE OnePlaceOf(b)'
    BY <1>0, <1>7, <1>14, <1>17, PlacedAsBefore
  <1> QED BY <1>8, <1>9, <1>10, <1>11, <1>12, <1>15, <1>16, <1>17 DEF AsksInv, OnePlace

\* The handler has its answer or does without, and nothing is pending.
LEMMA AskerReturns ==
  ASSUME AsksInv, NEW a \in SR!Askers, SR!Return(a)
  PROVE  AsksInv'
  <1>0. AskTypes /\ AsksNumbered /\ Pending /\ Heard /\ Own
    BY DEF AsksInv
  <1>1. asker[a] \in AskerRecord
    BY <1>0 DEF AskTypes
  <1> DEFINE o == asker[a].object
             next == [asker[a] EXCEPT !.pc = "over", !.response = <<>>, !.outcome = <<>>]
  <1>2. /\ UNCHANGED <<requestIDCounter, activeSessions, requestChan, get, received,
                       answers, lost>>
        /\ asker[a].pc = "returning"
        /\ asker' = [asker EXCEPT ![a] = next]
        /\ samplingRequests' = [samplingRequests EXCEPT ![o] =
                                  {r \in samplingRequests[o] : r.id # asker[a].id}]
    BY <1>0 DEF SR!Return, SR!AskerStep, SR!AskSame, AskTypes, Pending
  <1>3. a <= requestIDCounter /\ asker[a].id = a /\ o \in SR!Objects
        /\ asker[a].method \in Methods
    <2>1. a <= requestIDCounter
      BY <1>0, <1>2 DEF AsksNumbered, SR!NoAsk
    <2> QED BY <2>1, <1>0 DEF AsksNumbered
  <1>4. /\ next \in AskerRecord /\ next.pc = "over" /\ next.id = a
        /\ next.method = asker[a].method /\ next.object = asker[a].object
        /\ next.response = <<>> /\ next.outcome = <<>> /\ next.holds = asker[a].holds
    BY <1>1, <1>3, EmptySeq DEF AskerRecord
  <1> HIDE DEF next
  <1>5. /\ asker' \in [SR!Askers -> AskerRecord]
        /\ asker'[a] = next /\ \A b \in SR!Askers : b # a => asker'[b] = asker[b]
    BY <1>0, <1>2, <1>4 DEF AskTypes
  <1>6. AskTypes' /\ OnePlace'
    BY <1>0, <1>2, <1>4, <1>5, RequestsStay DEF AskTypes
  <1>7. AsksNumbered'
    BY <1>0, <1>2, <1>3, <1>4, <1>5 DEF AsksNumbered
  <1>8. Pending'
    <2>1. \A q \in SR!Objects : AskingOf(q)' = AskingOf(q) \ {a}
      BY <1>4, <1>5 DEF AskingOf
    <2>2. \A q \in SR!Objects : q # o => a \notin AskingOf(q)
      BY DEF AskingOf
    <2>3. \A b \in SR!Askers : PendingOf(b)' = PendingOf(b) /\ PendingOf(b).id = b
      BY <1>4, <1>5 DEF PendingOf
    <2>4. \A q \in SR!Objects : AskingOf(q) \subseteq SR!Askers
      BY DEF AskingOf
    <2>5. \A q \in SR!Objects :
            {PendingOf(b) : b \in AskingOf(q)}' =
              IF q = o THEN {r \in {PendingOf(b) : b \in AskingOf(q)} : r.id # a}
                       ELSE {PendingOf(b) : b \in AskingOf(q)}
      BY <2>1, <2>2, <2>3, <2>4
    <2> QED BY <2>5, <1>0, <1>2, <1>3 DEF Pending
  <1>9. Heard'
    BY <1>0, <1>2, <1>4, <1>5 DEF Heard
  <1>10. Own'
    <2>1. \A b \in SR!Askers, n \in 1..MaxAnswers : AnswersTo(n, b)' <=> AnswersTo(n, b)
      BY <1>2 DEF AnswersTo
    <2>2. ASSUME NEW b \in SR!Askers, b # a
          PROVE  (OwnOf(b, asker[b].response) /\ OwnOf(b, asker[b].outcome))'
      BY <2>1, <2>2, <1>0, <1>5 DEF Own, OwnOf
    <2>3. (OwnOf(a, asker[a].response) /\ OwnOf(a, asker[a].outcome))'
      BY <1>4, <1>5 DEF OwnOf
    <2> QED BY <2>2, <2>3 DEF Own
  <1> QED BY <1>6, <1>7, <1>8, <1>9, <1>10 DEF AsksInv

\* No request moves when an answer does.
LEMMA AnswersMove ==
  ASSUME AsksInv,
         UNCHANGED <<requestIDCounter, activeSessions, samplingRequests, requestChan, get,
                     received, lost, asker>>,
         answers' \in [1..MaxAnswers -> AnswerRecord], Heard',
         \A b \in SR!Askers, n \in 1..MaxAnswers : AnswersTo(n, b) => AnswersTo(n, b)'
  PROVE  AsksInv'
  <1>0. /\ AskTypes /\ AsksNumbered /\ Pending /\ Own
        /\ OnePlace /\ QueuesApart /\ GetsApart /\ \A a \in SR!Askers : OnePlaceOf(a)
    BY DEF AsksInv, OnePlace
  <1>1. AskTypes'
    BY <1>0 DEF AskTypes
  <1>2. AsksNumbered' /\ Pending'
    BY <1>0 DEF AsksNumbered, Pending, PendingOf, AskingOf
  <1>3. Own'
    BY <1>0 DEF Own, OwnOf
  <1>4. QueuesApart' /\ GetsApart'
    BY <1>0 DEF QueuesApart, GetsApart
  <1>5. ASSUME NEW a \in SR!Askers PROVE OnePlaceOf(a)'
    BY <1>0 DEF OnePlaceOf, Queued, Held, Got, Posted, Lost
  <1> QED BY <1>1, <1>2, <1>3, <1>4, <1>5 DEF AsksInv, OnePlace

LEMMA ClientAnswers ==
  ASSUME AsksInv, NEW n \in 1..MaxAnswers, NEW ask \in received, NEW empty \in BOOLEAN,
         SR!Answer(n, ask, empty)
  PROVE  AsksInv'
  <1>0. AskTypes /\ Heard
    BY DEF AsksInv
  <1> DEFINE next == [answers[n] EXCEPT !.pc = "sent", !.to = ask.by,
                                        !.id = ask.id, !.empty = empty]
  <1>1. /\ UNCHANGED <<requestIDCounter, activeSessions, samplingRequests, requestChan, get,
                       received, lost, asker>>
        /\ answers[n].pc = "none" /\ answers' = [answers EXCEPT ![n] = next]
    BY <1>0 DEF SR!Answer, AskTypes
  <1>2. /\ ask.by \in SR!Askers /\ ask.id = ask.by
        /\ AskOf(ask.by) \in received /\ ask.by \in Nat
    BY <1>0, AskFacts DEF AskTypes
  <1>3. answers[n] \in AnswerRecord
    BY <1>0 DEF AskTypes
  <1>4. /\ next \in AnswerRecord /\ next.pc = "sent" /\ next.to = ask.by
        /\ next.id = ask.by /\ next.object = answers[n].object
    BY <1>2, <1>3 DEF AnswerRecord
  <1> HIDE DEF next
  <1>5. /\ answers' \in [1..MaxAnswers -> AnswerRecord]
        /\ answers'[n] = next /\ \A k \in 1..MaxAnswers : k # n => answers'[k] = answers[k]
    BY <1>0, <1>1, <1>4 DEF AskTypes
  <1>6. Heard'
    BY <1>0, <1>1, <1>2, <1>4, <1>5 DEF Heard
  <1>7. \A b \in SR!Askers, k \in 1..MaxAnswers : AnswersTo(k, b) => AnswersTo(k, b)'
    BY <1>1, <1>5 DEF AnswersTo
  <1> QED BY <1>1, <1>5, <1>6, <1>7, AnswersMove

LEMMA AnswerLocated ==
  ASSUME AsksInv, NEW n \in 1..MaxAnswers, SR!Locate(n)
  PROVE  AsksInv'
  <1>0. AskTypes /\ Heard /\ AsksNumbered
    BY DEF AsksInv
  <1> DEFINE next == IF answers[n].empty THEN [answers[n] EXCEPT !.pc = "accepted"]
                     ELSE IF terminated \/ activeSessions = None
                       THEN [answers[n] EXCEPT !.pc = "refused"]
                       ELSE [answers[n] EXCEPT !.pc = "located", !.object = activeSessions]
  <1>1. /\ UNCHANGED <<requestIDCounter, activeSessions, samplingRequests, requestChan, get,
                       received, lost, asker>>
        /\ answers[n].pc = "sent" /\ answers' = [answers EXCEPT ![n] = next]
    BY <1>0 DEF SR!Locate, SR!Handle, AskTypes
  <1>3. answers[n] \in AnswerRecord /\ answers[n].object = None
    BY <1>0, <1>1 DEF AskTypes, Heard
  <1>4. /\ next \in AnswerRecord /\ next.to = answers[n].to /\ next.id = answers[n].id
        /\ next.empty = answers[n].empty
        /\ \/ next.pc = "accepted" /\ next.empty
           \/ next.pc = "refused" /\ next.object = None
           \/ next.pc = "located" /\ next.object \in SR!Objects /\ ~next.empty
    <2>1. activeSessions # None => activeSessions \in SR!Objects
      BY <1>0 DEF AskTypes
    <2>2. CASE answers[n].empty
      BY <2>2, <1>3 DEF AnswerRecord
    <2>3. CASE ~answers[n].empty /\ (terminated \/ activeSessions = None)
      BY <2>3, <1>3 DEF AnswerRecord
    <2>4. CASE ~answers[n].empty /\ ~(terminated \/ activeSessions = None)
      BY <2>1, <2>4, <1>3 DEF AnswerRecord
    <2> QED BY <2>2, <2>3, <2>4
  <1> HIDE DEF next
  <1>5. /\ answers' \in [1..MaxAnswers -> AnswerRecord]
        /\ answers'[n] = next /\ \A k \in 1..MaxAnswers : k # n => answers'[k] = answers[k]
    BY <1>0, <1>1, <1>4 DEF AskTypes
  <1>6. \A a \in SR!Askers : asker[a].pc = "waiting" => asker[a].object # None
    BY <1>0, AskFacts DEF AsksNumbered, SR!NoAsk
  <1>7. Heard'
    BY <1>0, <1>1, <1>4, <1>5, <1>6 DEF Heard
  <1>8. \A b \in SR!Askers, k \in 1..MaxAnswers : AnswersTo(k, b) => AnswersTo(k, b)'
    BY <1>1, <1>5 DEF AnswersTo
  <1> QED BY <1>1, <1>5, <1>7, <1>8, AnswersMove

\* An answer is for the request that is pending under its number, if one is.
LEMMA AnswerDelivered ==
  ASSUME AsksInv, NEW n \in 1..MaxAnswers, SR!Deliver(n)
  PROVE  AsksInv'
  <1>0. /\ AskTypes /\ AsksNumbered /\ Pending /\ Heard /\ Own
        /\ OnePlace /\ QueuesApart /\ GetsApart /\ \A a \in SR!Askers : OnePlaceOf(a)
    BY DEF AsksInv, OnePlace
  <1>1. answers[n].pc = "located" /\ answers[n] \in AnswerRecord
    BY <1>0 DEF SR!Deliver, AskTypes
  <1>2. /\ \E t \in SR!Askers : t = answers[n].to
        /\ \E o \in SR!Objects : o = answers[n].object
        /\ answers[n].id = answers[n].to /\ ~answers[n].empty
    BY <1>0, <1>1 DEF Heard
  <1>t. PICK t \in SR!Askers : answers[n].to = t
    BY <1>2
  <1>o. PICK o \in SR!Objects : answers[n].object = o
    BY <1>2
  <1> DEFINE found == {r \in samplingRequests[o] : r.id = answers[n].id}
             open == {r \in found : asker[r.by].response = <<>>}
             there == t \in AskingOf(o) /\ asker[t].response = <<>>
             given == <<[from |-> t, method |-> asker[t].method]>>
             next == [answers[n] EXCEPT !.pc = IF there THEN "accepted" ELSE "refused"]
  <1>3. open = IF there THEN {PendingOf(t)} ELSE {}
    <2>1. samplingRequests[o] = {PendingOf(a) : a \in AskingOf(o)}
      BY <1>0, <1>2 DEF Pending
    <2>2. \A a : PendingOf(a).id = a /\ PendingOf(a).by = a
      BY DEF PendingOf
    <2> QED BY <2>1, <2>2, <1>2, <1>t
  <1>u. UNCHANGED <<requestIDCounter, activeSessions, samplingRequests, requestChan, get,
                    received, lost>>
    BY DEF SR!Deliver, SR!Handle
  <1>4. /\ answers' = [answers EXCEPT
             ![n] = [answers[n] EXCEPT !.pc = IF open = {} THEN "refused" ELSE "accepted"]]
        /\ asker' = [a \in SR!Askers |->
             [asker[a] EXCEPT !.response = IF \E r \in open : r.by = a
                THEN <<SR!Response(CHOOSE r \in open : r.by = a, answers[n])>>
                ELSE asker[a].response]]
    BY <1>o DEF SR!Deliver, SR!Handle
  <1>5. answers' = [answers EXCEPT ![n] = next]
    <2>1. (open = {}) <=> ~there
      BY <1>3
    <2> HIDE DEF open, there
    <2> QED BY <1>4, <2>1
  <1>6. /\ next \in AnswerRecord /\ next.to = t /\ next.id = t /\ ~next.empty
        /\ next.object = o /\ next.pc = IF there THEN "accepted" ELSE "refused"
    <2> HIDE DEF there
    <2> QED BY <1>1, <1>2, <1>t, <1>o DEF AnswerRecord
  <1>7. asker' = IF there THEN [asker EXCEPT ![t] = [asker[t] EXCEPT !.response = given]]
                          ELSE asker
    <2> HIDE DEF open
    <2>1. asker \in [SR!Askers -> AskerRecord]
      BY <1>0 DEF AskTypes
    <2>2. CASE there
      <3>1. /\ PendingOf(t).by = t /\ PendingOf(t).method = asker[t].method
            /\ \A a : (\E r \in open : r.by = a) <=> a = t
            /\ (CHOOSE r \in open : r.by = t) = PendingOf(t)
        BY <2>2, <1>3 DEF PendingOf
      <3>2. <<SR!Response(PendingOf(t), answers[n])>> = given
        BY <3>1, <1>t DEF SR!Response
      <3> HIDE DEF given
      <3>3. \A a \in SR!Askers :
              asker'[a] = IF a = t THEN [asker[t] EXCEPT !.response = given] ELSE asker[a]
        <4>1. asker'[t] = [asker[t] EXCEPT !.response = given]
          BY <3>1, <3>2, <1>2, <1>4
        <4>2. ASSUME NEW a \in SR!Askers, a # t PROVE asker'[a] = asker[a]
          <5>1. ~\E r \in open : r.by = a
            BY <3>1, <4>2
          <5>2. asker'[a] = [asker[a] EXCEPT !.response = asker[a].response]
            BY <5>1, <1>4
          <5> QED BY <5>2, <2>1 DEF AskerRecord
        <4> QED BY <4>1, <4>2
      <3>4. asker' = [a \in SR!Askers |-> asker'[a]]
        <4> HIDE DEF there
        <4> QED BY <1>4
      <3> HIDE DEF there, found, next
      <3> QED BY <3>3, <3>4, <2>1, <2>2
    <2>3. CASE ~there
      <3>1. open = {}
        BY <2>3, <1>3
      <3>2. \A a \in SR!Askers :
              asker'[a] = [asker[a] EXCEPT !.response = asker[a].response]
        BY <3>1, <1>4
      <3>3. \A a \in SR!Askers : asker'[a] = asker[a]
        BY <3>2, <2>1 DEF AskerRecord
      <3> QED BY <3>3, <2>1, <2>3, <1>4
    <2> QED BY <2>2, <2>3
  <1> HIDE DEF next, open, found
  <1>8. /\ answers' \in [1..MaxAnswers -> AnswerRecord]
        /\ answers'[n] = next /\ \A k \in 1..MaxAnswers : k # n => answers'[k] = answers[k]
    BY <1>0, <1>5, <1>6 DEF AskTypes
  <1>9. \A b \in SR!Askers, k \in 1..MaxAnswers : AnswersTo(k, b) => AnswersTo(k, b)'
    BY <1>1, <1>8 DEF AnswersTo
  <1>10. CASE ~there
    <2>1. UNCHANGED asker
      BY <1>7, <1>10
    <2>2. ASSUME NEW a \in SR!Askers, asker[a].pc = "waiting", asker[a].response = <<>>, a = t
          PROVE  asker[a].object # o
      BY <2>2, <1>10 DEF AskingOf
    <2> HIDE DEF there
    <2>3. Heard'
      BY <2>1, <2>2, <1>0, <1>1, <1>2, <1>u, <1>6, <1>8, <1>10, <1>t, <1>o DEF Heard
    <2> QED BY <2>1, <2>3, <1>u, <1>8, <1>9, AnswersMove
  <1>11. CASE there
    <2>1. /\ given \in Seq(Responses) /\ given # <<>>
          /\ DOMAIN given = {1} /\ given[1].from = t /\ given[1].method = asker[t].method
      <3>1. asker[t].object = o
        BY <1>11 DEF AskingOf
      <3>2. asker[t].method \in Methods
        BY <3>1, <1>0, <1>2, AskFacts DEF AsksNumbered, SR!NoAsk
      <3> QED BY <3>2, <1>2 DEF Responses
    <2> HIDE DEF given, there
    <2> DEFINE q == [asker[t] EXCEPT !.response = given]
    <2>2. /\ q \in AskerRecord /\ q.response = given
          /\ q.pc = asker[t].pc /\ q.id = asker[t].id /\ q.object = asker[t].object
          /\ q.method = asker[t].method /\ q.holds = asker[t].holds
          /\ q.outcome = asker[t].outcome
      <3>1. asker[t] \in AskerRecord
        BY <1>0, <1>2 DEF AskTypes
      <3> QED BY <2>1, <3>1 DEF AskerRecord
    <2>3. asker' = [asker EXCEPT ![t] = q]
      BY <1>7, <1>11
    <2> HIDE DEF q
    <2>4. /\ asker' \in [SR!Askers -> AskerRecord]
          /\ asker'[t] = q /\ \A b \in SR!Askers : b # t => asker'[b] = asker[b]
      BY <2>2, <2>3, <1>0, <1>2 DEF AskTypes
    <2>5. /\ asker[t].pc \notin {"idle", "over"} /\ t <= requestIDCounter
      <3>1. asker[t].object = o
        BY <1>11 DEF AskingOf, there
      <3>2. asker[t].pc # "over"
        BY <1>11 DEF AskingOf, there
      <3> QED BY <3>1, <3>2, <1>0, <1>2, AskFacts DEF AsksNumbered, SR!NoAsk
    <2>6. AskTypes' /\ OnePlace'
      BY <2>2, <2>4, <1>0, <1>2, <1>u, <1>8, RequestsStay DEF AskTypes
    <2>7. AsksNumbered'
      <3>1. /\ q.pc # "idle" /\ q.id = t
            /\ q.object \in SR!Objects /\ q.method \in Methods
        BY <2>2, <2>5, <1>0 DEF AsksNumbered
      <3> QED BY <3>1, <2>4, <2>5, <1>0, <1>u DEF AsksNumbered
    <2>8. Pending'
      <3>1. \A k \in SR!Objects : AskingOf(k)' = AskingOf(k)
        BY <2>2, <2>4 DEF AskingOf
      <3>2. \A b \in SR!Askers : PendingOf(b)' = PendingOf(b)
        BY <2>2, <2>4 DEF PendingOf
      <3>3. \A k \in SR!Objects : AskingOf(k) \subseteq SR!Askers
        BY DEF AskingOf
      <3> QED BY <3>1, <3>2, <3>3, <1>0, <1>u DEF Pending
    <2>9. Heard'
      BY <2>1, <2>2, <2>4, <1>0, <1>1, <1>2, <1>u, <1>6, <1>8, <1>11, <1>t, <1>o DEF Heard
    <2>10. Own'
      <3>1. AnswersTo(n, t)'
        BY <1>6, <1>8, <1>11 DEF AnswersTo
      <3>2. ASSUME NEW b \in SR!Askers, b # t
            PROVE  (OwnOf(b, asker[b].response) /\ OwnOf(b, asker[b].outcome))'
        BY <3>2, <2>4, <1>0, <1>9 DEF Own, OwnOf
      <3>3. OwnOf(t, asker[t].outcome)'
        BY <2>2, <2>4, <1>0, <1>2, <1>9 DEF Own, OwnOf
      <3>4. OwnOf(t, asker[t].response)'
        BY <3>1, <2>1, <2>2, <2>4 DEF OwnOf
      <3> QED BY <3>2, <3>3, <3>4 DEF Own
    <2> QED BY <2>6, <2>7, <2>8, <2>9, <2>10 DEF AsksInv
  <1> QED BY <1>10, <1>11

LEMMA AsksStart == SR!Init => AsksInv
  <1> SUFFICES ASSUME SR!Init PROVE AsksInv
    OBVIOUS
  <1>1. AskTypes
    <2>1. SR!NoAsk \in AskerRecord
      BY EmptySeq DEF SR!NoAsk, AskerRecord
    <2>2. SR!NoGet \in GetRecord /\ SR!NoGet.pc # "open"
      BY EmptySeq DEF SR!NoGet, GetRecord
    <2>3. SR!NoAnswer \in AnswerRecord
      BY DEF SR!NoAnswer, AnswerRecord
    <2>4. <<>> \in Seq(Asks) /\ InitPost \in SR!Objects
      BY EmptySeq DEF SR!Objects
    <2> QED BY <2>1, <2>2, <2>3, <2>4 DEF SR!Init, AskTypes
  <1>2. AsksNumbered
    BY AskFacts DEF SR!Init, AsksNumbered, SR!Askers
  <1>3. Pending
    <2>1. \A o \in SR!Objects : AskingOf(o) = {}
      BY AskFacts DEF SR!Init, AskingOf, SR!NoAsk
    <2>2. \A o \in SR!Objects : {PendingOf(a) : a \in AskingOf(o)} = {}
      BY <2>1
    <2> QED BY <2>2 DEF SR!Init, Pending
  <1>4. Heard /\ Own
    BY DEF SR!Init, Heard, Own, OwnOf, SR!NoAsk, SR!NoAnswer
  <1>5. OnePlace
    <2>1. Once(<<>>) /\ \A a : ~By(<<>>, a)
      BY DEF Once, By
    <2>2. \A g \in Streams : get[g].holds = <<>>
      BY DEF SR!Init, SR!NoGet
    <2>3. \A o \in SR!Objects, m \in Methods : requestChan[o][m] = <<>>
      BY DEF SR!Init
    <2>4. QueuesApart /\ GetsApart
      BY <2>1, <2>2, <2>3 DEF QueuesApart, GetsApart
    <2>5. \A a \in SR!Askers :
            /\ ~Queued(a) /\ ~Held(a) /\ ~Got(a) /\ ~Posted(a) /\ ~Lost(a)
            /\ asker[a].pc = "idle"
      BY <2>1, <2>2, <2>3 DEF SR!Init, SR!NoAsk, Queued, Held, Got, Posted, Lost
    <2> QED BY <2>4, <2>5 DEF OnePlace, OnePlaceOf
  <1> QED BY <1>1, <1>2, <1>3, <1>4, <1>5 DEF AsksInv

LEMMA AsksStep == AsksInv /\ [SR!Next]_SR!vars => AsksInv'
  <1> SUFFICES ASSUME AsksInv, [SR!Next]_SR!vars PROVE AsksInv'
    OBVIOUS
  <1>1. CASE \/ SR!CleanUp
             \/ \E g \in Streams : \/ SR!Get(g) \/ SR!Write(g) \/ SR!GetEnds(g)
                                   \/ \E m \in Methods : SR!Forward(g, m)
    BY <1>1, RequestsMove
  <1>2. ASSUME NEW a \in SR!Askers, NEW m \in Methods, NEW open \in BOOLEAN,
               SR!Store(a, m, open)
        PROVE  AsksInv'
    BY <1>2, AskerAsks
  <1>3. ASSUME NEW a \in SR!Askers,
               \/ SR!Register(a) \/ SR!TrySend(a) \/ SR!PostWrite(a) \/ SR!PostReturns(a)
               \/ SR!Queue(a) \/ SR!Take(a) \/ SR!ContextEnds(a) \/ SR!Return(a)
        PROVE  AsksInv'
    BY <1>3, PostsCarry, QueueTakes, AskerWaits, AskerReturns
  <1>4. ASSUME NEW n \in 1..MaxAnswers,
               \/ \E ask \in received, empty \in BOOLEAN : SR!Answer(n, ask, empty)
               \/ SR!Locate(n) \/ SR!Deliver(n)
        PROVE  AsksInv'
    BY <1>4, ClientAnswers, AnswerLocated, AnswerDelivered
  <1>5. CASE UNCHANGED SR!vars
    <2>1. UNCHANGED <<requestIDCounter, activeSessions, samplingRequests, requestChan, get,
                      received, lost, asker, answers>>
      BY <1>5 DEF SR!vars
    <2>2. Heard' /\ answers' \in [1..MaxAnswers -> AnswerRecord]
      BY <2>1 DEF AsksInv, Heard, AskTypes
    <2>3. \A b \in SR!Askers, n \in 1..MaxAnswers : AnswersTo(n, b) => AnswersTo(n, b)'
      BY <2>1 DEF AnswersTo
    <2> QED BY <2>1, <2>2, <2>3, AnswersMove
  <1> QED BY <1>1, <1>2, <1>3, <1>4, <1>5 DEF SR!Next

\* What the model counts is what the invariant says there is one of.
LEMMA AtMostOne ==
  ASSUME NEW S, \A x, y \in S : x = y
  PROVE  SR!Cardinality(S) <= 1
  <1>1. CASE S = {}
    <2>1. Cardinality(S) = 0
      BY <1>1, FS_EmptySet
    <2>2. SR!Cardinality(S) = Cardinality(S)
      BY DEF SR!Cardinality, Cardinality, SR!IsFiniteSet, IsFiniteSet
    <2> QED BY <2>1, <2>2
  <1>2. CASE S # {}
    <2>1. PICK x \in S : S = {x}
      BY <1>2
    <2>2. Cardinality(S) = 1
      BY <2>1, FS_Singleton
    <2>3. SR!Cardinality(S) = Cardinality(S)
      BY DEF SR!Cardinality, Cardinality, SR!IsFiniteSet, IsFiniteSet
    <2> QED BY <2>2, <2>3
  <1> QED BY <1>1, <1>2

LEMMA AskedOnceHolds == AsksInv => SR!AskedOnce
  <1> SUFFICES ASSUME AsksInv, NEW a \in SR!Askers
               PROVE  LET places == SR!Places(a) IN
                 /\ asker[a].pc \in {"stored", "registered"} => places = {}
                 /\ SR!Cardinality(places) <= 1
                 /\ asker[a].pc = "waiting" /\ asker[a].response = <<>> =>
                      /\ places # {}
                      /\ \A n \in 1..MaxAnswers : answers[n].to = a =>
                           \/ answers[n].pc \in {"sent", "located"} \/ answers[n].empty
                           \/ answers[n].pc = "refused"
                              /\ answers[n].object # asker[a].object
    BY DEF SR!AskedOnce
  <1>0. AskTypes /\ Heard /\ QueuesApart /\ GetsApart /\ OnePlaceOf(a)
    BY DEF AsksInv, OnePlace
  <1> DEFINE inQueue == {q \in SR!Objects \X Methods :
                           a \in SR!AskersOf(requestChan[q[1]][q[2]])}
             inGet == {<<"GET", g>> : g \in {g \in Streams : a \in SR!AskersOf(get[g].holds)}}
             atClient == {<<"client", r>> : r \in {r \in received : r.by = a}}
             inPost == IF asker[a].holds THEN {<<"POST", a>>} ELSE {}
             gone == IF a \in lost THEN {<<"lost", a>>} ELSE {}
  <1>1. SR!Places(a) = inQueue \union inGet \union atClient \union inPost \union gone
    BY DEF SR!Places
  <1>2. \A s : a \in SR!AskersOf(s) <=> By(s, a)
    BY DEF SR!AskersOf, By
  <1>3. (inQueue # {} <=> Queued(a)) /\ \A x, y \in inQueue : x = y
    <2>1. ASSUME NEW x \in inQueue
          PROVE  x = <<asker[a].object, asker[a].method>> /\ Queued(a)
      BY <1>0, <1>2 DEF QueuesApart, Queued
    <2>2. Queued(a) => inQueue # {}
      <3> SUFFICES ASSUME NEW o \in SR!Objects, NEW m \in Methods, By(requestChan[o][m], a)
                   PROVE  inQueue # {}
        BY DEF Queued
      <3>1. <<o, m>> \in inQueue
        BY <1>2
      <3> QED BY <3>1
    <2> QED BY <2>1, <2>2
  <1>4. (inGet # {} <=> Held(a)) /\ \A x, y \in inGet : x = y
    BY <1>0, <1>2 DEF GetsApart, Held
  <1>5. (atClient # {} <=> Got(a)) /\ \A x, y \in atClient : x = y
    <2>1. \A r \in received : r.by = a <=> r = AskOf(a)
      BY <1>0, AskFacts DEF AskTypes, AskOf
    <2> QED BY <2>1 DEF Got
  <1>6. (inPost # {} <=> Posted(a)) /\ \A x, y \in inPost : x = y
    BY DEF Posted
  <1>7. (gone # {} <=> Lost(a)) /\ \A x, y \in gone : x = y
    BY DEF Lost
  <1> HIDE DEF inQueue, inGet, atClient, inPost, gone
  <1>8. \A x, y \in SR!Places(a) : x = y
    BY <1>0, <1>1, <1>3, <1>4, <1>5, <1>6, <1>7 DEF OnePlaceOf
  <1>9. /\ asker[a].pc \in {"stored", "registered"} => SR!Places(a) = {}
        /\ asker[a].pc = "waiting" => SR!Places(a) # {}
    BY <1>0, <1>1, <1>3, <1>4, <1>5, <1>6, <1>7 DEF OnePlaceOf
  <1>10. SR!Cardinality(SR!Places(a)) <= 1
    BY <1>8, AtMostOne
  <1> QED BY <1>0, <1>9, <1>10 DEF Heard

LEMMA AsksKept == SR!Spec => []AsksInv
  BY AsksStart, AsksStep, PTL DEF SR!Spec

\* An asker gets the client's answer to what it asked under its own method;
\* what is pending is what goroutines are asking; and each request is in one
\* place until its asker has an answer or gives up (sendServerRequest,
\* deliverSamplingResponse).
THEOREM AsksGetAnswers == SR!Spec => []SR!AsksAnswered
  <1>1. AsksInv => SR!AsksAnswered
    <2> SUFFICES ASSUME AsksInv PROVE SR!AsksAnswered
      OBVIOUS
    <2>1. SR!OwnAnswer
      BY DEF AsksInv, Own, OwnOf, SR!OwnAnswer, AnswersTo
    <2>2. SR!PendingIsAsked
      <3>1. \A a : PendingOf(a).by = a
        BY DEF PendingOf
      <3>2. \A o \in SR!Objects :
              {r.by : r \in {PendingOf(a) : a \in AskingOf(o)}} = AskingOf(o)
        BY <3>1
      <3> QED BY <3>2 DEF AsksInv, Pending, SR!PendingIsAsked, AskingOf
    <2> QED BY <2>1, <2>2, AskedOnceHolds DEF SR!AsksAnswered
  <1> QED BY <1>1, AsksKept, PTL

\* The channels have the capacities they are given, and the numbers end.
AskBounds ==
  /\ requestIDCounter <= MaxAsks /\ terminated \in BOOLEAN
  /\ \A a \in SR!Askers : Len(asker[a].response) <= 1
  /\ \A o \in SR!Objects, m \in Methods : Len(requestChan[o][m]) <= QueueCap
  /\ \A g \in Streams : Len(get[g].holds) <= WriteCap

LEMMA AsksBounded == AsksInv /\ AskBounds /\ [SR!Next]_SR!vars => AskBounds'
  <1> SUFFICES ASSUME AsksInv, AskBounds, [SR!Next]_SR!vars PROVE AskBounds'
    OBVIOUS
  <1>0. AskTypes
    BY DEF AsksInv
  <1>1. ASSUME NEW o \in SR!Objects, NEW m \in Methods
        PROVE  requestChan[o][m] \in Seq(Asks) /\ Len(requestChan[o][m]) \in Nat
    BY <1>0 DEF AskTypes
  <1>2. ASSUME NEW g \in Streams PROVE get[g].holds \in Seq(Asks) /\ Len(get[g].holds) \in Nat
    BY <1>0 DEF AskTypes, GetRecord
  <1>3. QueueCap \in Nat /\ WriteCap \in Nat /\ MaxAsks \in Nat
    BY ServerRequestsAssumption DEF ServerRequestsAssumption
  <1>a. ASSUME \A a \in SR!Askers :
                 asker'[a].response = asker[a].response \/ asker'[a].response = <<>>
        PROVE  \A a \in SR!Askers : Len(asker'[a].response) <= 1
    BY <1>a DEF AskBounds
  <1>b. ASSUME NEW g \in Streams, NEW next, get' = [get EXCEPT ![g] = next],
               Len(next.holds) <= WriteCap
        PROVE  \A h \in Streams : Len(get'[h].holds) <= WriteCap
    <2>1. get'[g] = next /\ \A h \in Streams \ {g} : get'[h] = get[h]
      BY <1>0, <1>b DEF AskTypes
    <2> QED BY <1>b, <2>1 DEF AskBounds
  <1>c. ASSUME NEW o \in SR!Objects, NEW m \in Methods, NEW s,
               requestChan' = [requestChan EXCEPT ![o][m] = s], Len(s) <= QueueCap
        PROVE  \A p \in SR!Objects, n \in Methods : Len(requestChan'[p][n]) <= QueueCap
    BY <1>0, <1>c DEF AskTypes, AskBounds
  <1>4. ASSUME NEW g \in Streams, SR!Get(g) \/ SR!Write(g) \/ SR!GetEnds(g) PROVE AskBounds'
    <2>1. ASSUME NEW h \in Streams
          PROVE  \/ get'[h].holds = get[h].holds
                 \/ get'[h].holds = <<>>
                 \/ get[h].holds # <<>> /\ get'[h].holds = Tail(get[h].holds)
      <3>1. CASE SR!Get(g)
        BY <1>0, <3>1 DEF SR!Get, AskTypes, GetRecord
      <3>2. CASE SR!Write(g)
        BY <1>0, <3>2 DEF SR!Write, AskTypes, GetRecord
      <3>3. CASE SR!GetEnds(g)
        BY <1>0, <3>3 DEF SR!GetEnds, SR!NoGet, AskTypes, GetRecord
      <3> QED BY <1>4, <3>1, <3>2, <3>3
    <2>2. ASSUME NEW h \in Streams PROVE Len(get'[h].holds) <= WriteCap
      <3>1. get[h].holds # <<>> => Len(Tail(get[h].holds)) <= WriteCap
        BY <1>2, <1>3 DEF AskBounds
      <3>2. Len(<<>>) <= WriteCap
        BY <1>3
      <3> QED BY <2>1, <3>1, <3>2 DEF AskBounds
    <2> QED BY <1>4, <2>2 DEF AskBounds, SR!Get, SR!Write, SR!GetEnds, SR!GetSame
  <1>5. ASSUME NEW g \in Streams, NEW m \in Methods, SR!Forward(g, m) PROVE AskBounds'
    <2>1. PICK o, s : o = get[g].object /\ s = get[g].holds
      OBVIOUS
    <2>2. /\ get[g].pc = "open" /\ Len(s) < WriteCap /\ requestChan[o][m] # <<>>
          /\ get' = [get EXCEPT ![g].holds = Append(s, Head(requestChan[o][m]))]
          /\ requestChan' = [requestChan EXCEPT ![o][m] = Tail(requestChan[o][m])]
          /\ UNCHANGED <<requestIDCounter, terminated, asker>>
      BY <1>0, <1>5, <2>1 DEF SR!Forward, SR!GetSame, AskTypes
    <2>3. o \in SR!Objects /\ s \in Seq(Asks)
      BY <1>0, <2>1, <2>2, <1>2 DEF AskTypes
    <2>4. Len(Tail(requestChan[o][m])) <= QueueCap
      BY <1>1, <1>3, <2>2, <2>3 DEF AskBounds
    <2>5. \A p \in SR!Objects, n \in Methods : Len(requestChan'[p][n]) <= QueueCap
      BY <1>c, <2>2, <2>3, <2>4
    <2>6. Head(requestChan[o][m]) \in Asks
      BY <1>1, <2>2, <2>3
    <2>7. Len(Append(s, Head(requestChan[o][m]))) <= WriteCap
      BY <1>3, <2>2, <2>3, <2>6
    <2>8. \A h \in Streams : Len(get'[h].holds) <= WriteCap
      <3>1. PICK next : /\ next = [get[g] EXCEPT !.holds = Append(s, Head(requestChan[o][m]))]
                        /\ get' = [get EXCEPT ![g] = next]
        BY <2>2
      <3>2. next.holds = Append(s, Head(requestChan[o][m]))
        BY <1>0, <3>1 DEF AskTypes, GetRecord
      <3> QED BY <1>b, <2>7, <3>1, <3>2
    <2> QED BY <2>2, <2>5, <2>8 DEF AskBounds
  <1>6. CASE SR!CleanUp
    BY <1>6 DEF SR!CleanUp, AskBounds
  <1>7. ASSUME NEW a \in SR!Askers, NEW m \in Methods, NEW open \in BOOLEAN, SR!Store(a, m, open)
        PROVE  AskBounds'
    <2>1. /\ a = requestIDCounter + 1 /\ requestIDCounter' = a
          /\ UNCHANGED <<terminated, requestChan, get>>
      BY <1>7 DEF SR!Store
    <2>2. requestIDCounter' <= MaxAsks
      BY <1>3, <2>1 DEF SR!Askers
    <2>3. ASSUME NEW b \in SR!Askers PROVE asker'[b].response = asker[b].response
      BY <1>0, <1>7 DEF SR!Store, AskTypes, AskerRecord
    <2>4. \A b \in SR!Askers : Len(asker'[b].response) <= 1
      BY <1>a, <2>3
    <2> QED BY <2>1, <2>2, <2>4 DEF AskBounds
  <1>8. ASSUME NEW a \in SR!Askers,
               \/ SR!Register(a) \/ SR!TrySend(a) \/ SR!PostWrite(a) \/ SR!PostReturns(a)
               \/ SR!Take(a) \/ SR!ContextEnds(a) \/ SR!Return(a)
        PROVE  AskBounds'
    <2>1. ASSUME NEW b \in SR!Askers
          PROVE  asker'[b].response = asker[b].response \/ asker'[b].response = <<>>
      <3>1. CASE SR!Register(a)
        BY <1>0, <3>1 DEF SR!Register, AskTypes, AskerRecord
      <3>2. CASE SR!TrySend(a)
        BY <1>0, <3>2 DEF SR!TrySend, AskTypes, AskerRecord
      <3>3. CASE SR!PostWrite(a)
        BY <1>0, <3>3 DEF SR!PostWrite, AskTypes, AskerRecord
      <3>4. CASE SR!PostReturns(a)
        BY <1>0, <3>4 DEF SR!PostReturns, AskTypes, AskerRecord
      <3>5. CASE SR!Take(a)
        BY <1>0, <3>5 DEF SR!Take, SR!AskerStep, AskTypes, AskerRecord
      <3>6. CASE SR!ContextEnds(a)
        BY <1>0, <3>6 DEF SR!ContextEnds, SR!AskerStep, AskTypes, AskerRecord
      <3>7. CASE SR!Return(a)
        BY <1>0, <3>7 DEF SR!Return, SR!AskerStep, AskTypes, AskerRecord
      <3> QED BY <1>8, <3>1, <3>2, <3>3, <3>4, <3>5, <3>6, <3>7
    <2>2. \A b \in SR!Askers : Len(asker'[b].response) <= 1
      BY <1>a, <2>1
    <2>3. UNCHANGED <<requestIDCounter, terminated, requestChan, get>>
      BY <1>8 DEF SR!Register, SR!TrySend, SR!PostWrite, SR!PostReturns, SR!Take,
                  SR!ContextEnds, SR!Return, SR!AskerStep, SR!AskSame
    <2> QED BY <2>2, <2>3 DEF AskBounds
  <1>9. ASSUME NEW a \in SR!Askers, SR!Queue(a) PROVE AskBounds'
    <2>1. PICK o, m : o = asker[a].object /\ m = asker[a].method
      OBVIOUS
    <2>2. UNCHANGED <<requestIDCounter, terminated, get>>
      BY <1>9 DEF SR!Queue, SR!AskSame
    <2>3. ASSUME NEW b \in SR!Askers PROVE asker'[b].response = asker[b].response
      <3>1. \/ asker' = [asker EXCEPT ![a].pc = "waiting"]
            \/ asker' = [asker EXCEPT ![a].pc = "returning"]
        BY <1>9 DEF SR!Queue
      <3> QED BY <1>0, <3>1 DEF AskTypes, AskerRecord
    <2>4. \A b \in SR!Askers : Len(asker'[b].response) <= 1
      BY <1>a, <2>3
    <2>5. CASE UNCHANGED requestChan
      BY <2>2, <2>4, <2>5 DEF AskBounds
    <2>6. CASE requestChan' # requestChan
      <3>1. /\ Len(requestChan[o][m]) < QueueCap
            /\ requestChan' = [requestChan EXCEPT ![o][m] = Append(requestChan[o][m], SR!Request(a))]
        BY <1>0, <1>9, <2>1, <2>6 DEF SR!Queue, AskTypes
      <3>2. o \in SR!Objects /\ m \in Methods /\ SR!Request(a) \in Asks
        <4>1. asker[a].pc # "idle"
          BY <1>9 DEF SR!Queue
        <4>2. a <= requestIDCounter
          BY <4>1 DEF AsksInv, AsksNumbered, SR!NoAsk
        <4> QED BY <2>1, <4>2 DEF AsksInv, AsksNumbered, SR!Request, Asks, AskOf
      <3>3. Len(Append(requestChan[o][m], SR!Request(a))) <= QueueCap
        BY <1>1, <1>3, <3>1, <3>2
      <3>4. \A p \in SR!Objects, n \in Methods : Len(requestChan'[p][n]) <= QueueCap
        BY <1>c, <3>1, <3>2, <3>3
      <3> QED BY <2>2, <2>4, <3>4 DEF AskBounds
    <2> QED BY <2>5, <2>6
  <1>10. ASSUME NEW n \in 1..MaxAnswers, NEW r \in received, NEW empty \in BOOLEAN,
                SR!Answer(n, r, empty)
         PROVE  AskBounds'
    BY <1>10 DEF SR!Answer, AskBounds
  <1>11. ASSUME NEW n \in 1..MaxAnswers, SR!Locate(n) PROVE AskBounds'
    BY <1>11 DEF SR!Locate, SR!Handle, AskBounds
  <1>12. ASSUME NEW n \in 1..MaxAnswers, SR!Deliver(n) PROVE AskBounds'
    <2>1. UNCHANGED <<requestIDCounter, terminated, requestChan, get>>
      BY <1>12 DEF SR!Deliver, SR!Handle
    <2>2. ASSUME NEW a \in SR!Askers PROVE Len(asker'[a].response) <= 1
      <3>1. asker'[a].response = asker[a].response \/ \E x : asker'[a].response = <<x>>
        BY <1>0, <1>12 DEF SR!Deliver, AskTypes, AskerRecord
      <3>2. \A x : Len(<<x>>) <= 1
        OBVIOUS
      <3> QED BY <3>1, <3>2 DEF AskBounds
    <2> QED BY <2>1, <2>2 DEF AskBounds
  <1>13. CASE UNCHANGED SR!vars
    BY <1>13 DEF SR!vars, AskBounds
  <1> QED BY <1>4, <1>5, <1>6, <1>7, <1>8, <1>9, <1>10, <1>11, <1>12, <1>13 DEF SR!Next

LEMMA AsksTyped == SR!Spec => []SR!TypeOK
  <1>1. SR!Init => AskBounds
    <2> SUFFICES ASSUME SR!Init PROVE AskBounds
      OBVIOUS
    <2>1. QueueCap \in Nat /\ WriteCap \in Nat /\ MaxAsks \in Nat
      BY ServerRequestsAssumption DEF ServerRequestsAssumption
    <2>2. Len(<<>>) = 0
      OBVIOUS
    <2>3. \A a \in SR!Askers : asker[a].response = <<>>
      BY DEF SR!Init, SR!NoAsk
    <2>4. \A o \in SR!Objects, m \in Methods : requestChan[o][m] = <<>>
      BY DEF SR!Init
    <2>5. \A g \in Streams : get[g].holds = <<>>
      BY DEF SR!Init, SR!NoGet
    <2>6. requestIDCounter = 0 /\ terminated = FALSE
      BY DEF SR!Init
    <2>7. requestIDCounter <= MaxAsks /\ Len(<<>>) <= QueueCap /\ Len(<<>>) <= WriteCap
      BY <2>1, <2>2, <2>6
    <2>8. terminated \in BOOLEAN
      BY <2>6
    <2>9. \A a \in SR!Askers : Len(asker[a].response) <= 1
      BY <2>2, <2>3
    <2> QED BY <2>4, <2>5, <2>7, <2>8, <2>9 DEF AskBounds
  <1>2. AsksInv /\ AskBounds => SR!TypeOK
    <2> SUFFICES ASSUME AsksInv, AskBounds PROVE SR!TypeOK
      OBVIOUS
    <2>1. AskTypes
      BY DEF AsksInv
    <2>2. SR!Cardinality(SR!Askers) = MaxAsks
      <3>1. MaxAsks \in Nat
        BY ServerRequestsAssumption DEF ServerRequestsAssumption
      <3>2. Cardinality(1..MaxAsks) = MaxAsks
        BY <3>1, FS_Interval
      <3> QED BY <3>2 DEF SR!Cardinality, Cardinality, SR!Askers
    <2>3. requestIDCounter \in 0..MaxAsks
      BY <2>1, ServerRequestsAssumption DEF AskTypes, AskBounds, ServerRequestsAssumption
    <2> QED BY <2>1, <2>2, <2>3 DEF AskTypes, AskBounds, SR!TypeOK
  <1> QED BY <1>1, <1>2, AsksBounded, AsksKept, PTL DEF SR!Spec

-----------------------------------------------------------------------------
(* ResponseStream.                                                         *)
RS == INSTANCE ResponseStream

Indices == Nat \ {0}
StreamEvents == [kind : RS!EventKinds, stored : BOOLEAN]
Connections == [is : {"none", "open", "ended", "broken"}, todo : SUBSET Indices, cut : RS!Cuts]
StreamTypes ==
  /\ modern \in BOOLEAN /\ ctxDone \in BOOLEAN /\ session \in {"current", "ended", "replaced"}
  /\ events \in Seq(StreamEvents)
  /\ connection \in Connections
  /\ reader \in {"reading", "delay", "closed", "closed, broken", "closed, not resumed"}
  /\ cursor \in Nat /\ cursor <= Len(events)
  /\ responses \in Seq(Indices) /\ handled \in Seq(Indices) /\ unfinished \subseteq Indices
  /\ caller \in {"waiting", "response", "nil response", "read error", "resume error",
                 "context error"}
  /\ connection.todo \subseteq 1..Len(events)
  /\ \A k \in DOMAIN handled : handled[k] \in 1..Len(events)

\* The stored events after the cursor, and those on the way, are still to come: none
\* comes before what was handled, and what was handled without its end may come again.
ToCome ==
  \A e \in connection.todo \union RS!Replayed, k \in DOMAIN handled :
    handled[k] <= e /\ (handled[k] = e => e \in unfinished)
\* A connection that is open brings them all, and one that is not the first of them.
OnTheWay ==
  /\ connection.is = "open" => RS!Replayed \subseteq connection.todo
  /\ \A e \in connection.todo : cursor < e
  /\ \A e \in connection.todo, f \in RS!Replayed \ connection.todo : e < f
HandledSoFar ==
  \A e \in 1..Len(events) :
    events[e].stored /\ events[e].kind # "prime" /\ e <= cursor =>
      \E k \in DOMAIN handled : handled[k] = e
InOrder ==
  \A k \in 1..(Len(handled) - 1) :
    handled[k] <= handled[k + 1] /\ (handled[k] = handled[k + 1] => handled[k] \in unfinished)
RunInv == ToCome /\ OnTheWay /\ HandledSoFar /\ InOrder

HasResponse == \E k \in DOMAIN handled : events[handled[k]].kind = "response"
\* The response is the last event, and it is handled once.
AnsweredInv ==
  /\ \A e \in 1..Len(events) : events[e].kind = "response" => e = Len(events)
  /\ ~HasResponse => responses = <<>>
  /\ HasResponse => /\ connection.todo = {} /\ reader # "delay" /\ Len(responses) <= 1
                    /\ caller = "waiting" => responses # <<>>
ReasonInv ==
  /\ reader = "closed" /\ caller = "waiting" => ctxDone \/ modern \/ cursor = 0 \/ HasResponse
  /\ caller = "nil response" => reader = "closed" /\ (cursor = 0 \/ modern \/ ctxDone)
  /\ caller \in {"read error", "resume error"} =>
       reader \notin {"reading", "delay"} /\ ~HasResponse

ResponseInv == StreamTypes /\ RunInv /\ AnsweredInv /\ ReasonInv

LEMMA StreamFacts ==
  ASSUME ResponseInv
  PROVE  /\ Len(events) \in Nat /\ cursor \in Nat /\ cursor <= Len(events)
         /\ DOMAIN events = 1..Len(events) /\ connection \in Connections
         /\ connection.todo \subseteq 1..Len(events)
         /\ \A e \in 1..Len(events) : e \in Indices /\ e \in Nat
         /\ RS!Replayed \subseteq 1..Len(events)
         /\ \A e \in 1..Len(events) : e \in RS!Replayed <=> e > cursor /\ events[e].stored
         /\ \A k \in DOMAIN handled : handled[k] \in 1..Len(events) /\ handled[k] \in Nat
  <1>1. /\ events \in Seq(StreamEvents) /\ connection \in Connections /\ cursor \in Nat
        /\ cursor <= Len(events) /\ connection.todo \subseteq 1..Len(events)
        /\ \A k \in DOMAIN handled : handled[k] \in 1..Len(events)
    BY DEF ResponseInv, StreamTypes
  <1>2. Len(events) \in Nat /\ DOMAIN events = 1..Len(events)
    BY <1>1
  <1>3. \A e \in 1..Len(events) : e \in Indices /\ e \in Nat
    BY <1>2 DEF Indices
  <1> QED BY <1>1, <1>2, <1>3 DEF RS!Replayed

LEMMA ConnectionTodo ==
  ASSUME NEW c \in Connections, NEW todo \in SUBSET Indices
  PROVE  /\ [c EXCEPT !.todo = todo] \in Connections /\ [c EXCEPT !.todo = todo].todo = todo
         /\ [c EXCEPT !.todo = todo].is = c.is
         /\ [RS!NoConnection EXCEPT !.is = "open", !.todo = todo] \in Connections
         /\ [RS!NoConnection EXCEPT !.is = "open", !.todo = todo].todo = todo
  BY DEF Connections, RS!NoConnection, RS!Cuts

LEMMA ConnectionNone ==
  /\ RS!NoConnection \in Connections /\ RS!NoConnection.todo = {}
  /\ RS!NoConnection.is = "none"
  BY DEF Connections, RS!NoConnection, RS!Cuts

\* What is done with the next event.
LEMMA EventHandled ==
  ASSUME ResponseInv, NEW e \in connection.todo, RS!IsNext(e), RS!handle(e), UNCHANGED events,
         unfinished \subseteq unfinished'
  PROVE  /\ handled' \in Seq(Indices) /\ responses' \in Seq(Indices)
         /\ \A k \in DOMAIN handled : k \in DOMAIN handled' /\ handled'[k] = handled[k]
         /\ \A k \in DOMAIN handled' :
              handled'[k] = e \/ (k \in DOMAIN handled /\ handled'[k] = handled[k])
         /\ events[e].kind # "prime" => \E k \in DOMAIN handled' : handled'[k] = e
         /\ \A k \in DOMAIN handled' : handled'[k] \in 1..Len(events) /\ handled'[k] <= e
         /\ InOrder'
         /\ ~HasResponse /\ (HasResponse' <=> events[e].kind = "response")
         /\ responses' = IF events[e].kind = "response" THEN <<e>> ELSE <<>>
         /\ events[e].kind = "response" => connection.todo = {e}
  <1>0. /\ StreamTypes /\ ToCome /\ InOrder /\ AnsweredInv
        /\ e \in Indices /\ e \in 1..Len(events)
        /\ \A f \in connection.todo : e <= f
    <2>1. StreamTypes /\ ToCome /\ InOrder /\ AnsweredInv
      BY DEF ResponseInv, RunInv
    <2>2. e \in Indices /\ e \in 1..Len(events)
      BY StreamFacts
    <2>3. \A f \in connection.todo : e <= f
      BY DEF RS!IsNext
    <2> QED BY <2>1, <2>2, <2>3
  <1>1. handled \in Seq(Indices) /\ responses \in Seq(Indices)
    BY <1>0 DEF StreamTypes
  <1>2. \/ events[e].kind = "prime" /\ handled' = handled
        \/ events[e].kind # "prime" /\ handled' = Append(handled, e)
    BY DEF RS!handle
  <1>3. handled' \in Seq(Indices)
    BY <1>0, <1>1, <1>2
  <1>4. \A k \in DOMAIN handled : k \in DOMAIN handled' /\ handled'[k] = handled[k]
    BY <1>0, <1>1, <1>2
  <1>5. \A k \in DOMAIN handled' :
              handled'[k] = e \/ (k \in DOMAIN handled /\ handled'[k] = handled[k])
    BY <1>0, <1>1, <1>2
  <1>6. events[e].kind # "prime" => \E k \in DOMAIN handled' : handled'[k] = e
    <2>1. ASSUME handled' = Append(handled, e)
          PROVE  Len(handled) + 1 \in DOMAIN handled' /\ handled'[Len(handled) + 1] = e
      BY <1>0, <1>1, <2>1
    <2> QED BY <1>2, <2>1
  <1>7. \A k \in DOMAIN handled : handled[k] <= e /\ (handled[k] = e => e \in unfinished)
    BY <1>0 DEF ToCome
  <1>8. \A k \in DOMAIN handled' : handled'[k] \in 1..Len(events) /\ handled'[k] <= e
    BY <1>0, <1>5, <1>7 DEF StreamTypes
  <1>9. InOrder'
    <2>1. CASE handled' = handled
      BY <1>0, <2>1 DEF InOrder
    <2>2. CASE handled' = Append(handled, e)
      <3>1. /\ Len(handled') = Len(handled) + 1 /\ Len(handled) \in Nat
            /\ handled'[Len(handled) + 1] = e
            /\ \A k \in 1..Len(handled) : handled'[k] = handled[k]
        BY <1>0, <1>1, <2>2
      <3>2. ASSUME NEW k \in 1..Len(handled)
            PROVE  /\ handled'[k] <= handled'[k + 1]
                   /\ (handled'[k] = handled'[k + 1] => handled'[k] \in unfinished')
        <4>1. CASE k = Len(handled)
          <5>1. k \in DOMAIN handled
            BY <1>1
          <5> QED BY <1>7, <3>1, <4>1, <5>1
        <4>2. CASE k # Len(handled)
          <5>1. k \in 1..(Len(handled) - 1) /\ k + 1 \in 1..Len(handled)
            BY <3>1, <4>2
          <5> QED BY <1>0, <3>1, <5>1 DEF InOrder
        <4> QED BY <4>1, <4>2
      <3> QED BY <3>1, <3>2 DEF InOrder
    <2> QED BY <1>2, <2>1, <2>2
  <1>10. ~HasResponse /\ responses = <<>>
    BY <1>0 DEF AnsweredInv
  <1>11. HasResponse' <=> events[e].kind = "response"
    <2>1. HasResponse' => events[e].kind = "response"
      BY <1>5, <1>10 DEF HasResponse
    <2>2. events[e].kind = "response" => HasResponse'
      BY <1>6 DEF HasResponse
    <2> QED BY <2>1, <2>2
  <1>12. responses' = IF events[e].kind = "response" THEN <<e>> ELSE <<>>
    <2>1. Append(<<>>, e) = <<e>>
      OBVIOUS
    <2> QED BY <1>10, <2>1 DEF RS!handle
  <1>13. responses' \in Seq(Indices)
    BY <1>0, <1>12
  <1>14. events[e].kind = "response" => connection.todo = {e}
    <2>1. ASSUME events[e].kind = "response", NEW f \in connection.todo PROVE f = e
      <3>1. e = Len(events) /\ e <= f
        BY <1>0, <2>1 DEF AnsweredInv
      <3>2. f \in 1..Len(events) /\ Len(events) \in Nat
        BY <2>1, StreamFacts
      <3> QED BY <3>1, <3>2
    <2> QED BY <2>1
  <1> QED BY <1>3, <1>4, <1>5, <1>6, <1>8, <1>9, <1>10, <1>11, <1>12, <1>13, <1>14

LEMMA EventDispatched ==
  ASSUME ResponseInv, NEW e \in connection.todo, RS!Dispatch(e)
  PROVE  ResponseInv'
  <1>0. StreamTypes /\ ToCome /\ OnTheWay /\ HandledSoFar /\ AnsweredInv /\ ReasonInv
    BY DEF ResponseInv, RunInv
  <1>1. /\ reader = "reading" /\ RS!IsNext(e) /\ RS!handle(e)
        /\ cursor' = IF events[e].stored THEN e ELSE cursor
        /\ connection' = [connection EXCEPT !.todo = connection.todo \ {e}]
        /\ modern' = modern /\ session' = session /\ events' = events /\ reader' = reader
        /\ caller' = caller /\ ctxDone' = ctxDone /\ unfinished' = unfinished
    BY DEF RS!Dispatch
  <1>2. /\ e \in Indices /\ e \in 1..Len(events) /\ e \in Nat
        /\ \A f \in connection.todo : e <= f /\ f \in Nat /\ f \in 1..Len(events)
        /\ cursor < e
    BY <1>0, <1>1, StreamFacts DEF OnTheWay, RS!IsNext
  <1>3. /\ connection' \in Connections /\ connection'.todo = connection.todo \ {e}
        /\ connection'.is = connection.is
    <2>1. connection.todo \ {e} \in SUBSET Indices
      BY StreamFacts
    <2> QED BY <1>1, <2>1, StreamFacts, ConnectionTodo
  <1>4. /\ cursor' \in Nat /\ cursor' <= Len(events) /\ cursor <= cursor' /\ cursor' <= e
        /\ cursor' = e \/ (cursor' = cursor /\ ~events[e].stored)
    <2>1. e <= Len(events) /\ cursor \in Nat /\ cursor <= Len(events) /\ Len(events) \in Nat
      BY <1>2, StreamFacts
    <2>2. CASE events[e].stored
      BY <1>1, <1>2, <2>1, <2>2
    <2>3. CASE ~events[e].stored
      BY <1>1, <1>2, <2>1, <2>3
    <2> QED BY <2>2, <2>3
  <1>5. \A f \in RS!Replayed : e = f \/ e < f
    <2>1. \A f \in RS!Replayed : f \in Nat /\ (f \in connection.todo => e <= f)
      BY <1>2, StreamFacts
    <2> QED BY <1>0, <1>2, <2>1 DEF OnTheWay
  <1>6. RS!Replayed' \subseteq RS!Replayed \ {e}
    <2>1. ASSUME NEW i \in RS!Replayed' PROVE i \in RS!Replayed \ {e}
      <3>1. i \in 1..Len(events) /\ i > cursor' /\ events[i].stored /\ i \in Nat
        BY <1>1, <2>1, StreamFacts DEF RS!Replayed
      <3>2. i > cursor
        BY <1>4, <3>1, StreamFacts
      <3>3. i # e
        BY <1>2, <1>4, <3>1
      <3> QED BY <3>1, <3>2, <3>3, StreamFacts
    <2> QED BY <2>1
  <1>7. \A f \in RS!Replayed' \union connection'.todo : e < f
    <2>1. \A f \in connection'.todo : e < f
      BY <1>2, <1>3
    <2> QED BY <1>5, <1>6, <2>1
  <1>8. StreamTypes'
    <2>1. connection'.todo \subseteq 1..Len(events)
      BY <1>2, <1>3
    <2> QED BY <1>0, <1>1, <1>3, <1>4, <2>1, EventHandled DEF StreamTypes
  <1>9. ToCome'
    <2>1. \A k \in DOMAIN handled' : handled'[k] \in Nat /\ handled'[k] <= e
      BY <1>1, EventHandled, StreamFacts
    <2>2. \A f \in RS!Replayed' \union connection'.todo : f \in Nat
      BY <1>2, <1>3, <1>6, StreamFacts
    <2>3. \A f \in RS!Replayed' \union connection'.todo, k \in DOMAIN handled' : handled'[k] < f
      BY <1>2, <1>7, <2>1, <2>2
    <2> QED BY <2>1, <2>2, <2>3 DEF ToCome
  <1>10. OnTheWay'
    <2>1. connection'.is = "open" => RS!Replayed' \subseteq connection'.todo
      BY <1>0, <1>3, <1>6 DEF OnTheWay
    <2>2. \A f \in connection'.todo : cursor' < f
      BY <1>2, <1>3, <1>4, <1>7
    <2>3. \A f \in connection'.todo, g \in RS!Replayed' \ connection'.todo : f < g
      BY <1>0, <1>3, <1>6 DEF OnTheWay
    <2> QED BY <2>1, <2>2, <2>3 DEF OnTheWay
  <1>11. HandledSoFar'
    <2>1. ASSUME NEW f \in 1..Len(events), events[f].stored, events[f].kind # "prime", f <= cursor'
          PROVE  \E k \in DOMAIN handled' : handled'[k] = f
      <3>1. CASE f <= cursor
        <4>1. \E k \in DOMAIN handled : handled[k] = f
          BY <1>0, <2>1, <3>1 DEF HandledSoFar
        <4> QED BY <1>1, <4>1, EventHandled
      <3>2. CASE ~(f <= cursor)
        <4>1. f \in RS!Replayed /\ f \in Nat /\ f <= e
          BY <1>2, <1>4, <2>1, <3>2, StreamFacts
        <4>2. f = e
          BY <1>2, <1>5, <4>1
        <4> QED BY <1>1, <2>1, <4>2, EventHandled
      <3> QED BY <3>1, <3>2
    <2> QED BY <1>1, <2>1 DEF HandledSoFar
  <1>12. InOrder'
    BY <1>1, EventHandled
  <1>13. AnsweredInv'
    <2>1. /\ ~HasResponse /\ (HasResponse' <=> events[e].kind = "response")
          /\ responses' = IF events[e].kind = "response" THEN <<e>> ELSE <<>>
          /\ events[e].kind = "response" => connection.todo = {e}
      BY <1>1, EventHandled
    <2>2. Len(<<e>>) = 1 /\ <<e>> # <<>>
      OBVIOUS
    <2>3. HasResponse' => connection'.todo = {}
      BY <1>3, <2>1
    <2>4. HasResponse' => Len(responses') <= 1 /\ responses' # <<>>
      BY <2>1, <2>2
    <2>5. ~HasResponse' => responses' = <<>>
      BY <2>1
    <2>6. (\A f \in 1..Len(events) : events[f].kind = "response" => f = Len(events))'
      BY <1>0, <1>1 DEF AnsweredInv
    <2>7. reader' # "delay"
      BY <1>1
    <2> QED BY <2>3, <2>4, <2>5, <2>6, <2>7 DEF AnsweredInv
  <1>14. ReasonInv'
    BY <1>0, <1>1 DEF ReasonInv
  <1> QED BY <1>8, <1>9, <1>10, <1>11, <1>12, <1>13, <1>14 DEF ResponseInv, RunInv

\* The server sends: what comes is after all that came.
LEMMA StreamSend ==
  ASSUME ResponseInv, RS!Send
  PROVE  ResponseInv'
  <1>0. StreamTypes /\ ToCome /\ OnTheWay /\ HandledSoFar /\ InOrder /\ AnsweredInv /\ ReasonInv
    BY DEF ResponseInv, RunInv
  <1> DEFINE n == Len(events) + 1
  <1>1. PICK new \in StreamEvents : events' = Append(events, new)
    BY DEF RS!Send, StreamEvents
  <1>2. /\ \A i \in DOMAIN events : events[i].kind # "response"
        /\ connection' = IF connection.is = "open"
                         THEN [connection EXCEPT !.todo = connection.todo \union {Len(events')}]
                         ELSE connection
        /\ modern' = modern /\ session' = session /\ reader' = reader /\ cursor' = cursor
        /\ responses' = responses /\ caller' = caller /\ ctxDone' = ctxDone
        /\ handled' = handled /\ unfinished' = unfinished
    BY DEF RS!Send
  <1>3. /\ events' \in Seq(StreamEvents) /\ Len(events') = n /\ Len(events) \in Nat
        /\ n \in Nat /\ n \in Indices /\ 1..n = (1..Len(events)) \union {n}
        /\ \A i \in 1..Len(events) : events'[i] = events[i] /\ i < n
    <2>1. events \in Seq(StreamEvents)
      BY <1>0 DEF StreamTypes
    <2> QED BY <1>1, <2>1 DEF Indices
  <1> HIDE DEF n
  <1>4. /\ connection' \in Connections /\ connection'.is = connection.is
        /\ connection'.todo = IF connection.is = "open" THEN connection.todo \union {n}
                              ELSE connection.todo
    <2>1. connection.todo \union {n} \in SUBSET Indices
      BY <1>3, StreamFacts
    <2>2. CASE connection.is = "open"
      <3>1. connection' = [connection EXCEPT !.todo = connection.todo \union {n}]
        BY <1>2, <1>3, <2>2
      <3> QED BY <2>1, <2>2, <3>1, StreamFacts, ConnectionTodo
    <2>3. CASE connection.is # "open"
      BY <1>2, <2>3, StreamFacts
    <2> QED BY <2>2, <2>3
  <1>5. RS!Replayed' \subseteq RS!Replayed \union {n}
    <2>1. ASSUME NEW i \in RS!Replayed' PROVE i \in RS!Replayed \union {n}
      <3>1. i \in 1..Len(events') /\ i > cursor /\ events'[i].stored
        BY <1>2, <1>3 DEF RS!Replayed
      <3> QED BY <1>3, <3>1, StreamFacts
    <2> QED BY <2>1
  <1>6. \A f \in connection.todo \union RS!Replayed : f \in Nat /\ f < n
    BY <1>3, StreamFacts
  <1>7. StreamTypes'
    <2>1. connection'.todo \subseteq 1..Len(events')
      BY <1>3, <1>4, StreamFacts
    <2>2. cursor' \in Nat /\ cursor' <= Len(events')
      BY <1>2, <1>3, StreamFacts, n = Len(events) + 1 DEF n
    <2>3. \A k \in DOMAIN handled : handled[k] \in 1..Len(events')
      BY <1>3, StreamFacts
    <2> QED BY <1>0, <1>2, <1>3, <1>4, <2>1, <2>2, <2>3 DEF StreamTypes
  <1>8. ToCome'
    <2>1. \A k \in DOMAIN handled : handled[k] \in Nat /\ handled[k] < n
      BY <1>3, StreamFacts
    <2>2. connection'.todo \union RS!Replayed' \subseteq connection.todo \union RS!Replayed \union {n}
      BY <1>4, <1>5
    <2>3. \A f \in connection.todo \union RS!Replayed \union {n}, k \in DOMAIN handled :
            handled[k] <= f /\ (handled[k] = f => f \in unfinished)
      BY <1>0, <1>3, <2>1 DEF ToCome
    <2> QED BY <1>2, <2>2, <2>3 DEF ToCome
  <1>9. OnTheWay'
    <2>1. connection'.is = "open" => RS!Replayed' \subseteq connection'.todo
      BY <1>0, <1>4, <1>5 DEF OnTheWay
    <2>2. cursor < n
      BY <1>3, StreamFacts, n = Len(events) + 1 DEF n
    <2>3. \A f \in connection'.todo : cursor' < f
      BY <1>0, <1>2, <1>4, <2>2 DEF OnTheWay
    <2>4. \A f \in connection'.todo, g \in RS!Replayed' \ connection'.todo : f < g
      <3>1. CASE connection.is = "open"
        BY <1>4, <2>1, <3>1
      <3>2. CASE connection.is # "open"
        BY <1>0, <1>4, <1>5, <1>6, <3>2 DEF OnTheWay
      <3> QED BY <3>1, <3>2
    <2> QED BY <2>1, <2>3, <2>4 DEF OnTheWay
  <1>10. HandledSoFar'
    <2>1. ASSUME NEW f \in 1..Len(events'), events'[f].stored, events'[f].kind # "prime", f <= cursor
          PROVE  \E k \in DOMAIN handled : handled[k] = f
      <3>1. f # n
        BY <1>3, <2>1, StreamFacts, n = Len(events) + 1 DEF n
      <3>2. f \in 1..Len(events) /\ events[f].stored /\ events[f].kind # "prime"
        BY <1>3, <2>1, <3>1
      <3> QED BY <1>0, <2>1, <3>2 DEF HandledSoFar
    <2> QED BY <1>2, <2>1 DEF HandledSoFar
  <1>11. InOrder'
    BY <1>0, <1>2 DEF InOrder
  <1>12. ~HasResponse /\ ~HasResponse'
    BY <1>2, <1>3, StreamFacts DEF HasResponse
  <1>13. AnsweredInv'
    <2>1. \A f \in 1..Len(events') : events'[f].kind = "response" => f = Len(events')
      BY <1>2, <1>3, StreamFacts
    <2> QED BY <1>0, <1>2, <1>12, <2>1 DEF AnsweredInv
  <1>14. ReasonInv'
    BY <1>0, <1>2, <1>12 DEF ReasonInv
  <1> QED BY <1>7, <1>8, <1>9, <1>10, <1>11, <1>13, <1>14 DEF ResponseInv, RunInv

\* The events stay, and so does what was handled of them.
LEMMA StreamStays ==
  ASSUME ResponseInv, events' = events, handled' = handled, unfinished' = unfinished, cursor' = cursor,
         connection' \in Connections, modern' = modern,
         session' \in {"current", "ended", "replaced"}, ctxDone' \in BOOLEAN,
         reader' \in {"reading", "delay", "closed", "closed, broken", "closed, not resumed"},
         responses' \in Seq(Indices),
         caller' \in {"waiting", "response", "nil response", "read error", "resume error",
                      "context error"},
         \/ connection'.todo = connection.todo /\ (connection'.is = "open" => connection.is = "open")
         \/ connection'.todo = {} /\ connection'.is = "none"
         \/ connection'.todo = RS!Replayed
  PROVE  /\ StreamTypes' /\ RunInv' /\ (HasResponse' <=> HasResponse)
         /\ HasResponse /\ connection'.todo # RS!Replayed => connection'.todo = {}
         /\ \A f \in 1..Len(events') : events'[f].kind = "response" => f = Len(events')
  <1>0. /\ StreamTypes /\ ToCome /\ OnTheWay /\ HandledSoFar /\ InOrder /\ AnsweredInv
        /\ ReasonInv
    BY DEF ResponseInv, RunInv
  <1>1. RS!Replayed' = RS!Replayed
    BY DEF RS!Replayed
  <1>2. connection'.todo \subseteq connection.todo \union RS!Replayed
    OBVIOUS
  <1>3. StreamTypes'
    <2>1. connection'.todo \subseteq 1..Len(events)
      BY <1>2, StreamFacts
    <2> QED BY <1>0, <2>1 DEF StreamTypes
  <1>4. ToCome'
    BY <1>0, <1>1, <1>2 DEF ToCome
  <1>5. OnTheWay'
    <2>1. \A f \in RS!Replayed : cursor < f
      BY StreamFacts
    <2>2. connection'.is = "open" => RS!Replayed \subseteq connection'.todo
      BY <1>0 DEF OnTheWay
    <2>3. \A f \in connection'.todo : cursor < f
      BY <1>0, <1>2, <2>1 DEF OnTheWay
    <2>4. \A f \in connection'.todo, g \in RS!Replayed \ connection'.todo : f < g
      BY <1>0 DEF OnTheWay
    <2> QED BY <1>1, <2>2, <2>3, <2>4 DEF OnTheWay
  <1>6. HandledSoFar' /\ InOrder' /\ (HasResponse' <=> HasResponse)
    BY <1>0 DEF HandledSoFar, InOrder, HasResponse
  <1>7. HasResponse => connection.todo = {}
    BY <1>0 DEF AnsweredInv
  <1>8. \A f \in 1..Len(events') : events'[f].kind = "response" => f = Len(events')
    BY <1>0 DEF AnsweredInv
  <1> QED BY <1>3, <1>4, <1>5, <1>6, <1>7, <1>8 DEF RunInv

LEMMA StreamEnds ==
  ASSUME ResponseInv, RS!EndOfStream
  PROVE  ResponseInv'
  <1>0. StreamTypes /\ ToCome /\ OnTheWay /\ HandledSoFar /\ InOrder /\ AnsweredInv /\ ReasonInv
    BY DEF ResponseInv, RunInv
  <1>1. /\ reader = "reading" /\ caller = "waiting" /\ ~ctxDone
        /\ connection' = RS!NoConnection
        /\ modern' = modern /\ session' = session /\ cursor' = cursor /\ events' = events
        /\ caller' = caller /\ ctxDone' = ctxDone
    BY DEF RS!EndOfStream, RS!Ended
  <1>2. reader' = IF ~HasResponse' /\ cursor # 0 /\ ~modern THEN "delay" ELSE "closed"
    BY <1>1 DEF RS!EndOfStream, RS!AfterEnd, HasResponse
  <1>3. /\ connection' \in Connections /\ connection'.todo = {} /\ connection'.is = "none"
        /\ reader' \in {"delay", "closed"} /\ (HasResponse' => reader' # "delay")
    BY <1>1, <1>2, ConnectionNone
  <1>4. reader' = "closed" => modern' \/ cursor' = 0 \/ HasResponse'
    BY <1>1, <1>2
  <1>5. ReasonInv'
    BY <1>1, <1>4 DEF ReasonInv
  <1>6. CASE handled' = handled /\ responses' = responses /\ unfinished' = unfinished
    <2>1. StreamTypes' /\ RunInv' /\ (HasResponse' <=> HasResponse)
      BY <1>0, <1>1, <1>3, <1>6, StreamStays DEF StreamTypes
    <2>2. AnsweredInv'
      BY <1>0, <1>1, <1>3, <1>6, <2>1 DEF AnsweredInv
    <2> QED BY <1>5, <2>1, <2>2 DEF ResponseInv
  <1>7. ASSUME NEW e \in connection.todo, connection.todo = {e}, RS!handle(e),
               unfinished' = unfinished \union {e}
        PROVE  ResponseInv'
    <2>1. RS!IsNext(e) /\ unfinished \subseteq unfinished' /\ e \in Nat /\ e \in Indices
      BY <1>7, StreamFacts DEF RS!IsNext
    <2>2. StreamTypes'
      BY <1>0, <1>1, <1>3, <1>7, <2>1, EventHandled DEF StreamTypes
    <2>3. RS!Replayed' = RS!Replayed
      BY <1>1 DEF RS!Replayed
    <2>4. ToCome'
      <3>1. \A f \in RS!Replayed : f = e \/ e < f
        BY <1>0, <1>7 DEF OnTheWay
      <3>2. \A k \in DOMAIN handled' : handled'[k] \in Nat /\ handled'[k] <= e
        BY <1>1, <1>7, <2>1, EventHandled, StreamFacts
      <3>3. \A f \in RS!Replayed : f \in Nat
        BY StreamFacts
      <3>4. \A f \in RS!Replayed, k \in DOMAIN handled' :
              handled'[k] <= f /\ (handled'[k] = f => f \in unfinished')
        BY <1>7, <2>1, <3>1, <3>2, <3>3
      <3> QED BY <1>3, <2>3, <3>4 DEF ToCome
    <2>5. OnTheWay'
      BY <1>3 DEF OnTheWay
    <2>6. HandledSoFar'
      <3>1. \A f \in 1..Len(events) :
              (\E k \in DOMAIN handled : handled[k] = f) => \E k \in DOMAIN handled' : handled'[k] = f
        BY <1>1, <1>7, <2>1, EventHandled
      <3> QED BY <1>0, <1>1, <3>1 DEF HandledSoFar
    <2>7. InOrder'
      BY <1>1, <1>7, <2>1, EventHandled
    <2>8. AnsweredInv'
      <3>1. /\ HasResponse' <=> events[e].kind = "response"
            /\ responses' = IF events[e].kind = "response" THEN <<e>> ELSE <<>>
        BY <1>1, <1>7, <2>1, EventHandled
      <3>2. Len(<<e>>) = 1 /\ <<e>> # <<>>
        OBVIOUS
      <3>3. HasResponse' => Len(responses') <= 1 /\ responses' # <<>>
        BY <3>1, <3>2
      <3>4. ~HasResponse' => responses' = <<>>
        BY <3>1
      <3>5. (\A f \in 1..Len(events) : events[f].kind = "response" => f = Len(events))'
        BY <1>0, <1>1 DEF AnsweredInv
      <3> QED BY <1>3, <3>3, <3>4, <3>5 DEF AnsweredInv
    <2> QED BY <1>5, <2>2, <2>4, <2>5, <2>6, <2>7, <2>8 DEF ResponseInv, RunInv
  <1> QED BY <1>6, <1>7 DEF RS!EndOfStream

LEMMA StreamBreaksOff ==
  ASSUME ResponseInv, RS!BrokenOff
  PROVE  ResponseInv'
  <1>0. StreamTypes /\ AnsweredInv /\ ReasonInv
    BY DEF ResponseInv
  <1>1. /\ reader = "reading" /\ connection' = RS!NoConnection
        /\ (reader' = "closed" /\ (ctxDone \/ caller # "waiting")) \/ reader' = "closed, broken"
        /\ modern' = modern /\ session' = session /\ cursor' = cursor /\ events' = events
        /\ caller' = caller /\ ctxDone' = ctxDone /\ handled' = handled
        /\ responses' = responses /\ unfinished' = unfinished
    BY DEF RS!BrokenOff, RS!Ended
  <1>2. connection' \in Connections /\ connection'.todo = {} /\ connection'.is = "none"
    BY <1>1, ConnectionNone
  <1>3. StreamTypes' /\ RunInv' /\ (HasResponse' <=> HasResponse)
    BY <1>0, <1>1, <1>2, StreamStays DEF StreamTypes
  <1>4. AnsweredInv'
    BY <1>0, <1>1, <1>2, <1>3 DEF AnsweredInv
  <1>5. ReasonInv'
    BY <1>0, <1>1, <1>3 DEF ReasonInv
  <1> QED BY <1>3, <1>4, <1>5 DEF ResponseInv

LEMMA StreamResumes ==
  ASSUME ResponseInv, RS!resumeSSE
  PROVE  ResponseInv'
  <1>0. StreamTypes /\ AnsweredInv /\ ReasonInv
    BY DEF ResponseInv
  <1>1. /\ reader = "delay"
        /\ modern' = modern /\ session' = session /\ cursor' = cursor /\ events' = events
        /\ caller' = caller /\ ctxDone' = ctxDone /\ handled' = handled
        /\ responses' = responses /\ unfinished' = unfinished
        /\ \/ /\ connection' = [RS!NoConnection EXCEPT !.is = "open", !.todo = RS!Replayed]
              /\ reader' = "reading"
           \/ connection' = connection /\ reader' = "closed, not resumed"
    BY DEF RS!resumeSSE
  <1>2. ~HasResponse
    BY <1>0, <1>1 DEF AnsweredInv
  <1>3. /\ connection' \in Connections
        /\ connection'.todo = RS!Replayed \/ connection' = connection
    <2>1. RS!Replayed \in SUBSET Indices
      BY StreamFacts
    <2> QED BY <1>1, <2>1, StreamFacts, ConnectionTodo
  <1>4. StreamTypes' /\ RunInv' /\ (HasResponse' <=> HasResponse)
    BY <1>0, <1>1, <1>3, StreamStays DEF StreamTypes
  <1>5. AnsweredInv'
    BY <1>0, <1>1, <1>2, <1>4 DEF AnsweredInv
  <1>6. ReasonInv'
    BY <1>0, <1>1, <1>4 DEF ReasonInv
  <1> QED BY <1>4, <1>5, <1>6 DEF ResponseInv

LEMMA CallerReturns ==
  ASSUME ResponseInv, RS!Return
  PROVE  ResponseInv'
  <1>0. StreamTypes /\ AnsweredInv /\ ReasonInv
    BY DEF ResponseInv
  <1>1. /\ caller = "waiting" /\ connection' = connection
        /\ modern' = modern /\ session' = session /\ cursor' = cursor /\ events' = events
        /\ reader' = reader /\ ctxDone' = ctxDone /\ handled' = handled
        /\ unfinished' = unfinished
        /\ \/ responses # <<>> /\ caller' = "response" /\ responses' = Tail(responses)
           \/ /\ responses = <<>> /\ responses' = responses
              /\ \/ caller' = "nil response" /\ reader = "closed"
                 \/ caller' = "read error" /\ reader = "closed, broken"
                 \/ caller' = "resume error" /\ reader = "closed, not resumed"
           \/ caller' = "context error" /\ responses' = responses
    BY DEF RS!Return
  <1>2. responses' \in Seq(Indices) /\ (Len(responses) <= 1 => Len(responses') <= 1)
    <2>1. responses \in Seq(Indices)
      BY <1>0 DEF StreamTypes
    <2>2. CASE responses # <<>>
      <3>1. Tail(responses) \in Seq(Indices) /\ Len(Tail(responses)) = Len(responses) - 1
            /\ Len(responses) \in Nat
        BY <2>1, <2>2
      <3>2. responses' = responses \/ responses' = Tail(responses)
        BY <1>1
      <3>3. CASE responses' = responses
        BY <2>1, <3>3
      <3>4. CASE responses' = Tail(responses)
        BY <3>1, <3>4
      <3> QED BY <3>2, <3>3, <3>4
    <2>3. CASE responses = <<>>
      BY <1>1, <2>1, <2>3
    <2> QED BY <2>2, <2>3
  <1>3. caller' \in {"response", "nil response", "read error", "resume error", "context error"}
    BY <1>1
  <1>4. StreamTypes' /\ RunInv' /\ (HasResponse' <=> HasResponse)
    BY <1>0, <1>1, <1>2, <1>3, StreamStays, StreamFacts DEF StreamTypes
  <1>5. AnsweredInv'
    <2>1. HasResponse => responses # <<>> /\ connection.todo = {} /\ Len(responses) <= 1
      BY <1>0, <1>1 DEF AnsweredInv
    <2>2. ~HasResponse => responses' = <<>>
      BY <1>0, <1>1 DEF AnsweredInv
    <2> QED BY <1>0, <1>1, <1>2, <1>3, <1>4, <2>1, <2>2 DEF AnsweredInv
  <1>6. ReasonInv'
    BY <1>0, <1>1, <1>3, <1>4 DEF ReasonInv, AnsweredInv
  <1> QED BY <1>4, <1>5, <1>6 DEF ResponseInv

\* The rest is not of the reader and not of the caller.
LEMMA StreamElse ==
  ASSUME ResponseInv,
         \/ RS!Disconnect \/ RS!SessionMoves \/ RS!Cancel \/ UNCHANGED RS!vars
         \/ \E k \in DOMAIN incoming : RS!TimesOut(k) \/ RS!HandlerReturns(k)
                                      \/ RS!sendResponseToServer(k)
  PROVE  ResponseInv'
  <1>0. StreamTypes /\ AnsweredInv /\ ReasonInv
    BY DEF ResponseInv
  <1>1. /\ modern' = modern /\ cursor' = cursor /\ events' = events
        /\ reader' = reader /\ (ctxDone' = ctxDone \/ ctxDone' = TRUE) /\ handled' = handled
        /\ unfinished' = unfinished /\ responses' = responses /\ caller' = caller
    BY DEF RS!Disconnect, RS!SessionMoves, RS!Cancel, RS!vars, RS!TimesOut, RS!HandlerReturns,
           RS!sendResponseToServer, RS!Incoming
  <1>2. session' \in {"current", "ended", "replaced"}
    BY <1>0 DEF StreamTypes, RS!Disconnect, RS!SessionMoves, RS!Cancel, RS!vars, RS!TimesOut,
           RS!HandlerReturns, RS!sendResponseToServer, RS!Incoming
  <1>3. /\ connection' \in Connections /\ connection'.todo = connection.todo
        /\ connection'.is = "open" => connection.is = "open"
    <2>1. CASE RS!Disconnect
      <3>1. PICK cut \in RS!Cuts, is \in {"ended", "broken"} :
              connection' = [connection EXCEPT !.is = is, !.cut = cut]
        BY <2>1 DEF RS!Disconnect
      <3>2. is \in {"none", "open", "ended", "broken"} /\ is # "open"
        OBVIOUS
      <3>3. connection \in Connections
        BY StreamFacts
      <3>4. /\ [connection EXCEPT !.is = is, !.cut = cut] \in Connections
            /\ [connection EXCEPT !.is = is, !.cut = cut].todo = connection.todo
            /\ [connection EXCEPT !.is = is, !.cut = cut].is = is
        BY <3>2, <3>3 DEF Connections
      <3> QED BY <3>1, <3>2, <3>4
    <2>2. CASE connection' = connection
      BY <2>2, StreamFacts
    <2> QED BY <2>1, <2>2 DEF RS!SessionMoves, RS!Cancel, RS!vars, RS!TimesOut,
           RS!HandlerReturns, RS!sendResponseToServer, RS!Incoming
  <1>4. StreamTypes' /\ RunInv' /\ (HasResponse' <=> HasResponse)
    BY <1>0, <1>1, <1>2, <1>3, StreamStays DEF StreamTypes
  <1>5. AnsweredInv'
    BY <1>0, <1>1, <1>3, <1>4 DEF AnsweredInv
  <1>6. ReasonInv'
    BY <1>0, <1>1, <1>4 DEF ReasonInv
  <1> QED BY <1>4, <1>5, <1>6 DEF ResponseInv

LEMMA StreamBegins == ASSUME RS!Init PROVE ResponseInv
  <1>1. /\ modern \in BOOLEAN /\ session = "current" /\ events = <<>>
        /\ connection = [RS!NoConnection EXCEPT !.is = "open"]
        /\ reader = "reading" /\ cursor = 0 /\ responses = <<>> /\ caller = "waiting"
        /\ ctxDone = FALSE /\ handled = <<>> /\ unfinished = {}
    BY DEF RS!Init
  <1>2. connection \in Connections /\ connection.todo = {}
    BY <1>1 DEF Connections, RS!NoConnection, RS!Cuts
  <1>3. /\ events \in Seq(StreamEvents) /\ Len(events) = 0
        /\ handled \in Seq(Indices) /\ responses \in Seq(Indices)
        /\ DOMAIN handled = {} /\ DOMAIN events = {} /\ 1..0 = {} /\ Len(handled) = 0
    BY <1>1
  <1>4. StreamTypes
    <2>1. cursor \in Nat /\ cursor <= Len(events) /\ unfinished \subseteq Indices
          /\ connection.todo \subseteq 1..Len(events)
      BY <1>1, <1>2, <1>3
    <2>2. \A k \in DOMAIN handled : handled[k] \in 1..Len(events)
      BY <1>3
    <2>3. /\ modern \in BOOLEAN /\ ctxDone \in BOOLEAN
          /\ session \in {"current", "ended", "replaced"}
          /\ reader \in {"reading", "delay", "closed", "closed, broken", "closed, not resumed"}
          /\ caller \in {"waiting", "response", "nil response", "read error", "resume error",
                         "context error"}
      BY <1>1
    <2> QED BY <1>2, <1>3, <2>1, <2>2, <2>3 DEF StreamTypes
  <1>5. RS!Replayed = {}
    BY <1>3 DEF RS!Replayed
  <1>6. RunInv
    BY <1>2, <1>3, <1>5 DEF RunInv, ToCome, OnTheWay, HandledSoFar, InOrder
  <1>7. AnsweredInv /\ ReasonInv
    BY <1>1, <1>3 DEF AnsweredInv, ReasonInv, HasResponse
  <1> QED BY <1>4, <1>6, <1>7 DEF ResponseInv

LEMMA StreamIsRead == ResponseInv => RS!StreamRead
  <1> SUFFICES ASSUME ResponseInv PROVE RS!StreamRead
    OBVIOUS
  <1>0. /\ StreamTypes /\ ToCome /\ HandledSoFar /\ InOrder /\ AnsweredInv /\ ReasonInv
    BY DEF ResponseInv, RunInv
  <1>1. ASSUME handled # <<>>, NEW e \in 1..handled[Len(handled)], events[e].stored, events[e].kind # "prime"
        PROVE  e \in RS!Range(handled)
    <2>0. handled \in Seq(Indices)
      BY <1>0 DEF StreamTypes
    <2>1. Len(handled) \in DOMAIN handled
      BY <1>1, <2>0
    <2>2. handled[Len(handled)] \in 1..Len(events) /\ handled[Len(handled)] \in Nat /\ e \in 1..Len(events)
          /\ e \in Nat /\ e <= handled[Len(handled)]
      BY <1>1, <2>1, StreamFacts
    <2>3. \E k \in DOMAIN handled : handled[k] = e
      <3>1. CASE e <= cursor
        BY <1>0, <1>1, <2>2, <3>1 DEF HandledSoFar
      <3>2. CASE ~(e <= cursor)
        <4>1. e \in RS!Replayed
          BY <1>1, <2>2, <3>2, StreamFacts
        <4>2. handled[Len(handled)] <= e
          BY <1>0, <2>1, <4>1 DEF ToCome
        <4> QED BY <2>1, <2>2, <4>2
      <3> QED BY <3>1, <3>2
    <2> QED BY <2>3 DEF RS!Range
  <1>2. RS!HandlesRun
    BY <1>0, <1>1 DEF RS!HandlesRun, InOrder
  <1>3. RS!ReasonGiven
    BY <1>0 DEF RS!ReasonGiven, AnsweredInv, ReasonInv, HasResponse
  <1> QED BY <1>2, <1>3 DEF RS!StreamRead

LEMMA ResponseKept == RS!Spec => []ResponseInv
  <1>1. RS!Init => ResponseInv
    BY StreamBegins
  <1>2. ResponseInv /\ [RS!Next]_RS!vars => ResponseInv'
    <2> SUFFICES ASSUME ResponseInv, [RS!Next]_RS!vars PROVE ResponseInv'
      OBVIOUS
    <2> QED BY EventDispatched, StreamSend, StreamEnds, StreamBreaksOff, StreamResumes,
               CallerReturns, StreamElse DEF RS!Next
  <1> QED BY <1>1, <1>2, PTL DEF RS!Spec

\* The events of a stream that ends and is resumed are handled in order, with none
\* left out, and a caller is told a reason (handleSSEResponse, readSSEWithCursor).
THEOREM StreamReadInOrder == RS!Spec => []RS!StreamRead
  <1>1. ResponseInv => RS!StreamRead
    BY StreamIsRead
  <1> QED BY <1>1, ResponseKept, PTL

LEMMA ResponseTyped == RS!Spec => []RS!TypeOK
  <1>1. ResponseInv => RS!TypeOK
    <2> SUFFICES ASSUME ResponseInv PROVE RS!TypeOK
      OBVIOUS
    <2>1. StreamTypes /\ AnsweredInv
      BY DEF ResponseInv
    <2>2. ASSUME NEW i \in DOMAIN events
          PROVE  events[i].kind \in RS!EventKinds /\ events[i].stored \in BOOLEAN
      <3>1. events \in Seq(StreamEvents)
        BY <2>1 DEF StreamTypes
      <3>2. events[i] \in StreamEvents
        BY <2>2, <3>1
      <3> QED BY <3>2 DEF StreamEvents
    <2>3. cursor \in 0..Len(events)
      <3>1. cursor \in Nat /\ cursor <= Len(events) /\ Len(events) \in Nat
        BY StreamFacts
      <3> QED BY <3>1
    <2>4. Len(responses) <= 1
      <3>1. CASE HasResponse
        BY <2>1, <3>1 DEF AnsweredInv
      <3>2. CASE ~HasResponse
        <4>1. responses = <<>>
          BY <2>1, <3>2 DEF AnsweredInv
        <4> QED BY <4>1
      <3> QED BY <3>1, <3>2
    <2>5. connection.is \in {"none", "open", "ended", "broken"} /\ connection.cut \in RS!Cuts
      BY <2>1 DEF StreamTypes, Connections
    <2>6. /\ session \in {"current", "ended", "replaced"}
          /\ reader \in {"reading", "delay", "closed", "closed, broken", "closed, not resumed"}
          /\ caller \in {"waiting", "response", "nil response", "read error", "resume error",
                         "context error"}
      BY <2>1 DEF StreamTypes
    <2> QED BY <2>2, <2>3, <2>4, <2>5, <2>6 DEF RS!TypeOK
  <1> QED BY <1>1, ResponseKept, PTL

-----------------------------------------------------------------------------
(* Headers.                                                                *)
HD == INSTANCE Headers

DefinitionOrNone == HD!Definitions \union {None}
HeaderValues == HD!Encoded \union {None}

ListRecord == [pc : {"idle", "answered"}, page : DefinitionOrNone, current : BOOLEAN]
CallRecord ==
  [pc : {"idle", "sent", "unbound", "answered"}, arguments : HD!Arguments \union {HD!Missing},
   headers : [HeaderNames -> HeaderValues], name : HeaderValues, own : BOOLEAN,
   fresh : BOOLEAN, verdict : {"none", "accepted", "mismatch"},
   bindings : SUBSET (Params \X HeaderNames)]

HeaderTypes ==
  /\ toolName \in {"word", "padded"}
  /\ tools \in [kind : {"none", "regular", "task"}, def : DefinitionOrNone]
  /\ tools.kind = "none" <=> tools.def = None
  /\ sessionTools \in DefinitionOrNone
  /\ knownTools \in {def \in HD!Definitions : HD!Valid(def)} \union {None}
  /\ lister \in [Listers -> ListRecord]
  /\ callTool \in CallRecord
  /\ current \in BOOLEAN

\* What a list holds, and what the client knows, while nothing has changed.
ListsHold ==
  /\ \A l \in Listers :
       lister[l].pc = "answered" /\ lister[l].current => lister[l].page = HD!Definition
  /\ current /\ HD!Definition # None /\ HD!Valid(HD!Definition) => knownTools = HD!Definition

\* What a client that knows a definition sends in its headers.
SentHeaders(def, given) ==
  LET carried == HD!ParamHeaders(def, given) IN
  [h \in HeaderNames |-> IF carried[h] = None THEN None ELSE HD!OverHTTP(carried[h])]

\* A call of the client's own says in its headers what the tool asks for.
CallsSay ==
  callTool.pc # "idle" /\ callTool.own =>
    /\ callTool.name = HD!OverHTTP(HD!EncodeHeaderValue(toolName))
    /\ callTool.fresh /\ HD!Definition # None /\ HD!Valid(HD!Definition) =>
         callTool.headers = SentHeaders(HD!Definition, callTool.arguments)

\* Only an answered call has a verdict.
Verdicts == callTool.pc # "answered" => callTool.verdict = "none"

HeadersInv == HeaderTypes /\ ListsHold /\ CallsSay /\ Verdicts /\ HD!HeadersAgree

LEMMA HeaderFacts ==
  /\ None \notin HD!Encoded /\ None \notin HD!Definitions
  /\ \A v \in HD!Sendable : /\ HD!Plain(v) \in HD!Encoded
                            /\ HD!OverHTTP(HD!EncodeHeaderValue(v)) \in HD!Encoded
                            /\ HD!Decoded(HD!OverHTTP(HD!EncodeHeaderValue(v)), v)
  /\ \A v \in {"word", "padded"} :
       HD!OverHTTP(HD!EncodeHeaderValue(v)) # HD!Plain("empty")
  BY HeadersAssumption
     DEF HeadersAssumption, HD!Encoded, HD!Definitions, HD!Sendable, HD!Plain, HD!OverHTTP,
         HD!EncodeHeaderValue, HD!Decoded

\* A parameter that is bound to a header is what the header carries.
LEMMA HeaderCarries ==
  ASSUME NEW def \in HD!Definitions, HD!Valid(def), NEW b \in HD!BindingsOf(def),
         NEW given \in HD!Arguments \union {HD!Missing}
  PROVE  /\ b \in Params \X HeaderNames
         /\ SentHeaders(def, given)[b[2]] =
              IF given[b[1]] \in HD!Sendable
                THEN HD!OverHTTP(HD!EncodeHeaderValue(given[b[1]])) ELSE None
  <1> DEFINE bound == {c \in HD!BindingsOf(def) : c[2] = b[2] /\ given[c[1]] \in HD!Sendable}
             carried == HD!ParamHeaders(def, given)
             h == b[2]
  <1>1. b \in Params \X HeaderNames /\ h \in HeaderNames
    BY DEF HD!BindingsOf
  <1>2. bound = IF given[b[1]] \in HD!Sendable THEN {b} ELSE {}
    BY DEF HD!Valid
  <1>3. carried[h] = IF bound = {} THEN None
                  ELSE HD!EncodeHeaderValue(given[(CHOOSE c \in bound : TRUE)[1]])
    BY <1>1 DEF HD!ParamHeaders
  <1>4. SentHeaders(def, given)[h] = IF carried[h] = None THEN None ELSE HD!OverHTTP(carried[h])
    BY <1>1 DEF SentHeaders
  <1> HIDE DEF bound, carried
  <1>5. CASE given[b[1]] \in HD!Sendable
    <2>1. (CHOOSE c \in bound : TRUE) = b /\ bound # {}
      BY <1>2, <1>5
    <2>2. HD!EncodeHeaderValue(given[b[1]]) # None
      BY <1>5, HeaderFacts DEF HD!EncodeHeaderValue, HD!Encoded, HD!Sendable
    <2> QED BY <2>1, <2>2, <1>1, <1>3, <1>4, <1>5
  <1>6. CASE given[b[1]] \notin HD!Sendable
    BY <1>1, <1>2, <1>3, <1>4, <1>6
  <1> QED BY <1>5, <1>6

\* Its headers are of the kinds that the model has.
LEMMA SentTyped ==
  ASSUME NEW def \in HD!Definitions, NEW given \in HD!Arguments \union {HD!Missing}
  PROVE  SentHeaders(def, given) \in [HeaderNames -> HeaderValues]
  <1> SUFFICES ASSUME NEW h \in HeaderNames
               PROVE  SentHeaders(def, given)[h] \in HeaderValues
    BY DEF SentHeaders
  <1> DEFINE bound == {c \in HD!BindingsOf(def) : c[2] = h /\ given[c[1]] \in HD!Sendable}
             carried == HD!ParamHeaders(def, given)
             v == given[(CHOOSE c \in bound : TRUE)[1]]
  <1>1. carried[h] = IF bound = {} THEN None ELSE HD!EncodeHeaderValue(v)
    BY DEF HD!ParamHeaders
  <1>2. bound # {} => v \in HD!Sendable
    OBVIOUS
  <1>3. SentHeaders(def, given)[h] = IF carried[h] = None THEN None ELSE HD!OverHTTP(carried[h])
    BY DEF SentHeaders
  <1> HIDE DEF bound, carried, v
  <1> QED BY <1>1, <1>2, <1>3, HeaderFacts DEF HeaderValues

\* The client's call passes, unless an argument fits no header.
LEMMA OwnCallPasses ==
  ASSUME HeadersInv, callTool.pc # "idle", callTool.own, callTool.fresh,
         HD!Definition # None => HD!Valid(HD!Definition)
  PROVE  /\ HD!NameAgrees /\ callTool.name # None /\ HD!Decoded(callTool.name, toolName)
         /\ \/ HD!ParamsAgree(HD!BindingsForCall)
            \/ \E b \in HD!BindingsForCall : callTool.arguments[b[1]] = "unfit"
  <1>0. HeaderTypes /\ CallsSay /\ HD!BindingsAreTheTools
    BY DEF HeadersInv, HD!HeadersAgree
  <1>1. HD!NameAgrees /\ callTool.name # None /\ HD!Decoded(callTool.name, toolName)
    <2>1. toolName \in HD!Sendable
      BY <1>0 DEF HeaderTypes, HD!Sendable
    <2> QED BY <2>1, <1>0, HeaderFacts DEF HeaderTypes, CallsSay, HD!NameAgrees
  <1>2. HD!BindingsForCall = IF HD!Definition = None THEN {} ELSE HD!BindingsOf(HD!Definition)
    <2>1. HD!BindingsForCall = IF sessionTools # None THEN HD!BindingsOf(sessionTools)
                               ELSE IF tools = HD!NoTool THEN {}
                               ELSE HD!BindingsOf(tools.def)
      BY <1>0 DEF HD!BindingsForCall, HD!BindingsAreTheTools
    <2>2. tools = HD!NoTool <=> tools.def = None
      BY <1>0 DEF HeaderTypes, HD!NoTool
    <2> QED BY <2>1, <2>2 DEF HD!Definition
  <1>3. CASE HD!Definition = None
    BY <1>1, <1>2, <1>3 DEF HD!ParamsAgree
  <1>4. CASE HD!Definition # None
    <2>1. HD!Definition \in HD!Definitions /\ HD!Valid(HD!Definition)
      BY <1>0, <1>4 DEF HeaderTypes, HD!Definition, DefinitionOrNone
    <2>2. callTool.headers = SentHeaders(HD!Definition, callTool.arguments)
      BY <2>1, <1>0, <1>4 DEF CallsSay
    <2>3. callTool.arguments \in HD!Arguments \union {HD!Missing}
      BY <1>0 DEF HeaderTypes, CallRecord
    <2>4. ASSUME NEW b \in HD!BindingsOf(HD!Definition), callTool.arguments[b[1]] # "unfit"
          PROVE  HD!HeaderAgrees(callTool.headers[b[2]], callTool.arguments[b[1]])
      <3> DEFINE v == callTool.arguments[b[1]]
      <3>1. /\ b \in Params \X HeaderNames
            /\ callTool.headers[b[2]] =
                 IF v \in HD!Sendable THEN HD!OverHTTP(HD!EncodeHeaderValue(v)) ELSE None
        BY <2>1, <2>2, <2>3, HeaderCarries
      <3>2. v \in HD!Sendable \union {"absent", "missing"}
        BY <2>3, <2>4, <3>1 DEF HD!Arguments, HD!Missing
      <3> HIDE DEF v
      <3>3. CASE v \in HD!Sendable
        <4>1. v # "missing" /\ v # "absent"
          BY <3>3 DEF HD!Sendable
        <4> QED BY <3>1, <3>3, <4>1, HeaderFacts DEF HD!HeaderAgrees, v
      <3>4. CASE v \in {"absent", "missing"}
        BY <3>1, <3>4 DEF HD!HeaderAgrees, HD!Sendable, v
      <3> QED BY <3>2, <3>3, <3>4
    <2> QED BY <2>4, <1>1, <1>2, <1>4 DEF HD!ParamsAgree
  <1> QED BY <1>3, <1>4

LEMMA HeadersInitial == HD!Init => HeadersInv
  <1> SUFFICES ASSUME HD!Init PROVE HeadersInv
    OBVIOUS
  <1> USE DEF HD!Init
  <1>1. None \in HeaderValues /\ None \in DefinitionOrNone
    BY DEF HeaderValues, DefinitionOrNone
  <1>2. HD!NoHeaders \in [HeaderNames -> HeaderValues]
    BY <1>1 DEF HD!NoHeaders
  <1>3. callTool \in CallRecord
    BY <1>1, <1>2 DEF CallRecord, HD!NoCall
  <1>4. lister \in [Listers -> ListRecord]
    BY <1>1 DEF ListRecord
  <1>5. tools \in [kind : {"none", "regular", "task"}, def : DefinitionOrNone]
    BY <1>1 DEF HD!NoTool
  <1>6. HeaderTypes
    BY <1>1, <1>3, <1>4, <1>5 DEF HeaderTypes, HD!NoTool
  <1> QED BY <1>6 DEF HeadersInv, ListsHold, CallsSay, Verdicts, HD!NoCall, HD!HeadersAgree,
       HD!BindingsAreTheTools, HD!ListedCallsPass, HD!AcceptedAgrees

\* A change of the definition: what was listed is not so any more.
LEMMA HeadersChange ==
  ASSUME HeadersInv, HD!Changed, callTool.pc # "answered",
         tools' \in [kind : {"none", "regular", "task"}, def : DefinitionOrNone],
         (tools.kind = "none" <=> tools.def = None)', sessionTools' \in DefinitionOrNone,
         HD!BindingsAreTheTools'
  PROVE  HeadersInv'
  <1>0. HeaderTypes /\ CallsSay /\ Verdicts
    BY DEF HeadersInv
  <1> USE DEF HD!Changed
  <1>1. callTool' \in CallRecord /\ ~callTool'.fresh
    BY <1>0 DEF HeaderTypes, CallRecord
  <1>2. /\ callTool'.pc = callTool.pc /\ callTool'.own = callTool.own
        /\ callTool'.name = callTool.name /\ callTool'.verdict = callTool.verdict
    BY <1>0 DEF HeaderTypes, CallRecord
  <1>3. lister' \in [Listers -> ListRecord] /\ \A l \in Listers : ~lister'[l].current
    BY <1>0 DEF HeaderTypes, ListRecord
  <1>4. HeaderTypes'
    BY <1>0, <1>1, <1>3 DEF HeaderTypes
  <1>5. ListsHold'
    BY <1>3 DEF ListsHold
  <1>6. CallsSay'
    BY <1>0, <1>1, <1>2 DEF CallsSay
  <1>7. Verdicts' /\ HD!ListedCallsPass' /\ HD!AcceptedAgrees'
    BY <1>0, <1>2 DEF Verdicts, HD!ListedCallsPass, HD!AcceptedAgrees
  <1> QED BY <1>4, <1>5, <1>6, <1>7 DEF HeadersInv, HD!HeadersAgree

\* A call that is sent.
LEMMA HeadersSend ==
  ASSUME HeadersInv, NEW new \in CallRecord, HD!Send(new), new.pc = "sent",
         new.verdict = "none",
         new.own => /\ new.name = HD!OverHTTP(HD!EncodeHeaderValue(toolName))
                    /\ new.fresh /\ HD!Definition # None /\ HD!Valid(HD!Definition) =>
                         new.headers = SentHeaders(HD!Definition, new.arguments)
  PROVE  HeadersInv'
  <1>0. HeaderTypes /\ ListsHold /\ HD!BindingsAreTheTools
    BY DEF HeadersInv, HD!HeadersAgree
  <1>1. callTool' = new
    BY DEF HD!Send
  <1>2. UNCHANGED <<toolName, tools, toolHeaderBindings, sessionTools, knownTools, lister,
                    current, definitions>>
    BY DEF HD!Send
  <1>3. HeaderTypes'
    BY <1>0, <1>1, <1>2 DEF HeaderTypes
  <1>4. HD!Definition' = HD!Definition
    BY <1>2 DEF HD!Definition
  <1>5. ListsHold'
    BY <1>0, <1>2, <1>4 DEF ListsHold
  <1>6. CallsSay'
    BY <1>1, <1>2, <1>4 DEF CallsSay
  <1>7. Verdicts' /\ HD!BindingsAreTheTools' /\ HD!ListedCallsPass' /\ HD!AcceptedAgrees'
    BY <1>0, <1>1, <1>2 DEF Verdicts, HD!BindingsAreTheTools, HD!ListedCallsPass,
                            HD!AcceptedAgrees
  <1> QED BY <1>3, <1>5, <1>6, <1>7 DEF HeadersInv, HD!HeadersAgree

\* The client takes the bindings from what it listed last.
LEMMA HeadersCallTool ==
  ASSUME HeadersInv, NEW given \in HD!Arguments \union {HD!Missing},
         HD!CallTool(given)
  PROVE  HeadersInv'
  <1>0. HeaderTypes /\ ListsHold
    BY DEF HeadersInv
  <1> DEFINE name == HD!OverHTTP(HD!EncodeHeaderValue(toolName))
  <1>1. PICK headers : headers = IF knownTools = None THEN HD!NoHeaders
                                 ELSE SentHeaders(knownTools, given)
    OBVIOUS
  <1>2. PICK new : new = [HD!NoCall EXCEPT !.pc = "sent", !.own = TRUE, !.arguments = given,
                             !.name = name, !.headers = headers, !.fresh = current]
    OBVIOUS
  <1>3. HD!Send(new)
    BY <1>1, <1>2 DEF HD!CallTool, SentHeaders
  <1>4. name \in HeaderValues
    BY <1>0, HeaderFacts DEF HeaderTypes, HeaderValues, HD!Sendable
  <1>5. headers \in [HeaderNames -> HeaderValues]
    <2>1. knownTools # None => knownTools \in HD!Definitions
      BY <1>0 DEF HeaderTypes
    <2> QED BY <2>1, <1>1, SentTyped DEF HD!NoHeaders, HeaderValues
  <1> HIDE DEF name
  <1>6. /\ new \in CallRecord /\ new.pc = "sent" /\ new.verdict = "none" /\ new.name = name
        /\ new.headers = headers /\ new.fresh = current /\ new.arguments = given
    BY <1>0, <1>2, <1>4, <1>5 DEF CallRecord, HD!NoCall, HeaderTypes
  <1>7. new.fresh /\ HD!Definition # None /\ HD!Valid(HD!Definition) =>
          new.headers = SentHeaders(HD!Definition, new.arguments)
    BY <1>0, <1>1, <1>6 DEF ListsHold
  <1> QED BY <1>3, <1>6, <1>7, HeadersSend DEF name

\* The headers of a call that passes.
LEMMA HeadersVerdict ==
  ASSUME HeadersInv, callTool.pc \in {"sent", "unbound"}, NEW accepted \in BOOLEAN,
         accepted <=> HD!NameAgrees /\ HD!ParamsAgree(HD!BindingsForCall),
         HD!Verdict(HD!BindingsForCall, accepted)
  PROVE  HeadersInv'
  <1>0. HeaderTypes /\ ListsHold /\ CallsSay /\ HD!BindingsAreTheTools
    BY DEF HeadersInv, HD!HeadersAgree
  <1>1. UNCHANGED <<toolName, tools, toolHeaderBindings, sessionTools, knownTools, lister,
                    current, definitions>>
    BY DEF HD!Verdict
  <1>2. PICK bindings : bindings = HD!BindingsForCall
    OBVIOUS
  <1>3. bindings \in SUBSET (Params \X HeaderNames)
    BY <1>0, <1>2 DEF HD!BindingsForCall, HD!BindingsAreTheTools, HD!BindingsOf
  <1>4. callTool' = [callTool EXCEPT !.pc = "answered", !.bindings = bindings,
                       !.verdict = IF accepted THEN "accepted" ELSE "mismatch"]
    BY <1>2 DEF HD!Verdict
  <1>5. /\ callTool' \in CallRecord /\ callTool'.pc = "answered" /\ callTool'.bindings = bindings
        /\ callTool'.verdict = IF accepted THEN "accepted" ELSE "mismatch"
        /\ callTool'.own = callTool.own /\ callTool'.fresh = callTool.fresh
        /\ callTool'.name = callTool.name /\ callTool'.headers = callTool.headers
        /\ callTool'.arguments = callTool.arguments
    BY <1>0, <1>3, <1>4 DEF HeaderTypes, CallRecord
  <1>6. HD!Definition' = HD!Definition
    BY <1>1 DEF HD!Definition
  <1>7. HeaderTypes' /\ ListsHold' /\ CallsSay' /\ Verdicts' /\ HD!BindingsAreTheTools'
    BY <1>0, <1>1, <1>5, <1>6
       DEF HeaderTypes, ListsHold, CallsSay, Verdicts, HD!BindingsAreTheTools
  <1>8. HD!ListedCallsPass'
    <2> SUFFICES ASSUME callTool.own, callTool.fresh,
                        HD!Definition # None => HD!Valid(HD!Definition)
                 PROVE  accepted \/ \E b \in bindings : callTool.arguments[b[1]] = "unfit"
      BY <1>5, <1>6 DEF HD!ListedCallsPass
    <2> QED BY <1>2, OwnCallPasses
  <1>9. HD!AcceptedAgrees'
    <2> SUFFICES ASSUME accepted
                 PROVE  /\ callTool.name # None /\ HD!Decoded(callTool.name, toolName)
                        /\ \A b \in bindings :
                             /\ callTool.arguments[b[1]] \in HD!Sendable =>
                                  /\ callTool.headers[b[2]] # None
                                  /\ HD!Decoded(callTool.headers[b[2]], callTool.arguments[b[1]])
                             /\ callTool.arguments[b[1]] = "absent" =>
                                  \/ callTool.headers[b[2]] = None
                                  \/ callTool.headers[b[2]] = HD!Plain("empty")
                             /\ callTool.arguments[b[1]] # "unfit"
      BY <1>1, <1>5 DEF HD!AcceptedAgrees, HD!Decoded
    <2>1. callTool.name # None /\ HD!Decoded(callTool.name, toolName)
      BY DEF HD!NameAgrees
    <2>2. ASSUME NEW b \in bindings
          PROVE  HD!HeaderAgrees(callTool.headers[b[2]], callTool.arguments[b[1]])
      BY <1>2, <2>2 DEF HD!ParamsAgree
    <2>3. ASSUME NEW b \in bindings
          PROVE  callTool.headers[b[2]] \in HD!Encoded \union {None}
      BY <1>0, <1>3, <2>3 DEF HeaderTypes, CallRecord, HeaderValues
    <2>4. ASSUME NEW header \in HD!Encoded \union {None}, NEW argument,
                 HD!HeaderAgrees(header, argument)
          PROVE  /\ argument \in HD!Sendable => header # None /\ HD!Decoded(header, argument)
                 /\ argument = "absent" => header = None \/ header = HD!Plain("empty")
                 /\ argument # "unfit"
      <3>1. argument \in HD!Sendable => argument # "missing" /\ argument # "absent"
        BY DEF HD!Sendable
      <3>2. argument = "unfit" => header # None /\ HD!Decoded(header, "unfit")
        BY <2>4 DEF HD!HeaderAgrees
      <3>3. argument # "unfit"
        BY <3>2 DEF HD!Encoded, HD!Decoded, HD!Sendable
      <3> QED BY <2>4, <3>1, <3>3 DEF HD!HeaderAgrees
    <2> QED BY <2>1, <2>2, <2>3, <2>4
  <1> QED BY <1>7, <1>8, <1>9 DEF HeadersInv, HD!HeadersAgree

LEMMA HeadersStep == HeadersInv /\ [HD!Next]_HD!vars => HeadersInv'
  <1> SUFFICES ASSUME HeadersInv, [HD!Next]_HD!vars PROVE HeadersInv'
    OBVIOUS
  <1>0. HeaderTypes /\ ListsHold /\ CallsSay /\ Verdicts /\ HD!HeadersAgree
    BY DEF HeadersInv
  <1>1. CASE UNCHANGED HD!vars
    <2>1. UNCHANGED <<toolName, tools, toolHeaderBindings, sessionTools, knownTools, lister,
                      callTool, current, definitions>>
      BY <1>1 DEF HD!vars
    <2>2. HD!Definition' = HD!Definition
      BY <2>1 DEF HD!Definition
    <2> QED BY <1>0, <2>1, <2>2
            DEF HeadersInv, HeaderTypes, ListsHold, CallsSay, Verdicts, HD!HeadersAgree,
                HD!BindingsAreTheTools, HD!ListedCallsPass, HD!AcceptedAgrees, HD!Decoded
  <1> SUFFICES ASSUME HD!Next PROVE HeadersInv'
    BY <1>1
  <1>a. callTool.pc # "answered"
    BY DEF HD!Next
  <1>b. None \notin HD!Definitions /\ None \in DefinitionOrNone
    BY HeaderFacts DEF DefinitionOrNone
  <1>2. ASSUME NEW def \in HD!Definitions, NEW sort \in {"regular", "task"},
               HD!AddTools(sort, def)
        PROVE  HeadersInv'
    <2>1. HD!Changed /\ tools' = [kind |-> sort, def |-> def] /\ UNCHANGED sessionTools
      BY <1>2 DEF HD!AddTools
    <2>2. HD!BindingsAreTheTools'
      BY <1>2, <1>b DEF HD!AddTools, HD!BindingsAreTheTools, HD!NoTool
    <2> QED BY <1>0, <1>a, <1>b, <2>1, <2>2, HeadersChange DEF HeaderTypes, DefinitionOrNone
  <1>3. ASSUME NEW def \in HD!Definitions \union {None}, HD!SetTools(def) PROVE HeadersInv'
    <2>1. HD!Changed /\ UNCHANGED sessionTools
      BY <1>3 DEF HD!SetTools
    <2>2. HD!BindingsAreTheTools'
      BY <1>0, <1>3, <1>b DEF HD!SetTools, HD!BindingsAreTheTools, HD!NoTool, HD!HeadersAgree
    <2>3. /\ tools' \in [kind : {"none", "regular", "task"}, def : DefinitionOrNone]
          /\ (tools.kind = "none" <=> tools.def = None)'
      BY <1>0, <1>3, <1>b DEF HD!SetTools, HeaderTypes, HD!NoTool, DefinitionOrNone
    <2> QED BY <1>0, <1>a, <2>1, <2>2, <2>3, HeadersChange DEF HeaderTypes
  <1>4. CASE HD!DeleteTools
    <2>1. HD!Changed /\ UNCHANGED sessionTools
      BY <1>4 DEF HD!DeleteTools
    <2>2. HD!BindingsAreTheTools'
      BY <1>4 DEF HD!DeleteTools, HD!BindingsAreTheTools
    <2>3. /\ tools' \in [kind : {"none", "regular", "task"}, def : DefinitionOrNone]
          /\ (tools.kind = "none" <=> tools.def = None)'
      BY <1>4, <1>b DEF HD!DeleteTools, HD!NoTool
    <2> QED BY <1>0, <1>a, <2>1, <2>2, <2>3, HeadersChange DEF HeaderTypes
  <1>5. ASSUME NEW def \in HD!Definitions \union {None}, HD!SetSessionTools(def)
        PROVE  HeadersInv'
    <2>1. HD!Changed /\ UNCHANGED <<tools, toolHeaderBindings>> /\ sessionTools' \in DefinitionOrNone
      BY <1>5 DEF HD!SetSessionTools, DefinitionOrNone
    <2>2. HD!BindingsAreTheTools'
      BY <1>0, <2>1 DEF HD!BindingsAreTheTools, HD!HeadersAgree
    <2> QED BY <1>0, <1>a, <2>1, <2>2, HeadersChange DEF HeaderTypes
  <1>6. ASSUME NEW l \in Listers, HD!ListTools(l) \/ HD!ListReturns(l) PROVE HeadersInv'
    <2>1. UNCHANGED <<toolName, tools, toolHeaderBindings, sessionTools, callTool, definitions>>
      BY <1>6 DEF HD!ListTools, HD!ListReturns
    <2>2. HD!Definition' = HD!Definition /\ HD!Definition \in DefinitionOrNone
      BY <1>0, <2>1 DEF HD!Definition, HeaderTypes
    <2>3. CASE HD!ListTools(l)
      <3>1. PICK new : new = [pc |-> "answered", page |-> HD!Definition, current |-> TRUE]
        OBVIOUS
      <3>2. lister' = [lister EXCEPT ![l] = new] /\ UNCHANGED <<knownTools, current>>
        BY <2>3, <3>1 DEF HD!ListTools
      <3>3. new \in ListRecord /\ new.page = HD!Definition
        BY <2>2, <3>1 DEF ListRecord
      <3>4. HeaderTypes'
        BY <1>0, <2>1, <3>2, <3>3 DEF HeaderTypes
      <3>5. ListsHold'
        BY <1>0, <2>2, <3>2, <3>3 DEF HeaderTypes, ListsHold
      <3>6. CallsSay' /\ Verdicts' /\ HD!HeadersAgree'
        BY <1>0, <2>1, <2>2 DEF CallsSay, Verdicts,
                  HD!HeadersAgree, HD!BindingsAreTheTools, HD!ListedCallsPass,
                  HD!AcceptedAgrees, HD!Decoded
      <3> QED BY <3>4, <3>5, <3>6 DEF HeadersInv
    <2>4. CASE HD!ListReturns(l)
      <3>a. PICK new : new = [pc |-> "idle", page |-> None, current |-> FALSE]
        OBVIOUS
      <3>1. new \in ListRecord /\ ~new.current /\ lister' = [lister EXCEPT ![l] = new]
        BY <1>b, <2>4, <3>a DEF HD!ListReturns, ListRecord
      <3>2. lister[l] \in ListRecord
        BY <1>0 DEF HeaderTypes
      <3>3. knownTools' \in {def \in HD!Definitions : HD!Valid(def)} \union {None}
        BY <1>0, <2>4, <3>2 DEF HD!ListReturns, HeaderTypes, ListRecord, DefinitionOrNone
      <3>4. current' => lister[l].page = HD!Definition
        BY <1>0, <2>4 DEF HD!ListReturns, ListsHold
      <3>5. current' \in BOOLEAN
        BY <2>4, <3>2 DEF HD!ListReturns, ListRecord
      <3>6. HeaderTypes'
        BY <1>0, <2>1, <3>1, <3>3, <3>5 DEF HeaderTypes
      <3>7. ListsHold'
        <4>1. \A k \in Listers : lister'[k].pc = "answered" /\ lister'[k].current =>
                                   lister'[k].page = HD!Definition
          BY <1>0, <3>1 DEF HeaderTypes, ListsHold
        <4>2. current' /\ HD!Definition # None /\ HD!Valid(HD!Definition) =>
                knownTools' = HD!Definition
          BY <2>4, <3>4 DEF HD!ListReturns
        <4> QED BY <2>2, <4>1, <4>2 DEF ListsHold
      <3>8. CallsSay' /\ Verdicts' /\ HD!HeadersAgree'
        BY <1>0, <2>1, <2>2 DEF CallsSay, Verdicts,
                  HD!HeadersAgree, HD!BindingsAreTheTools, HD!ListedCallsPass,
                  HD!AcceptedAgrees, HD!Decoded
      <3> QED BY <3>6, <3>7, <3>8 DEF HeadersInv
    <2> QED BY <1>6, <2>3, <2>4
  <1>7. ASSUME NEW given \in HD!Arguments \union {HD!Missing}, HD!CallTool(given)
        PROVE  HeadersInv'
    BY <1>7, HeadersCallTool
  <1>8. ASSUME NEW argument \in HD!Sendable \union {"absent", "unfit", "missing"},
               NEW name \in {None, HD!Plain("empty"), HD!Plain("word"),
                             HD!EncodeHeaderValue("padded")},
               NEW header \in {None, HD!Plain("empty"), HD!Plain("word")}
                                \union [form : {"base64", "broken"}, value : {"padded"}],
               HD!Other([p \in Params |-> argument], name, [h \in HeaderNames |-> header])
        PROVE  HeadersInv'
    <2>1. name \in HeaderValues /\ header \in HeaderValues
      BY DEF HeaderValues, HD!Encoded, HD!Plain, HD!EncodeHeaderValue, HD!Sendable
    <2>2. [p \in Params |-> argument] \in HD!Arguments \union {HD!Missing}
      BY DEF HD!Arguments, HD!Missing
    <2>3. [h \in HeaderNames |-> header] \in [HeaderNames -> HeaderValues]
      BY <2>1
    <2>4. PICK given, headers : /\ given = [p \in Params |-> argument]
                                    /\ headers = [h \in HeaderNames |-> header]
      OBVIOUS
    <2>5. PICK new : new = [HD!NoCall EXCEPT !.pc = "sent", !.arguments = given,
                              !.name = name, !.headers = headers]
      OBVIOUS
    <2>6. HD!Send(new)
      BY <1>8, <2>4, <2>5 DEF HD!Other
    <2>7. new \in CallRecord /\ new.pc = "sent" /\ new.verdict = "none" /\ ~new.own
      BY <2>1, <2>2, <2>3, <2>4, <2>5 DEF CallRecord, HD!NoCall
    <2> QED BY <2>6, <2>7, HeadersSend
  <1>9. CASE HD!ValidateBound
    <2> DEFINE bindings == IF callTool.name # None /\ HD!Decoded(callTool.name, toolName)
                             THEN HD!BindingsForCall ELSE {}
    <2>1. CASE bindings = {}
      <3>1. callTool' = [callTool EXCEPT !.pc = "unbound"] /\ callTool.pc = "sent"
            /\ UNCHANGED <<toolName, tools, toolHeaderBindings, sessionTools, knownTools,
                           lister, current, definitions>>
        BY <1>9, <2>1 DEF HD!ValidateBound
      <3>2. /\ callTool' \in CallRecord /\ callTool'.pc = "unbound"
            /\ callTool'.own = callTool.own /\ callTool'.fresh = callTool.fresh
            /\ callTool'.name = callTool.name /\ callTool'.headers = callTool.headers
            /\ callTool'.arguments = callTool.arguments /\ callTool'.verdict = callTool.verdict
        BY <1>0, <3>1 DEF HeaderTypes, CallRecord
      <3>3. HD!Definition' = HD!Definition
        BY <3>1 DEF HD!Definition
      <3>4. HeaderTypes' /\ ListsHold' /\ CallsSay' /\ Verdicts'
        BY <1>0, <1>a, <3>1, <3>2, <3>3 DEF HeaderTypes, ListsHold, CallsSay, Verdicts
      <3>5. HD!HeadersAgree'
        BY <1>0, <1>a, <3>1, <3>2 DEF Verdicts, HD!HeadersAgree, HD!BindingsAreTheTools,
              HD!ListedCallsPass, HD!AcceptedAgrees
      <3> QED BY <3>4, <3>5 DEF HeadersInv
    <2>2. CASE bindings # {}
      <3>1. bindings = HD!BindingsForCall
        BY <2>2
      <3>2. /\ callTool.pc = "sent"
            /\ HD!Verdict(HD!BindingsForCall,
                          HD!NameAgrees /\ HD!ParamsAgree(HD!BindingsForCall))
        BY <1>9, <2>2, <3>1 DEF HD!ValidateBound
      <3> QED BY <3>2, HeadersVerdict
    <2> QED BY <2>1, <2>2
  <1>10. CASE HD!ValidateByBody
    BY <1>10, HeadersVerdict DEF HD!ValidateByBody
  <1>11. HD!DeleteTools \/ HD!ValidateBound \/ HD!ValidateByBody
         \/ (\E def \in HD!Definitions, sort \in {"regular", "task"} : HD!AddTools(sort, def))
         \/ (\E def \in HD!Definitions \union {None} : HD!SetTools(def) \/ HD!SetSessionTools(def))
         \/ (\E l \in Listers : HD!ListTools(l) \/ HD!ListReturns(l))
         \/ (\E given \in HD!Arguments \union {HD!Missing} : HD!CallTool(given))
         \/ (\E argument \in HD!Sendable \union {"absent", "unfit", "missing"},
                name \in {None, HD!Plain("empty"), HD!Plain("word"),
                          HD!EncodeHeaderValue("padded")},
                header \in {None, HD!Plain("empty"), HD!Plain("word")}
                             \union [form : {"base64", "broken"}, value : {"padded"}] :
               HD!Other([p \in Params |-> argument], name, [h \in HeaderNames |-> header]))
    BY DEF HD!Next
  <1> QED BY <1>2, <1>3, <1>4, <1>5, <1>6, <1>7, <1>8, <1>9, <1>10, <1>11

LEMMA HeadersKept == HD!Spec => []HeadersInv
  BY HeadersInitial, HeadersStep, PTL DEF HD!Spec

\* A call that passes says the same in its headers as in its body, whoever sent it, and
\* a call by a definition just listed does pass (mcp/headers.go, server/response.go).
THEOREM HeadersSayTheSame == HD!Spec => []HD!HeadersAgree
  <1>1. HeadersInv => HD!HeadersAgree
    BY DEF HeadersInv
  <1> QED BY <1>1, HeadersKept, PTL

LEMMA HeadersTyped == HD!Spec => []HD!TypeOK
  <1>1. HeadersInv => HD!TypeOK
    BY DEF HeadersInv, HeaderTypes, DefinitionOrNone, HeaderValues, CallRecord, HD!TypeOK
  <1> QED BY <1>1, HeadersKept, PTL

-----------------------------------------------------------------------------
(* Negotiation.                                                            *)
NG == INSTANCE Negotiation WITH MaxVersion <- Newest

\* A set of versions that is not empty has a highest.
LEMMA HighestVersion ==
  ASSUME NEW S, S \subseteq 1..Newest
  PROVE  IF S = {} THEN NG!Highest(S) = 0
                   ELSE NG!Highest(S) \in S /\ \A v \in S : NG!Highest(S) >= v
  <1>1. CASE S = {}
    BY <1>1 DEF NG!Highest
  <1>2. CASE S # {}
    <2> DEFINE T == {Newest - v : v \in S}
    <2> DEFINE Less == OpToRel(<, Nat)
    <2>1. T \subseteq Nat /\ T # {}
      <3>1. \A v \in S : v \in Int /\ Newest - v \in Nat
        <4> HIDE DEF T, Less
        <4> SUFFICES ASSUME NEW v \in S PROVE v \in Int /\ Newest - v \in Nat
          OBVIOUS
        <4>1. v \in 1..Newest /\ Newest \in Nat
          BY NegotiationAssumption DEF NegotiationAssumption
        <4> QED BY <4>1
      <3> HIDE DEF Less
      <3> QED BY <3>1, <1>2
    <2>l. PICK n \in T : \A m \in T : ~(<<m, n>> \in Less)
      <3> HIDE DEF T, Less
      <3>1. IsWellFoundedOn(Less, Nat)
        BY NatLessThanWellFounded DEF Less
      <3> QED BY <2>1, <3>1, WFMin
    <2>2. \A m \in T : n <= m
      <3>1. \A m \in T : m \in Nat /\ n \in Nat /\ ~(m < n)
        <4> HIDE DEF T
        <4> QED BY <2>l, <2>1 DEF OpToRel
      <3> HIDE DEF T
      <3> QED BY <3>1
    <2>3. PICK h \in S : n = Newest - h
      BY <2>2
    <2>4. ASSUME NEW v \in S PROVE h >= v
      <3>1. n <= Newest - v
        BY <2>2
      <3> QED BY <3>1, <2>3, NegotiationAssumption DEF NegotiationAssumption
    <2>5. \E x \in S : \A y \in S : x >= y
      BY <2>4
    <2>6. NG!Max(S) \in S /\ \A y \in S : NG!Max(S) >= y
      BY <2>5 DEF NG!Max
    <2> QED BY <1>2, <2>6 DEF NG!Highest
  <1> QED BY <1>1, <1>2

\* The newest version is modern, and the client has one to shake hands with.
LEMMA NewestVersions ==
  /\ NG!Latest \in Known /\ NG!IsModern(NG!Latest)
  /\ NG!LatestLegacy \in Known /\ ~NG!IsModern(NG!LatestLegacy)
  <1>0. Known \subseteq 1..Newest /\ FirstModern \in Int
    BY NegotiationAssumption DEF NegotiationAssumption
  <1>1. PICK m \in Known : m >= FirstModern
    BY NegotiationAssumption DEF NegotiationAssumption
  <1>2. NG!Latest \in Known /\ NG!Latest >= m
    BY <1>0, <1>1, HighestVersion DEF NG!Latest
  <1>3. NG!IsModern(NG!Latest)
    BY <1>0, <1>1, <1>2 DEF NG!IsModern
  <1> DEFINE L == {v \in Known : ~NG!IsModern(v)}
  <1>4. L # {} /\ L \subseteq 1..Newest
    <2>1. PICK v \in Known : v < FirstModern
      BY NegotiationAssumption DEF NegotiationAssumption
    <2>2. v \in L
      BY <1>0, <2>1 DEF NG!IsModern
    <2> QED BY <1>0, <2>2
  <1>5. NG!Highest(L) \in L
    BY <1>4, HighestVersion
  <1> QED BY <1>2, <1>3, <1>5 DEF NG!LatestLegacy

\* What both know is what the server supports, if there is any.
LEMMA MutualVersion ==
  ASSUME NEW S PROVE NG!Mutual(S) = 0 \/ NG!Mutual(S) \in Known \intersect S
  BY HighestVersion, NegotiationAssumption DEF NegotiationAssumption, NG!Mutual

NGServer == [speaks : {"modern", "old", "silent"}, strict : BOOLEAN,
             supports : SUBSET NG!Versions]
NGSession == [initialized : BOOLEAN, version : 0..Newest]
NGRequest == [id : 1..MaxRequests, method : {"discover", "initialize"},
              era : 0..Newest, version : NG!Versions]
NGAnswer == [kind : {"none", "error", "discovered", "unsupported", "initialized"},
             version : 0..Newest]
NGClient == [pc : {"idle", "probing", "asking", "notifying"}, preferred : 0..Newest,
             previous : 0..Newest, attempts : 0..1, modern : BOOLEAN]

NegotiationTypes ==
  /\ server \in NGServer /\ session \in NGSession
  /\ sent \in 0..MaxRequests /\ requests \in Seq(NGRequest)
  /\ answer \in NGAnswer /\ client \in NGClient
  /\ version \in 0..Newest
  /\ initialized \in BOOLEAN /\ serverIsModern \in BOOLEAN

\* The server takes the requests in the order of their numbers, the one that the
\* client waits for last.
Numbered ==
  \A i \in 1..Len(requests) : requests[i].id = (sent - Len(requests)) + i

\* An answer says what the server is, and nothing follows an answer to a
\* handshake that could change the session.
Truthful ==
  /\ answer.kind \in {"discovered", "unsupported"} => server.speaks = "modern"
  /\ answer.kind = "initialized" =>
       /\ requests = <<>> /\ session.initialized /\ session.version = answer.version
       /\ ~NG!IsModern(answer.version)

\* What the client takes the version for, and what it knows of the server.
Settled ==
  /\ client.pc = "probing" =>
       /\ NG!IsModern(version) /\ ~NG!IsModern(client.previous)
       /\ client.modern \/ ~serverIsModern
  /\ client.pc = "asking" => ~NG!IsModern(version) /\ ~serverIsModern
  /\ client.pc = "notifying" => ~NG!IsModern(version)
  /\ client.pc = "idle" /\ ~initialized => ~NG!IsModern(version)
  /\ initialized => client.pc = "idle"
  /\ initialized /\ NG!IsModern(version) => server.speaks = "modern" /\ version \in server.supports
  /\ client.pc = "notifying" \/ (initialized /\ ~NG!IsModern(version)) =>
       requests = <<>> /\ session.initialized /\ session.version = version

NegotiationInv == NegotiationTypes /\ Numbered /\ Truthful /\ Settled

\* A request sent is the last, and its answer is not there.
LEMMA Sends ==
  ASSUME NegotiationTypes, Numbered, NEW method \in {"discover", "initialize"},
         NEW era \in 0..Newest, NEW v \in NG!Versions, NG!Send(method, era, v)
  PROVE  /\ sent' \in 0..MaxRequests /\ requests' \in Seq(NGRequest)
         /\ answer' = NG!NoAnswer /\ Numbered'
  <1> DEFINE e == [id |-> sent + 1, method |-> method, era |-> era, version |-> v]
  <1>1. sent \in 0..MaxRequests /\ sent < MaxRequests /\ sent' = sent + 1
    BY DEF NegotiationTypes, NG!Send
  <1>2. sent + 1 \in 1..MaxRequests
    BY <1>1, NegotiationAssumption DEF NegotiationAssumption
  <1>3. e \in NGRequest
    BY <1>2 DEF NGRequest
  <1>4. requests \in Seq(NGRequest) /\ requests' = Append(requests, e) /\ answer' = NG!NoAnswer
    BY DEF NegotiationTypes, NG!Send
  <1> HIDE DEF e
  <1>5. /\ requests' \in Seq(NGRequest) /\ Len(requests') = Len(requests) + 1
        /\ \A i \in 1..Len(requests) : requests'[i] = requests[i]
        /\ requests'[Len(requests) + 1] = e
    BY <1>3, <1>4, AppendProperties
  <1>6. e.id = sent + 1 /\ Len(requests) \in Nat
    BY <1>4 DEF e
  <1>7. ASSUME NEW i \in 1..Len(requests')
        PROVE  requests'[i].id = (sent' - Len(requests')) + i
    <2>1. CASE i = Len(requests) + 1
      BY <2>1, <1>1, <1>5, <1>6
    <2>2. CASE i \in 1..Len(requests)
      <3>1. requests'[i] = requests[i] /\ requests[i].id = (sent - Len(requests)) + i
        BY <2>2, <1>5 DEF Numbered
      <3> QED BY <3>1, <1>1, <1>5, <1>6
    <2> QED BY <2>1, <2>2, <1>5, <1>6
  <1> QED BY <1>1, <1>2, <1>4, <1>5, <1>7 DEF Numbered

\* The server takes the first, which is the last if it is the one waited for.
LEMMA Takes ==
  ASSUME NegotiationTypes, Numbered, requests # <<>>, requests' = Tail(requests), sent' = sent
  PROVE  /\ requests' \in Seq(NGRequest) /\ Numbered' /\ Head(requests) \in NGRequest
         /\ Head(requests).id = sent => requests' = <<>>
  <1>1. requests \in Seq(NGRequest) /\ sent \in Nat
    BY NegotiationAssumption DEF NegotiationTypes, NegotiationAssumption
  <1>2. /\ Head(requests) \in NGRequest /\ requests' \in Seq(NGRequest)
        /\ Len(requests') = Len(requests) - 1 /\ Head(requests) = requests[1]
        /\ \A i \in 1..Len(requests') : requests'[i] = requests[i + 1]
        /\ Len(requests) \in Nat \ {0}
    BY <1>1, HeadTailProperties, EmptySeq
  <1>3. ASSUME NEW i \in 1..Len(requests')
        PROVE  requests'[i].id = (sent' - Len(requests')) + i
    <2>1. i + 1 \in 1..Len(requests) /\ requests'[i] = requests[i + 1]
      BY <1>2
    <2>2. requests[i + 1].id = (sent - Len(requests)) + (i + 1)
      BY <2>1 DEF Numbered
    <2> QED BY <2>1, <2>2, <1>1, <1>2
  <1>4. ASSUME Head(requests).id = sent PROVE requests' = <<>>
    <2>1. requests[1].id = (sent - Len(requests)) + 1
      BY <1>2 DEF Numbered
    <2>2. Len(requests) = 1
      BY <2>1, <1>4, <1>1, <1>2
    <2> QED BY <2>2, <1>2, EmptySeq
  <1> QED BY <1>2, <1>3, <1>4 DEF Numbered

LEMMA NegotiationFacts ==
  /\ NG!ClientIdle \in NGClient /\ NG!ClientIdle.pc = "idle"
  /\ NG!NoAnswer \in NGAnswer /\ NG!NoAnswer.kind = "none"
  /\ NG!Latest \in NG!Versions /\ NG!LatestLegacy \in NG!Versions
  /\ NG!IsModern(NG!Latest) /\ ~NG!IsModern(NG!LatestLegacy) /\ ~NG!IsModern(0)
  /\ \A S : NG!Mutual(S) = 0 \/ NG!Mutual(S) \in NG!Versions \intersect S
  /\ NG!Versions \subseteq 0..Newest /\ 0 \in 0..Newest /\ 0 \notin NG!Versions
  <1>1. /\ Newest \in Nat /\ FirstModern \in Int /\ Known \subseteq 1..Newest
        /\ NG!Versions = 1..Newest
    BY NegotiationAssumption DEF NegotiationAssumption, NG!Versions
  <1>2. NG!ClientIdle \in NGClient /\ NG!ClientIdle.pc = "idle"
    BY <1>1 DEF NG!ClientIdle, NGClient
  <1>3. NG!NoAnswer \in NGAnswer /\ NG!NoAnswer.kind = "none"
    BY <1>1 DEF NG!NoAnswer, NGAnswer
  <1>4. /\ NG!Versions \subseteq 0..Newest /\ 0 \in 0..Newest /\ 0 \notin NG!Versions
    BY <1>1
  <1>5. ~NG!IsModern(0)
    <2>1. PICK v \in Known : v < FirstModern
      BY NegotiationAssumption DEF NegotiationAssumption
    <2>2. v \in 1..Newest
      BY <2>1, <1>1
    <2> QED BY <2>1, <2>2, <1>1 DEF NG!IsModern
  <1>6. \A S : NG!Mutual(S) = 0 \/ NG!Mutual(S) \in NG!Versions \intersect S
    BY <1>1, MutualVersion
  <1> QED BY <1>1, <1>2, <1>3, <1>4, <1>5, <1>6, NewestVersions

\* A client that is back where it was, or asks for a handshake, has its version
\* from before the probe.
LEMMA ProbeFailsStep ==
  ASSUME NegotiationInv, client.pc = "probing", NEW identified \in BOOLEAN,
         NG!ProbeFails(identified), serverIsModern' = serverIsModern \/ identified,
         serverIsModern' \in BOOLEAN
  PROVE  NegotiationInv'
  <1>0. NegotiationTypes /\ Numbered /\ Truthful /\ Settled
    BY DEF NegotiationInv
  <1>1. /\ UNCHANGED <<server, session, initialized>> /\ version' = client.previous
        /\ client.previous \in 0..Newest /\ client.preferred \in 0..Newest
        /\ ~initialized /\ ~NG!IsModern(client.previous)
        /\ client.modern \/ ~serverIsModern
    BY <1>0 DEF NG!ProbeFails, NegotiationTypes, NGClient, Settled
  <1>2. CASE client.modern \/ identified
    <2>1. client' = NG!ClientIdle /\ UNCHANGED <<requests, answer, sent>>
      BY <1>2 DEF NG!ProbeFails
    <2>2. NegotiationTypes' /\ Numbered' /\ Truthful'
      BY <2>1, <1>0, <1>1, NegotiationFacts DEF NegotiationTypes, Numbered, Truthful
    <2>3. Settled'
      BY <2>1, <1>1, NegotiationFacts DEF Settled
    <2> QED BY <2>2, <2>3 DEF NegotiationInv
  <1>3. CASE ~(client.modern \/ identified)
    <2>1. NG!Handshake(client.preferred, client.previous)
      BY <1>3 DEF NG!ProbeFails
    <2>2. client' = [client EXCEPT !.pc = "asking", !.preferred = client.preferred]
      BY <2>1 DEF NG!Handshake
    <2>3. client' \in NGClient /\ client'.pc = "asking"
      BY <2>2, <1>0, <1>1 DEF NegotiationTypes, NGClient
    <2>4. PICK v \in NG!Versions : NG!Send("initialize", client.previous, v)
      <3>1. client.preferred = 0 \/ client.preferred \in NG!Versions
        BY <1>1 DEF NG!Versions
      <3> QED BY <2>1, <3>1, NegotiationFacts DEF NG!Handshake
    <2>5. /\ sent' \in 0..MaxRequests /\ requests' \in Seq(NGRequest)
          /\ answer' = NG!NoAnswer /\ Numbered'
      BY <2>4, <1>0, <1>1, Sends
    <2>6. NegotiationTypes'
      BY <2>3, <2>5, <1>0, <1>1, NegotiationFacts DEF NegotiationTypes
    <2>7. Truthful'
      BY <2>5, NegotiationFacts DEF Truthful
    <2>8. ~serverIsModern'
      BY <1>1, <1>3
    <2>9. Settled'
      BY <2>3, <2>8, <1>1 DEF Settled
    <2> QED BY <2>5, <2>6, <2>7, <2>9 DEF NegotiationInv
  <1> QED BY <1>2, <1>3

\* The server's answer counts if it is to the request that the client waits for.
LEMMA RespondStep ==
  ASSUME NegotiationInv, requests # <<>>, NEW response \in NGAnswer,
         NG!Respond(Head(requests), response),
         session' \in NGSession,
         response.kind \in {"discovered", "unsupported"} => server.speaks = "modern",
         response.kind = "initialized" =>
           /\ session'.initialized /\ session'.version = response.version
           /\ ~NG!IsModern(response.version)
  PROVE  NegotiationInv'
  <1>0. NegotiationTypes /\ Numbered /\ Truthful /\ Settled
    BY DEF NegotiationInv
  <1>1. /\ UNCHANGED <<server, client, version, initialized, serverIsModern, sent>>
        /\ requests' = Tail(requests)
        /\ answer' = answer \/ (Head(requests).id = sent /\ answer' = response)
    BY DEF NG!Respond
  <1>2. /\ requests' \in Seq(NGRequest) /\ Numbered'
        /\ Head(requests).id = sent => requests' = <<>>
    BY <1>0, <1>1, Takes
  <1>3. NegotiationTypes'
    BY <1>0, <1>1, <1>2 DEF NegotiationTypes
  <1>4. Truthful'
    BY <1>0, <1>1, <1>2 DEF Truthful
  <1>5. Settled'
    BY <1>0, <1>1 DEF Settled
  <1> QED BY <1>2, <1>3, <1>4, <1>5 DEF NegotiationInv

LEMMA NegotiationStep == NegotiationInv /\ [NG!Next]_NG!vars => NegotiationInv'
  <1> SUFFICES ASSUME NegotiationInv, [NG!Next]_NG!vars PROVE NegotiationInv'
    OBVIOUS
  <1>0. NegotiationTypes /\ Numbered /\ Truthful /\ Settled
    BY DEF NegotiationInv
  <1>1. ASSUME NEW preferred \in 0..Newest, NEW legacyOnly \in BOOLEAN,
               NG!Initialize(preferred, legacyOnly)
        PROVE  NegotiationInv'
    <2>1. /\ UNCHANGED <<server, session, initialized>> /\ serverIsModern' = FALSE
          /\ client.pc = "idle" /\ ~initialized /\ ~NG!IsModern(version) /\ version \in 0..Newest
      BY <1>1, <1>0 DEF NG!Initialize, Settled, NegotiationTypes
    <2>p. preferred = 0 \/ preferred \in NG!Versions
      BY DEF NG!Versions
    <2>2. \/ \E v \in NG!Versions :
               /\ NG!IsModern(v) /\ version' = v /\ NG!Send("discover", v, v)
               /\ client' = [NG!ClientIdle EXCEPT !.pc = "probing", !.preferred = preferred,
                                                  !.previous = version]
          \/ \E v \in NG!Versions :
               /\ version' = version /\ NG!Send("initialize", version, v)
               /\ client' = [client EXCEPT !.pc = "asking", !.preferred = preferred]
      BY <1>1, <2>p, NegotiationFacts DEF NG!Initialize, NG!Probe, NG!Handshake
    <2>3. /\ sent' \in 0..MaxRequests /\ requests' \in Seq(NGRequest)
          /\ answer' = NG!NoAnswer /\ Numbered'
      BY <2>1, <2>2, <1>0, Sends, NegotiationFacts
    <2>4. /\ client' \in NGClient /\ version' \in 0..Newest
          /\ \/ /\ client'.pc = "probing" /\ client'.previous = version
                /\ NG!IsModern(version')
             \/ client'.pc = "asking" /\ version' = version
      <3>1. NG!ClientIdle \in NGClient /\ client \in NGClient /\ NG!Versions \subseteq 0..Newest
        BY <1>0, NegotiationFacts DEF NegotiationTypes
      <3> QED BY <3>1, <2>1, <2>2 DEF NGClient
    <2>5. NegotiationTypes'
      BY <2>1, <2>3, <2>4, <1>0, NegotiationFacts DEF NegotiationTypes
    <2>6. Truthful'
      BY <2>3, NegotiationFacts DEF Truthful
    <2>7. Settled'
      BY <2>1, <2>4 DEF Settled
    <2> QED BY <2>3, <2>5, <2>6, <2>7 DEF NegotiationInv
  <1>2. CASE NG!Discovered
    <2> DEFINE v == NG!DiscoveredVersion(version, server.supports)
    <2>1. /\ UNCHANGED <<server, session, requests, sent>> /\ serverIsModern' = TRUE
          /\ client' = NG!ClientIdle /\ answer' = NG!NoAnswer
          /\ version' = (IF v = 0 THEN client.previous ELSE v) /\ initialized' = (v # 0)
          /\ client.pc = "probing" /\ answer.kind = "discovered"
      BY <1>2 DEF NG!Discovered
    <2>2. /\ server.speaks = "modern" /\ NG!IsModern(version) /\ ~NG!IsModern(client.previous)
          /\ client.previous \in 0..Newest /\ version \in 0..Newest
      BY <2>1, <1>0 DEF Truthful, Settled, NegotiationTypes, NGClient
    <2>3. v = 0 \/ (v \in 0..Newest /\ NG!IsModern(v) /\ v \in server.supports)
      BY <2>2, NegotiationFacts DEF NG!DiscoveredVersion
    <2> HIDE DEF v
    <2>4. NegotiationTypes' /\ Numbered' /\ Truthful'
      BY <2>1, <2>2, <2>3, <1>0, NegotiationFacts DEF NegotiationTypes, Numbered, Truthful
    <2>5. Settled'
      BY <2>1, <2>2, <2>3, NegotiationFacts DEF Settled
    <2> QED BY <2>4, <2>5 DEF NegotiationInv
  <1>3. CASE NG!Renegotiates
    <2> DEFINE v == NG!Mutual(server.supports)
    <2>1. /\ client.pc = "probing" /\ NG!IsModern(v) /\ serverIsModern' = TRUE
          /\ client' = [client EXCEPT !.attempts = 1, !.modern = TRUE]
          /\ version' = v /\ NG!Send("discover", v, v)
          /\ UNCHANGED <<server, session, initialized>>
      BY <1>3 DEF NG!Renegotiates, NG!Probe
    <2>2. v \in NG!Versions /\ v \in 0..Newest
      BY <2>1, NegotiationFacts
    <2> HIDE DEF v
    <2>3. /\ sent' \in 0..MaxRequests /\ requests' \in Seq(NGRequest)
          /\ answer' = NG!NoAnswer /\ Numbered'
      BY <2>1, <2>2, <1>0, Sends
    <2>4. /\ client' \in NGClient /\ client'.pc = "probing" /\ client'.modern
          /\ client'.previous = client.previous
      <3>1. client \in NGClient /\ 1 \in 0..1
        BY <1>0 DEF NegotiationTypes
      <3>2. client' = [client EXCEPT !.attempts = 1, !.modern = TRUE] /\ client.pc = "probing"
        BY <2>1
      <3> QED BY <3>1, <3>2 DEF NGClient
    <2>5. NegotiationTypes'
      BY <2>1, <2>2, <2>3, <2>4, <1>0, NegotiationFacts DEF NegotiationTypes
    <2>6. Truthful'
      BY <2>3, NegotiationFacts DEF Truthful
    <2>7. Settled'
      BY <2>1, <2>4, <1>0 DEF Settled
    <2> QED BY <2>3, <2>5, <2>6, <2>7 DEF NegotiationInv
  <1>4. CASE NG!Unsupported
    BY <1>4, <1>0, ProbeFailsStep DEF NG!Unsupported, NegotiationTypes
  <1>5. CASE NG!NoDiscovery
    BY <1>5, <1>0, ProbeFailsStep DEF NG!NoDiscovery, NegotiationTypes
  <1>6. CASE NG!Answered
    <2>1. /\ UNCHANGED <<server, session, requests, initialized, serverIsModern, sent>>
          /\ client' = [client EXCEPT !.pc = "notifying"] /\ answer' = NG!NoAnswer
          /\ version' = answer.version /\ client.pc = "asking" /\ answer.kind = "initialized"
      BY <1>6 DEF NG!Answered
    <2>2. client' \in NGClient /\ client'.pc = "notifying" /\ answer.version \in 0..Newest
      BY <2>1, <1>0 DEF NegotiationTypes, NGClient, NGAnswer
    <2>3. NegotiationTypes' /\ Numbered' /\ Truthful'
      BY <2>1, <2>2, <1>0, NegotiationFacts DEF NegotiationTypes, Numbered, Truthful
    <2>4. Settled'
      BY <2>1, <2>2, <1>0 DEF Settled, Truthful
    <2> QED BY <2>3, <2>4 DEF NegotiationInv
  <1>7. ASSUME NEW sends \in BOOLEAN, NG!Notified(sends) PROVE NegotiationInv'
    <2>1. /\ UNCHANGED <<server, session, requests, answer, version, serverIsModern, sent>>
          /\ client.pc = "notifying" /\ initialized' \in BOOLEAN /\ client' = NG!ClientIdle
      BY <1>7 DEF NG!Notified
    <2>2. NegotiationTypes' /\ Numbered' /\ Truthful'
      BY <2>1, <1>0, NegotiationFacts DEF NegotiationTypes, Numbered, Truthful
    <2>3. Settled'
      BY <2>1, <1>0, NegotiationFacts DEF Settled
    <2> QED BY <2>2, <2>3 DEF NegotiationInv
  <1>8. CASE NG!GivesUp
    <2>1. /\ UNCHANGED <<server, session, requests, version, initialized, serverIsModern, sent>>
          /\ client.pc = "asking" /\ client' = NG!ClientIdle /\ answer' = NG!NoAnswer
      BY <1>8 DEF NG!GivesUp
    <2>2. NegotiationTypes' /\ Numbered' /\ Truthful'
      BY <2>1, <1>0, NegotiationFacts DEF NegotiationTypes, Numbered, Truthful
    <2>3. Settled'
      BY <2>1, <1>0, NegotiationFacts DEF Settled
    <2> QED BY <2>2, <2>3 DEF NegotiationInv
  <1>9. CASE NG!HandleDiscover \/ NG!RefuseDiscover
    <2>1. PICK said \in {"none", "error", "discovered", "unsupported"} :
            /\ requests # <<>> /\ NG!Respond(Head(requests), [kind |-> said, version |-> 0])
            /\ said \in {"discovered", "unsupported"} => server.speaks = "modern"
      BY <1>9 DEF NG!HandleDiscover, NG!RefuseDiscover
    <2>2. session' \in NGSession
      BY <1>9, <1>0 DEF NG!HandleDiscover, NG!RefuseDiscover, NegotiationTypes, NGSession
    <2>3. [kind |-> said, version |-> 0] \in NGAnswer
      BY NegotiationFacts DEF NGAnswer
    <2> QED BY <2>1, <2>2, <2>3, RespondStep
  <1>10. CASE NG!HandleInitialize
    <2> DEFINE v == NG!NegotiateLegacy(Head(requests).version)
    <2>1. \/ /\ NG!Respond(Head(requests), [kind |-> "error", version |-> 0])
             /\ session' = session
          \/ /\ NG!Respond(Head(requests), [kind |-> "initialized", version |-> v])
             /\ session' = [initialized |-> TRUE, version |-> v]
      BY <1>10 DEF NG!HandleInitialize
    <2>2. requests # <<>>
      BY <1>10 DEF NG!HandleInitialize
    <2>3. v \in 0..Newest /\ ~NG!IsModern(v)
      <3>1. Known \subseteq NG!Versions
        BY NegotiationAssumption DEF NegotiationAssumption, NG!Versions
      <3>2. v = NG!LatestLegacy \/ (v \in Known /\ ~NG!IsModern(v))
        BY DEF NG!NegotiateLegacy
      <3> HIDE DEF v
      <3> QED BY <3>1, <3>2, NegotiationFacts
    <2> HIDE DEF v
    <2>4. CASE /\ NG!Respond(Head(requests), [kind |-> "error", version |-> 0])
               /\ session' = session
      <3>1. [kind |-> "error", version |-> 0] \in NGAnswer /\ session' \in NGSession
        BY <2>4, <1>0, NegotiationFacts DEF NGAnswer, NegotiationTypes
      <3> QED BY <2>2, <2>4, <3>1, RespondStep
    <2>5. CASE /\ NG!Respond(Head(requests), [kind |-> "initialized", version |-> v])
               /\ session' = [initialized |-> TRUE, version |-> v]
      <3>1. [kind |-> "initialized", version |-> v] \in NGAnswer
        BY <2>3 DEF NGAnswer
      <3>2. session' \in NGSession /\ session'.initialized /\ session'.version = v
        BY <2>3, <2>5 DEF NGSession
      <3> QED BY <2>2, <2>3, <2>5, <3>1, <3>2, RespondStep
    <2> QED BY <2>1, <2>4, <2>5
  <1>11. CASE UNCHANGED NG!vars
    BY <1>11, <1>0 DEF NG!vars, NegotiationInv, NegotiationTypes, Numbered, Truthful, Settled
  <1> QED BY <1>1, <1>2, <1>3, <1>4, <1>5, <1>6, <1>7, <1>8, <1>9, <1>10, <1>11 DEF NG!Next

\* The invariant of the negotiation holds of every behavior.
LEMMA NegotiationInvariant == NG!Spec => []NegotiationInv
  <1>1. NG!Init => NegotiationInv
    <2> SUFFICES ASSUME NG!Init PROVE NegotiationInv
      OBVIOUS
    <2>1. server \in NGServer
      BY DEF NG!Init, NGServer
    <2>2. session \in NGSession
      BY NegotiationFacts DEF NG!Init, NGSession
    <2>3. requests = <<>> /\ requests \in Seq(NGRequest) /\ Len(requests) = 0
      BY EmptySeq DEF NG!Init
    <2>4. sent \in 0..MaxRequests
      BY NegotiationAssumption DEF NG!Init, NegotiationAssumption
    <2>5. NegotiationTypes
      BY <2>1, <2>2, <2>3, <2>4, NegotiationFacts DEF NG!Init, NegotiationTypes
    <2>6. Numbered
      BY <2>3 DEF Numbered
    <2>7. Truthful /\ Settled
      BY NegotiationFacts DEF NG!Init, Truthful, Settled
    <2> QED BY <2>5, <2>6, <2>7 DEF NegotiationInv
  <1> QED BY <1>1, NegotiationStep, PTL DEF NG!Spec

\* Whatever probe times out, whatever call is given up and however late the
\* server handles either: a client that is initialized has a version the server
\* has, one that failed has none of a probe's, and a server that showed that it
\* is modern is not asked for a handshake (Initialize, negotiateModern,
\* initializeLegacy, handleInitialize).
THEOREM VersionsAgree == NG!Spec => []NG!Negotiated
  <1>1. NegotiationInv => NG!Negotiated
    BY DEF NegotiationInv, Settled, NG!Negotiated
  <1> QED BY <1>1, NegotiationInvariant, PTL

LEMMA NegotiationTyped == NG!Spec => []NG!TypeOK
  <1>1. NegotiationInv => NG!TypeOK
    BY DEF NegotiationInv, NegotiationTypes, NGServer, NGSession, NGRequest, NGAnswer, NGClient, NG!Versions, NG!TypeOK
  <1> QED BY <1>1, NegotiationInvariant, PTL

-----------------------------------------------------------------------------
(* HttpSessions.                                                           *)
HS == INSTANCE HttpSessions

\* A POST that sends, or has stored its object, has been let in.
Owned == \A p \in Posts :
  (owns[p] \/ sender[p] # "none") => post[p] \in {"running", "over"}

\* Nobody has the object of a GET that did not make one.
Made == \A g \in Gets :
  (g \in {sessions, activeSessions} \/ \E r \in Gets \union Posts : object[r] = g)
    => get[g] \notin {"none", "sharing"}

\* The session is registered by initialize or by a GET that will remove it.
Kept ==
  /\ hooks = IF sessions = None THEN 0 ELSE 1
  /\ sessions \in Gets \union {InitPost, None}
  /\ ~EventStore => (sessions \in Gets => get[sessions] \in {"listening", "leaving"})

PostLooksAfter(o) ==
  \E p \in Posts : owns[p] /\ object[p] = o /\ (post[p] # "over" \/ sender[p] = "late")

\* As LookedAfter, but a GET that is leaving has removed the object: if it is
\* there again a POST put it there.
Looked ==
  ~EventStore /\ activeSessions \in Gets \union Posts =>
    \/ activeSessions \in Gets /\ get[activeSessions] \in {"created", "listening"}
    \/ PostLooksAfter(activeSessions)

SessionTypes ==
  /\ sessions \in HS!Objects \union {None} /\ activeSessions \in HS!Objects \union {None}
  /\ closed \subseteq HS!Objects /\ terminated \in BOOLEAN
  /\ init \in {"handling", "responded", "absent", "stored", "done"}
  /\ get \in [Gets -> {"none", "created", "listening", "sharing", "leaving", "over"}]
  /\ post \in [Posts -> {"none", "unregistered", "running", "over"}]
  /\ cleaner \in [Cleaners -> {"none", "terminated", "unregistered", "over"}]
  /\ object \in [Gets \union Posts -> HS!Objects \union {None}]
  /\ sender \in [Posts -> {"none", "checked", "registered", "late"}]
  /\ owns \in [Posts -> BOOLEAN]

SessionsInv == SessionTypes /\ Owned /\ Made /\ Kept /\ Looked

\* Types, and how GETs and POSTs go on.
LEMMA SessionTypesStep == SessionTypes /\ [HS!Next]_HS!vars => SessionTypes'
  <1> SUFFICES ASSUME SessionTypes, [HS!Next]_HS!vars PROVE SessionTypes'
    OBVIOUS
  <1> USE DEF SessionTypes, HS!Objects
  <1>1. CASE HS!Initializing
    BY <1>1 DEF HS!Initializing, HS!InitRespond, HS!InitCheck, HS!InitStore, HS!InitRegister,
                HS!RegisterSession
  <1>2. ASSUME NEW g \in Gets, HS!Getting(g) PROVE SessionTypes'
    <2>1. CASE HS!Get(g)
      BY <2>1 DEF HS!Get
    <2>2. CASE HS!GetRegister(g) \/ HS!GetEnds(g) \/ HS!GetUnregister(g)
      BY <2>2 DEF HS!GetRegister, HS!GetEnds, HS!GetUnregister, HS!RegisterSession,
                  HS!UnregisterSession
    <2> QED BY <1>2, <2>1, <2>2 DEF HS!Getting
  <1>3. ASSUME NEW p \in Posts, HS!Posting(p) PROVE SessionTypes'
    <2>1. CASE HS!Post(p) \/ HS!PostLookup(p)
      BY <2>1 DEF HS!Post, HS!PostLookup
    <2>2. CASE HS!TrySend(p) \/ HS!PostRegister(p) \/ HS!PostReturns(p)
      BY <2>2 DEF HS!TrySend, HS!PostRegister, HS!PostReturns
    <2> QED BY <1>3, <2>1, <2>2 DEF HS!Posting
  <1>4. ASSUME NEW c \in Cleaners, HS!Cleaning(c) PROVE SessionTypes'
    BY <1>4 DEF HS!Cleaning, HS!Terminate, HS!CloseSessions, HS!CleanupUnregister,
                HS!CleanupDelete, HS!UnregisterSession
  <1>5. CASE UNCHANGED HS!vars
    BY <1>5 DEF HS!vars
  <1> QED BY <1>1, <1>2, <1>3, <1>4, <1>5 DEF HS!Next

LEMMA OwnedStep == SessionTypes /\ Owned /\ [HS!Next]_HS!vars => Owned'
  <1> SUFFICES ASSUME SessionTypes, Owned, [HS!Next]_HS!vars PROVE Owned'
    OBVIOUS
  <1>0. /\ post \in [Posts -> {"none", "unregistered", "running", "over"}]
        /\ sender \in [Posts -> {"none", "checked", "registered", "late"}]
        /\ owns \in [Posts -> BOOLEAN]
    BY DEF SessionTypes
  <1>1. ASSUME NEW p \in Posts, HS!Posting(p) PROVE Owned'
    <2>1. CASE HS!Post(p) \/ HS!PostLookup(p) \/ HS!PostReturns(p)
      BY <2>1, <1>0 DEF HS!Post, HS!PostLookup, HS!PostReturns, Owned
    <2>2. CASE HS!TrySend(p) \/ HS!PostRegister(p)
      BY <2>2, <1>0 DEF HS!TrySend, HS!PostRegister, Owned
    <2> QED BY <1>1, <2>1, <2>2 DEF HS!Posting
  <1>2. CASE UNCHANGED <<post, sender, owns>>
    BY <1>2 DEF Owned
  <1>3. \/ \E p \in Posts : HS!Posting(p)
        \/ UNCHANGED <<post, sender, owns>>
    BY DEF HS!Next, HS!vars, HS!Initializing, HS!InitRespond, HS!InitCheck, HS!InitStore,
           HS!InitRegister, HS!Getting, HS!Get, HS!GetRegister, HS!GetEnds, HS!GetUnregister,
           HS!Cleaning, HS!Terminate, HS!CloseSessions, HS!CleanupUnregister, HS!CleanupDelete
  <1> QED BY <1>1, <1>2, <1>3

\* No step makes up an object: those about were about, or are the object of
\* whoever takes the step.
About == {sessions, activeSessions} \union {object[r] : r \in Gets \union Posts}

LEMMA AboutStep ==
  ASSUME SessionTypes, [HS!Next]_HS!vars
  PROVE  \/ About' \subseteq About \union Posts \union {None, InitPost}
         \/ \E g \in Gets : /\ HS!Get(g) \/ HS!GetRegister(g)
                            /\ About' \subseteq About \union {g}
                            /\ get'[g] \notin {"none", "sharing"}
  <1> USE DEF About
  <1>0. /\ object \in [Gets \union Posts -> HS!Objects \union {None}]
        /\ get \in [Gets -> {"none", "created", "listening", "sharing", "leaving", "over"}]
    BY DEF SessionTypes
  <1>1. CASE HS!Initializing
    BY <1>1 DEF HS!Initializing, HS!InitRespond, HS!InitCheck, HS!InitStore, HS!InitRegister,
                HS!RegisterSession
  <1>2. ASSUME NEW g \in Gets, HS!Get(g) \/ HS!GetRegister(g)
        PROVE  \/ About' \subseteq About \union {None}
               \/ About' \subseteq About \union {g} /\ get'[g] \notin {"none", "sharing"}
    <2>1. CASE HS!Get(g)
      BY <2>1, <1>0 DEF HS!Get
    <2>2. CASE HS!GetRegister(g)
      BY <2>2, <1>0 DEF HS!GetRegister, HS!RegisterSession
    <2> QED BY <1>2, <2>1, <2>2
  <1>3. ASSUME NEW g \in Gets, HS!GetEnds(g) \/ HS!GetUnregister(g)
        PROVE  About' \subseteq About \union {None}
    BY <1>3 DEF HS!GetEnds, HS!GetUnregister, HS!UnregisterSession
  <1>4. ASSUME NEW p \in Posts, HS!Posting(p) PROVE About' \subseteq About \union Posts \union {None}
    <2>1. CASE HS!Post(p) \/ HS!PostLookup(p)
      BY <2>1, <1>0 DEF HS!Post, HS!PostLookup
    <2>2. CASE HS!TrySend(p) \/ HS!PostRegister(p) \/ HS!PostReturns(p)
      BY <2>2, <1>0 DEF HS!TrySend, HS!PostRegister, HS!PostReturns
    <2> QED BY <1>4, <2>1, <2>2 DEF HS!Posting
  <1>5. ASSUME NEW c \in Cleaners, HS!Cleaning(c) PROVE About' \subseteq About \union {None}
    BY <1>5 DEF HS!Cleaning, HS!Terminate, HS!CloseSessions, HS!CleanupUnregister,
                HS!CleanupDelete, HS!UnregisterSession
  <1>6. CASE UNCHANGED HS!vars
    BY <1>6 DEF HS!vars
  <1> HIDE DEF About
  <1> QED BY <1>1, <1>2, <1>3, <1>4, <1>5, <1>6 DEF HS!Next, HS!Getting

LEMMA MadeStep == SessionTypes /\ Made /\ [HS!Next]_HS!vars => Made'
  <1> SUFFICES ASSUME SessionTypes, Made, [HS!Next]_HS!vars PROVE Made'
    OBVIOUS
  <1>0. /\ get \in [Gets -> {"none", "created", "listening", "sharing", "leaving", "over"}]
        /\ None \notin Gets /\ InitPost \notin Gets /\ Gets \intersect Posts = {}
    BY HttpSessionsAssumption DEF SessionTypes, HttpSessionsAssumption
  <1>1. \A g \in Gets : g \in About => get[g] \notin {"none", "sharing"}
    BY DEF Made, About
  <1>2. ASSUME NEW g \in Gets, get[g] \notin {"none", "sharing"}
        PROVE  get'[g] \notin {"none", "sharing"}
    <2>1. ASSUME NEW h \in Gets, HS!Getting(h) PROVE get'[g] \notin {"none", "sharing"}
      BY <1>0, <1>2, <2>1 DEF HS!Getting, HS!Get, HS!GetRegister, HS!GetEnds, HS!GetUnregister
    <2>2. (\E h \in Gets : HS!Getting(h)) \/ get' = get
      BY DEF HS!Next, HS!vars, HS!Initializing, HS!InitRespond, HS!InitCheck, HS!InitStore,
             HS!InitRegister, HS!Posting, HS!Post, HS!PostLookup, HS!TrySend, HS!PostRegister,
             HS!PostReturns, HS!Cleaning, HS!Terminate, HS!CloseSessions,
             HS!CleanupUnregister, HS!CleanupDelete
    <2> QED BY <1>2, <2>1, <2>2
  <1>3. ASSUME NEW g \in Gets, g \in About' PROVE get'[g] \notin {"none", "sharing"}
    <2> HIDE DEF About
    <2> QED BY <1>0, <1>1, <1>2, <1>3, AboutStep
  <1> QED BY <1>3 DEF Made, About

LEMMA KeptStep == SessionTypes /\ Made /\ Kept /\ [HS!Next]_HS!vars => Kept'
  <1> SUFFICES ASSUME SessionTypes, Made, Kept, [HS!Next]_HS!vars PROVE Kept'
    OBVIOUS
  <1>0. /\ get \in [Gets -> {"none", "created", "listening", "sharing", "leaving", "over"}]
        /\ None \notin Gets /\ None # InitPost /\ InitPost \notin Gets
    BY HttpSessionsAssumption DEF SessionTypes, HttpSessionsAssumption
  <1>1. CASE HS!Initializing
    BY <1>0, <1>1
       DEF Kept, HS!Initializing, HS!InitRespond, HS!InitCheck, HS!InitStore, HS!InitRegister,
           HS!RegisterSession
  <1>2. ASSUME NEW g \in Gets, HS!Getting(g) PROVE Kept'
    <2>1. CASE HS!Get(g)
      BY <1>0, <2>1 DEF Kept, HS!Get
    <2>2. CASE HS!GetRegister(g)
      BY <1>0, <2>2 DEF Kept, HS!GetRegister, HS!RegisterSession
    <2>3. CASE HS!GetEnds(g)
      BY <1>0, <2>3 DEF Kept, HS!GetEnds
    <2>4. CASE HS!GetUnregister(g)
      BY <1>0, <2>4 DEF Kept, HS!GetUnregister, HS!UnregisterSession
    <2> QED BY <1>2, <2>1, <2>2, <2>3, <2>4 DEF HS!Getting
  <1>3. ASSUME NEW c \in Cleaners, HS!CleanupUnregister(c) PROVE Kept'
    BY <1>0, <1>3 DEF Kept, HS!CleanupUnregister, HS!UnregisterSession
  <1>4. CASE UNCHANGED <<sessions, get, hooks>>
    BY <1>4 DEF Kept
  <1>5. \/ HS!Initializing \/ \E g \in Gets : HS!Getting(g)
        \/ \E c \in Cleaners : HS!CleanupUnregister(c)
        \/ UNCHANGED <<sessions, get, hooks>>
    BY DEF HS!Next, HS!vars, HS!Posting, HS!Post, HS!PostLookup, HS!TrySend, HS!PostRegister,
           HS!PostReturns, HS!Cleaning, HS!Terminate, HS!CloseSessions, HS!CleanupDelete
  <1> QED BY <1>1, <1>2, <1>3, <1>4, <1>5

\* What a POST does leaves a POST that looks after an object in charge of it,
\* unless it is the one that returns, and removes it.
LEMMA PostsLookAfter ==
  ASSUME SessionTypes, Owned, [HS!Next]_HS!vars, NEW o, PostLooksAfter(o)
  PROVE  \/ PostLooksAfter(o)'
         \/ activeSessions' = None
         \/ activeSessions' = activeSessions /\ activeSessions # o
  <1>0. /\ post \in [Posts -> {"none", "unregistered", "running", "over"}]
        /\ sender \in [Posts -> {"none", "checked", "registered", "late"}]
        /\ owns \in [Posts -> BOOLEAN]
        /\ object \in [Gets \union Posts -> HS!Objects \union {None}]
    BY DEF SessionTypes
  <1>1. PICK q \in Posts : owns[q] /\ object[q] = o /\ (post[q] # "over" \/ sender[q] = "late")
    BY DEF PostLooksAfter
  <1>2. post[q] \in {"running", "over"}
    BY <1>1 DEF Owned
  <1>3. ASSUME owns'[q], object'[q] = o, post'[q] # "over" \/ sender'[q] = "late"
        PROVE  PostLooksAfter(o)'
    BY <1>3 DEF PostLooksAfter
  <1>4. ASSUME NEW p \in Posts, HS!Post(p) \/ HS!PostLookup(p) PROVE PostLooksAfter(o)'
    <2>1. p # q
      BY <1>2, <1>4 DEF HS!Post, HS!PostLookup
    <2> QED BY <1>0, <1>1, <1>3, <1>4, <2>1 DEF HS!Post, HS!PostLookup
  <1>5. ASSUME NEW p \in Posts, HS!TrySend(p) \/ HS!PostRegister(p) PROVE PostLooksAfter(o)'
    BY <1>0, <1>1, <1>3, <1>5 DEF HS!TrySend, HS!PostRegister
  <1>6. ASSUME NEW p \in Posts, HS!PostReturns(p)
        PROVE  \/ PostLooksAfter(o)' \/ activeSessions' = None
               \/ activeSessions' = activeSessions /\ activeSessions # o
    <2>1. CASE p # q
      BY <1>0, <1>1, <1>3, <1>6, <2>1 DEF HS!PostReturns
    <2>2. CASE p = q
      BY <1>1, <1>6, <2>2 DEF HS!PostReturns
    <2> QED BY <2>1, <2>2
  <1>7. ASSUME NEW g \in Gets, HS!Get(g) PROVE PostLooksAfter(o)'
    <2>1. g # q
      BY <1>1, HttpSessionsAssumption DEF HttpSessionsAssumption
    <2> QED BY <1>0, <1>1, <1>3, <1>7, <2>1 DEF HS!Get
  <1>8. CASE UNCHANGED <<post, object, sender, owns>>
    BY <1>1, <1>3, <1>8
  <1>9. \/ \E p \in Posts : HS!Posting(p)
        \/ \E g \in Gets : HS!Get(g)
        \/ UNCHANGED <<post, object, sender, owns>>
    BY DEF HS!Next, HS!vars, HS!Initializing, HS!InitRespond, HS!InitCheck, HS!InitStore,
           HS!InitRegister, HS!Getting, HS!GetRegister, HS!GetEnds, HS!GetUnregister,
           HS!Cleaning, HS!Terminate, HS!CloseSessions, HS!CleanupUnregister, HS!CleanupDelete
  <1> QED BY <1>4, <1>5, <1>6, <1>7, <1>8, <1>9 DEF HS!Posting

LEMMA LookedStep == SessionTypes /\ Owned /\ Made /\ Looked /\ [HS!Next]_HS!vars => Looked'
  <1> SUFFICES ASSUME SessionTypes, Owned, Made, Looked, [HS!Next]_HS!vars, ~EventStore
               PROVE  Looked'
    BY DEF Looked
  <1>0. /\ get \in [Gets -> {"none", "created", "listening", "sharing", "leaving", "over"}]
        /\ post \in [Posts -> {"none", "unregistered", "running", "over"}]
        /\ sender \in [Posts -> {"none", "checked", "registered", "late"}]
        /\ owns \in [Posts -> BOOLEAN]
        /\ None \notin Gets \union Posts /\ InitPost \notin Gets \union Posts
    BY HttpSessionsAssumption DEF SessionTypes, HttpSessionsAssumption
  <1>1. CASE activeSessions' \in {None, InitPost}
    BY <1>0, <1>1 DEF Looked
  <1>2. ASSUME activeSessions' = activeSessions,
               activeSessions \in Gets /\ get[activeSessions] \in {"created", "listening"}
                 => get'[activeSessions] \in {"created", "listening"}
        PROVE  Looked'
    <2>1. CASE activeSessions \in Gets \union Posts
      <3>1. \/ activeSessions \in Gets /\ get[activeSessions] \in {"created", "listening"}
            \/ PostLooksAfter(activeSessions)
        BY <2>1 DEF Looked
      <3>2. CASE activeSessions \in Gets /\ get[activeSessions] \in {"created", "listening"}
        BY <1>2, <3>2 DEF Looked
      <3>3. CASE PostLooksAfter(activeSessions)
        <4>1. ASSUME NEW a, PostLooksAfter(a), a = activeSessions
              PROVE  PostLooksAfter(a)' \/ activeSessions' = None
          BY <1>2, <4>1, PostsLookAfter
        <4>2. \/ activeSessions' = None
              \/ \E p \in Posts : /\ owns'[p]
                                  /\ object'[p] = activeSessions
                                  /\ post'[p] # "over" \/ sender'[p] = "late"
          BY <3>3, <4>1 DEF PostLooksAfter
        <4> QED BY <1>1, <1>2, <4>2 DEF Looked, PostLooksAfter
      <3> QED BY <3>1, <3>2, <3>3
    <2>2. CASE activeSessions \notin Gets \union Posts
      BY <1>2, <2>2 DEF Looked
    <2> QED BY <2>1, <2>2
  <1>3. CASE HS!Initializing
    <2>1. activeSessions' \in {None, InitPost} \/ UNCHANGED <<activeSessions, get>>
      BY <1>3 DEF HS!Initializing, HS!InitRespond, HS!InitCheck, HS!InitStore, HS!InitRegister
    <2> QED BY <1>1, <1>2, <2>1
  <1>4. ASSUME NEW g \in Gets, HS!Getting(g) PROVE Looked'
    <2>1. CASE HS!Get(g)
      <3>1. CASE activeSessions = None
        <4>1. activeSessions' = g /\ get'[g] = "created"
          BY <1>0, <2>1, <3>1 DEF HS!Get
        <4> QED BY <4>1 DEF Looked
      <3>2. CASE activeSessions # None
        <4>1. activeSessions' = activeSessions /\ get[g] = "none"
              /\ get' = [get EXCEPT ![g] = "sharing"]
          BY <2>1, <3>2 DEF HS!Get
        <4> QED BY <1>0, <1>2, <4>1
      <3> QED BY <3>1, <3>2
    <2>2. CASE HS!GetRegister(g)
      BY <1>0, <1>1, <1>2, <2>2 DEF HS!GetRegister
    <2>3. CASE HS!GetEnds(g)
      BY <1>0, <1>1, <1>2, <2>3 DEF HS!GetEnds
    <2>4. CASE HS!GetUnregister(g)
      BY <1>0, <1>2, <2>4 DEF HS!GetUnregister
    <2> QED BY <1>4, <2>1, <2>2, <2>3, <2>4 DEF HS!Getting
  <1>5. ASSUME NEW p \in Posts, HS!Posting(p) PROVE Looked'
    <2>1. CASE HS!Post(p) \/ HS!PostLookup(p) \/ HS!TrySend(p)
      BY <1>2, <2>1 DEF HS!Post, HS!PostLookup, HS!TrySend
    <2>2. CASE HS!PostReturns(p)
      BY <1>1, <1>2, <2>2 DEF HS!PostReturns
    <2>3. CASE HS!PostRegister(p)
      <3>1. CASE activeSessions # None
        BY <1>2, <2>3, <3>1 DEF HS!PostRegister
      <3>2. CASE activeSessions = None
        <4>1. /\ activeSessions' = object'[p] /\ owns'[p]
              /\ post'[p] # "over" \/ sender'[p] = "late"
          BY <1>0, <2>3, <3>2 DEF HS!PostRegister
        <4> QED BY <4>1 DEF Looked, PostLooksAfter
      <3> QED BY <3>1, <3>2
    <2> QED BY <1>5, <2>1, <2>2, <2>3 DEF HS!Posting
  <1>6. ASSUME NEW c \in Cleaners, HS!Cleaning(c) PROVE Looked'
    <2>1. activeSessions' = None \/ UNCHANGED <<activeSessions, get>>
      BY <1>6 DEF HS!Cleaning, HS!Terminate, HS!CloseSessions, HS!CleanupUnregister,
                  HS!CleanupDelete
    <2> QED BY <1>1, <1>2, <2>1
  <1>7. CASE UNCHANGED HS!vars
    BY <1>2, <1>7 DEF HS!vars
  <1> QED BY <1>3, <1>4, <1>5, <1>6, <1>7 DEF HS!Next

LEMMA SessionsInit == HS!Init => SessionsInv
  <1> SUFFICES ASSUME HS!Init PROVE SessionsInv
    OBVIOUS
  <1>0. None \notin Gets \union Posts
    BY HttpSessionsAssumption DEF HttpSessionsAssumption
  <1>1. SessionTypes
    BY DEF HS!Init, SessionTypes
  <1>2. Owned /\ Kept /\ Looked
    BY <1>0 DEF HS!Init, Owned, Kept, Looked
  <1>3. Made
    BY <1>0 DEF HS!Init, Made
  <1> QED BY <1>1, <1>2, <1>3 DEF SessionsInv

LEMMA SessionsInvariant == HS!Spec => []SessionsInv
  <1>1. SessionsInv /\ [HS!Next]_HS!vars => SessionsInv'
    BY SessionTypesStep, OwnedStep, MadeStep, KeptStep, LookedStep DEF SessionsInv
  <1> QED BY SessionsInit, <1>1, PTL DEF HS!Spec

\* A session of the streamable HTTP server leaves nothing behind, however GETs,
\* POSTs, initialize and clean-ups remove one another's entries.
THEOREM SessionsLeaveNothing == HS!Spec => []HS!LeavesNothing
  <1>1. SessionsInv => HS!LeavesNothing
    <2> SUFFICES ASSUME SessionsInv PROVE HS!LeavesNothing
      OBVIOUS
    <2>1. sessions \notin Posts
      BY HttpSessionsAssumption DEF HttpSessionsAssumption, SessionsInv, Kept
    <2>2. ASSUME ~EventStore, activeSessions \in Gets \union Posts
          PROVE  HS!LookedAfter(activeSessions)
      BY <2>2 DEF SessionsInv, Looked, HS!LookedAfter, PostLooksAfter
    <2> QED BY <2>1, <2>2 DEF SessionsInv, Kept, HS!LeavesNothing
  <1> QED BY <1>1, SessionsInvariant, PTL

\* Its state is well typed; in particular OnUnregisterSession is never called
\* more often than OnRegisterSession.
THEOREM SessionsTypes == HS!Spec => []HS!TypeOK
  <1>1. SessionsInv => HS!TypeOK
    BY DEF SessionsInv, SessionTypes, Kept, HS!TypeOK
  <1> QED BY <1>1, SessionsInvariant, PTL

-----------------------------------------------------------------------------
(* SchemaCache.                                                            *)
SH == INSTANCE SchemaCache WITH Types <- ToolTypes, Keys <- SchemaKeys

CacheSchema == [of : ToolTypes, build : 1..MaxBuilds]
CacheTables == [SchemaKeys -> CacheSchema \union {None}]
ToolDefinitions ==
  [pc : {"idle", "missed", "defined"}, type : ToolTypes \union {None},
   key : SchemaKeys \union {NoKey, None}, schema : CacheSchema \union {None}]
Saves == [pc : {"idle", "marshaled", "created", "written", "returned"},
          data : CacheTables \union {None}]

CacheTypes ==
  /\ build \in Nat /\ processes \in 1..MaxBuilds /\ build \in 1..processes
  /\ schemas \in CacheTables
  /\ definer \in [Definers -> ToolDefinitions]
  /\ saver \in [Savers -> Saves]
  /\ tempFiles \in [Savers -> CacheTables \union {None, SH!HalfWritten}]
  /\ marshaled \subseteq CacheTables
  /\ users \in [SchemaKeys \union {NoKey} -> SUBSET ToolTypes]

\* The schemas of a cache are those of types its keys were used for.
Used(table) ==
  \A k \in SchemaKeys : table[k] # None => table[k].of \in users[k]
\* While nobody has saved a cache there is none of another build.
OfBuild(table) ==
  marshaled = {} => \A k \in SchemaKeys : table[k] # None => table[k].build = build

TablesInv ==
  /\ Used(schemas) /\ OfBuild(schemas)
  /\ \A table \in marshaled : Used(table)

DefinersInv ==
  \A d \in Definers :
    LET tool == definer[d] IN
    /\ tool.pc # "idle" =>
         /\ tool.type \in ToolTypes /\ tool.key \in SchemaKeys \union {NoKey}
         /\ tool.type \in users[tool.key]
    /\ tool.pc = "defined" =>
         /\ tool.schema \in CacheSchema /\ tool.schema.of \in users[tool.key]
         /\ tool.key = NoKey => tool.schema = SH!SchemaForRaw(tool.type)
         /\ marshaled = {} => tool.schema.build = build

\* What is in the temporary file, while there is one.
SaversInv ==
  \A s \in Savers :
    /\ saver[s].pc \in {"marshaled", "created", "written"} => saver[s].data \in marshaled
    /\ saver[s].pc \notin {"created", "written"} => tempFiles[s] = None
    /\ saver[s].pc = "written" => tempFiles[s] = saver[s].data

CacheInv == CacheTypes /\ TablesInv /\ DefinersInv /\ SaversInv /\ SH!FileIsWhole

\* What a step of a goroutine that defines a tool has to see to.
LEMMA DefinerMoves ==
  ASSUME CacheInv, SH!DefinerSame, NEW d \in Definers, NEW new \in ToolDefinitions,
         definer' = [definer EXCEPT ![d] = new], new.pc # "idle",
         new.type \in ToolTypes, new.key \in SchemaKeys \union {NoKey},
         new.type \in users'[new.key],
         new.pc = "defined" =>
           /\ new.schema \in CacheSchema /\ new.schema.of \in users'[new.key]
           /\ new.key = NoKey => new.schema = SH!SchemaForRaw(new.type)
           /\ marshaled = {} => new.schema.build = build,
         users' \in [SchemaKeys \union {NoKey} -> SUBSET ToolTypes],
         \A k \in SchemaKeys \union {NoKey} : users[k] \subseteq users'[k],
         schemas' \in CacheTables, Used(schemas)', OfBuild(schemas)'
  PROVE  CacheInv'
  <1>0. CacheTypes /\ TablesInv /\ DefinersInv /\ SaversInv /\ SH!FileIsWhole
    BY DEF CacheInv
  <1>1. UNCHANGED <<build, processes, saver, file, tempFiles, marshaled>>
    BY DEF SH!DefinerSame
  <1>2. CacheTypes'
    BY <1>0, <1>1 DEF CacheTypes
  <1>3. TablesInv'
    <2>1. ASSUME NEW table \in marshaled PROVE Used(table)'
      <3>1. Used(table) /\ table \in CacheTables
        BY <1>0 DEF TablesInv, CacheTypes
      <3>2. Used(table)' <=> \A k \in SchemaKeys : table[k] # None => table[k].of \in users'[k]
        BY DEF Used
      <3> QED BY <3>1, <3>2 DEF Used
    <2> QED BY <1>1, <2>1 DEF TablesInv
  <1>4. DefinersInv'
    <2>1. ASSUME NEW e \in Definers, e # d
          PROVE  /\ definer'[e] = definer[e] /\ definer[e] \in ToolDefinitions
      BY <1>0, <2>1 DEF CacheTypes
    <2>2. definer'[d] = new
      BY <1>0 DEF CacheTypes
    <2>3. \A t : SH!SchemaForRaw(t)' = SH!SchemaForRaw(t)
      BY <1>1 DEF SH!SchemaForRaw
    <2>4. SH!SchemaForRaw(new.type)' = SH!SchemaForRaw(new.type)
      BY <1>1 DEF SH!SchemaForRaw
    <2>5. ASSUME NEW e \in Definers
          PROVE  LET tool == definer'[e] IN
                 /\ tool.pc # "idle" =>
                      /\ tool.type \in ToolTypes /\ tool.key \in SchemaKeys \union {NoKey}
                      /\ tool.type \in users'[tool.key]
                 /\ tool.pc = "defined" =>
                      /\ tool.schema \in CacheSchema /\ tool.schema.of \in users'[tool.key]
                      /\ tool.key = NoKey => tool.schema = [of |-> tool.type, build |-> build]
                      /\ marshaled = {} => tool.schema.build = build
      <3>1. CASE e = d
        BY <2>2, <3>1 DEF SH!SchemaForRaw
      <3>2. CASE e # d
        BY <1>0, <2>1, <3>2 DEF DefinersInv, SH!SchemaForRaw
      <3> QED BY <3>1, <3>2
    <2> QED BY <1>1, <2>5 DEF DefinersInv, SH!SchemaForRaw
  <1>5. SaversInv' /\ SH!FileIsWhole'
    BY <1>0, <1>1 DEF SaversInv, SH!FileIsWhole
  <1> QED BY <1>2, <1>3, <1>4, <1>5 DEF CacheInv

\* A key is used.
LEMMA KeyUsed ==
  ASSUME CacheInv, NEW type \in ToolTypes, NEW key \in SchemaKeys \union {NoKey},
         SH!Use(type, key)
  PROVE  /\ users' \in [SchemaKeys \union {NoKey} -> SUBSET ToolTypes]
         /\ \A k \in SchemaKeys \union {NoKey} : users[k] \subseteq users'[k]
         /\ type \in users'[key]
         /\ UNCHANGED <<schemas, marshaled, build>> => Used(schemas)' /\ OfBuild(schemas)'
  <1>1. CacheTypes /\ Used(schemas) /\ OfBuild(schemas)
    BY DEF CacheInv, TablesInv
  <1>2. users' \in [SchemaKeys \union {NoKey} -> SUBSET ToolTypes]
    BY <1>1 DEF CacheTypes, SH!Use
  <1>3. \A k \in SchemaKeys \union {NoKey} : users[k] \subseteq users'[k]
    BY <1>1 DEF CacheTypes, SH!Use
  <1>4. type \in users'[key]
    BY <1>1 DEF CacheTypes, SH!Use
  <1>5. ASSUME UNCHANGED <<schemas, marshaled, build>> PROVE Used(schemas)' /\ OfBuild(schemas)'
    BY <1>1, <1>3, <1>5 DEF Used, OfBuild
  <1> QED BY <1>2, <1>3, <1>4, <1>5

LEMMA CacheDefines ==
  ASSUME CacheInv, NEW d \in Definers
  PROVE  /\ \A type \in ToolTypes, key \in SchemaKeys \union {NoKey} :
              SH!Look(d, type, key) \/ SH!WarmFor(d, type, key) => CacheInv'
         /\ SH!Warm(d) => CacheInv'
  <1>0. CacheTypes /\ TablesInv /\ DefinersInv
    BY DEF CacheInv
  <1>1. ASSUME NEW type \in ToolTypes, NEW key \in SchemaKeys \union {NoKey},
               SH!Look(d, type, key) \/ SH!WarmFor(d, type, key)
        PROVE  CacheInv'
    <2>1. PICK found : /\ definer' = [definer EXCEPT ![d] =
                            [pc |-> IF found = None THEN "missed" ELSE "defined",
                             type |-> type, key |-> key, schema |-> found]]
                       /\ found = None \/ (key # NoKey /\ found = schemas[key])
      <3>1. CASE SH!Look(d, type, key)
        <4> DEFINE f == IF key = NoKey THEN None ELSE schemas[key]
        <4>1. /\ definer' = [definer EXCEPT ![d] =
                            [pc |-> IF f = None THEN "missed" ELSE "defined",
                             type |-> type, key |-> key, schema |-> f]]
              /\ f = None \/ (key # NoKey /\ f = schemas[key])
          BY <3>1 DEF SH!Look
        <4> HIDE DEF f
        <4> QED BY <4>1
      <3>2. CASE SH!WarmFor(d, type, key)
        BY <3>2 DEF SH!WarmFor
      <3> QED BY <1>1, <3>1, <3>2
    <2>2. /\ SH!Use(type, key) /\ SH!DefinerSame /\ UNCHANGED schemas
      BY <1>1 DEF SH!Look, SH!WarmFor
    <2>3. UNCHANGED <<schemas, marshaled, build>>
      BY <2>2 DEF SH!DefinerSame
    <2>4. PICK new : new = [pc |-> IF found = None THEN "missed" ELSE "defined",
                            type |-> type, key |-> key, schema |-> found]
      OBVIOUS
    <2>5. found \in CacheSchema \union {None}
      BY <1>0, <2>1 DEF CacheTypes, CacheTables
    <2>6. /\ new \in ToolDefinitions /\ new.pc # "idle" /\ new.type = type /\ new.key = key
          /\ new.schema = found /\ (new.pc = "defined" => found # None)
      BY <2>4, <2>5 DEF ToolDefinitions
    <2>7. found # None => /\ key # NoKey /\ found \in CacheSchema /\ found.of \in users[key]
                          /\ marshaled = {} => found.build = build
      BY <1>0, <2>1, <2>5 DEF TablesInv, Used, OfBuild
    <2>8. found # None => found.of \in users'[key]
      BY <2>2, <2>7, KeyUsed
    <2> QED BY <2>1, <2>2, <2>3, <2>4, <2>6, <2>7, <2>8, KeyUsed, DefinerMoves DEF CacheTypes, CacheInv
  <1>2. ASSUME SH!Warm(d) PROVE CacheInv'
    <2>1. PICK fresh : fresh = SH!SchemaForRaw(definer[d].type)
      OBVIOUS
    <2>2. PICK tool : tool = definer[d]
      OBVIOUS
    <2>3. /\ tool.pc = "missed" /\ SH!DefinerSame /\ UNCHANGED users
          /\ schemas' = IF tool.key = NoKey THEN schemas ELSE [schemas EXCEPT ![tool.key] = fresh]
          /\ definer' = [definer EXCEPT ![d] = [tool EXCEPT !.pc = "defined", !.schema = fresh]]
      BY <1>2, <2>1, <2>2 DEF SH!Warm
    <2>4. /\ tool \in ToolDefinitions /\ tool.type \in ToolTypes
          /\ tool.key \in SchemaKeys \union {NoKey} /\ tool.type \in users[tool.key]
      BY <1>0, <2>2, <2>3 DEF CacheTypes, DefinersInv
    <2>5. /\ fresh \in CacheSchema /\ fresh.of = tool.type /\ fresh.build = build
      <3>1. build \in 1..processes /\ processes \in 1..MaxBuilds /\ MaxBuilds \in Nat
        BY <1>0, SchemaCacheAssumption DEF CacheTypes, SchemaCacheAssumption
      <3>2. build \in 1..MaxBuilds
        BY <3>1
      <3>3. fresh = [of |-> tool.type, build |-> build]
        BY <2>1, <2>2 DEF SH!SchemaForRaw
      <3> QED BY <2>4, <3>2, <3>3 DEF CacheSchema
    <2>6. PICK new : new = [tool EXCEPT !.pc = "defined", !.schema = fresh]
      OBVIOUS
    <2>7. /\ new \in ToolDefinitions /\ new.pc = "defined" /\ new.schema = fresh
          /\ new.type = tool.type /\ new.key = tool.key
      BY <2>4, <2>5, <2>6 DEF ToolDefinitions
    <2>8. schemas' \in CacheTables
      BY <1>0, <2>3, <2>4, <2>5 DEF CacheTypes, CacheTables
    <2>9. Used(schemas)' /\ OfBuild(schemas)'
      <3>1. \A k \in SchemaKeys : schemas'[k] = schemas[k] \/ (k = tool.key /\ schemas'[k] = fresh)
        BY <1>0, <2>3 DEF CacheTypes, CacheTables
      <3>2. Used(schemas) /\ OfBuild(schemas) /\ UNCHANGED <<users, marshaled, build>>
        BY <1>0, <2>3 DEF TablesInv, SH!DefinerSame
      <3> QED BY <2>4, <2>5, <3>1, <3>2 DEF Used, OfBuild
    <2>10. users \in [SchemaKeys \union {NoKey} -> SUBSET ToolTypes]
      BY <1>0 DEF CacheTypes
    <2>11. new.type \in users'[new.key]
      BY <2>3, <2>4, <2>7 DEF SH!DefinerSame
    <2>12. /\ new.schema \in CacheSchema /\ new.schema.of \in users'[new.key]
           /\ new.schema = SH!SchemaForRaw(new.type) /\ new.schema.build = build
      BY <2>1, <2>2, <2>5, <2>7, <2>11
    <2>13. /\ definer' = [definer EXCEPT ![d] = new] /\ SH!DefinerSame /\ users' = users
      BY <2>3, <2>6 DEF SH!DefinerSame
    <2>14. new.pc = "defined" /\ new.type \in ToolTypes /\ new.key \in SchemaKeys \union {NoKey}
      BY <2>4, <2>7
    <2> QED BY <2>7, <2>8, <2>9, <2>10, <2>11, <2>12, <2>13, <2>14, DefinerMoves
  <1> QED BY <1>1, <1>2

LEMMA CacheForgets == ASSUME CacheInv, NEW key \in SchemaKeys, SH!Remove(key) PROVE CacheInv'
  <1>0. CacheTypes /\ TablesInv /\ DefinersInv /\ SaversInv /\ SH!FileIsWhole
    BY DEF CacheInv
  <1>1. /\ UNCHANGED <<build, processes, saver, file, tempFiles, marshaled, definer, users>>
        /\ schemas' = [schemas EXCEPT ![key] = None]
    BY DEF SH!Remove, SH!DefinerSame
  <1>2. schemas' \in CacheTables /\ \A k \in SchemaKeys : schemas'[k] \in {None, schemas[k]}
    BY <1>0, <1>1 DEF CacheTypes, CacheTables
  <1>3. CacheTypes' /\ TablesInv'
    BY <1>0, <1>1, <1>2 DEF CacheTypes, TablesInv, Used, OfBuild
  <1>4. DefinersInv' /\ SaversInv' /\ SH!FileIsWhole'
    BY <1>0, <1>1 DEF DefinersInv, SaversInv, SH!FileIsWhole, SH!SchemaForRaw
  <1> QED BY <1>3, <1>4 DEF CacheInv

LEMMA CacheSaves ==
  ASSUME CacheInv, NEW s \in Savers,
         SH!Marshal(s) \/ SH!CreateTemp(s) \/ SH!Write(s) \/ SH!Rename(s)
  PROVE  CacheInv'
  <1>0. CacheTypes /\ TablesInv /\ DefinersInv /\ SaversInv /\ SH!FileIsWhole
    BY DEF CacheInv
  <1>1. UNCHANGED <<build, processes, schemas, definer, users>>
    BY DEF SH!Marshal, SH!CreateTemp, SH!Write, SH!Rename, SH!SaverStep
  <1>2. saver[s] \in Saves /\ tempFiles[s] \in CacheTables \union {None, SH!HalfWritten}
        /\ schemas \in CacheTables
    BY <1>0 DEF CacheTypes
  <1>3. PICK new : SH!SaverStep(s, new) /\ saver' = [saver EXCEPT ![s] = new]
    BY DEF SH!Marshal, SH!CreateTemp, SH!Write, SH!Rename, SH!SaverStep
  <1>4. saver'[s] = new /\ \A t \in Savers : t # s => saver'[t] = saver[t]
    BY <1>0, <1>3 DEF CacheTypes
  <1>5. /\ new \in Saves
        /\ tempFiles' \in [Savers -> CacheTables \union {None, SH!HalfWritten}]
        /\ marshaled \subseteq marshaled' /\ marshaled' \subseteq marshaled \union {schemas}
        /\ new.pc \in {"marshaled", "created", "written"} => new.data \in marshaled'
        /\ new.pc \notin {"created", "written"} => tempFiles'[s] = None
        /\ new.pc = "written" => tempFiles'[s] = new.data
        /\ \A t \in Savers : t # s => tempFiles'[t] = tempFiles[t]
        /\ SH!FileIsWhole'
    <2>1. CASE SH!Marshal(s)
      <3>1. new = [pc |-> "marshaled", data |-> schemas] /\ UNCHANGED <<file, tempFiles>>
        <4>1. saver' = [saver EXCEPT ![s] = [pc |-> "marshaled", data |-> schemas]]
          BY <2>1 DEF SH!Marshal, SH!SaverStep
        <4> QED BY <1>0, <1>4, <4>1, <2>1 DEF CacheTypes, SH!Marshal
      <3>2. marshaled' = marshaled \union {schemas} /\ saver[s].pc = "idle"
        BY <2>1 DEF SH!Marshal
      <3> QED BY <1>0, <1>2, <3>1, <3>2 DEF Saves, CacheTypes, SaversInv, SH!FileIsWhole
    <2>2. CASE SH!CreateTemp(s)
      <3>1. saver[s].pc = "marshaled" /\ UNCHANGED <<file, marshaled>>
        BY <2>2 DEF SH!CreateTemp
      <3>2. \/ /\ saver' = [saver EXCEPT ![s] = [saver[s] EXCEPT !.pc = "created"]]
               /\ tempFiles' = [tempFiles EXCEPT ![s] = SH!HalfWritten]
            \/ saver' = [saver EXCEPT ![s] = SH!Returned] /\ UNCHANGED tempFiles
        BY <2>2 DEF SH!CreateTemp, SH!SaverStep
      <3>3. \/ /\ new = [saver[s] EXCEPT !.pc = "created"]
               /\ tempFiles' = [tempFiles EXCEPT ![s] = SH!HalfWritten]
            \/ new = SH!Returned /\ UNCHANGED tempFiles
        BY <1>0, <1>4, <3>2 DEF CacheTypes
      <3>4. new \in Saves /\ tempFiles' \in [Savers -> CacheTables \union {None, SH!HalfWritten}]
            /\ \/ new.pc = "created" /\ new.data = saver[s].data
               \/ new.pc = "returned" /\ UNCHANGED tempFiles
            /\ \A t \in Savers : t # s => tempFiles'[t] = tempFiles[t]
        BY <1>0, <1>2, <3>3 DEF CacheTypes, Saves, SH!Returned
      <3> QED BY <1>0, <3>1, <3>4 DEF SaversInv, SH!FileIsWhole
    <2>3. CASE SH!Write(s)
      <3>1. saver[s].pc = "created" /\ UNCHANGED <<file, marshaled>>
        BY <2>3 DEF SH!Write
      <3>2. \/ /\ saver' = [saver EXCEPT ![s] = [saver[s] EXCEPT !.pc = "written"]]
               /\ tempFiles' = [tempFiles EXCEPT ![s] = saver[s].data]
            \/ /\ saver' = [saver EXCEPT ![s] = SH!Returned]
               /\ tempFiles' = [tempFiles EXCEPT ![s] = None]
        BY <2>3 DEF SH!Write, SH!SaverStep
      <3>3. \/ /\ new = [saver[s] EXCEPT !.pc = "written"]
               /\ tempFiles' = [tempFiles EXCEPT ![s] = saver[s].data]
            \/ new = SH!Returned /\ tempFiles' = [tempFiles EXCEPT ![s] = None]
        BY <1>0, <1>4, <3>2 DEF CacheTypes
      <3>4. new \in Saves /\ tempFiles' \in [Savers -> CacheTables \union {None, SH!HalfWritten}]
            /\ \/ new.pc = "written" /\ new.data = saver[s].data /\ tempFiles'[s] = saver[s].data
               \/ new.pc = "returned" /\ tempFiles'[s] = None
            /\ \A t \in Savers : t # s => tempFiles'[t] = tempFiles[t]
        BY <1>0, <1>2, <3>3 DEF CacheTypes, Saves, SH!Returned
      <3> QED BY <1>0, <3>1, <3>4 DEF SaversInv, SH!FileIsWhole
    <2>4. CASE SH!Rename(s)
      <3>1. saver[s].pc = "written" /\ UNCHANGED marshaled /\ file' \in {file, tempFiles[s]}
            /\ tempFiles' = [tempFiles EXCEPT ![s] = None]
        BY <2>4 DEF SH!Rename
      <3>2. saver' = [saver EXCEPT ![s] = SH!Returned]
        BY <2>4 DEF SH!Rename, SH!SaverStep
      <3>3. new = SH!Returned
        BY <1>0, <1>4, <3>2 DEF CacheTypes
      <3>4. new \in Saves /\ new.pc = "returned"
        BY <3>3 DEF Saves, SH!Returned
      <3> QED BY <1>0, <3>1, <3>4 DEF CacheTypes, SaversInv, SH!FileIsWhole
    <2> QED BY <2>1, <2>2, <2>3, <2>4
  <1>6. CacheTypes'
    BY <1>0, <1>1, <1>2, <1>3, <1>5 DEF CacheTypes
  <1>7. TablesInv' /\ DefinersInv'
    BY <1>0, <1>1, <1>5 DEF TablesInv, Used, OfBuild, DefinersInv, SH!SchemaForRaw
  <1>8. SaversInv'
    BY <1>0, <1>4, <1>5 DEF SaversInv
  <1> QED BY <1>5, <1>6, <1>7, <1>8 DEF CacheInv

LEMMA CacheRestarts == ASSUME CacheInv, SH!Restart PROVE CacheInv'
  <1>0. CacheTypes /\ TablesInv /\ SH!FileIsWhole
    BY DEF CacheInv
  <1>1. UNCHANGED <<file, marshaled, users>>
    BY DEF SH!Restart
  <1>2. processes' = processes + 1 /\ processes < MaxBuilds /\ build' \in {build, build + 1}
    BY DEF SH!Restart
  <1>3. schemas' = SH!Empty \/ schemas' \in marshaled
    BY <1>0 DEF SH!Restart, SH!FileIsWhole
  <1>4. SH!Empty \in CacheTables /\ \A k \in SchemaKeys : SH!Empty[k] = None
    BY DEF SH!Empty, CacheTables
  <1>5. SH!NoTool \in ToolDefinitions /\ SH!NoSave \in Saves
    BY DEF SH!NoTool, ToolDefinitions, SH!NoSave, Saves
  <1>6. /\ definer' = [d \in Definers |-> SH!NoTool] /\ saver' = [s \in Savers |-> SH!NoSave]
        /\ tempFiles' = [s \in Savers |-> None]
    BY DEF SH!Restart
  <1>7. build' \in Nat /\ processes' \in 1..MaxBuilds /\ build' \in 1..processes'
    BY <1>0, <1>2, SchemaCacheAssumption DEF CacheTypes, SchemaCacheAssumption
  <1>8. CacheTypes'
    BY <1>0, <1>1, <1>3, <1>4, <1>5, <1>6, <1>7 DEF CacheTypes
  <1>9. TablesInv'
    BY <1>0, <1>1, <1>3, <1>4 DEF TablesInv, Used, OfBuild
  <1>10. DefinersInv' /\ SaversInv' /\ SH!FileIsWhole'
    BY <1>0, <1>1, <1>6 DEF DefinersInv, SaversInv, SH!FileIsWhole, SH!NoTool, SH!NoSave
  <1> QED BY <1>8, <1>9, <1>10 DEF CacheInv

LEMMA CacheKept == SH!Spec => []CacheInv
  <1>1. SH!Init => CacheInv
    <2> SUFFICES ASSUME SH!Init PROVE CacheInv
      OBVIOUS
    <2>1. SH!Empty \in CacheTables /\ \A k \in SchemaKeys : SH!Empty[k] = None
      BY DEF SH!Empty, CacheTables
    <2>2. SH!NoTool \in ToolDefinitions /\ SH!NoSave \in Saves
      BY DEF SH!NoTool, ToolDefinitions, SH!NoSave, Saves
    <2>3. CacheTypes
      BY <2>1, <2>2, SchemaCacheAssumption DEF SH!Init, CacheTypes, SchemaCacheAssumption
    <2> QED BY <2>1, <2>3 DEF SH!Init, CacheInv, TablesInv, Used, OfBuild, DefinersInv, SaversInv,
              SH!FileIsWhole, SH!NoTool, SH!NoSave
  <1>2. CacheInv /\ [SH!Next]_SH!vars => CacheInv'
    <2>1. CacheInv /\ UNCHANGED SH!vars => CacheInv'
      BY DEF SH!vars, CacheInv, CacheTypes, TablesInv, Used, OfBuild, DefinersInv, SaversInv,
             SH!FileIsWhole, SH!SchemaForRaw
    <2> QED BY <2>1, CacheDefines, CacheForgets, CacheSaves, CacheRestarts DEF SH!Next
  <1> QED BY <1>1, <1>2, PTL DEF SH!Spec

\* A tool gets the schema of its own type, and the path names a whole cache, whatever
\* crashes and however many save at once (mcp/schema_cache.go).
THEOREM SchemasKept == SH!Spec => []SH!SchemasKept
  <1>1. CacheInv => SH!SchemasKept
    <2> SUFFICES ASSUME CacheInv PROVE SH!SchemasKept
      OBVIOUS
    <2>1. DefinersInv /\ SaversInv /\ SH!FileIsWhole
      BY DEF CacheInv
    <2>2. SH!NothingLeftBehind
      BY <2>1 DEF SaversInv, SH!NothingLeftBehind
    <2>3. ASSUME NEW d \in Definers, NEW tool, tool = definer[d], tool.pc = "defined"
          PROVE  /\ tool.key = NoKey \/ users[tool.key] = {tool.type} => tool.schema.of = tool.type
                 /\ tool.key = NoKey \/ marshaled = {} => tool.schema.build = build
      <3>1. /\ tool.schema.of \in users[tool.key]
            /\ tool.key = NoKey => tool.schema = SH!SchemaForRaw(tool.type)
            /\ marshaled = {} => tool.schema.build = build
        BY <2>1, <2>3 DEF DefinersInv
      <3>2. tool.key = NoKey => tool.schema.of = tool.type /\ tool.schema.build = build
        BY <3>1 DEF SH!SchemaForRaw
      <3> QED BY <3>1, <3>2
    <2>4. SH!ToolsFit
      BY <2>3 DEF SH!ToolsFit
    <2> QED BY <2>1, <2>2, <2>4 DEF SH!SchemasKept
  <1> QED BY <1>1, CacheKept, PTL

LEMMA CacheTyped == SH!Spec => []SH!TypeOK
  <1>1. CacheInv => SH!TypeOK
    <2> SUFFICES ASSUME CacheInv PROVE SH!TypeOK
      OBVIOUS
    <2>1. CacheTypes /\ SH!Schema = CacheSchema
      BY DEF CacheInv, SH!Schema, CacheSchema
    <2>2. build \in 1..MaxBuilds
      <3>1. build \in 1..processes /\ processes \in 1..MaxBuilds /\ MaxBuilds \in Nat
        BY <2>1, SchemaCacheAssumption DEF CacheTypes, SchemaCacheAssumption
      <3> QED BY <3>1
    <2>3. \A d \in Definers : definer[d].schema \in CacheSchema \union {None}
      BY <2>1 DEF CacheTypes, ToolDefinitions
    <2>4. /\ processes \in 1..MaxBuilds /\ schemas \in [SchemaKeys -> CacheSchema \union {None}]
          /\ users \in [SchemaKeys \union {NoKey} -> SUBSET ToolTypes]
      BY <2>1 DEF CacheTypes, CacheTables
    <2> QED BY <2>1, <2>2, <2>3, <2>4 DEF SH!TypeOK
  <1> QED BY <1>1, CacheKept, PTL

-----------------------------------------------------------------------------
(* Validation.                                                             *)
VA == INSTANCE Validation WITH Callers <- ToolCallers, MaxChanges <- MaxRedefinitions

ToolOrNone == VA!Tools \union {None}
ValueOrNone == Values \union {None}

ToolCalls ==
  [pc : {"idle", "input", "compile input", "task", "handler", "output", "compile output",
         "answered", "refused", "error"},
   tool : ToolOrNone, task : BOOLEAN, arguments : ValueOrNone, content : ValueOrNone,
   isError : BOOLEAN]

ValidationTypes ==
  /\ tools \in [server : ToolOrNone, session : ToolOrNone]
  /\ cached \in [VA!Sides -> SUBSET VA!AllSchemas]
  /\ compiles \in [VA!Sides -> [VA!AllSchemas -> Nat]]
  /\ call \in [ToolCallers -> ToolCalls]

\* What may be said of a call on its own.
Rejects(c) ==
  LET s == call[c].tool.input IN s.is = "schema" /\ call[c].arguments \notin s.of
CallJudged(c) ==
  /\ call[c].pc # "idle" => call[c].tool \in VA!Tools
  /\ call[c].pc = "task" => call[c].task
  /\ call[c].pc # "idle" /\ ~call[c].task =>
       /\ call[c].pc \in {"handler", "output", "compile output", "answered"} => ~Rejects(c)
       /\ call[c].pc = "refused" => Rejects(c)
  /\ call[c].pc = "answered" /\ ~call[c].isError /\ call[c].content # None =>
       LET s == call[c].tool.output IN s.is = "schema" => call[c].content \in s.of

Judged == \A c \in ToolCallers : CallJudged(c)

ValidationInv == ValidationTypes /\ Judged /\ VA!CompiledOnce

LEMMA SidesOfTools ==
  ASSUME NEW t \in VA!Tools, NEW side \in VA!Sides
  PROVE  t[side] \in VA!AllSchemas /\ t.input \in VA!AllSchemas /\ t.output \in VA!AllSchemas
  BY DEF VA!Tools, VA!Sides

LEMMA CompilingSides ==
  ASSUME NEW side \in VA!Sides
  PROVE  VA!Compiling[side] = IF side = "input" THEN "compile input" ELSE "compile output"
  <1>1. CASE side = "input"
    BY <1>1 DEF VA!Compiling
  <1>2. CASE side = "output"
    BY <1>2 DEF VA!Compiling
  <1> QED BY <1>1, <1>2 DEF VA!Sides

\* What is found is the schema itself.
LEMMA FoundIsSchema ==
  ASSUME NEW side, NEW schema, VA!Found(side, schema) # {}
  PROVE  /\ (CHOOSE e \in VA!Found(side, schema) : TRUE) = schema
         /\ schema \in cached[side]
  <1> DEFINE found == VA!Found(side, schema)
  <1>1. found \subseteq {schema} /\ found \subseteq cached[side]
    BY DEF VA!Found
  <1> QED BY <1>1

LEMMA JudgeIs ==
  ASSUME NEW c, NEW side, NEW schema
  PROVE  VA!Judge(c, side, schema) \in BOOLEAN
  <1>1. CASE schema.is # "schema"
    BY <1>1 DEF VA!Judge
  <1>2. CASE schema.is = "schema"
    <2> DEFINE v == IF side = "input" THEN call[c].arguments ELSE call[c].content
    <2>1. VA!Judge(c, side, schema) = (v \in schema.of)
      BY <1>2, Zenon DEF VA!Judge
    <2>2. (v \in schema.of) \in BOOLEAN
      OBVIOUS
    <2> QED BY <2>1, <2>2, Zenon
  <1> QED BY <1>1, <1>2

\* A call moves on.
LEMMA CallMoves ==
  ASSUME ValidationTypes, Judged, NEW c \in ToolCallers, NEW new \in ToolCalls,
         VA!Step(c, new), CallJudged(c)'
  PROVE  call' \in [ToolCallers -> ToolCalls] /\ Judged'
  <1>1. call' = [call EXCEPT ![c] = new] /\ call \in [ToolCallers -> ToolCalls]
    BY DEF VA!Step, ValidationTypes
  <1>2. ASSUME NEW d \in ToolCallers, d # c PROVE CallJudged(d)'
    <2>1. call'[d] = call[d] /\ CallJudged(d)
      BY <1>1, <1>2 DEF Judged
    <2> QED BY <2>1 DEF CallJudged, Rejects
  <1> QED BY <1>1, <1>2 DEF Judged

\* The verdict on a value.
LEMMA VerdictFits ==
  ASSUME ValidationTypes, Judged, NEW c \in ToolCallers, NEW side \in VA!Sides,
         call[c].pc \in {side, VA!Compiling[side]}, NEW conforms \in BOOLEAN,
         conforms <=> LET s == call[c].tool[side] IN
                      s.is = "schema" =>
                        (IF side = "input" THEN call[c].arguments ELSE call[c].content) \in s.of,
         VA!Step(c, VA!Validated(c, conforms))
  PROVE  call' \in [ToolCallers -> ToolCalls] /\ Judged'
  <1>1. call[c] \in ToolCalls /\ CallJudged(c)
    BY DEF ValidationTypes, Judged
  <1>2. PICK new : new = VA!Validated(c, conforms)
    OBVIOUS
  <1>3. call'[c] = new
    BY <1>2 DEF VA!Step, ValidationTypes
  <1>4. CASE side = "input"
    <2>1. new = [call[c] EXCEPT !.pc = IF conforms THEN "handler" ELSE "refused"]
      BY <1>2, <1>4 DEF VA!Validated, VA!Compiling, VA!Sides
    <2>2. /\ new \in ToolCalls /\ new.pc = IF conforms THEN "handler" ELSE "refused"
          /\ new.tool = call[c].tool /\ new.task = call[c].task
          /\ new.arguments = call[c].arguments
      BY <1>1, <2>1 DEF ToolCalls
    <2>3. call[c].pc # "idle" /\ call[c].tool.input = call[c].tool[side]
      BY <1>4 DEF VA!Compiling, VA!Sides
    <2>4. CallJudged(c)'
      BY <1>1, <1>3, <1>4, <2>2, <2>3 DEF CallJudged, Rejects
    <2> QED BY <1>2, <2>2, <2>4, CallMoves
  <1>5. CASE side = "output"
    <2>0. call[c].pc \in {"output", "compile output"}
      BY <1>5 DEF VA!Compiling, VA!Sides
    <2>1. new = [call[c] EXCEPT !.pc = "answered", !.isError = ~conforms,
                                !.content = IF conforms THEN @ ELSE None]
      BY <1>2, <2>0 DEF VA!Validated
    <2>2. /\ new \in ToolCalls /\ new.pc = "answered" /\ new.isError = ~conforms
          /\ new.content = IF conforms THEN call[c].content ELSE None
          /\ new.tool = call[c].tool /\ new.task = call[c].task
          /\ new.arguments = call[c].arguments
      BY <1>1, <2>1 DEF ToolCalls, ValueOrNone
    <2>3. call[c].tool.output = call[c].tool[side]
      BY <1>5
    <2>4. CallJudged(c)'
      BY <1>1, <1>3, <1>5, <2>0, <2>2, <2>3 DEF CallJudged, Rejects
    <2> QED BY <1>2, <2>2, <2>4, CallMoves
  <1> QED BY <1>4, <1>5 DEF VA!Sides

LEMMA LooksUp ==
  ASSUME ValidationInv, NEW c \in ToolCallers, NEW side \in VA!Sides, VA!Look(c, side)
  PROVE  ValidationInv'
  <1>0. ValidationTypes /\ Judged /\ VA!CompiledOnce
    BY DEF ValidationInv
  <1> DEFINE schema == call[c].tool[side]
             found == VA!Found(side, schema)
  <1>1. call[c].pc = side /\ UNCHANGED <<cached, compiles, tools>>
    BY DEF VA!Look, VA!ToolsSame
  <1>2. call' \in [ToolCallers -> ToolCalls] /\ Judged'
    <2>1. CASE schema.is = "none"
      <3>1. VA!Step(c, VA!Validated(c, TRUE))
        BY <2>1 DEF VA!Look
      <3> QED BY <1>0, <1>1, <2>1, <3>1, VerdictFits
    <2>2. CASE schema.is # "none" /\ found # {}
      <3>1. (CHOOSE e \in found : TRUE) = schema
        BY <2>2, FoundIsSchema
      <3>2. VA!Step(c, VA!Validated(c, VA!Judge(c, side, schema)))
        BY <2>2, <3>1 DEF VA!Look
      <3>3. VA!Judge(c, side, schema) <=>
              (schema.is = "schema" =>
                 (IF side = "input" THEN call[c].arguments ELSE call[c].content) \in schema.of)
        BY DEF VA!Judge
      <3>4. VA!Judge(c, side, schema) \in BOOLEAN
        BY JudgeIs
      <3> QED BY <1>0, <1>1, <3>2, <3>3, <3>4, VerdictFits
    <2>3. CASE schema.is # "none" /\ found = {}
      <3>1. PICK new : new = [call[c] EXCEPT !.pc = VA!Compiling[side]]
        OBVIOUS
      <3>2. VA!Step(c, new)
        BY <2>3, <3>1 DEF VA!Look
      <3>3. call[c] \in ToolCalls /\ CallJudged(c) /\ call'[c] = new
        BY <1>0, <3>2 DEF ValidationTypes, Judged, VA!Step
      <3>4. VA!Compiling[side] \in {"compile input", "compile output"}
            /\ (side = "input" => VA!Compiling[side] = "compile input")
        BY CompilingSides
      <3>5. /\ new \in ToolCalls /\ new.pc = VA!Compiling[side]
            /\ new.tool = call[c].tool /\ new.task = call[c].task
            /\ new.arguments = call[c].arguments
        BY <3>1, <3>3, <3>4 DEF ToolCalls
      <3>6. CallJudged(c)'
        BY <1>1, <3>3, <3>4, <3>5 DEF CallJudged, Rejects, VA!Sides
      <3> QED BY <1>0, <3>2, <3>5, <3>6, CallMoves
    <2> QED BY <2>1, <2>2, <2>3
  <1> QED BY <1>0, <1>1, <1>2 DEF ValidationInv, ValidationTypes, VA!CompiledOnce

LEMMA Compiles ==
  ASSUME ValidationInv, NEW c \in ToolCallers, NEW side \in VA!Sides, VA!Compile(c, side)
  PROVE  ValidationInv'
  <1>0. ValidationTypes /\ Judged /\ VA!CompiledOnce
    BY DEF ValidationInv
  <1>1. PICK schema : schema = call[c].tool[side]
    OBVIOUS
  <1> DEFINE found == VA!Found(side, schema)
  <1>2. call[c].pc = VA!Compiling[side] /\ UNCHANGED tools
    BY DEF VA!Compile, VA!ToolsSame
  <1>3. schema \in VA!AllSchemas
    <2>1. call[c].pc # "idle"
      BY <1>2, CompilingSides
    <2>2. call[c].tool \in VA!Tools
      BY <1>0, <2>1 DEF Judged, CallJudged
    <2> QED BY <1>1, <2>2, SidesOfTools
  <1>4. call' \in [ToolCallers -> ToolCalls] /\ Judged'
    <2>1. (IF found # {} THEN CHOOSE e \in found : TRUE ELSE schema) = schema
      BY FoundIsSchema
    <2>2. VA!Step(c, VA!Validated(c, VA!Judge(c, side, schema)))
      BY <1>1, <2>1 DEF VA!Compile
    <2>3. VA!Judge(c, side, schema) <=>
            (schema.is = "schema" =>
               (IF side = "input" THEN call[c].arguments ELSE call[c].content) \in schema.of)
      BY DEF VA!Judge
    <2>4. VA!Judge(c, side, schema) \in BOOLEAN
      BY JudgeIs
    <2> QED BY <1>0, <1>1, <1>2, <2>2, <2>3, <2>4, VerdictFits
  <1>5. CASE found # {}
    <2>1. UNCHANGED <<cached, compiles>>
      BY <1>1, <1>5 DEF VA!Compile
    <2> QED BY <1>0, <1>2, <1>4, <2>1 DEF ValidationInv, ValidationTypes, VA!CompiledOnce
  <1>6. CASE found = {}
    <2>1. /\ cached' = [cached EXCEPT ![side] = @ \union {schema}]
          /\ compiles' = [compiles EXCEPT ![side][schema] = @ + 1]
      BY <1>1, <1>6 DEF VA!Compile
    <2>2. schema \notin cached[side]
      BY <1>6 DEF VA!Found
    <2>3. compiles[side][schema] = 0
      BY <1>0, <1>3, <2>2 DEF VA!CompiledOnce
    <2>4. /\ cached' \in [VA!Sides -> SUBSET VA!AllSchemas]
          /\ compiles' \in [VA!Sides -> [VA!AllSchemas -> Nat]]
      BY <1>0, <1>3, <2>1 DEF ValidationTypes
    <2>5. VA!CompiledOnce'
      <3> SUFFICES ASSUME NEW i \in VA!Sides, NEW s \in VA!AllSchemas
                   PROVE  compiles'[i][s] = IF s \in cached'[i] THEN 1 ELSE 0
        BY DEF VA!CompiledOnce
      <3>1. compiles[i][s] = IF s \in cached[i] THEN 1 ELSE 0
        BY <1>0 DEF VA!CompiledOnce
      <3>2. cached'[i] = IF i = side THEN cached[i] \union {schema} ELSE cached[i]
        BY <1>0, <2>1 DEF ValidationTypes
      <3>3. compiles'[i][s] = IF i = side /\ s = schema THEN compiles[i][s] + 1 ELSE compiles[i][s]
        BY <1>0, <1>3, <2>1 DEF ValidationTypes
      <3> QED BY <2>2, <2>3, <3>1, <3>2, <3>3
    <2> QED BY <1>0, <1>2, <1>4, <2>4, <2>5 DEF ValidationInv, ValidationTypes
  <1> QED BY <1>5, <1>6

LEMMA ValidationStep == ValidationInv /\ [VA!Next]_VA!vars => ValidationInv'
  <1> SUFFICES ASSUME ValidationInv, [VA!Next]_VA!vars PROVE ValidationInv'
    OBVIOUS
  <1>0. ValidationTypes /\ Judged /\ VA!CompiledOnce
    BY DEF ValidationInv
  <1>1. ASSUME UNCHANGED <<cached, call, compiles>>,
               tools' \in [server : ToolOrNone, session : ToolOrNone]
        PROVE  ValidationInv'
    BY <1>0, <1>1 DEF ValidationInv, ValidationTypes, Judged, CallJudged, Rejects,
                      VA!CompiledOnce
  <1>2. CASE VA!AddTools \/ VA!SetSessionTools \/ VA!SetTools
    <2>1. UNCHANGED <<cached, call, compiles>>
      BY <1>2 DEF VA!AddTools, VA!SetSessionTools, VA!SetTools, VA!Change
    <2>2. tools' \in [server : ToolOrNone, session : ToolOrNone]
      BY <1>0, <1>2 DEF VA!AddTools, VA!SetSessionTools, VA!SetTools, VA!Change,
                        ValidationTypes, ToolOrNone
    <2> QED BY <1>1, <2>1, <2>2
  <1>3. CASE VA!invalidate
    <2>1. /\ cached' = [side \in VA!Sides |-> {}] /\ UNCHANGED <<tools, call>>
          /\ compiles' = [side \in VA!Sides |-> [s \in VA!AllSchemas |-> 0]]
      BY <1>3 DEF VA!invalidate
    <2> QED BY <1>0, <2>1 DEF ValidationInv, ValidationTypes, Judged, CallJudged, Rejects,
                              VA!CompiledOnce
  <1>4. ASSUME NEW c \in ToolCallers, VA!CallTool(c) PROVE ValidationInv'
    <2>1. PICK v \in Values, task \in BOOLEAN :
            VA!Step(c, [VA!NoCall EXCEPT !.pc = IF task THEN "task" ELSE "input",
                                         !.tool = VA!Lookup(c), !.task = task, !.arguments = v])
      BY <1>4 DEF VA!CallTool
    <2>2. VA!Lookup(c) \in VA!Tools /\ UNCHANGED <<tools, cached, compiles>>
      BY <1>0, <1>4 DEF VA!CallTool, VA!Lookup, VA!ToolsSame, ValidationTypes, ToolOrNone
    <2>3. PICK new : new = [VA!NoCall EXCEPT !.pc = IF task THEN "task" ELSE "input",
                                      !.tool = VA!Lookup(c), !.task = task, !.arguments = v]
      OBVIOUS
    <2>4. /\ new \in ToolCalls /\ new.tool \in VA!Tools /\ new.task = task
          /\ new.pc = IF task THEN "task" ELSE "input"
      BY <2>2, <2>3 DEF VA!NoCall, ToolCalls, ToolOrNone, ValueOrNone
    <2>5. CallJudged(c)'
      BY <1>0, <2>1, <2>3, <2>4 DEF CallJudged, VA!Step, ValidationTypes
    <2> QED BY <1>0, <2>1, <2>2, <2>3, <2>4, <2>5, CallMoves
            DEF ValidationInv, ValidationTypes, VA!CompiledOnce
  <1>5. ASSUME NEW c \in ToolCallers, VA!StartTask(c) PROVE ValidationInv'
    <2>0. call[c] \in ToolCalls /\ CallJudged(c) /\ call[c].pc = "task"
      BY <1>0, <1>5 DEF VA!StartTask, ValidationTypes, Judged
    <2>1. UNCHANGED <<tools, cached, compiles>>
      BY <1>5 DEF VA!StartTask, VA!ToolsSame
    <2>2. PICK new : new = IF VA!Lookup(c) = None THEN [call[c] EXCEPT !.pc = "error"]
                           ELSE [call[c] EXCEPT !.pc = "handler", !.tool = VA!Lookup(c)]
      OBVIOUS
    <2>3. VA!Lookup(c) \in ToolOrNone
      BY <1>0 DEF VA!Lookup, ValidationTypes
    <2>4. /\ new \in ToolCalls /\ new.tool \in VA!Tools /\ new.task
          /\ new.pc \in {"error", "handler"}
      BY <2>0, <2>2, <2>3 DEF ToolCalls, ToolOrNone, CallJudged
    <2>5. VA!Step(c, new)
      BY <1>5, <2>2 DEF VA!StartTask
    <2>6. CallJudged(c)'
      BY <1>0, <2>4, <2>5 DEF CallJudged, VA!Step, ValidationTypes
    <2> QED BY <1>0, <2>1, <2>4, <2>5, <2>6, CallMoves
            DEF ValidationInv, ValidationTypes, VA!CompiledOnce
  <1>6. ASSUME NEW c \in ToolCallers, VA!Handler(c) PROVE ValidationInv'
    <2>0. call[c] \in ToolCalls /\ CallJudged(c) /\ call[c].pc = "handler"
      BY <1>0, <1>6 DEF VA!Handler, ValidationTypes, Judged
    <2>1. UNCHANGED <<tools, cached, compiles>>
      BY <1>6 DEF VA!Handler, VA!ToolsSame
    <2>2. PICK v \in ValueOrNone, e \in BOOLEAN :
            VA!Step(c, [call[c] EXCEPT !.pc = IF e \/ v = None THEN "answered" ELSE "output",
                                       !.content = v, !.isError = e])
      BY <1>6 DEF VA!Handler, ValueOrNone
    <2>3. PICK new : new = [call[c] EXCEPT !.pc = IF e \/ v = None THEN "answered" ELSE "output",
                                           !.content = v, !.isError = e]
      OBVIOUS
    <2>4. /\ new \in ToolCalls /\ new.tool = call[c].tool /\ new.task = call[c].task
          /\ new.arguments = call[c].arguments /\ new.content = v /\ new.isError = e
          /\ new.pc = IF e \/ v = None THEN "answered" ELSE "output"
      BY <2>0, <2>3 DEF ToolCalls
    <2>5. call'[c] = new
      BY <1>0, <2>2, <2>3 DEF VA!Step, ValidationTypes
    <2>6. CallJudged(c)'
      BY <2>0, <2>4, <2>5 DEF CallJudged, Rejects
    <2> QED BY <1>0, <2>1, <2>2, <2>3, <2>4, <2>6, CallMoves
            DEF ValidationInv, ValidationTypes, VA!CompiledOnce
  <1>7. CASE UNCHANGED VA!vars
    BY <1>0, <1>1, <1>7 DEF VA!vars, ValidationTypes
  <1> QED BY <1>2, <1>3, <1>4, <1>5, <1>6, <1>7, LooksUp, Compiles DEF VA!Next

LEMMA ValidationKept == VA!Spec => []ValidationInv
  <1>1. VA!Init => ValidationInv
    <2> SUFFICES ASSUME VA!Init PROVE ValidationInv
      OBVIOUS
    <2>1. VA!NoCall \in ToolCalls /\ VA!NoCall.pc = "idle"
      BY DEF VA!NoCall, ToolCalls, ToolOrNone, ValueOrNone
    <2>2. call = [c \in ToolCallers |-> VA!NoCall]
      BY DEF VA!Init
    <2>3. Judged
      BY <2>1, <2>2 DEF Judged, CallJudged
    <2>4. ValidationTypes
      BY <2>1, <2>2 DEF VA!Init, ValidationTypes, ToolOrNone
    <2>5. VA!CompiledOnce
      BY DEF VA!Init, VA!CompiledOnce
    <2> QED BY <2>3, <2>4, <2>5 DEF ValidationInv
  <1> QED BY <1>1, ValidationStep, PTL DEF VA!Spec

\* A handler gets arguments that fit its own schema, a client content that fits the
\* schema of the definition it comes from, and each schema is compiled once until the
\* cache is emptied (input_validation.go, output_validation.go).
THEOREM SchemasApply == VA!Spec => []VA!SchemasApply
  <1>1. ValidationInv => VA!SchemasApply
    BY DEF ValidationInv, Judged, CallJudged, Rejects, VA!SchemasApply, VA!HandlersGetValid,
           VA!AnswersConform
  <1> QED BY <1>1, ValidationKept, PTL

LEMMA ValidationTyped == VA!Spec => []VA!TypeOK
  <1>1. ValidationInv => VA!TypeOK
    BY DEF ValidationInv, ValidationTypes, ToolOrNone, ToolCalls, VA!TypeOK
  <1> QED BY <1>1, ValidationKept, PTL

-----------------------------------------------------------------------------
(* InProcess.                                                              *)
IP == INSTANCE InProcess

\* The types, a call of Start and one of Close being at steps of their own.
InProcessTypes ==
  /\ closed \in BOOLEAN /\ started \in BOOLEAN /\ starting \in BOOLEAN
  /\ session \in BOOLEAN /\ registered \in BOOLEAN /\ done \in BOOLEAN
  /\ hooks = IF registered THEN 1 ELSE 0
  /\ forwarders \in Nat
  /\ call \in [Starters \union Closers ->
                 {"idle", "registering", "registered", "failed", "unregistering",
                  "forwarding", "closing", "closing nothing", "over"}]
  /\ result \in [Starters -> {"none", "ok", "closed", "error"}]

\* One call of Start at a time is at work, until the session is published.
InStart(c) == c \in Starters /\ call[c] \in {"registering", "registered", "failed"}
OneStart ==
  /\ session = started
  /\ \A c \in Starters : InStart(c) => starting /\ ~started
  /\ \A c, d \in Starters : InStart(c) /\ InStart(d) => c = d

\* A session the server has is one that a call will unregister, or one that is
\* published and that a Close will find or has found.
WillUnregister(c) ==
  \/ c \in Starters /\ call[c] \in {"registered", "unregistering"}
  \/ c \in Closers /\ session /\ call[c] \in {"closing", "unregistering"}
LookedFor ==
  registered => (session /\ ~closed) \/ \E c \in Starters \union Closers : WillUnregister(c)

\* The session published gets one forwarder.
OneForwarder ==
  /\ forwarders <= 1
  /\ ~session => forwarders = 0 /\ \A c \in Starters : call[c] # "forwarding"
  /\ \A c \in Starters : call[c] = "forwarding" =>
       forwarders = 0 /\ \A d \in Starters : call[d] = "forwarding" => d = c

InProcessInv == InProcessTypes /\ OneStart /\ LookedFor /\ OneForwarder

LEMMA InProcessStep == InProcessInv /\ [IP!Next]_IP!vars => InProcessInv'
  <1> SUFFICES ASSUME InProcessInv, [IP!Next]_IP!vars PROVE InProcessInv'
    OBVIOUS
  <1>0. InProcessTypes /\ OneStart /\ LookedFor /\ OneForwarder
    BY DEF InProcessInv
  <1>a. Starters \intersect Closers = {}
    BY TransportsAssumption DEF TransportsAssumption
  <1> USE DEF InProcessTypes
  <1>1. ASSUME NEW c \in Starters, IP!Start(c) \/ IP!GivesUp(c) PROVE InProcessInv'
    <2>1. UNCHANGED <<closed, started, session, registered, hooks, done, forwarders>>
      BY <1>1 DEF IP!Start, IP!GivesUp
    <2>2. /\ call[c] = "idle"
          /\ call' = [call EXCEPT ![c] = call'[c]]
          /\ result' \in [Starters -> {"none", "ok", "closed", "error"}]
          /\ \/ call'[c] = "over" /\ UNCHANGED starting
             \/ /\ call'[c] = "registering" /\ starting' = TRUE
                /\ ~started /\ ~closed /\ ~starting
      BY <1>0, <1>1 DEF IP!Start, IP!GivesUp, IP!Returns
    <2>3. InProcessTypes'
      BY <2>1, <2>2, <1>0
    <2>4. OneStart'
      BY <2>1, <2>2, <1>0 DEF OneStart, InStart
    <2>5. LookedFor'
      BY <2>1, <2>2, <1>0 DEF LookedFor, WillUnregister
    <2>6. OneForwarder'
      BY <2>1, <2>2, <1>0 DEF OneForwarder
    <2> QED BY <2>3, <2>4, <2>5, <2>6 DEF InProcessInv
  <1>2. ASSUME NEW c \in Starters, IP!RegisterSession(c) PROVE InProcessInv'
    <2>1. UNCHANGED <<closed, started, starting, session, done, forwarders, result>>
      BY <1>2 DEF IP!RegisterSession
    <2>h. hooks' = 1
      <3>1. hooks' = IF registered THEN hooks ELSE hooks + 1
        BY <1>2 DEF IP!RegisterSession
      <3>2. hooks = IF registered THEN 1 ELSE 0
        BY <1>0
      <3> HIDE DEF InProcessTypes
      <3> QED BY <3>1, <3>2
    <2>2. /\ call[c] = "registering" /\ registered' = TRUE /\ hooks' = 1
          /\ call' = [call EXCEPT ![c] = IF registered THEN "failed" ELSE "registered"]
      BY <1>2, <2>h DEF IP!RegisterSession
    <2>3. InProcessTypes'
      BY <2>1, <2>2, <1>0
    <2>4. OneStart'
      BY <2>1, <2>2, <1>0 DEF OneStart, InStart
    <2>5. LookedFor'
      <3>1. CASE ~registered
        BY <2>2, <3>1, <1>0 DEF LookedFor, WillUnregister
      <3>2. CASE registered
        <4>1. ~session
          BY <2>2, <1>0 DEF OneStart, InStart
        <4>2. PICK d \in Starters : call[d] \in {"registered", "unregistering"}
          BY <3>2, <4>1, <1>0 DEF LookedFor, WillUnregister
        <4> QED BY <2>2, <4>2, <1>0 DEF LookedFor, WillUnregister
      <3> QED BY <3>1, <3>2
    <2>6. OneForwarder'
      BY <2>1, <2>2, <1>0 DEF OneForwarder
    <2> QED BY <2>3, <2>4, <2>5, <2>6 DEF InProcessInv
  <1>3. ASSUME NEW c \in Starters, IP!PublishSession(c) PROVE InProcessInv'
    <2>1. /\ UNCHANGED <<closed, registered, hooks, done, forwarders>> /\ starting' = FALSE
          /\ call[c] \in {"registered", "failed"} /\ InStart(c)
      BY <1>3 DEF IP!PublishSession, InStart
    <2>2. /\ result' \in [Starters -> {"none", "ok", "closed", "error"}]
          /\ \/ /\ call[c] = "failed" /\ call' = [call EXCEPT ![c] = "over"]
                /\ UNCHANGED <<session, started>>
             \/ /\ call[c] = "registered" /\ closed
                /\ call' = [call EXCEPT ![c] = "unregistering"]
                /\ UNCHANGED <<session, started>>
             \/ /\ call[c] = "registered" /\ ~closed
                /\ call' = [call EXCEPT ![c] = "forwarding"]
                /\ session' = TRUE /\ started' = TRUE
      BY <1>0, <1>3 DEF IP!PublishSession, IP!Returns
    <2>3. InProcessTypes'
      BY <2>1, <2>2, <1>0
    <2>4. \A d \in Starters : ~InStart(d)'
      BY <2>1, <2>2, <1>0 DEF OneStart, InStart
    <2>5. OneStart'
      BY <2>2, <2>4, <1>0 DEF OneStart
    <2>6. LookedFor'
      BY <2>1, <2>2, <1>0 DEF LookedFor, WillUnregister
    <2>7. ~session
      BY <2>1, <1>0 DEF OneStart
    <2>8. OneForwarder'
      BY <2>1, <2>2, <2>7, <1>0 DEF OneForwarder
    <2> QED BY <2>3, <2>5, <2>6, <2>8 DEF InProcessInv
  <1>4. ASSUME NEW c \in Starters, IP!Forward(c) PROVE InProcessInv'
    <2>1. /\ UNCHANGED <<closed, started, starting, session, registered, hooks, done>>
          /\ call[c] = "forwarding" /\ call' = [call EXCEPT ![c] = "over"]
          /\ result' \in [Starters -> {"none", "ok", "closed", "error"}]
      BY <1>0, <1>4 DEF IP!Forward, IP!Returns
    <2>f. forwarders' = 1
      <3>1. forwarders = 0
        BY <2>1, <1>0 DEF OneForwarder
      <3>2. forwarders' = forwarders + 1
        BY <1>4 DEF IP!Forward
      <3> HIDE DEF InProcessTypes
      <3> QED BY <3>1, <3>2
    <2>2. InProcessTypes'
      BY <2>1, <2>f, <1>0
    <2>3. OneStart' /\ LookedFor'
      BY <2>1, <1>0 DEF OneStart, InStart, LookedFor, WillUnregister
    <2>4. session /\ \A d \in Starters : call'[d] # "forwarding"
      BY <2>1, <1>0 DEF OneForwarder
    <2>5. OneForwarder'
      BY <2>1, <2>4, <2>f DEF OneForwarder
    <2> QED BY <2>2, <2>3, <2>5 DEF InProcessInv
  <1>5. ASSUME NEW c, IP!StartUnregisters(c) \/ IP!CloseUnregisters(c) PROVE InProcessInv'
    <2>1. /\ UNCHANGED <<closed, started, starting, session, done, forwarders>>
          /\ c \in Starters \union Closers /\ call[c] = "unregistering"
          /\ call' = [call EXCEPT ![c] = "over"] /\ registered' = FALSE
          /\ hooks' = IF registered THEN hooks - 1 ELSE hooks
          /\ result' = result \/ \E x \in {"closed"} : result' = [result EXCEPT ![c] = x]
      BY <1>5 DEF IP!StartUnregisters, IP!CloseUnregisters, IP!Returns, IP!UnregisterSession
    <2>h. hooks' = 0
      <3>2. hooks = IF registered THEN 1 ELSE 0
        BY <1>0
      <3> HIDE DEF InProcessTypes
      <3> QED BY <2>1, <3>2
    <2>r. result' \in [Starters -> {"none", "ok", "closed", "error"}]
      BY <2>1, <1>0
    <2>2. InProcessTypes'
      BY <2>1, <2>h, <2>r, <1>0
    <2>3. OneStart' /\ LookedFor'
      BY <2>1, <1>0 DEF OneStart, InStart, LookedFor
    <2>4. OneForwarder'
      BY <2>1, <1>0 DEF OneForwarder
    <2> QED BY <2>2, <2>3, <2>4 DEF InProcessInv
  <1>6. ASSUME NEW c \in Closers, IP!Close(c) \/ IP!CloseDone(c) PROVE InProcessInv'
    <2>1. /\ UNCHANGED <<started, starting, session, registered, hooks, forwarders, result>>
          /\ done' \in BOOLEAN
          /\ \/ /\ call[c] = "idle" /\ closed' = TRUE
                /\ call' = [call EXCEPT ![c] = IF session THEN "closing" ELSE "closing nothing"]
             \/ /\ call[c] \in {"closing", "closing nothing"} /\ closed' = closed
                /\ call' = [call EXCEPT ![c] = IF call[c] = "closing" THEN "unregistering"
                                               ELSE "over"]
      BY <1>0, <1>6 DEF IP!Close, IP!CloseDone
    <2>2. InProcessTypes'
      BY <2>1, <1>0
    <2>3. \A d \in Starters : call'[d] = call[d]
      BY <2>1, <1>0, <1>a
    <2>4. OneStart' /\ OneForwarder'
      BY <2>1, <2>3, <1>0 DEF OneStart, InStart, OneForwarder
    <2>5. LookedFor'
      BY <2>1, <2>3, <1>0, <1>a DEF LookedFor, WillUnregister
    <2> QED BY <2>2, <2>4, <2>5 DEF InProcessInv
  <1>7. CASE IP!ForwarderEnds
    <2>1. UNCHANGED <<closed, started, starting, session, registered, hooks, done, call, result>>
      BY <1>7 DEF IP!ForwarderEnds
    <2>3. forwarders > 0 /\ forwarders' = forwarders - 1
      BY <1>7 DEF IP!ForwarderEnds
    <2>4. forwarders \in Nat /\ forwarders # 0
      <3>1. forwarders \in Nat
        BY <1>0
      <3> HIDE DEF InProcessTypes
      <3> QED BY <3>1, <2>3
    <2>2. session /\ forwarders <= 1
      BY <2>4, <1>0 DEF OneForwarder
    <2>5. forwarders' = 0
      <3> HIDE DEF InProcessTypes
      <3> QED BY <2>2, <2>3, <2>4
    <2>6. \A d \in Starters : call[d] # "forwarding"
      BY <2>4, <1>0 DEF OneForwarder
    <2>7. InProcessTypes'
      BY <2>1, <2>5, <1>0
    <2>8. OneStart' /\ LookedFor'
      BY <2>1, <1>0 DEF OneStart, InStart, LookedFor, WillUnregister
    <2>9. OneForwarder'
      BY <2>1, <2>2, <2>5, <2>6 DEF OneForwarder
    <2> QED BY <2>7, <2>8, <2>9 DEF InProcessInv
  <1>8. CASE UNCHANGED IP!vars
    BY <1>8, <1>0 DEF IP!vars, InProcessInv, OneStart, InStart, LookedFor, WillUnregister,
                      OneForwarder
  <1> QED BY <1>1, <1>2, <1>3, <1>4, <1>5, <1>6, <1>7, <1>8
          DEF IP!Next, IP!Starting, IP!Closing

LEMMA InProcessInvariant == IP!Spec => []InProcessInv
  <1>1. IP!Init => InProcessInv
    <2> SUFFICES ASSUME IP!Init PROVE InProcessInv
      OBVIOUS
    <2>1. InProcessTypes
      BY DEF IP!Init, InProcessTypes
    <2>2. \A c \in Starters : call[c] = "idle"
      BY DEF IP!Init
    <2>3. OneStart /\ LookedFor
      BY <2>2 DEF IP!Init, OneStart, InStart, LookedFor
    <2>4. OneForwarder
      BY <2>2 DEF IP!Init, OneForwarder
    <2> QED BY <2>1, <2>3, <2>4 DEF InProcessInv
  <1> QED BY <1>1, InProcessStep, PTL DEF IP!Spec

\* However Close races Start, even from a hook of the registration, the server
\* is left without a session of the transport, and hooks come in pairs.
THEOREM InProcessLetsGo == IP!Spec => []IP!LetsGo
  <1>1. InProcessInv => IP!LetsGo
    <2> SUFFICES ASSUME InProcessInv PROVE IP!LetsGo
      OBVIOUS
    <2>1. ASSUME closed, IP!Over PROVE ~registered
      BY <2>1, TransportsAssumption
         DEF TransportsAssumption, InProcessInv, InProcessTypes, LookedFor, WillUnregister, IP!Over
    <2>2. forwarders > 0 => session
      <3>1. ~session => forwarders = 0
        BY DEF InProcessInv, OneForwarder
      <3> QED BY <3>1
    <2> QED BY <2>1, <2>2 DEF InProcessInv, InProcessTypes, OneForwarder, IP!LetsGo
  <1> QED BY <1>1, InProcessInvariant, PTL

LEMMA InProcessTyped == IP!Spec => []IP!TypeOK
  <1>1. InProcessInv => IP!TypeOK
    <2> SUFFICES ASSUME InProcessInv PROVE IP!TypeOK
      OBVIOUS
    <2>1. InProcessTypes
      BY DEF InProcessInv
    <2>2. hooks \in Int
      <3>1. hooks = 1 \/ hooks = 0
        BY <2>1 DEF InProcessTypes
      <3> QED BY <3>1
    <2> QED BY <2>1, <2>2 DEF InProcessTypes, IP!TypeOK
  <1> QED BY <1>1, InProcessInvariant, PTL

-----------------------------------------------------------------------------
(* StdioClient.                                                            *)
SC == INSTANCE StdioClient

\* One call of Start at a time is at work, before there is a reader; what it
\* publishes is not there before.
Doing(what) == \E c \in SC!Calls : call[c] \in what
AtStart(c) == call[c] \in {"spawning", "publishing", "published"}
OneStarter ==
  /\ \A c, d \in SC!Calls : AtStart(c) /\ AtStart(d) => c = d
  /\ \A c \in SC!Calls : AtStart(c) => started /\ reader = "none"
  /\ \A c \in SC!Calls : call[c] \in {"spawning", "publishing"} => isCommand /\ ~resourcesReady
  /\ reader # "none" => started
  /\ isCommand /\ ~started => ~resourcesReady
  /\ ~resourcesReady => cleanup = "none" /\ ~Doing({"cleaning"})

\* A child that is not waited for yet is about to be published, or it is
\* published and not cleaned up, which a Close will do, or given up.
ChildHeld ==
  /\ isCommand /\ child \in {"running", "dead"} =>
       (resourcesReady /\ cleanup # "done") \/ Doing({"publishing", "gaveUp"})
  /\ cleanup = "running" => Doing({"cleaning"})
  /\ closeCalled => done
  /\ closeCalled /\ resourcesReady /\ cleanup = "none" => Doing({"closing", "published"})

\* The entry of a call that is answered is the reader's to delete, and an answer
\* is to a request that was sent.
EntriesKept ==
  /\ \A r \in responses :
       request[r] \in {"registered", "waiting", "leaving"} \/ r \in current
  /\ \A r \in responses : r \in answer => r \in current
  /\ reader \notin {"answering", "deleting"} => current = {}
  /\ \A r \in stdin \union answer \union current : request[r] # "idle"
  /\ \A i \in DOMAIN stdout : request[stdout[i]] # "idle"

\* Unless Close is called, done means that the reader has read everything.
LeftUnanswered ==
  ~closeCalled =>
    /\ done => reader = "over"
    /\ \A r \in Requests : request[r] \in {"leaving", "closed"} => done /\ r \notin answer

StdioInv == SC!TypeOK /\ OneStarter /\ ChildHeld /\ EntriesKept /\ LeftUnanswered

LEMMA StdioTypes == SC!TypeOK /\ [SC!Next]_SC!vars => SC!TypeOK'
  <1> SUFFICES ASSUME SC!TypeOK, [SC!Next]_SC!vars PROVE SC!TypeOK'
    OBVIOUS
  <1> USE DEF SC!procVars, SC!requestVars, SC!readerVars, SC!Calls, SC!TypeOK
  <1>1. ASSUME NEW c \in Starters, SC!Start(c) PROVE SC!TypeOK'
    <2>1. /\ \E at \in {"spawning", "published", "over"} : call' = [call EXCEPT ![c] = at]
          /\ started' \in BOOLEAN
          /\ UNCHANGED <<isCommand, done, resourcesReady, child, cleanup, closeCalled,
                         request, responses, answer, stdin, stdout, reader, current>>
      BY <1>1 DEF SC!Start
    <2> QED BY <2>1
  <1>2. ASSUME NEW c \in Starters, SC!SpawnFails(c) PROVE SC!TypeOK'
    BY <1>2 DEF SC!SpawnFails
  <1>3. ASSUME NEW c \in Starters, SC!Spawn(c) PROVE SC!TypeOK'
    BY <1>3 DEF SC!Spawn
  <1>4. ASSUME NEW c \in Starters, SC!Publish(c) PROVE SC!TypeOK'
    BY <1>4 DEF SC!Publish
  <1>5. ASSUME NEW c \in Starters, SC!StartReader(c) PROVE SC!TypeOK'
    BY <1>5 DEF SC!StartReader
  <1>6. ASSUME NEW c \in Closers, SC!Close(c) PROVE SC!TypeOK'
    BY <1>6 DEF SC!Close
  <1>7. ASSUME NEW c \in SC!Calls, SC!Cleanup(c) PROVE SC!TypeOK'
    BY <1>7 DEF SC!Cleanup
  <1>8. ASSUME NEW c \in SC!Calls, SC!CleanedUp(c) \/ SC!GivesUp(c) PROVE SC!TypeOK'
    BY <1>8 DEF SC!CleanedUp, SC!GivesUp
  <1>9. ASSUME NEW r \in Requests, SC!SendRequest(r) PROVE SC!TypeOK'
    BY <1>9 DEF SC!SendRequest
  <1>10. ASSUME NEW r \in Requests, SC!Write(r) PROVE SC!TypeOK'
    BY <1>10 DEF SC!Write
  <1>11. ASSUME NEW r \in Requests, SC!Answered(r) PROVE SC!TypeOK'
    BY <1>11 DEF SC!Answered
  <1>12. ASSUME NEW r \in Requests, SC!Cancelled(r) PROVE SC!TypeOK'
    BY <1>12 DEF SC!Cancelled
  <1>13. ASSUME NEW r \in Requests, SC!SeesDone(r) PROVE SC!TypeOK'
    BY <1>13 DEF SC!SeesDone
  <1>14. ASSUME NEW r \in Requests, SC!Leaves(r) PROVE SC!TypeOK'
    BY <1>14 DEF SC!Leaves
  <1>15. CASE SC!ServerAnswers
    BY <1>15 DEF SC!ServerAnswers
  <1>16. CASE SC!ServerDies \/ SC!WaitReturns
    BY <1>16 DEF SC!ServerDies, SC!WaitReturns
  <1>17. CASE SC!ReaderChecks
    BY <1>17 DEF SC!ReaderChecks
  <1>18. CASE SC!ReaderReads
    BY <1>18 DEF SC!ReaderReads
  <1>19. CASE SC!ReaderAnswers
    BY <1>19 DEF SC!ReaderAnswers
  <1>20. CASE SC!ReaderDeletes
    BY <1>20 DEF SC!ReaderDeletes
  <1>21. CASE SC!ReaderEnds
    BY <1>21 DEF SC!ReaderEnds
  <1>22. CASE UNCHANGED SC!vars
    BY <1>22 DEF SC!vars
          <1> QED BY <1>1, <1>2, <1>3, <1>4, <1>5, <1>6, <1>7, <1>8, <1>9, <1>10, <1>11,
             <1>12, <1>13, <1>14, <1>15, <1>16, <1>17, <1>18, <1>19, <1>20, <1>21, <1>22
          DEF SC!Next, SC!Starting, SC!Requesting, SC!Reading

LEMMA OneStarterStep ==
  SC!TypeOK /\ OneStarter /\ [SC!Next]_SC!vars => OneStarter'
  <1> SUFFICES ASSUME SC!TypeOK, OneStarter, [SC!Next]_SC!vars PROVE OneStarter'
    OBVIOUS
  <1> USE DEF SC!procVars, SC!requestVars, SC!readerVars, SC!Calls, SC!TypeOK, OneStarter,
              AtStart, Doing
  <1>1. ASSUME NEW c \in Starters, SC!Starting(c)
       PROVE  OneStarter'
    BY <1>1 DEF SC!Starting, SC!Start, SC!SpawnFails, SC!Spawn, SC!Publish, SC!StartReader
  <1>2. ASSUME NEW c \in SC!Calls,
              (c \in Closers /\ SC!Close(c)) \/ SC!Cleanup(c) \/ SC!CleanedUp(c)
                \/ SC!GivesUp(c)
       PROVE  OneStarter'
    BY <1>2 DEF SC!Close, SC!Cleanup, SC!CleanedUp, SC!GivesUp
  <1>3. ASSUME NEW r \in Requests, SC!Requesting(r)
       PROVE  OneStarter'
    BY <1>3 DEF SC!Requesting, SC!SendRequest, SC!Write, SC!Answered, SC!Cancelled,
                SC!SeesDone, SC!Leaves
  <1>4. ASSUME SC!ServerAnswers \/ SC!ServerDies \/ SC!WaitReturns
       PROVE  OneStarter'
    BY <1>4 DEF SC!ServerAnswers, SC!ServerDies, SC!WaitReturns
  <1>5. ASSUME SC!Reading
       PROVE  OneStarter'
    BY <1>5 DEF SC!Reading, SC!ReaderChecks, SC!ReaderReads, SC!ReaderAnswers,
                SC!ReaderDeletes, SC!ReaderEnds
  <1>6. CASE UNCHANGED SC!vars
    BY <1>6 DEF SC!vars
  <1> QED BY <1>1, <1>2, <1>3, <1>4, <1>5, <1>6 DEF SC!Next

LEMMA ChildHeldStep ==
  SC!TypeOK /\ OneStarter /\ ChildHeld /\ [SC!Next]_SC!vars => ChildHeld'
  <1> SUFFICES ASSUME SC!TypeOK, OneStarter, ChildHeld, [SC!Next]_SC!vars PROVE ChildHeld'
    OBVIOUS
  <1> USE DEF SC!procVars, SC!requestVars, SC!readerVars, SC!Calls, SC!TypeOK, OneStarter,
              AtStart, ChildHeld, Doing
  <1>1. ASSUME NEW c \in Starters, SC!Starting(c)
       PROVE  ChildHeld'
    BY <1>1 DEF SC!Starting, SC!Start, SC!SpawnFails, SC!Spawn, SC!Publish, SC!StartReader
  <1>2. ASSUME NEW c \in SC!Calls,
              (c \in Closers /\ SC!Close(c)) \/ SC!Cleanup(c) \/ SC!CleanedUp(c)
                \/ SC!GivesUp(c)
       PROVE  ChildHeld'
    BY <1>2 DEF SC!Close, SC!Cleanup, SC!CleanedUp, SC!GivesUp
  <1>3. ASSUME NEW r \in Requests, SC!Requesting(r)
       PROVE  ChildHeld'
    BY <1>3 DEF SC!Requesting, SC!SendRequest, SC!Write, SC!Answered, SC!Cancelled,
                SC!SeesDone, SC!Leaves
  <1>4. ASSUME SC!ServerAnswers \/ SC!ServerDies \/ SC!WaitReturns
       PROVE  ChildHeld'
    BY <1>4 DEF SC!ServerAnswers, SC!ServerDies, SC!WaitReturns
  <1>5. ASSUME SC!Reading
       PROVE  ChildHeld'
    BY <1>5 DEF SC!Reading, SC!ReaderChecks, SC!ReaderReads, SC!ReaderAnswers,
                SC!ReaderDeletes, SC!ReaderEnds
  <1>6. CASE UNCHANGED SC!vars
    BY <1>6 DEF SC!vars
  <1> QED BY <1>1, <1>2, <1>3, <1>4, <1>5, <1>6 DEF SC!Next

LEMMA EntriesKeptStep ==
  SC!TypeOK /\ OneStarter /\ EntriesKept /\ [SC!Next]_SC!vars => EntriesKept'
  <1> SUFFICES ASSUME SC!TypeOK, OneStarter, EntriesKept, [SC!Next]_SC!vars PROVE EntriesKept'
    OBVIOUS
  <1> USE DEF SC!procVars, SC!requestVars, SC!readerVars, SC!Calls, SC!TypeOK, OneStarter,
              AtStart, EntriesKept
  <1>1. ASSUME NEW c \in Starters, SC!Starting(c)
       PROVE  EntriesKept'
    BY <1>1 DEF SC!Starting, SC!Start, SC!SpawnFails, SC!Spawn, SC!Publish, SC!StartReader
  <1>2. ASSUME NEW c \in SC!Calls,
              (c \in Closers /\ SC!Close(c)) \/ SC!Cleanup(c) \/ SC!CleanedUp(c)
                \/ SC!GivesUp(c)
       PROVE  EntriesKept'
    BY <1>2 DEF SC!Close, SC!Cleanup, SC!CleanedUp, SC!GivesUp
  <1>3. ASSUME NEW r \in Requests, SC!Requesting(r)
       PROVE  EntriesKept'
    BY <1>3 DEF SC!Requesting, SC!SendRequest, SC!Write, SC!Answered, SC!Cancelled,
                SC!SeesDone, SC!Leaves
  <1>4. ASSUME SC!ServerAnswers \/ SC!ServerDies \/ SC!WaitReturns
       PROVE  EntriesKept'
    BY <1>4 DEF SC!ServerAnswers, SC!ServerDies, SC!WaitReturns
  <1>5. ASSUME SC!Reading
       PROVE  EntriesKept'
    BY <1>5 DEF SC!Reading, SC!ReaderChecks, SC!ReaderReads, SC!ReaderAnswers,
                SC!ReaderDeletes, SC!ReaderEnds
  <1>6. CASE UNCHANGED SC!vars
    BY <1>6 DEF SC!vars
  <1> QED BY <1>1, <1>2, <1>3, <1>4, <1>5, <1>6 DEF SC!Next

LEMMA LeftUnansweredStep ==
  SC!TypeOK /\ EntriesKept /\ LeftUnanswered /\ [SC!Next]_SC!vars => LeftUnanswered'
  <1> SUFFICES ASSUME SC!TypeOK, EntriesKept, LeftUnanswered, [SC!Next]_SC!vars
               PROVE  LeftUnanswered'
    OBVIOUS
  <1> USE DEF SC!procVars, SC!requestVars, SC!readerVars, SC!Calls, SC!TypeOK, EntriesKept,
              LeftUnanswered
  <1>1. ASSUME NEW c \in Starters, SC!Starting(c)
       PROVE  LeftUnanswered'
    BY <1>1 DEF SC!Starting, SC!Start, SC!SpawnFails, SC!Spawn, SC!Publish, SC!StartReader
  <1>2. ASSUME NEW c \in SC!Calls,
              (c \in Closers /\ SC!Close(c)) \/ SC!Cleanup(c) \/ SC!CleanedUp(c)
                \/ SC!GivesUp(c)
       PROVE  LeftUnanswered'
    BY <1>2 DEF SC!Close, SC!Cleanup, SC!CleanedUp, SC!GivesUp
  <1>3. ASSUME NEW r \in Requests, SC!Requesting(r)
       PROVE  LeftUnanswered'
    BY <1>3 DEF SC!Requesting, SC!SendRequest, SC!Write, SC!Answered, SC!Cancelled,
                SC!SeesDone, SC!Leaves
  <1>4. ASSUME SC!ServerAnswers \/ SC!ServerDies \/ SC!WaitReturns
       PROVE  LeftUnanswered'
    BY <1>4 DEF SC!ServerAnswers, SC!ServerDies, SC!WaitReturns
  <1>5. ASSUME SC!Reading
       PROVE  LeftUnanswered'
    BY <1>5 DEF SC!Reading, SC!ReaderChecks, SC!ReaderReads, SC!ReaderAnswers,
                SC!ReaderDeletes, SC!ReaderEnds
  <1>6. CASE UNCHANGED SC!vars
    BY <1>6 DEF SC!vars
  <1> QED BY <1>1, <1>2, <1>3, <1>4, <1>5, <1>6 DEF SC!Next

\* The invariant of the stdio transport holds of every behavior.
LEMMA StdioInvariant == SC!Spec => []StdioInv
  <1>1. SC!Init => StdioInv
    <2> SUFFICES ASSUME SC!Init PROVE StdioInv
      OBVIOUS
    <2>1. SC!TypeOK
      <3>1. stdout \in Seq(Requests) /\ current \subseteq Requests /\ answer \subseteq Requests
            /\ responses \subseteq Requests /\ stdin \subseteq Requests
        BY EmptySeq DEF SC!Init
      <3>2. child \in {"none", "running", "dead", "reaped"} /\ resourcesReady \in BOOLEAN
        BY DEF SC!Init
      <3> QED BY <3>1, <3>2 DEF SC!Init, SC!Calls, SC!TypeOK
    <2>2. \A c \in SC!Calls : call[c] = "idle"
      BY DEF SC!Init
    <2>3. OneStarter /\ ChildHeld
      BY <2>2 DEF SC!Init, OneStarter, AtStart, ChildHeld, Doing
    <2>4. EntriesKept /\ LeftUnanswered
      BY DEF SC!Init, EntriesKept, LeftUnanswered
    <2> QED BY <2>1, <2>3, <2>4 DEF StdioInv
  <1>2. StdioInv /\ [SC!Next]_SC!vars => StdioInv'
    BY StdioTypes, OneStarterStep, ChildHeldStep, EntriesKeptStep, LeftUnansweredStep DEF
       StdioInv
  <1> QED BY <1>1, <1>2, PTL DEF SC!Spec

\* However Close races Start and whatever the server does: once the calls have
\* returned it is waited for or reported as given up, no entry outlives its call, and a response that was
\* read is returned (Start, Close, SendRequest, readResponses).
THEOREM StdioLetsGo == SC!Spec => []SC!LetsGo
  <1>1. StdioInv => SC!LetsGo
    BY DEF StdioInv, SC!TypeOK, OneStarter, ChildHeld, Doing, EntriesKept, LeftUnanswered,
       SC!LetsGo, SC!Over
  <1> QED BY <1>1, StdioInvariant, PTL

LEMMA StdioTyped == SC!Spec => []SC!TypeOK
  <1>1. StdioInv => SC!TypeOK
    BY DEF StdioInv, SC!TypeOK
  <1> QED BY <1>1, StdioInvariant, PTL

-----------------------------------------------------------------------------
(* RoundTrips.                                                             *)
RT == INSTANCE RoundTrips

\* The loop ends: each call of the handler is counted before it is made.
Counted ==
  /\ calls <= MaxRoundTrips + 1
  /\ pc = "fulfilling" => calls <= MaxRoundTrips
  /\ pc # "over" => loadShedding < MaxLoadShedding

\* What the goroutines have gathered is what they were asked, in this round.
Gathered ==
  /\ pc # "fulfilling" => \A i \in Ids : helper[i] # "asking"
  /\ pc = "fulfilling" =>
       /\ askedAt = calls
       /\ \A i \in Ids :
            /\ i \in asked => helper[i] # "none"
            /\ i \notin asked => helper[i] = "none" /\ gathered[i] = 0
            /\ helper[i] = "over" /\ ~failed => gathered[i] = askedAt
  /\ pc = "handling" =>
       /\ state = calls - 1
       /\ \A i \in Ids : answers[i] = IF i \in asked THEN askedAt ELSE 0

RoundTripsInv == RT!TypeOK /\ Counted /\ Gathered

LEMMA RoundTripsStep == RoundTripsInv /\ [RT!Next]_RT!vars => RoundTripsInv'
  <1> SUFFICES ASSUME RoundTripsInv, [RT!Next]_RT!vars PROVE RoundTripsInv'
    OBVIOUS
  <1> USE RoundTripsAssumption
      DEF RoundTripsAssumption, RoundTripsInv, RT!TypeOK, Counted, Gathered
  <1>1. CASE RT!Finishes \/ RT!LeavesToCaller
    BY <1>1 DEF RT!Finishes, RT!LeavesToCaller
  <1>2. CASE RT!ShedsLoad
    BY <1>2 DEF RT!ShedsLoad
  <1>3. ASSUME NEW ids \in SUBSET Ids, RT!NeedsInput(ids) PROVE RoundTripsInv'
    <2>1. /\ loadShedding' = 0 /\ asked' = ids /\ askedAt' = calls /\ failed' = FALSE
          /\ gathered' = [i \in Ids |-> 0] /\ pc = "handling"
          /\ UNCHANGED <<driver, calls, state, answers>>
      BY <1>3 DEF RT!NeedsInput, RT!NoAnswers
    <2>2. \/ pc' = "over" /\ helper' = helper
          \/ /\ pc' = "fulfilling" /\ calls <= MaxRoundTrips
             /\ helper' = [i \in Ids |-> IF i \in ids THEN "asking" ELSE "none"]
      BY <1>3 DEF RT!NeedsInput
    <2>3. helper' \in [Ids -> {"none", "asking", "over"}]
      BY <2>2
    <2>g. gathered' \in [Ids -> Nat] /\ loadShedding' \in 0..MaxLoadShedding
      BY <2>1
    <2>4. RT!TypeOK'
      BY <2>1, <2>2, <2>3, <2>g
    <2>5. Counted'
      BY <2>1, <2>2
    <2>6. Gathered'
      BY <2>1, <2>2
    <2> QED BY <2>4, <2>5, <2>6
  <1>4. ASSUME NEW i \in Ids, RT!Answers(i) \/ RT!Fails(i) PROVE RoundTripsInv'
    <2>1. CASE RT!Answers(i)
      BY <2>1 DEF RT!Answers
    <2>2. CASE RT!Fails(i)
      BY <2>2 DEF RT!Fails
    <2> QED BY <1>4, <2>1, <2>2
  <1>5. CASE RT!CallsAgain
    BY <1>5 DEF RT!CallsAgain
  <1>6. CASE UNCHANGED RT!vars
    BY <1>6 DEF RT!vars
  <1> QED BY <1>1, <1>2, <1>3, <1>4, <1>5, <1>6 DEF RT!Next

\* The invariant of the round trips holds of every behavior.
LEMMA RoundTripsInvariant == RT!Spec => []RoundTripsInv
  <1>1. RT!Init => RoundTripsInv
    <2> SUFFICES ASSUME RT!Init PROVE RoundTripsInv
      OBVIOUS
    <2> USE RoundTripsAssumption DEF RoundTripsAssumption
    <2>1. /\ answers = [i \in Ids |-> 0] /\ helper = [i \in Ids |-> "none"]
          /\ gathered = [i \in Ids |-> 0] /\ asked = {}
      BY DEF RT!Init, RT!NoAnswers, RT!NoHelpers
    <2>2. RT!TypeOK
      <3>1. loadShedding \in 0..MaxLoadShedding
        BY DEF RT!Init
      <3>2. gathered \in [Ids -> Nat] /\ answers \in [Ids -> Nat]
        BY <2>1
      <3>3. helper \in [Ids -> {"none", "asking", "over"}]
        BY <2>1
      <3> QED BY <2>1, <3>1, <3>2, <3>3 DEF RT!Init, RT!TypeOK
    <2>3. Counted /\ Gathered
      BY <2>1 DEF RT!Init, Counted, Gathered
    <2> QED BY <2>2, <2>3 DEF RoundTripsInv
  <1> QED BY <1>1, RoundTripsStep, PTL DEF RT!Spec

\* However the goroutines answer and fail: a handler that is called again has
\* the state of its last result and the answers to all it asked for, none is
\* left asking, and it is called a bounded number of times (multiRoundTrip,
\* resolveMultiRoundTrip, fulfillInputRequests).
THEOREM RoundTripsComplete == RT!Spec => []RT!AnswersComplete
  <1>1. RoundTripsInv => RT!AnswersComplete
    BY DEF RoundTripsInv, RT!TypeOK, Counted, Gathered, RT!AnswersComplete
  <1> QED BY <1>1, RoundTripsInvariant, PTL

LEMMA RoundTripsTyped == RT!Spec => []RT!TypeOK
  <1>1. RoundTripsInv => RT!TypeOK
    BY DEF RoundTripsInv, RT!TypeOK
  <1> QED BY <1>1, RoundTripsInvariant, PTL
=============================================================================
