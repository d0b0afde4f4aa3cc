-------------------------- MODULE HttpClientProofs --------------------------
(***************************************************************************)
(* Proofs about HttpClient, for any number of goroutines, sessions and     *)
(* failures: the listener never waits on a channel nobody closes any more, *)
(* and the transport drops a session only when the server has forgotten it *)
(* or the client is closed.                                                *)
(*                                                                         *)
(* The argument for the second.  A session is stored at most once          *)
(* (StoredOnce), so one that is no longer the stored one never will be     *)
(* again.  The listener ends the session it recorded.  The answer it acts  *)
(* on may belong to another request, sent with a session read later: then  *)
(* the recorded session has been replaced in between and endSession does   *)
(* nothing (RecordedInv, SentInv, LostInv).                                *)
(***************************************************************************)
EXTENDS HttpClient, FiniteSetTheorems, TLAPS

-----------------------------------------------------------------------------
(* The inductive invariant.                                                *)

\* The sessions the server has answered an initialize with, on their way to
\* being stored.
Pending == {init[i].answer : i \in {j \in Inits : init[j].pc = "answered"}}

\* A session that was stored at some time.
Stored(s) == s \in 0..issued /\ s \notin Pending

UniqueAnswers ==
  /\ \A i \in Inits : init[i].pc = "answered" => init[i].answer \in 1..issued
  /\ \A i, j \in Inits : init[i].pc = "answered" /\ init[j].pc = "answered"
                           /\ init[i].answer = init[j].answer => i = j

StoredOnce == UniqueAnswers /\ Stored(sessionID) /\ Stored(listener.session)

\* Every channel stands for a session that was stored and dropped.
ChannelInv ==
  \E n \in Nat :
    /\ closedChannels = 1..n
    /\ sessionEnded \in {NoChannel, n + 1}
    /\ n + (IF sessionEnded = NoChannel THEN 0 ELSE 1)
         <= Cardinality((1..issued) \ (Pending \union {sessionID}))

CloseInv == closing.pc # "none" => clientClosed

\* The recorded session is no longer the stored one.
Replaced == listener.session = NoSession \/ listener.session # sessionID

RecordedInv == listener.pc = "recorded" /\ sessionEnded # NoChannel => Replaced

SentInv == listener.pc = "sent" => listener.sent = listener.session \/ Replaced

\* A stream was open only with a server that offers one.
OpenInv ==
  /\ listener.pc = "open" \/ listener.result = "ended" => offersGet
  /\ listener.openedOn # NoSession => offersGet

LostInv ==
  listener.pc = "lost" \/ (listener.pc = "over" /\ listener.result = "404")
    => Replaced \/ listener.session \notin known \/ ~offersGet

WaitInv == listener.pc = "waiting" => listener.wait # NoChannel

IInv ==
  /\ TypeOK /\ StoredOnce /\ ChannelInv /\ CloseInv /\ RecordedInv /\ SentInv
  /\ OpenInv /\ LostInv /\ WaitInv /\ NoWaiterOnOldChannel

-----------------------------------------------------------------------------
(* Types, but for the channels.                                            *)

SomeSession == Sessions \union {NoSession}

ListenerTypes == [pc : {"idle", "top", "waiting", "recorded", "sent", "open",
                        "over", "lost", "check", "stopped"},
                  wait : Channels \union {NoChannel},
                  session : SomeSession, sent : SomeSession, openedOn : SomeSession,
                  result : {"none", "404", "405", "error", "ended"}]

InitTypes == [pc : {"idle", "sent", "answered", "stored", "loaded"},
              session : SomeSession, answer : SomeSession]

CallTypes == [pc : {"idle", "sent"}, session : SomeSession]

ChannelTypes == sessionEnded \in Channels \union {NoChannel} /\ closedChannels \subseteq Channels

OtherTypes ==
  /\ sessionID \in SomeSession /\ listenSession \in SomeSession
  /\ listenCancel \in BOOLEAN /\ connCancelled \in BOOLEAN
  /\ initialized \in BOOLEAN /\ clientClosed \in BOOLEAN
  /\ closing \in [pc : {"none", "loaded", "done"}, session : SomeSession]
  /\ listener \in ListenerTypes
  /\ call \in [Callers -> CallTypes] /\ init \in [Inits -> InitTypes]
  /\ issued \in 0..MaxSessions /\ known \subseteq 1..issued
  /\ offersGet \in BOOLEAN
  /\ forgets \in 0..MaxForgets /\ breaks \in 0..MaxBreaks
  /\ announced \in BOOLEAN

LEMMA TypeSplit == TypeOK <=> ChannelTypes /\ OtherTypes
  BY DEF TypeOK, ChannelTypes, OtherTypes, SomeSession, ListenerTypes, InitTypes, CallTypes

LEMMA Zero == NoSession \in SomeSession /\ NoChannel \in Channels \union {NoChannel}
              /\ Sessions \subseteq SomeSession /\ NoSession = 0 /\ NoChannel = 0
  BY DEF SomeSession, NoSession, NoChannel

\* endSession's effect.
LEMMA Ends ==
  ASSUME NEW s, EndSession(s)
  PROVE  \/ UNCHANGED sessionVars
         \/ /\ sessionID = s /\ s # NoSession /\ sessionID' = NoSession
            /\ sessionEnded' = (IF sessionEnded = NoChannel
                                  THEN Cardinality(closedChannels) + 1 ELSE sessionEnded)
            /\ UNCHANGED closedChannels
  BY DEF EndSession

\* A caller's and an initialization's steps.
LEMMA TypesSending ==
  ASSUME TypeOK,
         \/ \E c \in Callers : Send(c) \/ Answered(c) \/ NotFound(c)
         \/ \E i \in Inits : SendInit(i) \/ Initializing(i)
  PROVE  OtherTypes'
  <1>0. OtherTypes
    BY TypeSplit
  <1>1. ASSUME NEW c \in Callers, Send(c) \/ Answered(c) \/ NotFound(c) PROVE OtherTypes'
    <2>1. sessionID' \in SomeSession
      BY <1>1, <1>0, Zero, Ends DEF Send, Answered, NotFound, OtherTypes, sessionVars
    <2>2. call' \in [Callers -> CallTypes]
      BY <1>1, <1>0, Zero DEF Send, Answered, NotFound, OtherTypes, CallTypes
    <2>3. UNCHANGED <<connVars, clientVars, listener, init, serverVars, breaks, announced>>
      BY <1>1 DEF Send, Answered, NotFound
    <2> QED BY <1>0, <2>1, <2>2, <2>3 DEF OtherTypes, connVars, clientVars, serverVars
  <1>2. ASSUME NEW i \in Inits, SendInit(i) \/ InitFailed(i) \/ InitNotFound(i) \/ InitLoad(i)
                                \/ InitBadBody(i)
        PROVE  OtherTypes'
    <2>1. sessionID' \in SomeSession
      BY <1>2, <1>0, Zero, Ends
         DEF SendInit, InitFailed, InitNotFound, InitLoad, InitBadBody, OtherTypes, sessionVars
    <2>2. init' \in [Inits -> InitTypes]
      <3>1. init \in [Inits -> InitTypes] /\ sessionID \in SomeSession /\ init[i] \in InitTypes
        BY <1>0 DEF OtherTypes
      <3>2. CASE SendInit(i)
        <4>1. [[InitIdle EXCEPT !.pc = "sent"] EXCEPT !.session = sessionID] \in InitTypes
          BY <3>1, Zero DEF InitIdle, InitTypes
        <4>2. init' = [init EXCEPT ![i] = [[InitIdle EXCEPT !.pc = "sent"] EXCEPT !.session = sessionID]]
          BY <3>2 DEF SendInit
        <4> QED BY <3>1, <4>1, <4>2
      <3>3. CASE InitFailed(i) \/ InitNotFound(i) \/ InitBadBody(i)
        <4>1. init' = [init EXCEPT ![i] = InitIdle] /\ InitIdle \in InitTypes
          BY <3>3, Zero DEF InitFailed, InitNotFound, InitBadBody, InitIdle, InitTypes
        <4> QED BY <3>1, <4>1
      <3>4. CASE InitLoad(i)
        <4>1. [[init[i] EXCEPT !.pc = "loaded"] EXCEPT !.session = sessionID] \in InitTypes
          BY <3>1 DEF InitTypes
        <4>2. init' = [init EXCEPT ![i] = [[init[i] EXCEPT !.pc = "loaded"] EXCEPT !.session = sessionID]]
          BY <3>1, <3>4 DEF InitLoad
        <4> QED BY <3>1, <4>1, <4>2
      <3> QED BY <1>2, <3>2, <3>3, <3>4
    <2>3. UNCHANGED <<connVars, clientVars, listener, call, serverVars, breaks, announced>>
      BY <1>2 DEF SendInit, InitFailed, InitNotFound, InitLoad, InitBadBody
    <2> QED BY <1>0, <2>1, <2>2, <2>3 DEF OtherTypes, connVars, clientVars, serverVars
  <1>3. ASSUME NEW i \in Inits, InitAnswered(i) PROVE OtherTypes'
    <2>1. issued + 1 \in Sessions /\ issued' = issued + 1 /\ issued \in Nat
      BY <1>3, <1>0, HttpClientAssumption DEF InitAnswered, OtherTypes, Sessions, HttpClientAssumption
    <2>2. init' \in [Inits -> InitTypes]
      BY <1>3, <1>0, <2>1, Zero DEF InitAnswered, OtherTypes, InitTypes
    <2>3. known' \subseteq 1..issued' /\ issued' \in 0..MaxSessions
      BY <1>3, <1>0, <2>1 DEF InitAnswered, OtherTypes, Sessions
    <2> QED BY <1>3, <1>0, <2>2, <2>3
            DEF InitAnswered, OtherTypes, connVars, clientVars, sessionVars
  <1>4. ASSUME NEW i \in Inits, InitStore(i) PROVE OtherTypes'
    <2>1. sessionID' \in SomeSession /\ init' \in [Inits -> InitTypes]
      BY <1>4, <1>0, Zero DEF InitStore, OtherTypes, InitTypes, InitIdle
    <2> QED BY <1>4, <1>0, <2>1 DEF InitStore, OtherTypes, connVars, serverVars
  <1>5. ASSUME NEW i \in Inits, InitMark(i) PROVE OtherTypes'
    <2>1. connCancelled' \in BOOLEAN /\ announced' \in BOOLEAN
      BY <1>5, <1>0 DEF InitMark, MarkSessionStarted, OtherTypes
    <2>2. init' \in [Inits -> InitTypes]
      BY <1>5, <1>0, Zero DEF InitMark, OtherTypes, InitTypes, InitIdle
    <2> QED BY <1>5, <1>0, <2>1, <2>2 DEF InitMark, OtherTypes, clientVars, serverVars
  <1> QED BY <1>1, <1>2, <1>3, <1>4, <1>5 DEF Initializing

LEMMA TypesListening ==
  ASSUME TypeOK, Listening \/ ConnectionEnds
  PROVE  OtherTypes'
  <1>0. OtherTypes /\ ChannelTypes
    BY TypeSplit
  <1>1. sessionID' \in SomeSession
    BY <1>0, Zero, Ends
       DEF Listening, ListenStart, ListenOn, ListenWake, SendGet, GetAnswered, ListenDone,
           ListenLost, ListenCheck, ConnectionEnds, OtherTypes, sessionVars
  <1>2. /\ listenSession' \in SomeSession /\ listenCancel' \in BOOLEAN
        /\ connCancelled' \in BOOLEAN
    BY <1>0, Zero
       DEF Listening, ListenStart, ListenOn, ListenWake, SendGet, GetAnswered, ListenDone,
           ListenLost, ListenCheck, ConnectionEnds, OtherTypes, connVars
  <1>a. /\ listener \in ListenerTypes /\ sessionID \in SomeSession
        /\ sessionEnded \in Channels \union {NoChannel}
    BY <1>0 DEF OtherTypes, ChannelTypes
  <1>3. ASSUME ListenStart \/ ListenOn \/ ListenWake PROVE listener' \in ListenerTypes
    <2>1. CASE ListenStart
      BY <2>1, <1>a DEF ListenStart, ListenerTypes
    <2>2. CASE ListenOn
      <3>1. CASE sessionEnded = NoChannel
        BY <2>2, <3>1, <1>a DEF ListenOn, ListenerTypes
      <3>2. CASE sessionEnded # NoChannel
        BY <2>2, <3>2, <1>a DEF ListenOn, ListenerTypes
      <3> QED BY <3>1, <3>2
    <2>3. CASE ListenWake
      BY <2>3, <1>a, Zero DEF ListenWake, ListenerTypes
    <2> QED BY <1>3, <2>1, <2>2, <2>3
  <1>4. ASSUME SendGet \/ GetAnswered \/ ConnectionEnds PROVE listener' \in ListenerTypes
    <2>1. CASE SendGet
      <3>1. CASE sessionEnded = NoChannel
        BY <2>1, <3>1, <1>a DEF SendGet, ListenerTypes
      <3>2. CASE sessionEnded # NoChannel
        BY <2>1, <3>2, <1>a DEF SendGet, ListenerTypes
      <3> QED BY <3>1, <3>2
    <2>2. CASE GetAnswered
      <3>1. \/ listener' = [listener EXCEPT !.pc = "open"]
            \/ \E status \in {"404", "405", "error"} :
                  listener' = [listener EXCEPT !.pc = "over", !.result = status]
        BY <2>2 DEF GetAnswered
      <3> QED BY <3>1, <1>a DEF ListenerTypes
    <2>3. CASE ConnectionEnds
      <3>1. \E status \in {"ended", "error"} :
              listener' = [listener EXCEPT !.pc = "over", !.result = status]
        BY <2>3 DEF ConnectionEnds
      <3> QED BY <3>1, <1>a DEF ListenerTypes
    <2> QED BY <1>4, <2>1, <2>2, <2>3
  <1>5. ASSUME ListenDone PROVE listener' \in ListenerTypes
    BY <1>0, <1>5, Zero DEF ListenDone, OtherTypes, ListenerTypes
  <1>6. ASSUME ListenLost \/ ListenCheck PROVE listener' \in ListenerTypes
    BY <1>0, <1>6, Zero DEF ListenLost, ListenCheck, OtherTypes, ListenerTypes
  <1>7. breaks' \in 0..MaxBreaks
    <2>1. breaks' = breaks \/ (breaks < MaxBreaks /\ breaks' = breaks + 1)
      BY DEF Listening, ListenStart, ListenOn, ListenWake, SendGet, GetAnswered, ListenDone,
             ListenLost, ListenCheck, ConnectionEnds
    <2>2. breaks \in 0..MaxBreaks /\ MaxBreaks \in Nat
      BY <1>0, HttpClientAssumption DEF OtherTypes, HttpClientAssumption
    <2> QED BY <2>1, <2>2
  <1>8. UNCHANGED <<clientVars, call, init, serverVars, announced>>
    BY DEF Listening, ListenStart, ListenOn, ListenWake, SendGet, GetAnswered, ListenDone,
           ListenLost, ListenCheck, ConnectionEnds
  <1>9. listener' \in ListenerTypes
    BY <1>3, <1>4, <1>5, <1>6 DEF Listening
  <1> QED BY <1>0, <1>1, <1>2, <1>7, <1>8, <1>9 DEF OtherTypes, clientVars, serverVars

LEMMA TypesOther ==
  ASSUME TypeOK, Close \/ CloseStore \/ \E s \in Sessions : Forget(s)
  PROVE  OtherTypes'
  <1>0. OtherTypes
    BY TypeSplit
  <1>1. CASE Close
    BY <1>0, <1>1, Zero DEF Close, OtherTypes, sessionVars, connVars, serverVars
  <1>2. CASE CloseStore
    BY <1>0, <1>2, Zero DEF CloseStore, OtherTypes, connVars
  <1>3. CASE \E s \in Sessions : Forget(s)
    BY <1>0, <1>3, HttpClientAssumption
       DEF Forget, OtherTypes, sessionVars, connVars, clientVars, HttpClientAssumption
  <1> QED BY <1>1, <1>2, <1>3

LEMMA TypesStep == TypeOK /\ [Next]_vars => OtherTypes'
  <1>1. TypeOK /\ UNCHANGED vars => OtherTypes'
    BY TypeSplit DEF OtherTypes, vars, sessionVars, connVars, clientVars, serverVars
  <1> QED BY <1>1, TypesSending, TypesListening, TypesOther DEF Next

-----------------------------------------------------------------------------
(* A session is stored at most once.                                       *)

LEMMA NotAnswered ==
  ASSUME UniqueAnswers, init \in [Inits -> InitTypes], issued' = issued,
         NEW i \in Inits, NEW r \in InitTypes, r.pc # "answered", init[i].pc # "answered",
         init' = [init EXCEPT ![i] = r]
  PROVE  UniqueAnswers' /\ Pending' = Pending
  <1>1. \A j \in Inits : (init'[j].pc = "answered") = (init[j].pc = "answered")
                         /\ (init[j].pc = "answered" => init'[j].answer = init[j].answer)
    OBVIOUS
  <1> QED BY <1>1 DEF UniqueAnswers, Pending

\* An answer is new, or is stored; nothing else changes the answers, or stores
\* a session.
LEMMA Moves ==
  ASSUME TypeOK, UniqueAnswers, [Next]_vars
  PROVE  /\ UniqueAnswers'
         /\ \/ /\ Pending' = Pending /\ issued' = issued /\ sessionID' \in {sessionID, NoSession}
               /\ listener'.session \in {listener.session, sessionID, NoSession}
            \/ /\ Pending' = Pending \union {issued + 1} /\ issued' = issued + 1
               /\ UNCHANGED <<sessionVars, listener>>
            \/ /\ sessionID' \in Pending /\ Pending' = Pending \ {sessionID'} /\ issued' = issued
               /\ UNCHANGED <<sessionEnded, closedChannels, listener>>
  <1>0. /\ init \in [Inits -> InitTypes] /\ issued \in 0..MaxSessions
        /\ listener \in ListenerTypes /\ MaxSessions \in Nat
    BY TypeSplit, HttpClientAssumption DEF OtherTypes, HttpClientAssumption
  <1>1. ASSUME NEW i \in Inits,
               SendInit(i) \/ InitNotFound(i) \/ InitFailed(i) \/ InitLoad(i) \/ InitMark(i)
                 \/ InitBadBody(i)
        PROVE  UniqueAnswers' /\ Pending' = Pending
    <2>1. init[i].pc # "answered" /\ issued' = issued
      BY <1>1 DEF SendInit, InitNotFound, InitFailed, InitLoad, InitMark, InitBadBody, serverVars
    <2>2. \E r \in InitTypes : r.pc # "answered" /\ init' = [init EXCEPT ![i] = r]
      <3>1. init' = [init EXCEPT ![i] = init'[i]]
        BY <1>0, <1>1 DEF SendInit, InitNotFound, InitFailed, InitLoad, InitMark, InitBadBody
      <3>2. init'[i] \in InitTypes
        BY TypesStep DEF OtherTypes
      <3>3. init'[i].pc # "answered"
        <4>1. CASE SendInit(i)
          BY <1>0, <4>1 DEF SendInit, InitIdle
        <4>2. CASE InitLoad(i)
          BY <1>0, <4>2 DEF InitLoad, InitTypes
        <4>3. CASE InitNotFound(i) \/ InitFailed(i) \/ InitMark(i) \/ InitBadBody(i)
          <5>1. init'[i] = InitIdle
            BY <1>0, <4>3 DEF InitNotFound, InitFailed, InitMark, InitBadBody
          <5> QED BY <5>1 DEF InitIdle
        <4> QED BY <1>1, <4>1, <4>2, <4>3
      <3> QED BY <3>1, <3>2, <3>3
    <2> QED BY <1>0, <2>1, <2>2, NotAnswered
  <1>2. ASSUME NEW i \in Inits, InitAnswered(i)
        PROVE  UniqueAnswers' /\ Pending' = Pending \union {issued + 1}
               /\ issued' = issued + 1 /\ UNCHANGED <<sessionVars, listener>>
    <2>1. /\ init[i].pc = "sent" /\ issued' = issued + 1 /\ UNCHANGED <<sessionVars, listener>>
          /\ init'[i].pc = "answered" /\ init'[i].answer = issued + 1
          /\ \A j \in Inits : j # i => init'[j] = init[j]
      BY <1>0, <1>2 DEF InitAnswered, InitTypes
    <2>2. \A j \in Inits : init[j].pc = "answered" =>
            j # i /\ init[j].answer \in 1..(issued + 1) /\ init[j].answer # issued + 1
      BY <1>0, <2>1 DEF UniqueAnswers
    <2>3. UniqueAnswers'
      BY <1>0, <2>1, <2>2 DEF UniqueAnswers
    <2>4. Pending' = Pending \union {issued + 1}
      BY <2>1, <2>2 DEF Pending
    <2> QED BY <2>1, <2>3, <2>4
  <1>3. ASSUME NEW i \in Inits, InitStore(i)
        PROVE  /\ UniqueAnswers' /\ sessionID' \in Pending /\ Pending' = Pending \ {sessionID'}
               /\ issued' = issued /\ UNCHANGED <<sessionEnded, closedChannels, listener>>
    <2>1. /\ init[i].pc = "answered" /\ issued' = issued
          /\ UNCHANGED <<sessionEnded, closedChannels, listener>>
          /\ sessionID' = init[i].answer /\ init'[i].pc = "stored"
          /\ \A j \in Inits : j # i => init'[j] = init[j]
      BY <1>0, <1>3 DEF InitStore, InitIdle, serverVars
    <2>2. UniqueAnswers'
      BY <2>1 DEF UniqueAnswers
    <2>3. Pending' = Pending \ {sessionID'}
      BY <2>1 DEF UniqueAnswers, Pending
    <2> QED BY <2>1, <2>2, <2>3 DEF Pending
  <1>4. ASSUME init' = init, issued' = issued
        PROVE  UniqueAnswers' /\ Pending' = Pending
    BY <1>4 DEF UniqueAnswers, Pending
  <1>5. ASSUME NEW i \in Inits,
               SendInit(i) \/ InitNotFound(i) \/ InitFailed(i) \/ InitLoad(i) \/ InitMark(i)
                 \/ InitBadBody(i)
        PROVE  sessionID' \in {sessionID, NoSession} /\ listener' = listener /\ issued' = issued
    BY <1>5, Ends
       DEF SendInit, InitNotFound, InitFailed, InitLoad, InitMark, InitBadBody, sessionVars,
           serverVars
  <1>6. ASSUME \/ \E c \in Callers : Send(c) \/ Answered(c) \/ NotFound(c)
               \/ Listening \/ ConnectionEnds \/ Close \/ CloseStore
               \/ \E s \in Sessions : Forget(s)
               \/ UNCHANGED vars
        PROVE  UNCHANGED <<init, issued>> /\ sessionID' \in {sessionID, NoSession}
    BY <1>6, Ends
       DEF Send, Answered, NotFound, Listening, ListenStart, ListenOn, ListenWake, SendGet,
           GetAnswered, ListenDone, ListenLost, ListenCheck, ConnectionEnds, Close, CloseStore,
           Forget, sessionVars, serverVars, vars
  <1>7. ASSUME \/ \E c \in Callers : Send(c) \/ Answered(c) \/ NotFound(c)
               \/ Close \/ CloseStore \/ (\E s \in Sessions : Forget(s)) \/ UNCHANGED vars
        PROVE  listener' = listener
    BY <1>7 DEF Send, Answered, NotFound, Close, CloseStore, Forget, vars
  <1>8. ASSUME Listening \/ ConnectionEnds
        PROVE  listener'.session \in {listener.session, sessionID, NoSession}
    BY <1>8, <1>0
       DEF Listening, ListenStart, ListenOn, ListenWake, SendGet, GetAnswered, ListenDone,
           ListenLost, ListenCheck, ConnectionEnds, ListenerTypes
  <1> QED BY <1>1, <1>2, <1>3, <1>4, <1>5, <1>6, <1>7, <1>8 DEF Next, Initializing

LEMMA StoredStep == TypeOK /\ StoredOnce /\ [Next]_vars => StoredOnce'
  <1> SUFFICES ASSUME TypeOK, StoredOnce, [Next]_vars PROVE StoredOnce'
    OBVIOUS
  <1>1. issued \in Nat
    BY HttpClientAssumption DEF TypeOK, HttpClientAssumption
  <1>2. Pending \subseteq 1..issued /\ NoSession = 0
    BY DEF StoredOnce, UniqueAnswers, Pending, NoSession
  <1> HIDE DEF Pending
  <1>3. Stored(NoSession) /\ (issued' = issued /\ Pending' \subseteq Pending => Stored(NoSession)')
    BY <1>1, <1>2 DEF Stored, NoSession
  <1>4. UniqueAnswers
    BY DEF StoredOnce
  <1>5. CASE /\ Pending' = Pending /\ issued' = issued /\ sessionID' \in {sessionID, NoSession}
             /\ listener'.session \in {listener.session, sessionID, NoSession}
    BY <1>3, <1>4, <1>5, Moves DEF StoredOnce, Stored
  <1>6. CASE /\ Pending' = Pending \union {issued + 1} /\ issued' = issued + 1
             /\ UNCHANGED <<sessionVars, listener>>
    BY <1>1, <1>4, <1>6, Moves DEF StoredOnce, Stored, sessionVars
  <1>7. CASE /\ sessionID' \in Pending /\ Pending' = Pending \ {sessionID'} /\ issued' = issued
             /\ UNCHANGED <<sessionEnded, closedChannels, listener>>
    <2>1. Stored(sessionID)'
      BY <1>1, <1>2, <1>7 DEF Stored
    <2> QED BY <1>4, <1>7, <2>1, Moves DEF StoredOnce, Stored
  <1> QED BY <1>4, <1>5, <1>6, <1>7, Moves

-----------------------------------------------------------------------------
(* Every channel stands for a session that was dropped.                    *)

Spent == (1..issued) \ (Pending \union {sessionID})

\* The count of ChannelInv, for n channels closed and the one that is open.
Counts(n, open, spent) ==
  n + (IF open = NoChannel THEN 0 ELSE 1) <= Cardinality(spent)

LEMMA CountsGrow ==
  ASSUME NEW n \in Nat, NEW open, NEW k \in Nat,
         NEW S \in SUBSET (1..k), NEW T \in SUBSET (1..k), S \subseteq T, Counts(n, open, S)
  PROVE  /\ Counts(n, open, T)
         /\ \A s \in T : s \notin S => Counts(n, n + 1, T)
  <1>1. IsFiniteSet(1..k)
    BY FS_Interval
  <1>2. IsFiniteSet(T) /\ IsFiniteSet(S)
    BY <1>1, FS_Subset
  <1>3. Cardinality(S) <= Cardinality(T) /\ Cardinality(S) \in Nat /\ Cardinality(T) \in Nat
    BY <1>2, FS_Subset, FS_CardinalityType
  <1>4. ASSUME NEW s \in T, s \notin S PROVE Cardinality(S) + 1 <= Cardinality(T)
    <2> DEFINE U == S \union {s}
    <2>1. U \in SUBSET T
      BY <1>4
    <2>2. Cardinality(U) = Cardinality(S) + 1
      BY <1>2, <1>4, FS_AddElement
    <2> HIDE DEF U
    <2>3. Cardinality(U) <= Cardinality(T)
      BY <1>2, <2>1, FS_Subset
    <2> QED BY <2>2, <2>3
  <1> QED BY <1>3, <1>4 DEF Counts, NoChannel

\* What a step does to the channels: endSession may make one, when it drops a
\* session; markSessionStarted closes it.
LEMMA ChannelMoves ==
  ASSUME [Next]_vars
  PROVE  \/ UNCHANGED <<sessionEnded, closedChannels>>
         \/ /\ sessionID # NoSession /\ sessionID' = NoSession
            /\ sessionEnded' = (IF sessionEnded = NoChannel
                                  THEN Cardinality(closedChannels) + 1 ELSE sessionEnded)
            /\ UNCHANGED closedChannels
         \/ /\ sessionID' = sessionID /\ sessionEnded' = NoChannel
            /\ closedChannels' = closedChannels \union ({sessionEnded} \ {NoChannel})
  <1>1. ASSUME \/ \E c \in Callers : NotFound(c)
               \/ \E i \in Inits : InitNotFound(i)
               \/ ListenLost
        PROVE  \/ UNCHANGED <<sessionEnded, closedChannels>>
               \/ /\ sessionID # NoSession /\ sessionID' = NoSession
                  /\ sessionEnded' = (IF sessionEnded = NoChannel
                                        THEN Cardinality(closedChannels) + 1 ELSE sessionEnded)
                  /\ UNCHANGED closedChannels
    BY <1>1, Ends DEF NotFound, InitNotFound, ListenLost, sessionVars
  <1>2. ASSUME NEW i \in Inits, InitMark(i)
        PROVE  \/ UNCHANGED <<sessionEnded, closedChannels>>
               \/ /\ sessionID' = sessionID /\ sessionEnded' = NoChannel
                  /\ closedChannels' = closedChannels \union ({sessionEnded} \ {NoChannel})
    BY <1>2 DEF InitMark, MarkSessionStarted
  <1>3. \/ \E c \in Callers : NotFound(c)
        \/ \E i \in Inits : InitNotFound(i) \/ InitMark(i)
        \/ ListenLost
        \/ UNCHANGED <<sessionEnded, closedChannels>>
    BY DEF Next, Send, Answered, Initializing, SendInit, InitAnswered, InitFailed, InitStore,
           InitLoad, InitBadBody, Listening, ListenStart, ListenOn, ListenWake, SendGet,
           GetAnswered, ListenDone, ListenCheck, ConnectionEnds, Close, CloseStore, Forget,
           vars, sessionVars
  <1> QED BY <1>1, <1>2, <1>3

LEMMA ChannelStep == TypeOK /\ StoredOnce /\ ChannelInv /\ [Next]_vars => ChannelInv'
  <1> SUFFICES ASSUME TypeOK, StoredOnce, ChannelInv, [Next]_vars PROVE ChannelInv'
    OBVIOUS
  <1>1. PICK n \in Nat : /\ closedChannels = 1..n /\ sessionEnded \in {NoChannel, n + 1}
                         /\ Counts(n, sessionEnded, Spent)
    BY DEF ChannelInv, Counts, Spent
  <1>2. issued \in Nat /\ Pending \subseteq 1..issued /\ sessionID \in 0..issued
        /\ sessionID \notin Pending
    BY HttpClientAssumption
       DEF TypeOK, HttpClientAssumption, StoredOnce, UniqueAnswers, Stored, Pending
  <1>3. issued' \in Nat /\ Spent' \subseteq 1..issued' /\ issued <= issued' /\ Spent \subseteq Spent'
        /\ (sessionID # NoSession /\ sessionID' = NoSession => sessionID \in Spent')
    <2> HIDE DEF Pending
    <2>1. UniqueAnswers
      BY DEF StoredOnce
    <2>2. CASE Pending' = Pending /\ issued' = issued /\ sessionID' \in {sessionID, NoSession}
      BY <1>2, <2>2 DEF Spent, NoSession
    <2>3. CASE /\ Pending' = Pending \union {issued + 1} /\ issued' = issued + 1
               /\ sessionID' = sessionID
      BY <1>2, <2>3 DEF Spent
    <2>4. CASE sessionID' \in Pending /\ Pending' = Pending \ {sessionID'} /\ issued' = issued
      BY <1>2, <2>4 DEF Spent, NoSession
    <2> QED BY <2>1, <2>2, <2>3, <2>4, Moves DEF sessionVars
  <1>4. Spent \subseteq 1..issued' /\ Spent \in SUBSET (1..issued') /\ Spent' \in SUBSET (1..issued')
    BY <1>3
  <1>5. Counts(n, sessionEnded, Spent')
    BY <1>1, <1>3, <1>4, CountsGrow
  <1>6. ASSUME NEW m \in Nat, closedChannels' = 1..m, sessionEnded' \in {NoChannel, m + 1},
               Counts(m, sessionEnded', Spent')
        PROVE  ChannelInv'
    BY <1>6 DEF ChannelInv, Counts, Spent
  <1>7. CASE UNCHANGED <<sessionEnded, closedChannels>>
    BY <1>1, <1>5, <1>6, <1>7
  <1>8. CASE /\ sessionID # NoSession /\ sessionID' = NoSession
             /\ sessionEnded' = (IF sessionEnded = NoChannel
                                   THEN Cardinality(closedChannels) + 1 ELSE sessionEnded)
             /\ UNCHANGED closedChannels
    <2>1. Cardinality(closedChannels) = n
      BY <1>1, FS_Interval
    <2>2. sessionEnded' = n + 1
      BY <1>1, <1>8, <2>1
    <2>3. sessionID \in Spent' /\ sessionID \notin Spent
      BY <1>3, <1>8 DEF Spent
    <2>4. Counts(n, n + 1, Spent')
      BY <1>1, <1>3, <1>4, <2>3, CountsGrow
    <2> QED BY <1>1, <1>6, <1>8, <2>2, <2>4
  <1>9. CASE /\ sessionID' = sessionID /\ sessionEnded' = NoChannel
             /\ closedChannels' = closedChannels \union ({sessionEnded} \ {NoChannel})
    <2>1. CASE sessionEnded = NoChannel
      BY <1>1, <1>5, <1>6, <1>9, <2>1
    <2>2. CASE sessionEnded # NoChannel
      <3>1. sessionEnded = n + 1 /\ closedChannels' = 1..(n + 1) /\ n + 1 \in Nat
        BY <1>1, <1>9, <2>2
      <3>2. Counts(n + 1, NoChannel, Spent')
        BY <1>1, <1>5, <2>2 DEF Counts
      <3> QED BY <1>6, <1>9, <3>1, <3>2
    <2> QED BY <2>1, <2>2
  <1> QED BY <1>7, <1>8, <1>9, ChannelMoves

LEMMA ChannelsTyped == OtherTypes /\ ChannelInv => ChannelTypes
  <1> SUFFICES ASSUME OtherTypes, ChannelInv PROVE ChannelTypes
    OBVIOUS
  <1>1. PICK n \in Nat : /\ closedChannels = 1..n /\ sessionEnded \in {NoChannel, n + 1}
                         /\ Counts(n, sessionEnded, Spent)
    BY DEF ChannelInv, Counts, Spent
  <1>2. issued \in 0..MaxSessions /\ MaxSessions \in Nat
    BY HttpClientAssumption DEF OtherTypes, HttpClientAssumption
  <1>3. Spent \in SUBSET (1..issued) /\ IsFiniteSet(1..issued) /\ Cardinality(1..issued) = issued
    BY <1>2, FS_Interval DEF Spent
  <1>4. Cardinality(Spent) <= issued /\ Cardinality(Spent) \in Nat
    BY <1>3, FS_Subset, FS_CardinalityType
  <1>5. n + (IF sessionEnded = NoChannel THEN 0 ELSE 1) <= MaxSessions
    BY <1>1, <1>2, <1>4 DEF Counts
  <1> QED BY <1>1, <1>2, <1>5 DEF ChannelTypes, Channels

LEMMA TypeStep == TypeOK /\ StoredOnce /\ ChannelInv /\ [Next]_vars => TypeOK'
  <1>1. (OtherTypes /\ ChannelInv)' => ChannelTypes'
    BY ChannelsTyped, PTL
  <1>2. (TypeOK <=> ChannelTypes /\ OtherTypes)'
    BY TypeSplit, PTL
  <1> QED BY <1>1, <1>2, TypesStep, ChannelStep

-----------------------------------------------------------------------------
(* The listener.                                                           *)

\* Only its own steps move it, or the end of its connection.
LEMMA ListenerFrame ==
  ASSUME [Next]_vars
  PROVE  /\ offersGet' = offersGet
         /\ listener' = listener \/ Listening \/ ConnectionEnds
         /\ \/ UNCHANGED <<closing, clientClosed>>
            \/ clientClosed' = TRUE
            \/ closing.pc # "none" /\ clientClosed' = clientClosed
  BY DEF Next, Send, Answered, NotFound, Initializing, SendInit, InitAnswered, InitNotFound,
         InitFailed, InitStore, InitLoad, InitMark, InitBadBody, Listening, ListenStart,
         ListenOn, ListenWake, SendGet, GetAnswered, ListenDone, ListenLost, ListenCheck,
         ConnectionEnds, Close, CloseStore, Forget, vars, clientVars, serverVars

\* A session the server has forgotten stays forgotten.
LEMMA ForgottenStays ==
  ASSUME TypeOK, [Next]_vars, NEW s \in 0..issued, s \notin known
  PROVE  s \notin known'
  <1>1. known' \subseteq known \/ known' = known \union {issued + 1}
    BY DEF Next, Send, Answered, NotFound, Initializing, SendInit, InitAnswered, InitNotFound,
           InitFailed, InitStore, InitLoad, InitMark, InitBadBody, Listening, ListenStart,
           ListenOn, ListenWake, SendGet, GetAnswered, ListenDone, ListenLost, ListenCheck,
           ConnectionEnds, Close, CloseStore, Forget, vars, serverVars
  <1>2. issued \in Nat
    BY HttpClientAssumption DEF TypeOK, HttpClientAssumption
  <1> QED BY <1>1, <1>2

\* A session that was replaced is never stored again.
LEMMA ReplacedStays ==
  ASSUME TypeOK, StoredOnce, Replaced, [Next]_vars, listener'.session = listener.session
  PROVE  Replaced'
  <1>1. listener.session \notin Pending /\ UniqueAnswers
    BY DEF StoredOnce, Stored
  <1>2. \/ sessionID' \in {sessionID, NoSession}
        \/ sessionID' \in Pending
    BY <1>1, Moves DEF sessionVars
  <1> QED BY <1>1, <1>2 DEF Replaced

LEMMA CloseStep == CloseInv /\ [Next]_vars => CloseInv'
  BY ListenerFrame DEF CloseInv

LEMMA WaitStep ==
  ASSUME WaitInv, NoWaiterOnOldChannel, [Next]_vars, TypeOK
  PROVE  WaitInv' /\ NoWaiterOnOldChannel'
  <1>1. CASE listener' = listener
    <2>1. CASE UNCHANGED <<sessionEnded, closedChannels>>
      BY <1>1, <2>1 DEF WaitInv, NoWaiterOnOldChannel
    <2>2. CASE /\ sessionEnded' = (IF sessionEnded = NoChannel
                                     THEN Cardinality(closedChannels) + 1 ELSE sessionEnded)
               /\ UNCHANGED closedChannels
      BY <1>1, <2>2 DEF WaitInv, NoWaiterOnOldChannel
    <2>3. CASE closedChannels' = closedChannels \union ({sessionEnded} \ {NoChannel})
      BY <1>1, <2>3 DEF WaitInv, NoWaiterOnOldChannel
    <2> QED BY <2>1, <2>2, <2>3, ChannelMoves
  <1>2. CASE Listening \/ ConnectionEnds
    <2>1. listener \in ListenerTypes
      BY TypeSplit DEF OtherTypes
    <2>2. listener'.pc = "waiting" =>
            /\ sessionEnded # NoChannel /\ listener'.wait = sessionEnded
            /\ sessionEnded' = sessionEnded
      BY <1>2, <2>1
         DEF Listening, ListenStart, ListenOn, ListenWake, SendGet, GetAnswered, ListenDone,
             ListenLost, ListenCheck, ConnectionEnds, ListenerTypes, sessionVars
    <2> QED BY <2>2 DEF WaitInv, NoWaiterOnOldChannel
  <1> QED BY <1>1, <1>2, ListenerFrame

LEMMA OpenStep ==
  ASSUME OpenInv, [Next]_vars, TypeOK
  PROVE  OpenInv'
  <1>0. offersGet' = offersGet
    BY ListenerFrame
  <1>1. CASE listener' = listener
    BY <1>0, <1>1 DEF OpenInv
  <1>2. CASE Listening \/ ConnectionEnds
    <2>1. listener \in ListenerTypes
      BY TypeSplit DEF OtherTypes
    <2>2. listener'.pc = "open" => offersGet
      BY <1>2, <2>1
         DEF Listening, ListenStart, ListenOn, ListenWake, SendGet, GetAnswered, ListenDone,
             ListenLost, ListenCheck, ConnectionEnds, ListenerTypes
    <2>3. listener'.result = "ended" => listener.result = "ended" \/ listener.pc = "open"
      BY <1>2, <2>1
         DEF Listening, ListenStart, ListenOn, ListenWake, SendGet, GetAnswered, ListenDone,
             ListenLost, ListenCheck, ConnectionEnds, ListenerTypes
    <2>4. listener'.openedOn = listener.openedOn \/ listener.result = "ended"
      BY <1>2, <2>1
         DEF Listening, ListenStart, ListenOn, ListenWake, SendGet, GetAnswered, ListenDone,
             ListenLost, ListenCheck, ConnectionEnds, ListenerTypes
    <2> QED BY <1>0, <2>2, <2>3, <2>4 DEF OpenInv
  <1> QED BY <1>1, <1>2, ListenerFrame

\* How the listener comes to a program counter.
LEMMA ListenerArrives ==
  ASSUME TypeOK, Listening \/ ConnectionEnds
  PROVE  /\ listener'.pc = "recorded" => sessionEnded' = NoChannel
         /\ listener'.pc = "sent" =>
              /\ listener.pc = "recorded" /\ listener'.sent = sessionID
              /\ listener'.session = listener.session /\ sessionID' = sessionID
         /\ listener'.pc = "lost" =>
              /\ listener.pc = "over" /\ listener.result = "404"
              /\ listener'.session = listener.session
              /\ UNCHANGED <<sessionID, known, offersGet>>
         /\ listener'.pc = "over" /\ listener'.result = "404" =>
              /\ (SendGet /\ sessionEnded # NoChannel) \/ GetAnswered
              /\ listener'.session = listener.session
              /\ UNCHANGED <<sessionID, known, offersGet>>
  <1>0. listener \in ListenerTypes
    BY TypeSplit DEF OtherTypes
  <1>1. listener'.pc = "recorded" => sessionEnded' = NoChannel
    BY <1>0 DEF Listening, ListenStart, ListenOn, ListenWake, SendGet, GetAnswered, ListenDone,
             ListenLost, ListenCheck, ConnectionEnds, ListenerTypes, sessionVars
  <1>2. listener'.pc = "sent" =>
              /\ listener.pc = "recorded" /\ listener'.sent = sessionID
              /\ listener'.session = listener.session /\ sessionID' = sessionID
    BY <1>0 DEF Listening, ListenStart, ListenOn, ListenWake, SendGet, GetAnswered, ListenDone,
             ListenLost, ListenCheck, ConnectionEnds, ListenerTypes, sessionVars
  <1>3. listener'.pc = "lost" =>
              /\ listener.pc = "over" /\ listener.result = "404"
              /\ listener'.session = listener.session
              /\ UNCHANGED <<sessionID, known, offersGet>>
    BY <1>0 DEF Listening, ListenStart, ListenOn, ListenWake, SendGet, GetAnswered, ListenDone,
             ListenLost, ListenCheck, ConnectionEnds, ListenerTypes, sessionVars, serverVars
  <1>4. listener'.pc = "over" /\ listener'.result = "404" =>
              /\ (SendGet /\ sessionEnded # NoChannel) \/ GetAnswered
              /\ listener'.session = listener.session
              /\ UNCHANGED <<sessionID, known, offersGet>>
    BY <1>0 DEF Listening, ListenStart, ListenOn, ListenWake, SendGet, GetAnswered, ListenDone,
             ListenLost, ListenCheck, ConnectionEnds, ListenerTypes, sessionVars, serverVars
  <1> QED BY <1>1, <1>2, <1>3, <1>4

LEMMA RecordedStep ==
  ASSUME TypeOK, StoredOnce, RecordedInv, [Next]_vars
  PROVE  RecordedInv'
  <1>1. CASE listener' = listener
    <2>1. CASE UNCHANGED sessionEnded
      BY <1>1, <2>1, ReplacedStays DEF RecordedInv
    <2>2. CASE sessionID' = NoSession
      BY <2>2 DEF RecordedInv, Replaced
    <2>3. CASE sessionEnded' = NoChannel
      BY <2>3 DEF RecordedInv
    <2> QED BY <2>1, <2>2, <2>3, ChannelMoves
  <1>2. CASE Listening \/ ConnectionEnds
    BY <1>2, ListenerArrives DEF RecordedInv
  <1> QED BY <1>1, <1>2, ListenerFrame

LEMMA SentStep ==
  ASSUME TypeOK, StoredOnce, SentInv, [Next]_vars
  PROVE  SentInv'
  <1>1. CASE listener' = listener
    BY <1>1, ReplacedStays DEF SentInv
  <1>2. CASE Listening \/ ConnectionEnds
    BY <1>2, ListenerArrives DEF SentInv, Replaced
  <1> QED BY <1>1, <1>2, ListenerFrame

LEMMA LostStep ==
  ASSUME TypeOK, StoredOnce, RecordedInv, SentInv, LostInv, [Next]_vars
  PROVE  LostInv'
  <1> DEFINE Excused == Replaced \/ listener.session \notin known \/ ~offersGet
  <1>1. CASE listener' = listener
    <2>1. listener.session \in 0..issued
      BY DEF StoredOnce, Stored
    <2>2. Excused => Excused'
      BY <1>1, <2>1, ReplacedStays, ForgottenStays, ListenerFrame
    <2> QED BY <1>1, <2>2 DEF LostInv
  <1>2. CASE Listening \/ ConnectionEnds
    <2>1. CASE listener'.pc = "lost"
      BY <1>2, <2>1, ListenerArrives DEF LostInv, Replaced
    <2>2. CASE listener'.pc = "over" /\ listener'.result = "404"
      <3>1. Excused
        <4>1. CASE SendGet /\ sessionEnded # NoChannel
          BY <4>1 DEF SendGet, RecordedInv
        <4>2. CASE GetAnswered
          <5>1. listener \in ListenerTypes
            BY TypeSplit DEF OtherTypes
          <5>2. listener.pc = "sent" /\ (~offersGet \/ listener.sent \notin known)
            BY <2>2, <4>2, <5>1 DEF GetAnswered, ListenerTypes
          <5> QED BY <5>2 DEF SentInv
        <4> QED BY <1>2, <2>2, <4>1, <4>2, ListenerArrives
      <3> QED BY <1>2, <2>2, <3>1, ListenerArrives DEF LostInv, Replaced
    <2>3. CASE listener'.pc # "lost" /\ ~(listener'.pc = "over" /\ listener'.result = "404")
      BY <2>3 DEF LostInv
    <2> QED BY <2>1, <2>2, <2>3
  <1> QED BY <1>1, <1>2, ListenerFrame

-----------------------------------------------------------------------------
(* The theorems.                                                           *)

LEMMA InitInv == Init => IInv
  <1> SUFFICES ASSUME Init PROVE IInv
    OBVIOUS
  <1>1. TypeOK
    <2>1. ChannelTypes
      BY Zero DEF Init, ChannelTypes
    <2>2. listener \in ListenerTypes /\ call \in [Callers -> CallTypes]
          /\ init \in [Inits -> InitTypes]
          /\ closing \in [pc : {"none", "loaded", "done"}, session : SomeSession]
      BY Zero DEF Init, ListenerTypes, CallTypes, InitTypes
    <2>3. issued \in 0..MaxSessions /\ known \subseteq 1..issued
          /\ forgets \in 0..MaxForgets /\ breaks \in 0..MaxBreaks
      BY HttpClientAssumption DEF Init, HttpClientAssumption
    <2>4. OtherTypes
      BY <2>2, <2>3, Zero DEF Init, OtherTypes
    <2> QED BY <2>1, <2>4, TypeSplit
  <1>2. StoredOnce
    BY DEF Init, StoredOnce, UniqueAnswers, Stored, Pending, NoSession
  <1>3. ChannelInv
    <2>1. (1..issued) \ (Pending \union {sessionID}) = {}
      BY DEF Init
    <2>2. closedChannels = 1..0 /\ sessionEnded = NoChannel
      BY DEF Init
    <2>3. Counts(0, sessionEnded, {})
      BY <2>2, FS_EmptySet DEF Counts
    <2> QED BY <2>1, <2>2, <2>3 DEF ChannelInv, Counts
  <1>4. CloseInv /\ RecordedInv /\ SentInv /\ OpenInv /\ LostInv /\ WaitInv /\ NoWaiterOnOldChannel
    BY DEF Init, CloseInv, RecordedInv, SentInv, OpenInv, LostInv, WaitInv, NoWaiterOnOldChannel
  <1> QED BY <1>1, <1>2, <1>3, <1>4 DEF IInv

LEMMA StepInv == IInv /\ [Next]_vars => IInv'
  BY TypeStep, StoredStep, ChannelStep, CloseStep, RecordedStep, SentStep, OpenStep, LostStep,
     WaitStep DEF IInv

LEMMA Invariant == Spec => []IInv
  <1>1. Spec => Init /\ [][Next]_vars
    BY DEF Spec
  <1> QED BY <1>1, InitInv, StepInv, PTL

\* The client's state is well typed; in particular there are never more
\* channels than sessions that were stored and dropped.
THEOREM HttpClientTypes == Spec => []TypeOK
  <1>1. IInv => TypeOK
    BY DEF IInv
  <1> QED BY <1>1, Invariant, PTL

\* No lost wake-up: whatever the order in which sessions end and start while
\* the listener goes from reading sessionEnded to waiting on it, the channel
\* it waits on is the current one or is closed.
THEOREM NoLostWakeUp == Spec => []NoWaiterOnOldChannel
  <1>1. IInv => NoWaiterOnOldChannel
    BY DEF IInv
  <1> QED BY <1>1, Invariant, PTL

\* A step drops the stored session only if the server has forgotten it, or the
\* client is closed: endSession of a late 404, of a request, an initialize or
\* the listener, does not take a newer session with it.
LEMMA DropStep ==
  ASSUME IInv, [Next]_vars, sessionID # NoSession, sessionID' = NoSession
  PROVE  sessionID \notin known \/ clientClosed
  <1>1. CASE \E c \in Callers : NotFound(c)
    BY <1>1, Ends DEF NotFound, sessionVars
  <1>2. CASE \E i \in Inits : InitNotFound(i)
    BY <1>2, Ends DEF InitNotFound, sessionVars
  <1>3. CASE ListenLost
    <2>1. /\ listener.pc = "lost" /\ listener.session = listener.openedOn
          /\ sessionID = listener.session
      BY <1>3, Ends DEF ListenLost, sessionVars
    <2>2. offersGet
      BY <2>1 DEF IInv, OpenInv
    <2> QED BY <2>1, <2>2 DEF IInv, LostInv, Replaced
  <1>4. CASE CloseStore
    BY <1>4 DEF CloseStore, IInv, CloseInv
  <1>5. CASE \E i \in Inits : InitStore(i)
    BY <1>5 DEF InitStore, IInv, StoredOnce, UniqueAnswers, NoSession
  <1>6. \/ \E c \in Callers : NotFound(c)
        \/ \E i \in Inits : InitNotFound(i) \/ InitStore(i)
        \/ ListenLost \/ CloseStore
        \/ sessionID' = sessionID
    BY DEF Next, Send, Answered, Initializing, SendInit, InitAnswered, InitFailed, InitMark,
           InitLoad, InitBadBody, Listening, ListenStart, ListenOn, ListenWake, SendGet,
           GetAnswered, ListenDone, ListenCheck, ConnectionEnds, Close, Forget,
           vars, sessionVars
  <1> QED BY <1>1, <1>2, <1>3, <1>4, <1>5, <1>6

\* The transport forgets a session only when the server has, or when the
\* client is closed.
THEOREM OnlyForgottenDropped == Spec => DroppedOnlyIfForgotten
  <1>1. IInv /\ [Next]_vars =>
          [(sessionID # NoSession /\ sessionID' = NoSession)
             => (sessionID \notin known \/ clientClosed)]_vars
    BY DropStep
  <1>2. Spec => Init /\ [][Next]_vars
    BY DEF Spec
  <1> QED BY <1>1, <1>2, Invariant, PTL DEF DroppedOnlyIfForgotten
=============================================================================
