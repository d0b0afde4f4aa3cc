-------------------------- MODULE PostStreamProofs --------------------------
(***************************************************************************)
(* Proofs about PostStream: for any goroutines, bounds and capacities the  *)
(* variables keep their types, nothing the POST has undertaken to deliver  *)
(* is stranded, the response has one content type, the answers to its      *)
(* elicitations find their session, and what a goroutine sends is written  *)
(* in the order it was sent in.                                            *)
(***************************************************************************)
EXTENDS PostStream, SequenceTheorems, TLAPS

\* Where a message may be a goroutine's: broadcasters go straight to the
\* session's channel, and who is not idle has a message of its own.
Stations ==
  /\ \A s \in Casters : at[s] \in {"idle", "fallback"} /\ msg[s].kind # "ask"
  /\ \A s \in Senders : at[s] # "idle" => msg[s] \in Messages /\ msg[s].from = s
  /\ fwd.at = "holding" => fwd.msg \in Messages
  /\ fwd.at # "holding" => fwd.msg = NoMsg

TypeInv == TypeOK /\ Stations

-----------------------------------------------------------------------------
(* Sequences and the sets of their elements.                               *)

LEMMA RangeAppend ==
  ASSUME NEW S, NEW q \in Seq(S), NEW m \in S
  PROVE  ToSet(Append(q, m)) = ToSet(q) \union {m}
  <1> DEFINE r == Append(q, m)
  <1>1. /\ Len(r) = Len(q) + 1
        /\ \A i \in 1..Len(q) : r[i] = q[i]
        /\ r[Len(q) + 1] = m
    BY AppendProperties
  <1>2. r \in Seq(S)
    BY AppendProperties
  <1>3. DOMAIN r = 1..Len(q) + 1 /\ DOMAIN q = 1..Len(q) /\ Len(q) \in Nat
    BY <1>1, <1>2
  <1>4. ASSUME NEW x \in ToSet(r) PROVE x \in ToSet(q) \union {m}
    <2>1. PICK i \in 1..Len(q) + 1 : x = r[i]
      BY <1>3, <1>4 DEF ToSet
    <2>2. CASE i = Len(q) + 1
      BY <1>1, <2>1, <2>2
    <2>3. CASE i \in 1..Len(q)
      BY <1>1, <1>3, <2>1, <2>3 DEF ToSet
    <2> QED BY <1>3, <2>1, <2>2, <2>3
  <1>5. ASSUME NEW x \in ToSet(q) PROVE x \in ToSet(r)
    <2>1. PICK i \in 1..Len(q) : x = q[i]
      BY <1>3, <1>5 DEF ToSet
    <2>2. i \in 1..Len(q) + 1 /\ x = r[i]
      BY <1>1, <1>3, <2>1
    <2> HIDE DEF r
    <2> QED BY <1>3, <2>2 DEF ToSet
  <1>6. m \in ToSet(r)
    <2>1. Len(q) + 1 \in DOMAIN r /\ r[Len(q) + 1] = m
      BY <1>1, <1>3
    <2> HIDE DEF r
    <2> QED BY <2>1 DEF ToSet
  <1> QED BY <1>4, <1>5, <1>6

LEMMA RangeTail ==
  ASSUME NEW S, NEW q \in Seq(S), q # <<>>
  PROVE  /\ ToSet(q) = {Head(q)} \union ToSet(Tail(q))
         /\ Head(q) \in S /\ Tail(q) \in Seq(S) /\ Len(Tail(q)) <= Len(q)
  <1> DEFINE r == Tail(q)
  <1>1. /\ Head(q) \in S /\ r \in Seq(S) /\ Len(r) = Len(q) - 1
        /\ \A i \in 1..Len(r) : r[i] = q[i + 1]
    BY HeadTailProperties
  <1>2. Len(q) \in Nat /\ Len(q) >= 1 /\ Head(q) = q[1]
    BY EmptySeq
  <1>3. DOMAIN q = 1..Len(q) /\ DOMAIN r = 1..Len(r)
    BY <1>1
  <1>4. ASSUME NEW x \in ToSet(q) PROVE x \in {Head(q)} \union ToSet(r)
    <2>1. PICK i \in 1..Len(q) : x = q[i]
      BY <1>3, <1>4 DEF ToSet
    <2>2. CASE i = 1
      BY <1>2, <2>1, <2>2
    <2>3. CASE i # 1
      <3>1. i - 1 \in 1..Len(r) /\ r[i - 1] = x
        BY <1>1, <1>2, <2>1, <2>3
      <3> HIDE DEF r
      <3> QED BY <1>3, <3>1 DEF ToSet
    <2> QED BY <2>2, <2>3
  <1>5. ASSUME NEW x \in ToSet(r) PROVE x \in ToSet(q)
    <2>1. PICK i \in 1..Len(r) : x = r[i]
      BY <1>3, <1>5 DEF ToSet
    <2>2. i + 1 \in 1..Len(q) /\ x = q[i + 1]
      BY <1>1, <1>2, <2>1
    <2> QED BY <1>3, <2>2 DEF ToSet
  <1>6. Head(q) \in ToSet(q)
    BY <1>2, <1>3 DEF ToSet
  <1> QED BY <1>1, <1>2, <1>4, <1>5, <1>6

LEMMA RangeEmpty == ToSet(<<>>) = {}
  BY DEF ToSet

-----------------------------------------------------------------------------
(* Types.                                                                  *)

\* What a message written to the response does to the wire.
LEMMA WriteTypes ==
  ASSUME TypeOK, NEW m \in Messages \union {Response}, Write(m)
  PROVE  /\ header' \in {"none", "sse", "json", "accepted"}
         /\ out' \in Seq(Messages \union {Response})
         /\ stored' \in Seq(Messages \union {Response})
  <1>1. /\ out \in Seq(Messages \union {Response})
        /\ stored \in Seq(Messages \union {Response})
        /\ header \in {"none", "sse", "json", "accepted"}
    BY DEF TypeOK
  <1>2. /\ Append(out, m) \in Seq(Messages \union {Response})
        /\ Append(stored, m) \in Seq(Messages \union {Response})
    BY <1>1, AppendProperties
  <1> QED BY <1>1, <1>2 DEF Write, wireVars

LEMMA TypeInit == Init => TypeInv
  <1> SUFFICES ASSUME Init PROVE TypeInv
    OBVIOUS
  <1>1. /\ sent \in 0..MaxSends /\ sendMu \in Handlers \union {None} /\ owed \subseteq Messages
        /\ at \in [Senders -> {"idle", "probe", "register", "lock", "sending", "fallback",
                             "waiting"}]
        /\ msg \in [Senders -> Messages \union {NoMsg}]
    BY PostStreamAssumption DEF Init, PostStreamAssumption
  <1>2. <<>> \in Seq(Messages) /\ <<>> \in Seq(Messages \union {Response}) /\ Len(<<>>) = 0
    BY EmptySeq
  <1>3. /\ notes \in Seq(Messages) /\ Len(notes) <= ScopedCap
        /\ asks \in Seq(Messages) /\ Len(asks) <= ScopedCap
        /\ channel \in Seq(Messages) /\ Len(channel) <= ChanCap
        /\ out \in Seq(Messages \union {Response})
        /\ stored \in Seq(Messages \union {Response})
    BY <1>2, PostStreamAssumption DEF Init, PostStreamAssumption
  <1>4. /\ fwd \in [at : {"select", "holding", "exited"}, msg : Messages \union {NoMsg}]
        /\ fwd.at = "select" /\ fwd.msg = NoMsg
    BY DEF Init
  <1>5. active \in {"none", "mine", "other"}
    BY DEF Init
  <1>6. TypeOK
    BY <1>1, <1>3, <1>4, <1>5 DEF Init, TypeOK
  <1>7. Stations
    BY <1>4 DEF Init, Stations, Senders, NoMsg
  <1> QED BY <1>6, <1>7 DEF TypeInv

Pcs == {"idle", "probe", "register", "lock", "sending", "fallback", "waiting"}

\* A sender s goes on to pc, with a message m.
LEMMA SenderMoves ==
  ASSUME TypeInv, NEW s \in Senders, NEW pc \in Pcs, NEW m \in Messages \union {NoMsg},
         at' = [at EXCEPT ![s] = pc],
         msg' = [msg EXCEPT ![s] = m],
         pc # "idle" => m \in Messages /\ m.from = s,
         s \in Casters => pc \in {"idle", "fallback"} /\ m.kind # "ask",
         UNCHANGED fwd
  PROVE  /\ at' \in [Senders -> Pcs]
         /\ msg' \in [Senders -> Messages \union {NoMsg}]
         /\ Stations'
  <1>1. at \in [Senders -> Pcs] /\ msg \in [Senders -> Messages \union {NoMsg}]
    BY DEF TypeInv, TypeOK, Pcs
  <1>2. Casters \subseteq Senders
    BY DEF Senders
  <1> QED BY <1>1, <1>2 DEF TypeInv, Stations

\* A sender whose message is over becomes idle.
LEMMA SenderIdle ==
  ASSUME TypeInv, NEW s \in Senders, Over(s), UNCHANGED fwd
  PROVE  /\ at' \in [Senders -> Pcs]
         /\ msg' \in [Senders -> Messages \union {NoMsg}]
         /\ Stations'
  BY SenderMoves DEF Over, Goto, Pcs, NoMsg

\* A sender goes on with the message it has.
LEMMA SenderGoes ==
  ASSUME TypeInv, NEW s \in Senders \ Casters, at[s] # "idle", NEW pc \in Pcs, Goto(s, pc),
         UNCHANGED <<msg, fwd>>
  PROVE  /\ at' \in [Senders -> Pcs]
         /\ msg' \in [Senders -> Messages \union {NoMsg}]
         /\ Stations'
  <1>1. msg \in [Senders -> Messages \union {NoMsg}]
    BY DEF TypeInv, TypeOK
  <1>2. msg[s] \in Messages /\ msg[s].from = s
    BY DEF TypeInv, Stations
  <1>3. msg' = [msg EXCEPT ![s] = msg[s]]
    BY <1>1
  <1> QED BY <1>2, <1>3, SenderMoves DEF Goto

LEMMA TypeStep == TypeInv /\ [Next]_vars => TypeInv'
  <1> SUFFICES ASSUME TypeInv, [Next]_vars PROVE TypeInv'
    OBVIOUS
  <1> DEFINE Moved == /\ at' \in [Senders -> Pcs]
                      /\ msg' \in [Senders -> Messages \union {NoMsg}]
                      /\ Stations'
  <1>a. /\ ScopedCap \in Nat /\ ChanCap \in Nat /\ MaxSends \in Nat
        /\ Casters \intersect Handlers = {} /\ Senders = Handlers \union Casters
    BY PostStreamAssumption DEF PostStreamAssumption, Handlers, Senders
  <1>b. TypeOK /\ Stations
    BY DEF TypeInv
  <1>c. \A s \in Casters : at[s] \in {"idle", "fallback"} /\ msg[s].kind # "ask"
    BY <1>b DEF Stations
  <1>d. ASSUME NEW s \in Senders, at[s] # "idle" PROVE msg[s] \in Messages /\ msg[s].from = s
    BY <1>b, <1>d DEF Stations
  <1>1. ASSUME NEW s \in Senders, BeginNote(s) PROVE TypeInv'
    <2> DEFINE m == [from |-> s, n |-> sent + 1, kind |-> "note", via |-> "scoped"]
               pc == IF s \in Handlers /\ Scoped THEN "lock" ELSE "fallback"
    <2>1. sent + 1 \in 1..MaxSends /\ sent' \in 0..MaxSends
      BY <1>1, <1>a, <1>b DEF BeginNote, TypeOK
    <2>2. m \in Messages /\ m.from = s
      BY <2>1 DEF Messages
    <2>3. msg' = [msg EXCEPT ![s] = m] /\ at' = [at EXCEPT ![s] = pc] /\ UNCHANGED fwd
      BY <1>1 DEF BeginNote, Goto
    <2>4. pc \in Pcs /\ (s \in Casters => pc = "fallback") /\ m.kind = "note"
      BY <1>a DEF Pcs
    <2> HIDE DEF m, pc
    <2>5. Moved
      BY <2>2, <2>3, <2>4, SenderMoves
    <2> QED BY <1>1, <1>b, <2>1, <2>5
          DEF BeginNote, TypeInv, TypeOK, Pcs, queueVars, wireVars, regVars
  <1>2. ASSUME NEW s \in Senders, BeginAsk(s) PROVE TypeInv'
    <2> DEFINE m == [from |-> s, n |-> sent + 1, kind |-> "ask", via |-> "scoped"]
               pc == IF Scoped THEN "probe" ELSE "fallback"
    <2>1. sent + 1 \in 1..MaxSends /\ sent' \in 0..MaxSends
      BY <1>2, <1>a, <1>b DEF BeginAsk, TypeOK
    <2>2. m \in Messages /\ m.from = s
      BY <2>1 DEF Messages
    <2>3. msg' = [msg EXCEPT ![s] = m] /\ at' = [at EXCEPT ![s] = pc] /\ UNCHANGED fwd
      BY <1>2 DEF BeginAsk, Goto
    <2>4. pc \in Pcs /\ s \notin Casters
      BY <1>2, <1>a DEF Pcs, BeginAsk
    <2> HIDE DEF m, pc
    <2>5. Moved
      BY <2>2, <2>3, <2>4, SenderMoves
    <2> QED BY <1>2, <1>b, <2>1, <2>5
          DEF BeginAsk, TypeInv, TypeOK, Pcs, queueVars, wireVars, regVars
  <1>3. ASSUME NEW s \in Senders, ProbeDone(s) PROVE TypeInv'
    <2>1. Moved
      BY <1>3, <1>c, SenderGoes DEF ProbeDone, Pcs
    <2> QED BY <1>3, <1>b, <2>1
          DEF ProbeDone, TypeInv, TypeOK, Pcs, queueVars, wireVars, regVars
  <1>4. ASSUME NEW s \in Senders, Register(s) PROVE TypeInv'
    <2>1. Moved
      BY <1>4, <1>c, SenderGoes DEF Register, Pcs
    <2>2. active' \in {"none", "mine", "other"} /\ owns' \in BOOLEAN /\ registered' \in BOOLEAN
      BY <1>4, <1>b DEF Register, TypeOK
    <2> QED BY <1>4, <1>b, <2>1, <2>2 DEF Register, TypeInv, TypeOK, Pcs, queueVars, wireVars
  <1>5. ASSUME NEW s \in Senders, LockSend(s) PROVE TypeInv'
    <2>1. s \in Handlers /\ s \in Senders \ Casters /\ at[s] # "idle"
      BY <1>5, <1>a, <1>c DEF LockSend
    <2>2. Moved
      BY <1>5, <2>1, SenderGoes DEF LockSend, Pcs
    <2>3. sendMu' \in Handlers \union {None}
      BY <1>5, <2>1, <1>b DEF LockSend, TypeOK
    <2> QED BY <1>5, <1>b, <2>2, <2>3
          DEF LockSend, TypeInv, TypeOK, Pcs, queueVars, wireVars, regVars
  <1>6. ASSUME NEW s \in Senders, SendGivesUp(s) PROVE TypeInv'
    <2>1. Moved
      BY <1>6, <1>c, SenderGoes DEF SendGivesUp, Pcs
    <2> QED BY <1>6, <1>b, <2>1
          DEF SendGivesUp, TypeInv, TypeOK, Pcs, queueVars, wireVars, regVars
  <1>7. ASSUME NEW s \in Senders, SendScoped(s) PROVE TypeInv'
    <2>1. msg[s] \in Messages /\ s \in Senders \ Casters /\ at[s] # "idle" /\ UNCHANGED fwd
      BY <1>7, <1>c, <1>d DEF SendScoped
    <2>2. Moved
      <3>1. CASE msg[s].kind = "note"
        BY <1>7, <2>1, <3>1, SenderIdle DEF SendScoped
      <3>2. CASE msg[s].kind # "note"
        BY <1>7, <2>1, <3>2, SenderGoes DEF SendScoped, Pcs
      <3> QED BY <3>1, <3>2
    <2>3. notes' \in Seq(Messages) /\ Len(notes') <= ScopedCap /\ owed' \subseteq Messages
      <3>1. CASE msg[s].kind = "note"
        <4>1. notes \in Seq(Messages) /\ notes' = Append(notes, msg[s]) /\ Len(notes) < ScopedCap
          BY <1>7, <1>b, <3>1 DEF SendScoped, TypeOK
        <4>2. owed' \subseteq Messages
          BY <1>7, <1>b, <2>1, <3>1 DEF SendScoped, TypeOK
        <4> QED BY <4>1, <4>2, <2>1, <1>a, AppendProperties
      <3>2. CASE msg[s].kind # "note"
        BY <1>7, <1>b, <3>2 DEF SendScoped, TypeOK
      <3> QED BY <3>1, <3>2
    <2>4. asks' \in Seq(Messages) /\ Len(asks') <= ScopedCap
      <3>1. CASE msg[s].kind # "note"
        <4>1. asks \in Seq(Messages) /\ asks' = Append(asks, msg[s]) /\ Len(asks) < ScopedCap
          BY <1>7, <1>b, <3>1 DEF SendScoped, TypeOK
        <4> QED BY <4>1, <2>1, <1>a, AppendProperties
      <3>2. CASE msg[s].kind = "note"
        BY <1>7, <1>b, <3>2 DEF SendScoped, TypeOK
      <3> QED BY <3>1, <3>2
    <2> QED BY <1>7, <1>b, <2>2, <2>3, <2>4
          DEF SendScoped, TypeInv, TypeOK, Pcs, wireVars, regVars
  <1>8. ASSUME NEW s \in Senders, FallbackNote(s) PROVE TypeInv'
    <2> DEFINE m == [msg[s] EXCEPT !.via = "channel"]
    <2>1. msg[s] \in Messages /\ m \in Messages
      BY <1>8, <1>d DEF FallbackNote, Messages
    <2>2. Moved
      BY <1>8, SenderIdle DEF FallbackNote
    <2>3. channel \in Seq(Messages) /\ Len(channel) \in Nat /\ Len(channel) <= ChanCap
          /\ owed \subseteq Messages
      BY <1>b DEF TypeOK
    <2>4. channel' \in Seq(Messages) /\ Len(channel') <= ChanCap /\ owed' \subseteq Messages
      <3>1. CASE Len(channel) < ChanCap
        <4>1. channel' = Append(channel, m) /\ owed' \subseteq owed \union {m}
          BY <1>8, <3>1 DEF FallbackNote
        <4> HIDE DEF m
        <4> QED BY <3>1, <4>1, <2>1, <2>3, <1>a, AppendProperties
      <3>2. CASE ~(Len(channel) < ChanCap)
        BY <1>8, <2>3, <3>2 DEF FallbackNote
      <3> QED BY <3>1, <3>2
    <2> QED BY <1>8, <1>b, <2>2, <2>4 DEF FallbackNote, TypeInv, TypeOK, Pcs, wireVars, regVars
  <1>9. ASSUME NEW s \in Senders, FallbackAsk(s) PROVE TypeInv'
    <2> DEFINE m == [msg[s] EXCEPT !.via = "channel"]
    <2>1. msg[s] \in Messages /\ msg[s].from = s /\ m \in Messages /\ m.from = s
      BY <1>9, <1>d DEF FallbackAsk, Messages
    <2>2. Moved
      <3>1. CASE Over(s)
        BY <1>9, <3>1, SenderIdle DEF FallbackAsk
      <3>2. CASE Goto(s, "waiting") /\ msg' = [msg EXCEPT ![s].via = "channel"]
        <4>1. msg' = [msg EXCEPT ![s] = m] /\ at' = [at EXCEPT ![s] = "waiting"]
          BY <3>2 DEF Goto
        <4>2. s \notin Casters /\ "waiting" \in Pcs /\ UNCHANGED fwd
          BY <1>9, <1>c DEF FallbackAsk, Pcs
        <4> HIDE DEF m
        <4> QED BY <2>1, <4>1, <4>2, SenderMoves
      <3> QED BY <1>9, <3>1, <3>2 DEF FallbackAsk
    <2> QED BY <1>9, <1>b, <2>2
          DEF FallbackAsk, TypeInv, TypeOK, Pcs, queueVars, wireVars, regVars
  <1>10. ASSUME NEW s \in Senders, Answered(s) \/ AskGivesUp(s) PROVE TypeInv'
    <2>1. Moved
      BY <1>10, SenderIdle DEF Answered, AskGivesUp
    <2> QED BY <1>10, <1>b, <2>1
          DEF Answered, AskGivesUp, TypeInv, TypeOK, Pcs, queueVars, wireVars, regVars
  <1>11. ASSUME FwdTakeNote PROVE TypeInv'
    <2>1. ASSUME NEW q \in Seq(Messages), q # <<>>
          PROVE  /\ Head(q) \in Messages /\ Tail(q) \in Seq(Messages)
                 /\ Len(Tail(q)) <= Len(q) /\ Len(Tail(q)) \in Nat /\ Len(q) \in Nat
      BY <2>1, RangeTail
    <2>2. /\ notes \in Seq(Messages) /\ Len(notes) \in Nat /\ Len(notes) <= ScopedCap
          /\ channel \in Seq(Messages) /\ Len(channel) \in Nat /\ Len(channel) <= ChanCap
      BY <1>b DEF TypeOK
    <2>3. PICK m \in Messages : fwd' = [at |-> "holding", msg |-> m]
      BY <1>11, <2>1, <2>2 DEF FwdTakeNote
    <2>4. /\ notes' \in Seq(Messages) /\ Len(notes') <= ScopedCap
          /\ channel' \in Seq(Messages) /\ Len(channel') <= ChanCap
      <3>1. CASE notes # <<>> /\ notes' = Tail(notes) /\ UNCHANGED channel
        BY <1>a, <2>1, <2>2, <3>1
      <3>2. CASE channel # <<>> /\ channel' = Tail(channel) /\ UNCHANGED notes
        BY <1>a, <2>1, <2>2, <3>2
      <3> QED BY <1>11, <3>1, <3>2 DEF FwdTakeNote
    <2>5. Stations'
      BY <1>11, <1>b, <2>3 DEF FwdTakeNote, Stations, sendVars
    <2> QED BY <1>11, <1>b, <2>3, <2>4, <2>5
          DEF FwdTakeNote, TypeInv, TypeOK, sendVars, wireVars, regVars
  <1>12. ASSUME FwdTakeAsk PROVE TypeInv'
    <2>1. /\ Head(asks) \in Messages /\ asks' \in Seq(Messages) /\ Len(asks') <= Len(asks)
          /\ Len(asks) <= ScopedCap /\ Len(asks) \in Nat /\ Len(asks') \in Nat
      BY <1>12, <1>b, RangeTail DEF FwdTakeAsk, TypeOK
    <2>2. asks' \in Seq(Messages) /\ Len(asks') <= ScopedCap
      BY <2>1, <1>a
    <2>3. Stations'
      BY <1>12, <1>b, <2>1 DEF FwdTakeAsk, Stations, sendVars
    <2> QED BY <1>12, <1>b, <2>1, <2>2, <2>3
          DEF FwdTakeAsk, TypeInv, TypeOK, sendVars, wireVars, regVars
  <1>13. ASSUME FwdWrite PROVE TypeInv'
    <2>1. fwd.msg \in Messages
      BY <1>13, <1>b DEF FwdWrite, Stations
    <2>2. /\ header' \in {"none", "sse", "json", "accepted"}
          /\ out' \in Seq(Messages \union {Response})
          /\ stored' \in Seq(Messages \union {Response})
      <3>1. CASE Write(fwd.msg)
        BY <1>b, <2>1, <3>1, WriteTypes
      <3>2. CASE UNCHANGED wireVars
        BY <1>b, <3>2 DEF wireVars, TypeOK
      <3> QED BY <1>13, <3>1, <3>2 DEF FwdWrite
    <2>3. Stations'
      BY <1>13, <1>b DEF FwdWrite, Stations, sendVars
    <2>4. fwd' \in [at : {"select", "holding", "exited"}, msg : Messages \union {NoMsg}]
      BY <1>13 DEF FwdWrite
    <2> QED BY <1>13, <1>b, <2>2, <2>3, <2>4
          DEF FwdWrite, TypeInv, TypeOK, sendVars, queueVars, regVars
  <1>14. ASSUME FwdExits PROVE TypeInv'
    <2>1. fwd' \in [at : {"select", "holding", "exited"}, msg : Messages \union {NoMsg}]
      BY <1>14, <1>b DEF FwdExits, TypeOK
    <2>2. Stations'
      BY <1>14, <1>b DEF FwdExits, TypeOK, Stations, sendVars
    <2> QED BY <1>14, <1>b, <2>1, <2>2
          DEF FwdExits, TypeInv, TypeOK, sendVars, queueVars, wireVars, regVars
  <1>15. ASSUME HandleMessageReturns \/ CloseDone \/ CloseWaits \/ AwaitForwarder \/ Drained
                \/ Disconnect \/ Cancelled
         PROVE  TypeInv'
    <2>1. /\ resp' \in {"handling", "returned", "closing", "await", "drain", "respond",
                       "written", "finished"}
          /\ gone' \in BOOLEAN /\ ended' \in BOOLEAN /\ done' \in BOOLEAN
      <3>1. post.reply \in BOOLEAN
        BY <1>b DEF TypeOK, Posts
      <3> QED BY <1>15, <1>b, <3>1 DEF HandleMessageReturns, CloseDone, CloseWaits, AwaitForwarder,
                 Drained, Disconnect, Cancelled, TypeOK
    <2>2. UNCHANGED <<post, sendVars, queueVars, fwd, upgrade, wireVars, regVars, owed>>
      BY <1>15 DEF HandleMessageReturns, CloseDone, CloseWaits, AwaitForwarder, Drained,
         Disconnect, Cancelled
    <2> QED BY <1>b, <2>1, <2>2 DEF TypeInv, TypeOK, Stations, sendVars, queueVars, wireVars,
           regVars
  <1>16. ASSUME Drain PROVE TypeInv'
    <2>1. ASSUME NEW q \in Seq(Messages), q # <<>>
          PROVE  /\ Head(q) \in Messages /\ Tail(q) \in Seq(Messages)
                 /\ Len(Tail(q)) <= Len(q) /\ Len(Tail(q)) \in Nat /\ Len(q) \in Nat
      BY <2>1, RangeTail
    <2>2. /\ notes \in Seq(Messages) /\ Len(notes) \in Nat /\ Len(notes) <= ScopedCap
          /\ channel \in Seq(Messages) /\ Len(channel) \in Nat /\ Len(channel) <= ChanCap
      BY <1>b DEF TypeOK
    <2>3. PICK m \in Messages : Write(m)
      BY <1>16, <2>1, <2>2 DEF Drain
    <2>4. /\ notes' \in Seq(Messages) /\ Len(notes') <= ScopedCap
          /\ channel' \in Seq(Messages) /\ Len(channel') <= ChanCap
      <3>1. CASE notes # <<>> /\ notes' = Tail(notes) /\ UNCHANGED channel
        BY <1>a, <2>1, <2>2, <3>1
      <3>2. CASE channel # <<>> /\ channel' = Tail(channel) /\ UNCHANGED notes
        BY <1>a, <2>1, <2>2, <3>2
      <3> QED BY <1>16, <3>1, <3>2 DEF Drain
    <2>5. /\ header' \in {"none", "sse", "json", "accepted"}
          /\ out' \in Seq(Messages \union {Response})
          /\ stored' \in Seq(Messages \union {Response})
      BY <1>b, <2>3, WriteTypes
    <2> QED BY <1>16, <1>b, <2>4, <2>5
          DEF Drain, TypeInv, TypeOK, Stations, sendVars, regVars
  <1>17. ASSUME Respond PROVE TypeInv'
    <2>1. /\ header' \in {"none", "sse", "json", "accepted"}
          /\ out' \in Seq(Messages \union {Response})
          /\ stored' \in Seq(Messages \union {Response})
      <3>1. CASE Write(Response)
        BY <1>b, <3>1, WriteTypes
      <3>2. CASE out' = Append(out, Response) /\ UNCHANGED stored
                 /\ header' \in {"sse", "json"}
        BY <1>b, <3>2, AppendProperties DEF TypeOK
      <3>3. CASE UNCHANGED <<out, stored>> /\ header' \in {header, "accepted"}
        BY <1>b, <3>3 DEF TypeOK
      <3> QED BY <1>17, <3>1, <3>2, <3>3 DEF Respond, wireVars
    <2> QED BY <1>17, <1>b, <2>1
          DEF Respond, TypeInv, TypeOK, Stations, sendVars, queueVars, regVars
  <1>18. ASSUME Finish \/ OthersRegister \/ OthersRemove PROVE TypeInv'
    <2>1. /\ active' \in {"none", "mine", "other"} /\ removed' \in BOOLEAN /\ ended' \in BOOLEAN
          /\ resp' \in {resp, "finished"}
      BY <1>18, <1>b DEF Finish, OthersRegister, OthersRemove, TypeOK
    <2>2. UNCHANGED <<post, gone, sendVars, done, queueVars, fwd, upgrade, wireVars, registered,
                      owns, owed>>
      BY <1>18 DEF Finish, OthersRegister, OthersRemove
    <2> QED BY <1>b, <2>1, <2>2 DEF TypeInv, TypeOK, Stations, sendVars, queueVars, wireVars
  <1>19. ASSUME OtherTakes PROVE TypeInv'
    <2>1. /\ channel' \in Seq(Messages) /\ Len(channel') <= Len(channel)
          /\ Len(channel) <= ChanCap /\ Len(channel) \in Nat /\ Len(channel') \in Nat
      BY <1>19, <1>b, RangeTail DEF OtherTakes, TypeOK
    <2> QED BY <1>19, <1>a, <1>b, <2>1
          DEF OtherTakes, TypeInv, TypeOK, Stations, sendVars, wireVars, regVars
  <1>20. ASSUME UNCHANGED vars PROVE TypeInv'
    BY <1>20, <1>b DEF vars, TypeInv, TypeOK, Stations
  <1> QED BY <1>1, <1>2, <1>3, <1>4, <1>5, <1>6, <1>7, <1>8, <1>9, <1>10, <1>11, <1>12, <1>13,
             <1>14, <1>15, <1>16, <1>17, <1>18, <1>19, <1>20
        DEF Next, SenderNext, ForwarderNext, ResponseNext

\* Every variable of PostStream keeps its type: no channel ever holds more than
\* its capacity, and sendMu is free or held by a goroutine of the handler.
THEOREM PostTypeCorrect == Spec => []TypeOK
  <1>1. TypeInv => TypeOK
    BY DEF TypeInv
  <1> QED BY TypeInit, TypeStep, <1>1, PTL DEF Spec

-----------------------------------------------------------------------------
(* Nothing is stranded.                                                    *)

\* Who holds sendMu is sending, and only a POST with channels of its own is
\* sent to by way of them.
Locking ==
  /\ \A s \in Handlers : at[s] = "sending" <=> sendMu = s
  /\ \A s \in Senders : at[s] \in {"probe", "register", "lock", "sending"} =>
       Scoped /\ msg[s].via = "scoped"

\* The response path has passed its last two stages.
Over2 == {"respond", "written", "finished"}

\* How far the response path is tells who can still be about.
Phases ==
  /\ done <=> resp \notin {"handling", "returned"}
  /\ resp \in {"await", "drain"} \union Over2 => sendMu = None
  /\ resp \in {"drain"} \union Over2 => fwd.at = "exited"
  /\ resp \in Over2 => notes = <<>>

\* What is in which channel.
Kinds ==
  /\ \A m \in ToSet(notes) : m.kind = "note" /\ m.via = "scoped"
  /\ \A m \in ToSet(asks) : m.kind = "ask" /\ m.via = "scoped"
  /\ \A m \in ToSet(channel) : m.kind = "note" /\ m.via = "channel"
  /\ \A m \in owed : m.kind = "note" /\ (m.via = "channel" => post.reply /\ ~post.shared)

Delivery == TypeInv /\ Locking /\ Phases /\ Kinds

\* The constant parts of the actions.
Framed == /\ at \in [Senders -> Pcs]
          /\ Handlers \subseteq Senders /\ None \notin Handlers
          /\ \A s \in Casters : at[s] \in {"idle", "fallback"} /\ s \notin Handlers

LEMMA FramedHolds == TypeInv => Framed
  BY PostStreamAssumption
  DEF TypeInv, TypeOK, Stations, Framed, Pcs, Senders, Handlers, PostStreamAssumption

LEMMA LockingStep == Delivery /\ [Next]_vars => Locking'
  <1> SUFFICES ASSUME Delivery, [Next]_vars PROVE Locking'
    OBVIOUS
  <1>a. TypeOK /\ Framed /\ Locking
    BY FramedHolds DEF Delivery, TypeInv
  <1>b. msg \in [Senders -> Messages \union {NoMsg}]
    BY <1>a DEF TypeOK
  <1>1. ASSUME NEW s \in Senders, BeginNote(s) PROVE Locking'
    <2>1. PICK pc \in {"lock", "fallback"} :
            at' = [at EXCEPT ![s] = pc] /\ (pc = "lock" => Scoped)
      BY <1>1 DEF BeginNote, Goto
    <2>2. msg'[s].via = "scoped" /\ \A t \in Senders \ {s} : msg'[t] = msg[t]
      BY <1>1, <1>b DEF BeginNote
    <2>3. UNCHANGED <<post, sendMu>> /\ at[s] = "idle"
      BY <1>1 DEF BeginNote
    <2> QED BY <1>a, <2>1, <2>2, <2>3 DEF Locking, Framed, Scoped
  <1>2. ASSUME NEW s \in Senders, BeginAsk(s) PROVE Locking'
    <2>1. PICK pc \in {"probe", "fallback"} :
            at' = [at EXCEPT ![s] = pc] /\ (pc = "probe" => Scoped)
      BY <1>2 DEF BeginAsk, Goto
    <2>2. msg'[s].via = "scoped" /\ \A t \in Senders \ {s} : msg'[t] = msg[t]
      BY <1>2, <1>b DEF BeginAsk
    <2>3. UNCHANGED <<post, sendMu>> /\ at[s] = "idle"
      BY <1>2 DEF BeginAsk
    <2> QED BY <1>a, <2>1, <2>2, <2>3 DEF Locking, Framed, Scoped
  <1>3. ASSUME NEW s \in Senders, ProbeDone(s) \/ Register(s) PROVE Locking'
    <2>1. PICK pc \in {"fallback", "register", "lock"} : at' = [at EXCEPT ![s] = pc]
      BY <1>3 DEF ProbeDone, Register, Goto
    <2>2. UNCHANGED <<post, sendMu, msg>> /\ at[s] \in {"probe", "register"}
      BY <1>3 DEF ProbeDone, Register
    <2> QED BY <1>a, <2>1, <2>2 DEF Locking, Framed, Scoped
  <1>4. ASSUME NEW s \in Senders, LockSend(s) PROVE Locking'
    <2>1. s \in Handlers /\ UNCHANGED <<post, msg>> /\ sendMu = None /\ at[s] = "lock"
      BY <1>4, <1>a DEF LockSend, Framed, Senders
    <2>2. \/ at' = [at EXCEPT ![s] = "fallback"] /\ UNCHANGED sendMu
          \/ at' = [at EXCEPT ![s] = "sending"] /\ sendMu' = s
      BY <1>4 DEF LockSend, Goto
    <2> QED BY <1>a, <2>1, <2>2 DEF Locking, Framed, Scoped
  <1>5. ASSUME NEW s \in Senders, SendScoped(s) \/ SendGivesUp(s) PROVE Locking'
    <2>1. s \in Handlers /\ UNCHANGED post /\ sendMu = s /\ at[s] = "sending" /\ sendMu' = None
      BY <1>5, <1>a DEF SendScoped, SendGivesUp, Framed, Senders, Locking
    <2>2. PICK pc \in {"idle", "waiting", "fallback"} : at' = [at EXCEPT ![s] = pc]
      BY <1>5 DEF SendScoped, SendGivesUp, Over, Goto
    <2>3. \A t \in Senders \ {s} : msg'[t] = msg[t]
      BY <1>5, <1>b DEF SendScoped, SendGivesUp, Over
    <2> QED BY <1>a, <2>1, <2>2, <2>3 DEF Locking, Framed, Scoped
  <1>6. ASSUME NEW s \in Senders,
               FallbackNote(s) \/ FallbackAsk(s) \/ Answered(s) \/ AskGivesUp(s)
        PROVE  Locking'
    <2>1. UNCHANGED <<post, sendMu>> /\ at[s] \in {"fallback", "waiting"}
      BY <1>6 DEF FallbackNote, FallbackAsk, Answered, AskGivesUp
    <2>2. PICK pc \in {"idle", "waiting"} : at' = [at EXCEPT ![s] = pc]
      BY <1>6 DEF FallbackNote, FallbackAsk, Answered, AskGivesUp, Over, Goto
    <2>3. \A t \in Senders \ {s} : msg'[t] = msg[t]
      BY <1>6, <1>b DEF FallbackNote, FallbackAsk, Answered, AskGivesUp, Over
    <2> QED BY <1>a, <2>1, <2>2, <2>3 DEF Locking, Framed, Scoped
  <1>7. ASSUME UNCHANGED <<post, sendVars>> PROVE Locking'
    BY <1>7, <1>a DEF Locking, Scoped, sendVars
  <1>8. CASE \/ ForwarderNext \/ HandleMessageReturns \/ ResponseNext
            \/ Disconnect \/ Cancelled \/ OtherTakes
            \/ OthersRegister \/ OthersRemove \/ UNCHANGED vars
    <2>1. UNCHANGED <<post, sendVars>>
      BY <1>8 DEF ForwarderNext, FwdTakeNote, FwdTakeAsk, FwdWrite, FwdExits,
         HandleMessageReturns, ResponseNext, CloseDone, CloseWaits, AwaitForwarder, Drain,
         Drained, Respond, Finish, Disconnect, Cancelled, OtherTakes,
         OthersRegister, OthersRemove, vars, sendVars
    <2> QED BY <1>7, <2>1
  <1> QED BY <1>1, <1>2, <1>3, <1>4, <1>5, <1>6, <1>8 DEF Next, SenderNext

LEMMA PhasesStep == Delivery /\ [Next]_vars => Phases'
  <1> SUFFICES ASSUME Delivery, [Next]_vars PROVE Phases'
    OBVIOUS
  <1>a. TypeOK /\ Framed /\ Locking /\ Phases
    BY FramedHolds DEF Delivery, TypeInv
  <1>1. ASSUME UNCHANGED <<done, resp, fwd>>, sendMu' \in {sendMu, None}, UNCHANGED notes
        PROVE  Phases'
    BY <1>1, <1>a DEF Phases
  <1>2. ASSUME NEW s \in Senders,
               \/ BeginNote(s) \/ BeginAsk(s) \/ ProbeDone(s) \/ Register(s) \/ SendGivesUp(s)
               \/ FallbackNote(s) \/ FallbackAsk(s) \/ Answered(s) \/ AskGivesUp(s)
        PROVE  Phases'
    <2>1. UNCHANGED <<done, resp, fwd, notes>> /\ sendMu' \in {sendMu, None}
      BY <1>2 DEF BeginNote, BeginAsk, ProbeDone, Register, SendGivesUp, FallbackNote,
         FallbackAsk, Answered, AskGivesUp, queueVars
    <2> QED BY <1>1, <2>1
  <1>3. ASSUME NEW s \in Senders, LockSend(s) PROVE Phases'
    <2>1. UNCHANGED <<done, resp, fwd, notes>> /\ (sendMu' = sendMu \/ ~done)
      BY <1>3 DEF LockSend, queueVars
    <2> QED BY <1>a, <2>1 DEF Phases, Over2
  <1>4. ASSUME NEW s \in Senders, SendScoped(s) PROVE Phases'
    <2>1. UNCHANGED <<done, resp, fwd>> /\ sendMu' = None /\ sendMu # None
      BY <1>4, <1>a DEF SendScoped, Framed, Locking, Senders
    <2> QED BY <1>a, <2>1 DEF Phases
  <1>5. ASSUME FwdTakeNote \/ FwdTakeAsk \/ FwdWrite PROVE Phases'
    <2>1. fwd.at # "exited" /\ UNCHANGED <<done, resp, sendMu>>
      BY <1>5 DEF FwdTakeNote, FwdTakeAsk, FwdWrite, sendVars
    <2> QED BY <1>a, <2>1 DEF Phases
  <1>6. ASSUME FwdExits PROVE Phases'
    <2>1. fwd'.at = "exited" /\ UNCHANGED <<done, resp, sendMu, notes>>
      BY <1>6, <1>a DEF FwdExits, sendVars, queueVars, TypeOK
    <2> QED BY <1>a, <2>1 DEF Phases
  <1>7. ASSUME HandleMessageReturns PROVE Phases'
    BY <1>7, <1>a DEF HandleMessageReturns, Phases, Over2, sendVars
  <1>8. ASSUME CloseDone PROVE Phases'
    <2>1. ~Scoped => sendMu = None
      BY <1>a DEF TypeOK, Locking, Framed
    <2> QED BY <1>8, <1>a, <2>1 DEF CloseDone, Phases, Over2, sendVars
  <1>9. ASSUME CloseWaits PROVE Phases'
    BY <1>9, <1>a DEF CloseWaits, Phases, Over2, sendVars
  <1>10. ASSUME AwaitForwarder PROVE Phases'
    BY <1>10, <1>a DEF AwaitForwarder, Phases, Over2, sendVars
  <1>11. ASSUME Drain PROVE Phases'
    BY <1>11, <1>a DEF Drain, Phases, Over2, sendVars
  <1>12. ASSUME Drained PROVE Phases'
    BY <1>12, <1>a DEF Drained, Phases, Over2, sendVars, queueVars
  <1>13. ASSUME Respond \/ Finish PROVE Phases'
    BY <1>13, <1>a DEF Respond, Finish, Phases, Over2, sendVars, queueVars
  <1>14. ASSUME Disconnect \/ Cancelled \/ OtherTakes
                \/ OthersRegister \/ OthersRemove \/ UNCHANGED vars
         PROVE  Phases'
    <2>1. UNCHANGED <<done, resp, fwd, notes, sendMu>>
      BY <1>14 DEF Disconnect, Cancelled, OtherTakes,
         OthersRegister, OthersRemove, vars, sendVars, queueVars
    <2> QED BY <1>1, <2>1
  <1> QED BY <1>2, <1>3, <1>4, <1>5, <1>6, <1>7, <1>8, <1>9, <1>10, <1>11, <1>12, <1>13, <1>14
        DEF Next, SenderNext, ForwarderNext, ResponseNext

\* No step but a sending one puts anything into a queue, or undertakes anything.
Shrink ==
  /\ ToSet(notes') \subseteq ToSet(notes) /\ ToSet(asks') \subseteq ToSet(asks)
  /\ ToSet(channel') \subseteq ToSet(channel)
  /\ UNCHANGED <<post, owed>>

LEMMA OthersShrink ==
  ASSUME TypeOK, [Next]_vars
  PROVE  Shrink \/ \E s \in Senders : SendScoped(s) \/ FallbackNote(s)
  <1>1. ASSUME NEW q \in Seq(Messages), q # <<>> PROVE ToSet(Tail(q)) \subseteq ToSet(q)
    BY <1>1, RangeTail
  <1>2. notes \in Seq(Messages) /\ asks \in Seq(Messages) /\ channel \in Seq(Messages)
    BY DEF TypeOK
  <1>3. ASSUME UNCHANGED <<post, queueVars, owed>> PROVE Shrink
    BY <1>3 DEF Shrink, queueVars
  <1>4. ASSUME NEW s \in Senders,
               \/ BeginNote(s) \/ BeginAsk(s) \/ ProbeDone(s) \/ Register(s) \/ LockSend(s)
               \/ SendGivesUp(s) \/ FallbackAsk(s) \/ Answered(s) \/ AskGivesUp(s)
        PROVE  Shrink
    <2>1. UNCHANGED <<post, queueVars, owed>>
      BY <1>4 DEF BeginNote, BeginAsk, ProbeDone, Register, LockSend, SendGivesUp, FallbackAsk,
         Answered, AskGivesUp
    <2> QED BY <1>3, <2>1
  <1>5. ASSUME \/ FwdWrite \/ FwdExits \/ HandleMessageReturns \/ CloseDone \/ CloseWaits
               \/ AwaitForwarder \/ Drained \/ Respond \/ Finish \/ Disconnect \/ Cancelled
               \/ OthersRegister \/ OthersRemove \/ UNCHANGED vars
        PROVE  Shrink
    <2>1. UNCHANGED <<post, queueVars, owed>>
      BY <1>5 DEF FwdWrite, FwdExits, HandleMessageReturns, CloseDone, CloseWaits,
         AwaitForwarder, Drained, Respond, Finish, Disconnect, Cancelled,
         OthersRegister, OthersRemove, vars, queueVars
    <2> QED BY <1>3, <2>1
  <1>6. ASSUME FwdTakeNote \/ FwdTakeAsk \/ Drain \/ OtherTakes PROVE Shrink
    <2>1. /\ UNCHANGED <<post, owed>>
          /\ notes' = notes \/ (notes # <<>> /\ notes' = Tail(notes))
          /\ asks' = asks \/ (asks # <<>> /\ asks' = Tail(asks))
          /\ channel' = channel \/ (channel # <<>> /\ channel' = Tail(channel))
      BY <1>6 DEF FwdTakeNote, FwdTakeAsk, Drain, OtherTakes
    <2> QED BY <1>1, <1>2, <2>1 DEF Shrink
  <1> QED BY <1>4, <1>5, <1>6 DEF Next, SenderNext, ForwarderNext, ResponseNext

LEMMA KindsStep == Delivery /\ [Next]_vars => Kinds'
  <1> SUFFICES ASSUME Delivery, [Next]_vars PROVE Kinds'
    OBVIOUS
  <1>a. TypeOK /\ Stations /\ Locking /\ Kinds
    BY DEF Delivery, TypeInv
  <1>b. notes \in Seq(Messages) /\ asks \in Seq(Messages) /\ channel \in Seq(Messages)
    BY <1>a DEF TypeOK
  <1>1. CASE Shrink
    BY <1>1, <1>a DEF Shrink, Kinds
  <1>2. ASSUME NEW s \in Senders, SendScoped(s) PROVE Kinds'
    <2>1. msg[s] \in Messages /\ msg[s].via = "scoped" /\ UNCHANGED <<post, channel>>
      BY <1>2, <1>a DEF SendScoped, Stations, Locking
    <2>2. msg[s].kind \in {"note", "ask"}
      BY <2>1 DEF Messages
    <2>3. CASE msg[s].kind = "note"
      <3>1. notes' = Append(notes, msg[s]) /\ owed' = owed \union {msg[s]} /\ UNCHANGED asks
        BY <1>2, <2>3 DEF SendScoped
      <3>2. ToSet(notes') = ToSet(notes) \union {msg[s]}
        BY <1>b, <2>1, <3>1, RangeAppend
      <3> QED BY <3>1, <3>2, <2>1, <2>3, <1>a, Zenon DEF Kinds
    <2>4. CASE msg[s].kind = "ask"
      <3>1. asks' = Append(asks, msg[s]) /\ UNCHANGED <<notes, owed>>
        BY <1>2, <2>4 DEF SendScoped
      <3>2. ToSet(asks') = ToSet(asks) \union {msg[s]}
        BY <1>b, <2>1, <3>1, RangeAppend
      <3> QED BY <3>1, <3>2, <2>1, <2>4, <1>a DEF Kinds
    <2> QED BY <2>2, <2>3, <2>4
  <1>3. ASSUME NEW s \in Senders, FallbackNote(s) PROVE Kinds'
    <2> DEFINE m == [msg[s] EXCEPT !.via = "channel"]
    <2>1. m \in Messages /\ m.kind = "note" /\ m.via = "channel"
      BY <1>3, <1>a DEF FallbackNote, Stations, Messages
    <2>2. /\ channel' = channel \/ channel' = Append(channel, m)
          /\ owed' = owed \/ (owed' = owed \union {m} /\ post.reply /\ ~post.shared)
          /\ UNCHANGED <<post, notes, asks>>
      BY <1>3 DEF FallbackNote
    <2> HIDE DEF m
    <2>3. ToSet(channel') \subseteq ToSet(channel) \union {m}
      <3>1. ToSet(Append(channel, m)) = ToSet(channel) \union {m}
        BY <1>b, <2>1, RangeAppend
      <3> QED BY <2>2, <3>1
    <2> QED BY <1>a, <2>1, <2>2, <2>3 DEF Kinds
  <1> QED BY <1>a, <1>1, <1>2, <1>3, OthersShrink

\* A notification is safe once it is written, or can no longer be.
Safe(m) == m \in ToSet(IF post.resumable THEN stored ELSE out) \/ (gone /\ ~post.resumable)

Owing(m) == (m \in Pending /\ resp \notin Over2) \/ Safe(m)

LEMMA StrandedMeans == NothingStranded <=> (post.stream => \A m \in owed : Owing(m))
  BY DEF NothingStranded, Owing, Safe, Over2

\* What is safe stays so; what is written becomes safe.
LEMMA WriteSafe ==
  ASSUME TypeOK, NEW w \in Messages \union {Response}, Write(w), UNCHANGED <<post, gone>>,
         post.stream
  PROVE  Safe(w)' /\ \A m \in Messages : Safe(m) => Safe(m)'
  <1>1. out \in Seq(Messages \union {Response}) /\ stored \in Seq(Messages \union {Response})
    BY DEF TypeOK
  <1>2. /\ ToSet(Append(out, w)) = ToSet(out) \union {w}
        /\ ToSet(Append(stored, w)) = ToSet(stored) \union {w}
    BY <1>1, RangeAppend
  <1>3. /\ post.resumable => stored' = Append(stored, w)
        /\ ~post.resumable /\ ~gone => out' = Append(out, w)
    BY DEF Write
  <1>4. CASE post.resumable
    BY <1>2, <1>3, <1>4 DEF Safe
  <1>5. CASE ~post.resumable
    BY <1>2, <1>3, <1>5 DEF Safe
  <1> QED BY <1>4, <1>5

\* A step that leaves the wire alone and loses no pending notification.
LEMMA KeepsOwing ==
  ASSUME NothingStranded, UNCHANGED <<post, owed, wireVars, gone>>,
         resp' \notin Over2 \/ resp' = resp, \A m \in owed : m \in Pending => m \in Pending'
  PROVE  NothingStranded'
  BY StrandedMeans DEF NothingStranded, Over2, wireVars

LEMMA StrandedStep == Delivery /\ NothingStranded /\ [Next]_vars => NothingStranded'
  <1> SUFFICES ASSUME Delivery, NothingStranded, [Next]_vars PROVE NothingStranded'
    OBVIOUS
  <1>a. TypeOK /\ Stations /\ Locking /\ Phases /\ Kinds
    BY DEF Delivery, TypeInv
  <1>b. /\ notes \in Seq(Messages) /\ channel \in Seq(Messages) /\ owed \subseteq Messages
        /\ NoMsg.kind # "note" /\ Framed
    BY <1>a, FramedHolds DEF TypeOK, NoMsg, Delivery
  <1>1. ASSUME NEW s \in Senders,
               \/ BeginNote(s) \/ BeginAsk(s) \/ ProbeDone(s) \/ Register(s) \/ LockSend(s)
               \/ SendGivesUp(s) \/ FallbackAsk(s) \/ Answered(s) \/ AskGivesUp(s)
        PROVE  NothingStranded'
    <2>1. UNCHANGED <<post, gone, owed, wireVars, resp, notes, channel, fwd>>
      BY <1>1 DEF BeginNote, BeginAsk, ProbeDone, Register, LockSend, SendGivesUp, FallbackAsk,
         Answered, AskGivesUp, queueVars
    <2> QED BY <2>1, KeepsOwing DEF Pending
  <1>2. ASSUME NEW s \in Senders, SendScoped(s) PROVE NothingStranded'
    <2>1. UNCHANGED <<post, gone, wireVars, resp, channel, fwd>> /\ msg[s] \in Messages
          /\ resp \notin Over2
      BY <1>2, <1>a, <1>b DEF SendScoped, Stations, Locking, Phases, Framed, Senders
    <2>2. CASE msg[s].kind = "note"
      <3>1. notes' = Append(notes, msg[s]) /\ owed' = owed \union {msg[s]}
        BY <1>2, <2>2 DEF SendScoped
      <3>2. ToSet(notes') = ToSet(notes) \union {msg[s]}
        BY <1>b, <2>1, <3>1, RangeAppend
      <3> QED BY <2>1, <3>1, <3>2 DEF NothingStranded, Pending, Over2, wireVars
    <2>3. CASE msg[s].kind # "note"
      <3>1. UNCHANGED <<notes, owed>>
        BY <1>2, <2>3 DEF SendScoped
      <3> QED BY <2>1, <3>1, KeepsOwing DEF Pending
    <2> QED BY <2>2, <2>3
  <1>3. ASSUME NEW s \in Senders, FallbackNote(s) PROVE NothingStranded'
    <2> DEFINE m == [msg[s] EXCEPT !.via = "channel"]
    <2>1. m \in Messages
      BY <1>3, <1>a DEF FallbackNote, Stations, Messages
    <2>2. /\ UNCHANGED <<post, gone, wireVars, resp, notes, fwd>>
          /\ \/ UNCHANGED <<channel, owed>>
             \/ /\ channel' = Append(channel, m)
                /\ owed' = owed \/ (owed' = owed \union {m} /\ resp = "handling")
      BY <1>3 DEF FallbackNote
    <2> HIDE DEF m
    <2>3. ToSet(Append(channel, m)) = ToSet(channel) \union {m}
      BY <1>b, <2>1, RangeAppend
    <2>4. CASE UNCHANGED owed
      <3>1. ToSet(channel) \subseteq ToSet(channel')
        BY <2>2, <2>3
      <3> QED BY <2>2, <2>4, <3>1, KeepsOwing DEF Pending
    <2>5. CASE owed' = owed \union {m} /\ channel' = Append(channel, m) /\ resp = "handling"
      BY <2>2, <2>3, <2>5 DEF NothingStranded, Pending, wireVars
    <2> QED BY <2>2, <2>4, <2>5
  <1>4. ASSUME FwdTakeNote PROVE NothingStranded'
    <2>1. UNCHANGED <<post, gone, owed, wireVars, resp>> /\ fwd.msg = NoMsg
      BY <1>4, <1>a DEF FwdTakeNote, Stations
    <2>2. ASSUME NEW m \in owed, m \in Pending PROVE m \in Pending'
      <3>1. m # fwd.msg
        BY <2>1, <2>2, <1>a, <1>b DEF Kinds
      <3>2. CASE /\ notes # <<>> /\ fwd' = [at |-> "holding", msg |-> Head(notes)]
                 /\ notes' = Tail(notes) /\ UNCHANGED channel
        <4>1. ToSet(notes) = {Head(notes)} \union ToSet(Tail(notes))
          BY <1>b, <3>2, RangeTail
        <4> QED BY <2>2, <3>1, <3>2, <4>1 DEF Pending
      <3>3. CASE /\ channel # <<>> /\ fwd' = [at |-> "holding", msg |-> Head(channel)]
                 /\ channel' = Tail(channel) /\ UNCHANGED notes
        <4>1. ToSet(channel) = {Head(channel)} \union ToSet(Tail(channel))
          BY <1>b, <3>3, RangeTail
        <4> QED BY <2>2, <3>1, <3>3, <4>1 DEF Pending
      <3> QED BY <1>4, <3>2, <3>3 DEF FwdTakeNote
    <2> QED BY <2>1, <2>2, KeepsOwing
  <1>5. ASSUME FwdTakeAsk \/ FwdExits PROVE NothingStranded'
    <2>1. UNCHANGED <<post, gone, owed, wireVars, resp, notes, channel>>
          /\ (fwd.msg = NoMsg \/ fwd'.msg = fwd.msg)
      BY <1>5, <1>a DEF FwdTakeAsk, FwdExits, Stations, queueVars, TypeOK
    <2>2. ASSUME NEW m \in owed, m \in Pending PROVE m \in Pending'
      BY <2>1, <2>2, <1>a, <1>b DEF Pending, Kinds
    <2> QED BY <2>1, <2>2, KeepsOwing
  <1>6. ASSUME FwdWrite PROVE NothingStranded'
    <2>1. UNCHANGED <<post, gone, owed, resp, notes, channel>> /\ fwd.msg \in Messages
      BY <1>6, <1>a DEF FwdWrite, Stations, queueVars
    <2>2. CASE fwd.msg.kind = "ask" /\ UNCHANGED wireVars
      <3>1. ASSUME NEW m \in owed, m \in Pending PROVE m \in Pending'
        BY <2>1, <2>2, <3>1, <1>a DEF Pending, Kinds
      <3> QED BY <2>1, <2>2, <3>1, KeepsOwing
    <2>3. CASE Write(fwd.msg)
      <3> SUFFICES ASSUME post.stream, NEW m \in owed PROVE Owing(m)'
        BY <2>1, StrandedMeans DEF NothingStranded, Owing, Safe, Over2
      <3>a. PICK w \in Messages : w = fwd.msg /\ Write(w)
        BY <2>1, <2>3
      <3>1. Safe(w)' /\ (Safe(m) => Safe(m)')
        BY <1>a, <1>b, <2>1, <3>a, WriteSafe
      <3>2. Owing(m)
        BY StrandedMeans
      <3>3. m \in Pending /\ m # w => m \in Pending'
        BY <2>1, <3>a DEF Pending
      <3> QED BY <2>1, <3>1, <3>2, <3>3 DEF Owing
    <2> QED BY <1>6, <2>2, <2>3 DEF FwdWrite
  <1>7. ASSUME HandleMessageReturns \/ CloseDone \/ CloseWaits \/ AwaitForwarder
        PROVE  NothingStranded'
    <2>1. UNCHANGED <<post, gone, owed, wireVars, notes, channel, fwd>> /\ resp' \notin Over2
      BY <1>7 DEF HandleMessageReturns, CloseDone, CloseWaits, AwaitForwarder, Over2, queueVars
    <2> QED BY <2>1, KeepsOwing DEF Pending
  <1>8. ASSUME Drain PROVE NothingStranded'
    <2>1. UNCHANGED <<post, gone, owed, resp, fwd>>
      BY <1>8 DEF Drain
    <2>2. PICK w \in Messages :
            /\ Write(w)
            /\ \/ ToSet(notes) = {w} \union ToSet(notes') /\ UNCHANGED channel
               \/ ToSet(channel) = {w} \union ToSet(channel') /\ UNCHANGED notes
      BY <1>8, <1>b, RangeTail DEF Drain
    <2> SUFFICES ASSUME post.stream, NEW m \in owed PROVE Owing(m)'
      BY <2>1, StrandedMeans DEF NothingStranded, Owing, Safe, Over2
    <2>3. Safe(w)' /\ (Safe(m) => Safe(m)')
      BY <1>a, <1>b, <2>1, <2>2, WriteSafe
    <2>4. Owing(m)
      BY StrandedMeans
    <2>5. m \in Pending /\ m # w => m \in Pending'
      BY <2>1, <2>2 DEF Pending
    <2> QED BY <2>1, <2>3, <2>4, <2>5 DEF Owing
  <1>9. ASSUME Drained PROVE NothingStranded'
    <2>1. UNCHANGED <<post, gone, owed, wireVars>> /\ resp \notin Over2
          /\ notes = <<>> /\ fwd.msg = NoMsg
      BY <1>9, <1>a DEF Drained, Phases, Stations, Over2
    <2>2. ASSUME NEW m \in owed PROVE m \notin Pending
      <3>1. m.kind = "note" /\ (m.via = "channel" => post.reply)
        BY <1>a DEF Kinds
      <3>2. m \notin ToSet(channel)
        <4>1. m \in ToSet(channel) => m.via = "channel"
          BY <1>a DEF Kinds
        <4>2. post.reply => ToSet(channel) = {}
          BY <1>9, RangeEmpty DEF Drained
        <4> QED BY <3>1, <4>1, <4>2
      <3> QED BY <2>1, <3>1, <3>2, <1>b, RangeEmpty DEF Pending
    <2>3. post.stream => \A m \in owed : Safe(m)
      BY <2>2, StrandedMeans DEF Owing
    <2> QED BY <2>1, <2>3 DEF NothingStranded, Safe, wireVars
  <1>10. ASSUME Respond PROVE NothingStranded'
    <2>1. UNCHANGED <<post, gone, owed>> /\ resp \in Over2
      BY <1>10 DEF Respond, Over2
    <2>2. ASSUME post.stream, NEW m \in owed PROVE Safe(m) /\ m \in Messages
      BY <2>1, <2>2, <1>b, StrandedMeans DEF Owing
    <2>3. ASSUME post.stream, NEW m \in owed PROVE Safe(m)'
      <3>1. CASE Write(Response)
        BY <1>a, <2>1, <2>2, <2>3, <3>1, WriteSafe
      <3>2. CASE UNCHANGED <<out, stored>>
        BY <2>1, <2>2, <2>3, <3>2 DEF Safe
      <3>3. CASE out' = Append(out, Response) /\ UNCHANGED stored
        <4>1. ToSet(Append(out, Response)) = ToSet(out) \union {Response}
          <5>1. out \in Seq(Messages \union {Response})
            BY <1>a DEF TypeOK
          <5>2. Response \in Messages \union {Response}
            OBVIOUS
          <5> HIDE DEF Response
          <5> QED BY <5>1, <5>2, RangeAppend
        <4> QED BY <2>1, <2>2, <2>3, <3>3, <4>1 DEF Safe
      <3> QED BY <1>10, <3>1, <3>2, <3>3 DEF Respond, wireVars
    <2> QED BY <2>1, <2>3 DEF NothingStranded, Safe
  <1>11. ASSUME Finish \/ Cancelled \/ OthersRegister \/ OthersRemove \/ UNCHANGED vars
         PROVE  NothingStranded'
    <2>1. UNCHANGED <<post, gone, owed, wireVars, notes, channel, fwd>>
          /\ (resp \in Over2 \/ resp' = resp)
      BY <1>11 DEF Finish, Cancelled,
         OthersRegister, OthersRemove, vars, queueVars, wireVars, Over2
    <2>2. ASSUME NEW m \in owed, Owing(m) PROVE Owing(m)'
      BY <2>1, <2>2 DEF Owing, Safe, Pending, wireVars
    <2> QED BY <2>1, <2>2, StrandedMeans DEF NothingStranded, Owing, Safe, Over2
  <1>12. ASSUME Disconnect PROVE NothingStranded'
    <2>1. UNCHANGED <<post, owed, wireVars, notes, channel, fwd, resp>> /\ gone'
      BY <1>12 DEF Disconnect, queueVars
    <2> QED BY <2>1 DEF NothingStranded, Pending, wireVars
  <1>13. ASSUME OtherTakes PROVE NothingStranded'
    <2>1. UNCHANGED <<post, gone, owed, wireVars, resp, notes, fwd>> /\ post.shared
      BY <1>13 DEF OtherTakes
    <2>2. ASSUME NEW m \in owed, m \in Pending PROVE m \in Pending'
      BY <2>1, <2>2, <1>a DEF Pending, Kinds
    <2> QED BY <2>1, <2>2, KeepsOwing
  <1> QED BY <1>1, <1>2, <1>3, <1>4, <1>5, <1>6, <1>7, <1>8, <1>9, <1>10, <1>11, <1>12, <1>13
        DEF Next, SenderNext, ForwarderNext, ResponseNext

LEMMA DeliveryInit == Init => Delivery /\ NothingStranded
  <1> SUFFICES ASSUME Init PROVE Delivery /\ NothingStranded
    OBVIOUS
  <1>1. Locking
    BY PostStreamAssumption DEF Init, Locking, PostStreamAssumption, Handlers, Senders
  <1>2. Phases
    BY DEF Init, Phases, Over2
  <1>3. Kinds
    BY RangeEmpty DEF Init, Kinds
  <1>4. NothingStranded
    BY DEF Init, NothingStranded
  <1> QED BY <1>1, <1>2, <1>3, <1>4, TypeInit DEF Delivery

\* A notification reported as sent on the POST's own channel, or queued for its
\* session before HandleMessage returned, is written before the response or,
\* with an event store, recorded, whatever the client and the goroutines that
\* outlive the handler do meanwhile.
THEOREM PostNothingStranded == Spec => []NothingStranded
  <1>1. Delivery /\ NothingStranded /\ [Next]_vars => (Delivery /\ NothingStranded)'
    BY TypeStep, LockingStep, PhasesStep, KindsStep, StrandedStep DEF Delivery
  <1> QED BY DeliveryInit, <1>1, PTL DEF Spec

-----------------------------------------------------------------------------
(* One content type.                                                       *)

\* Until the response is written there is either no header, and nothing in the
\* body, or an event stream.
Content ==
  /\ OneContentType
  /\ resp \notin {"written", "finished"} =>
       header \in {"none", "sse"} /\ (header = "none" => out = <<>>)

LEMMA ContentStep == Delivery /\ Content /\ [Next]_vars => Content'
  <1> SUFFICES ASSUME Delivery, Content, [Next]_vars PROVE Content'
    OBVIOUS
  <1>a. Phases
    BY DEF Delivery
  <1>1. ASSUME UNCHANGED <<header, out>>,
               resp \in {"written", "finished"} => resp' \in {"written", "finished"}
        PROVE  Content'
    BY <1>1 DEF Content, OneContentType
  <1>2. ASSUME NEW w, Write(w), UNCHANGED resp, resp \notin {"written", "finished"}
        PROVE  Content'
    BY <1>2 DEF Content, OneContentType, Write, wireVars
  <1>3. ASSUME NEW s \in Senders, BeginNote(s) \/ BeginAsk(s) \/ SenderNext(s) \/ Answered(s)
        PROVE  Content'
    <2>1. UNCHANGED <<header, out, resp>>
      BY <1>3 DEF BeginNote, BeginAsk, SenderNext, ProbeDone, Register, LockSend, SendScoped,
         SendGivesUp, FallbackNote, FallbackAsk, Answered, AskGivesUp, wireVars
    <2> QED BY <1>1, <2>1
  <1>4. ASSUME ForwarderNext PROVE Content'
    <2>1. CASE Write(fwd.msg) /\ FwdWrite
      BY <1>2, <1>a, <2>1 DEF FwdWrite, Phases, Over2
    <2>2. CASE UNCHANGED <<header, out, resp>>
      BY <1>1, <2>2
    <2> QED BY <1>4, <2>1, <2>2 DEF ForwarderNext, FwdTakeNote, FwdTakeAsk, FwdWrite, FwdExits,
           wireVars
  <1>5. ASSUME HandleMessageReturns \/ CloseDone \/ CloseWaits \/ AwaitForwarder \/ Drained
               \/ Finish \/ Disconnect \/ Cancelled \/ OtherTakes
               \/ OthersRegister \/ OthersRemove \/ UNCHANGED vars
        PROVE  Content'
    <2>1. /\ UNCHANGED <<header, out>>
          /\ resp \in {"written", "finished"} => resp' \in {"written", "finished"}
      BY <1>5 DEF HandleMessageReturns, CloseDone, CloseWaits, AwaitForwarder, Drained, Finish,
         Disconnect, Cancelled, OtherTakes, OthersRegister, OthersRemove, vars, wireVars
    <2> QED BY <1>1, <2>1
  <1>6. ASSUME Drain PROVE Content'
    BY <1>2, <1>6 DEF Drain
  <1>7. ASSUME Respond PROVE Content'
    <2>1. header \in {"none", "sse"} /\ (header = "none" => out = <<>>) /\ resp' = "written"
      BY <1>7 DEF Respond, Content
    <2>2. Append(<<>>, Response) = <<Response>>
      OBVIOUS
    <2>3. header' \in {"json", "accepted"} => out' \in {<<>>, <<Response>>}
      BY <1>7, <2>1, <2>2 DEF Respond, Write, wireVars
    <2> QED BY <2>1, <2>3 DEF Content, OneContentType
  <1> QED BY <1>3, <1>4, <1>5, <1>6, <1>7 DEF Next, ResponseNext

\* The response is an event stream, or one JSON document, or empty, never a
\* mixture, however late a notification is written.
THEOREM PostOneContentType == Spec => []OneContentType
  <1>1. Init => Delivery /\ Content
    BY DeliveryInit DEF Init, Content, OneContentType
  <1>2. Delivery /\ Content /\ [Next]_vars => (Delivery /\ Content)'
    BY TypeStep, LockingStep, PhasesStep, KindsStep, ContentStep DEF Delivery
  <1>3. Content => OneContentType
    BY DEF Content
  <1> QED BY <1>1, <1>2, <1>3, PTL DEF Spec

-----------------------------------------------------------------------------
(* Answers find their session.                                             *)

\* Asking comes after registering: nobody is about to send an elicitation, and
\* none is queued, held or written, before register has run.
Registered ==
  /\ \A s \in Senders : at[s] = "waiting" => msg[s].kind = "ask"
  /\ \A s \in Senders : at[s] \in {"lock", "sending"} /\ msg[s].kind = "ask" => registered
  /\ \A m \in ToSet(out) \union ToSet(asks) \union {fwd.msg} : m.kind = "ask" => registered
  /\ registered /\ resp # "finished" => active # "none" \/ removed

LEMMA RegisteredStep == Delivery /\ Registered /\ [Next]_vars => Registered'
  <1> SUFFICES ASSUME Delivery, Registered, [Next]_vars PROVE Registered'
    OBVIOUS
  <1>a. TypeOK /\ Stations /\ Kinds
    BY DEF Delivery, TypeInv
  <1>b. /\ at \in [Senders -> Pcs] /\ msg \in [Senders -> Messages \union {NoMsg}]
        /\ asks \in Seq(Messages) /\ notes \in Seq(Messages) /\ channel \in Seq(Messages)
        /\ out \in Seq(Messages \union {Response})
        /\ NoMsg.kind # "ask" /\ Response.kind # "ask"
    BY <1>a DEF TypeOK, Pcs, NoMsg, Response
  <1> DEFINE Others == UNCHANGED <<out, asks, fwd, resp, active, registered, removed>>
             Rest == UNCHANGED <<at, msg>>
  <1>1. ASSUME NEW s \in Senders, BeginNote(s) \/ BeginAsk(s) PROVE Registered'
    <2>1. PICK m : msg' = [msg EXCEPT ![s] = m] /\ (BeginNote(s) => m.kind = "note")
      BY <1>1, <1>b DEF BeginNote, BeginAsk
    <2>2. PICK pc \in {"lock", "fallback", "probe"} :
            at' = [at EXCEPT ![s] = pc] /\ (pc = "lock" => BeginNote(s))
      BY <1>1 DEF BeginNote, BeginAsk, Goto
    <2>3. Others
      BY <1>1 DEF BeginNote, BeginAsk, queueVars, wireVars, regVars
    <2> QED BY <2>1, <2>2, <2>3, <1>b DEF Registered
  <1>2. ASSUME NEW s \in Senders, ProbeDone(s) \/ LockSend(s) \/ SendGivesUp(s)
        PROVE  Registered'
    <2>1. PICK pc \in {"fallback", "register", "sending"} :
            at' = [at EXCEPT ![s] = pc] /\ (pc = "sending" => at[s] = "lock")
      BY <1>2 DEF ProbeDone, LockSend, SendGivesUp, Goto
    <2>2. Others /\ UNCHANGED msg
      BY <1>2 DEF ProbeDone, LockSend, SendGivesUp, queueVars, wireVars, regVars
    <2> QED BY <2>1, <2>2, <1>b DEF Registered
  <1>3. ASSUME NEW s \in Senders, Register(s) PROVE Registered'
    <2>1. at' = [at EXCEPT ![s] = "lock"] /\ UNCHANGED <<msg, out, asks, fwd, resp>>
          /\ registered' /\ active' \in {"mine", active} /\ UNCHANGED removed
          /\ (active' = active => registered \/ active # "none")
      BY <1>3 DEF Register, Goto, queueVars, wireVars
    <2> QED BY <2>1, <1>b DEF Registered
  <1>4. ASSUME NEW s \in Senders, SendScoped(s) PROVE Registered'
    <2>1. msg[s] \in Messages /\ UNCHANGED <<out, fwd, resp, active, registered, removed>>
      BY <1>4, <1>a DEF SendScoped, Stations, wireVars, regVars
    <2>2. CASE msg[s].kind = "note"
      <3>1. UNCHANGED asks /\ at' = [at EXCEPT ![s] = "idle"] /\ msg' = [msg EXCEPT ![s] = NoMsg]
        BY <1>4, <2>2 DEF SendScoped, Over, Goto
      <3> QED BY <2>1, <3>1, <1>b DEF Registered
    <2>3. CASE msg[s].kind # "note"
      <3>1. /\ asks' = Append(asks, msg[s]) /\ at' = [at EXCEPT ![s] = "waiting"]
            /\ UNCHANGED msg
        BY <1>4, <2>3 DEF SendScoped, Goto
      <3>2. ToSet(asks') = ToSet(asks) \union {msg[s]}
        BY <1>b, <2>1, <3>1, RangeAppend
      <3>3. msg[s].kind = "ask" /\ at[s] = "sending"
        BY <1>4, <2>1, <2>3 DEF Messages, SendScoped
      <3>4. registered
        BY <3>3 DEF Registered
      <3> QED BY <2>1, <3>1, <3>2, <3>3, <3>4, <1>b DEF Registered
    <2> QED BY <2>2, <2>3
  <1>5. ASSUME NEW s \in Senders,
               \/ FallbackNote(s) \/ (FallbackAsk(s) /\ Over(s)) \/ Answered(s) \/ AskGivesUp(s)
        PROVE  Registered'
    <2>1. at' = [at EXCEPT ![s] = "idle"] /\ msg' = [msg EXCEPT ![s] = NoMsg] /\ Others
      BY <1>5 DEF FallbackNote, FallbackAsk, Answered, AskGivesUp, Over, Goto, queueVars,
         wireVars, regVars
    <2> QED BY <2>1, <1>b DEF Registered
  <1>6. ASSUME NEW s \in Senders, FallbackAsk(s), Goto(s, "waiting") PROVE Registered'
    <2>1. Others /\ at' = [at EXCEPT ![s] = "waiting"] /\ msg[s].kind = "ask"
      BY <1>6 DEF FallbackAsk, Goto, queueVars, wireVars, regVars
    <2>2. CASE Over(s)
      BY <1>5, <1>6, <2>2
    <2>3. CASE msg' = [msg EXCEPT ![s].via = "channel"]
      <3>1. msg[s] \in Messages
        BY <1>6, <1>a DEF FallbackAsk, Stations
      <3>2. msg'[s].kind = "ask" /\ \A t \in Senders \ {s} : msg'[t] = msg[t]
        BY <2>1, <2>3, <3>1, <1>b DEF Messages
      <3> QED BY <2>1, <3>2, <1>b DEF Registered
    <2> QED BY <1>6, <2>2, <2>3 DEF FallbackAsk
  <1>7. ASSUME FwdTakeNote PROVE Registered'
    <2>1. Rest /\ UNCHANGED <<out, asks, resp, active, registered, removed>>
      BY <1>7 DEF FwdTakeNote, sendVars, wireVars, regVars
    <2>2. fwd'.msg \in ToSet(notes) \union ToSet(channel)
      BY <1>7, <1>b, RangeTail DEF FwdTakeNote
    <2>3. fwd'.msg.kind = "note"
      BY <2>2, <1>a DEF Kinds
    <2> QED BY <2>1, <2>3 DEF Registered
  <1>8. ASSUME FwdTakeAsk PROVE Registered'
    <2>1. Rest /\ UNCHANGED <<out, resp, active, registered, removed>>
      BY <1>8 DEF FwdTakeAsk, sendVars, wireVars, regVars
    <2>2. fwd'.msg \in ToSet(asks) /\ ToSet(asks') \subseteq ToSet(asks)
      BY <1>8, <1>b, RangeTail DEF FwdTakeAsk
    <2> QED BY <2>1, <2>2 DEF Registered
  <1>9. ASSUME NEW w \in Messages \union {Response}, Write(w), Rest, w.kind = "ask" => registered,
               UNCHANGED <<asks, resp, active, registered, removed>>, fwd' = fwd \/ fwd'.msg = NoMsg
        PROVE  Registered'
    <2>1. ToSet(Append(out, w)) = ToSet(out) \union {w}
      BY <1>b, RangeAppend
    <2>2. ToSet(out') \subseteq ToSet(out) \union {w}
      BY <1>9, <2>1 DEF Write, wireVars
    <2> QED BY <1>9, <2>2, <1>b DEF Registered
  <1>10. ASSUME FwdWrite PROVE Registered'
    <2>1. Rest /\ UNCHANGED <<asks, resp, active, registered, removed>> /\ fwd'.msg = NoMsg
          /\ fwd.msg \in Messages /\ (fwd.msg.kind = "ask" => registered)
      BY <1>10, <1>a DEF FwdWrite, Stations, Registered, sendVars, queueVars, regVars
    <2>2. CASE UNCHANGED wireVars
      BY <2>1, <2>2, <1>b DEF Registered, wireVars
    <2>3. CASE Write(fwd.msg)
      BY <1>9, <2>1, <2>3
    <2> QED BY <1>10, <2>2, <2>3 DEF FwdWrite
  <1>11. ASSUME Drain PROVE Registered'
    <2>1. Rest /\ UNCHANGED <<asks, resp, active, registered, removed, fwd>>
      BY <1>11 DEF Drain, sendVars, regVars
    <2>2. PICK w \in ToSet(notes) \union ToSet(channel) : Write(w) /\ w \in Messages
      BY <1>11, <1>b, RangeTail DEF Drain
    <2>3. w.kind # "ask"
      BY <2>2, <1>a DEF Kinds
    <2> QED BY <1>9, <2>1, <2>2, <2>3
  <1>12. ASSUME Respond PROVE Registered'
    <2>1. Rest /\ UNCHANGED <<asks, active, registered, removed, fwd>> /\ resp # "finished"
      BY <1>12 DEF Respond, sendVars, queueVars, regVars
    <2>2. ToSet(Append(out, Response)) = ToSet(out) \union {Response}
      <3>1. Response \in Messages \union {Response}
        OBVIOUS
      <3> HIDE DEF Response
      <3> QED BY <3>1, <1>b, RangeAppend
    <2>3. ToSet(out') \subseteq ToSet(out) \union {Response}
      BY <1>12, <2>2 DEF Respond, Write, wireVars
    <2> QED BY <2>1, <2>3, <1>b DEF Registered
  <1>13. ASSUME \/ FwdExits \/ HandleMessageReturns \/ CloseDone \/ CloseWaits \/ AwaitForwarder
                \/ Drained \/ Disconnect \/ Cancelled \/ OtherTakes \/ UNCHANGED vars
         PROVE  Registered'
    <2>1. Rest /\ UNCHANGED <<out, asks, active, registered, removed>> /\ fwd'.msg = fwd.msg
          /\ (resp' = resp \/ resp # "finished")
      BY <1>13, <1>a DEF FwdExits, HandleMessageReturns, CloseDone, CloseWaits, AwaitForwarder,
         Drained, Disconnect, Cancelled, OtherTakes,
         OthersRegister, OthersRemove, vars, sendVars, queueVars, wireVars,
         regVars, TypeOK
    <2> QED BY <2>1 DEF Registered
  <1>14. ASSUME Finish PROVE Registered'
    <2>1. Rest /\ UNCHANGED <<out, asks, fwd, registered>> /\ resp' = "finished"
      BY <1>14 DEF Finish, sendVars, queueVars, wireVars
    <2> QED BY <2>1 DEF Registered
  <1>15. ASSUME NEW s \in Senders, FallbackAsk(s) PROVE Registered'
    BY <1>5, <1>6, <1>15 DEF FallbackAsk
  <1>16. ASSUME OthersRegister \/ OthersRemove PROVE Registered'
    <2>1. Rest /\ UNCHANGED <<out, asks, fwd, resp, registered>>
          /\ \/ active' = "other" /\ removed' = removed
             \/ removed' = (removed \/ registered)
      BY <1>16 DEF OthersRegister, OthersRemove, sendVars, queueVars, wireVars
    <2> QED BY <2>1 DEF Registered
  <1> QED BY <1>1, <1>2, <1>3, <1>4, <1>5, <1>7, <1>8, <1>10, <1>11, <1>12, <1>13, <1>14, <1>15,
             <1>16
        DEF Next, SenderNext, ForwarderNext, ResponseNext

\* Whoever waits for the answer to an elicitation the client can have read on the
\* POST's stream is found through activeSessions, as long as the POST runs and
\* nobody else has removed the entry since the POST looked for it.
THEOREM PostAnswerRoutable == Spec => []AnswerRoutable
  <1>1. Init => Delivery /\ Registered
    BY DeliveryInit, RangeEmpty DEF Init, Registered, NoMsg
  <1>2. Delivery /\ Registered /\ [Next]_vars => (Delivery /\ Registered)'
    BY TypeStep, LockingStep, PhasesStep, KindsStep, RegisteredStep DEF Delivery
  <1>3. Delivery /\ Registered => AnswerRoutable
    BY FramedHolds DEF Delivery, Framed, Registered, AnswerRoutable
  <1> QED BY <1>1, <1>2, <1>3, PTL DEF Spec
-----------------------------------------------------------------------------
(* What one goroutine queues on one channel is written in its order.       *)

Before(a, b) == a.kind = b.kind /\ a.from = b.from /\ a.via = b.via => a.n < b.n

Ascending(q) == \A i, j \in DOMAIN q : i < j => Before(q[i], q[j])

Precede(S, T) == \A a \in S, b \in T : Before(a, b)

\* The three places of a message, in the order it comes to them from last to
\* first.
Written == ToSet(out) \union ToSet(stored)
Held == {fwd.msg} \ {NoMsg}
Queued == ToSet(notes) \union ToSet(channel) \union ToSet(asks)

\* In each place messages are in order, and those further on come before.
Flow ==
  /\ Ascending(notes) /\ Ascending(channel) /\ Ascending(asks)
  /\ Ascending(out) /\ Ascending(stored)
  /\ Precede(Written, Held \union Queued) /\ Precede(Held, Queued)

\* Whoever is about to send has a number nobody has seen from it.
Numbers ==
  /\ \A s \in Senders : msg[s].n <= sent
  /\ \A m \in Written \union Held \union Queued :
       /\ m.n <= sent
       /\ \A s \in Senders : m.from = s /\ at[s] \notin {"idle", "waiting"} => m.n < msg[s].n

\* The response comes last.
LastWord ==
  /\ \A w \in {out, stored} : \A i, j \in DOMAIN w : i < j => w[i].kind # "response"
  /\ resp \notin {"written", "finished"} => \A m \in Written : m.kind # "response"

Order == Flow /\ Numbers /\ LastWord

LEMMA AscendingAppend ==
  ASSUME NEW S, NEW q \in Seq(S), NEW m \in S, Ascending(q),
         \A x \in ToSet(q) : Before(x, m)
  PROVE  Ascending(Append(q, m))
  <1> DEFINE r == Append(q, m)
  <1>1. /\ r \in Seq(S) /\ Len(r) = Len(q) + 1 /\ r[Len(q) + 1] = m
        /\ \A i \in 1..Len(q) : r[i] = q[i]
    BY AppendProperties
  <1>2. DOMAIN r = 1..Len(q) + 1 /\ DOMAIN q = 1..Len(q) /\ Len(q) \in Nat
    BY <1>1
  <1> HIDE DEF r
  <1>3. ASSUME NEW i \in DOMAIN r, NEW j \in DOMAIN r, i < j PROVE Before(r[i], r[j])
    <2>1. i \in 1..Len(q) /\ i \in DOMAIN q /\ r[i] = q[i]
      BY <1>1, <1>2, <1>3
    <2>2. CASE j = Len(q) + 1
      <3>1. q[i] \in ToSet(q)
        BY <2>1 DEF ToSet
      <3> QED BY <1>1, <2>1, <2>2, <3>1
    <2>3. CASE j # Len(q) + 1
      <3>1. j \in DOMAIN q /\ r[j] = q[j]
        BY <1>1, <1>2, <2>3
      <3>2. Before(q[i], q[j])
        BY <1>3, <2>1, <3>1 DEF Ascending
      <3> QED BY <2>1, <3>1, <3>2
    <2> QED BY <2>2, <2>3
  <1>4. Ascending(r)
    BY <1>3 DEF Ascending
  <1> QED BY <1>4 DEF r

LEMMA AscendingTail ==
  ASSUME NEW S, NEW q \in Seq(S), q # <<>>, Ascending(q)
  PROVE  Ascending(Tail(q)) /\ \A x \in ToSet(Tail(q)) : Before(Head(q), x)
  <1> DEFINE r == Tail(q)
  <1>1. /\ Head(q) = q[1] /\ r \in Seq(S) /\ Len(r) = Len(q) - 1
        /\ \A i \in 1..Len(r) : r[i] = q[i + 1]
    BY HeadTailProperties
  <1>2. Len(q) \in Nat /\ Len(q) >= 1
    BY EmptySeq
  <1>3. DOMAIN q = 1..Len(q) /\ DOMAIN r = 1..Len(r)
    BY <1>1
  <1> HIDE DEF r
  <1>4. ASSUME NEW i \in DOMAIN r PROVE i + 1 \in DOMAIN q /\ 1 < i + 1 /\ r[i] = q[i + 1]
    BY <1>1, <1>2, <1>3
  <1>5. ASSUME NEW i \in DOMAIN r, NEW j \in DOMAIN r, i < j PROVE Before(r[i], r[j])
    <2>1. i + 1 < j + 1
      BY <1>3, <1>5
    <2>2. Before(q[i + 1], q[j + 1])
      BY <1>4, <2>1 DEF Ascending
    <2> QED BY <1>4, <2>2
  <1>6. ASSUME NEW x \in ToSet(r) PROVE Before(Head(q), x)
    <2>1. PICK i \in DOMAIN r : x = r[i]
      BY <1>6 DEF ToSet
    <2>2. 1 \in DOMAIN q
      BY <1>2, <1>3
    <2>3. Before(q[1], q[i + 1])
      BY <1>4, <2>2 DEF Ascending
    <2> QED BY <1>1, <1>4, <2>1, <2>3
  <1>7. Ascending(r)
    BY <1>5 DEF Ascending
  <1> QED BY <1>6, <1>7 DEF r

\* A message after others of which none is the response.
LEMMA LastAppend ==
  ASSUME NEW S, NEW q \in Seq(S), NEW m \in S, \A x \in ToSet(q) : x.kind # "response"
  PROVE  \A i, j \in DOMAIN Append(q, m) : i < j => Append(q, m)[i].kind # "response"
  <1> DEFINE r == Append(q, m)
  <1>1. /\ r \in Seq(S) /\ Len(r) = Len(q) + 1
        /\ \A i \in 1..Len(q) : r[i] = q[i]
    BY AppendProperties
  <1>2. DOMAIN r = 1..Len(q) + 1 /\ DOMAIN q = 1..Len(q) /\ Len(q) \in Nat
    BY <1>1
  <1> HIDE DEF r
  <1>3. ASSUME NEW i \in DOMAIN r, NEW j \in DOMAIN r, i < j PROVE r[i].kind # "response"
    <2>1. i \in DOMAIN q /\ r[i] = q[i]
      BY <1>1, <1>2, <1>3
    <2>2. q[i] \in ToSet(q)
      BY <2>1 DEF ToSet
    <2> QED BY <2>1, <2>2
  <1> QED BY <1>3 DEF r

\* A message nobody has seen goes into a channel.
Fresh(m) == \A x \in Written \union Held \union Queued : x.from = m.from => x.n < m.n

LEMMA Queues ==
  ASSUME TypeOK, Flow, NEW m \in Messages, Fresh(m), UNCHANGED <<out, stored, fwd>>,
         \/ notes' = Append(notes, m) /\ UNCHANGED <<channel, asks>>
         \/ channel' = Append(channel, m) /\ UNCHANGED <<notes, asks>>
         \/ asks' = Append(asks, m) /\ UNCHANGED <<notes, channel>>
  PROVE  Flow' /\ Queued' = Queued \union {m} /\ Written' = Written /\ Held' = Held
  <1>1. notes \in Seq(Messages) /\ channel \in Seq(Messages) /\ asks \in Seq(Messages)
    BY DEF TypeOK
  <1>2. ASSUME NEW q \in Seq(Messages), ToSet(q) \subseteq Queued, Ascending(q)
        PROVE  Ascending(Append(q, m)) /\ ToSet(Append(q, m)) = ToSet(q) \union {m}
    <2>1. \A x \in ToSet(q) : Before(x, m)
      BY <1>2 DEF Fresh, Before
    <2> QED BY <1>2, <2>1, AscendingAppend, RangeAppend
  <1>3. /\ Ascending(notes) /\ Ascending(channel) /\ Ascending(asks)
        /\ ToSet(notes) \subseteq Queued /\ ToSet(channel) \subseteq Queued
        /\ ToSet(asks) \subseteq Queued
    BY DEF Flow, Queued
  <1>4. /\ Ascending(notes') /\ Ascending(channel') /\ Ascending(asks')
        /\ ToSet(notes') \union ToSet(channel') \union ToSet(asks') = Queued \union {m}
    BY <1>1, <1>2, <1>3 DEF Queued
  <1>5. Precede(Written \union Held, {m})
    BY DEF Fresh, Before, Precede
  <1>6. Queued' = Queued \union {m} /\ Written' = Written /\ Held' = Held
    BY <1>4 DEF Queued, Written, Held
  <1>7. Precede(Written, Held \union Queued \union {m}) /\ Precede(Held, Queued \union {m})
    BY <1>5 DEF Flow, Precede
  <1>8. Precede(Written', Held' \union Queued') /\ Precede(Held', Queued')
    BY <1>6, <1>7
  <1> QED BY <1>4, <1>6, <1>8 DEF Flow

\* The first message of a channel is taken off it.
LEMMA Takes ==
  ASSUME TypeOK, Kinds, Flow, NEW m,
         \/ notes # <<>> /\ m = Head(notes) /\ notes' = Tail(notes) /\ UNCHANGED <<channel, asks>>
         \/ channel # <<>> /\ m = Head(channel) /\ channel' = Tail(channel) /\ UNCHANGED <<notes, asks>>
         \/ asks # <<>> /\ m = Head(asks) /\ asks' = Tail(asks) /\ UNCHANGED <<notes, channel>>
  PROVE  /\ Ascending(notes') /\ Ascending(channel') /\ Ascending(asks')
         /\ m \in Queued /\ m \in Messages /\ Queued' \subseteq Queued
         /\ Precede({m}, Queued')
  <1>1. notes \in Seq(Messages) /\ channel \in Seq(Messages) /\ asks \in Seq(Messages)
    BY DEF TypeOK
  <1>2. ASSUME NEW q \in Seq(Messages), q # <<>>, Ascending(q)
        PROVE  /\ Ascending(Tail(q)) /\ \A x \in ToSet(Tail(q)) : Before(Head(q), x)
               /\ Head(q) \in ToSet(q) /\ Head(q) \in Messages /\ ToSet(Tail(q)) \subseteq ToSet(q)
    BY <1>2, AscendingTail, RangeTail
  <1>3. Ascending(notes) /\ Ascending(channel) /\ Ascending(asks)
    BY DEF Flow
  <1>4. /\ Ascending(notes') /\ Ascending(channel') /\ Ascending(asks')
        /\ m \in Queued /\ m \in Messages /\ Queued' \subseteq Queued
    BY <1>1, <1>2, <1>3 DEF Queued
  <1>5. ASSUME NEW x \in Queued' PROVE Before(m, x)
    <2>1. CASE notes # <<>> /\ m = Head(notes) /\ notes' = Tail(notes) /\ UNCHANGED <<channel, asks>>
      <3>1. m \in ToSet(notes) /\ \A y \in ToSet(notes') : Before(m, y)
        BY <1>1, <1>2, <1>3, <2>1
      <3> QED BY <1>5, <2>1, <3>1 DEF Queued, Kinds, Before
    <2>2. CASE channel # <<>> /\ m = Head(channel) /\ channel' = Tail(channel)
               /\ UNCHANGED <<notes, asks>>
      <3>1. m \in ToSet(channel) /\ \A y \in ToSet(channel') : Before(m, y)
        BY <1>1, <1>2, <1>3, <2>2
      <3> QED BY <1>5, <2>2, <3>1 DEF Queued, Kinds, Before
    <2>3. CASE asks # <<>> /\ m = Head(asks) /\ asks' = Tail(asks) /\ UNCHANGED <<notes, channel>>
      <3>1. m \in ToSet(asks) /\ \A y \in ToSet(asks') : Before(m, y)
        BY <1>1, <1>2, <1>3, <2>3
      <3> QED BY <1>5, <2>3, <3>1 DEF Queued, Kinds, Before
    <2> QED BY <2>1, <2>2, <2>3
  <1> QED BY <1>4, <1>5 DEF Precede

\* A message is written: it, and what is behind it, comes after what was.
LEMMA Writes ==
  ASSUME TypeOK, LastWord, NEW m \in Messages \union {Response}, Write(m),
         resp \notin {"written", "finished"},
         Ascending(out), Ascending(stored), Precede(Written, {m}),
         NEW Rest, Precede(Written, Rest), Precede({m}, Rest)
  PROVE  /\ Ascending(out') /\ Ascending(stored') /\ Precede(Written', Rest)
         /\ Written' \subseteq Written \union {m}
         /\ \A w \in {out', stored'} : \A i, j \in DOMAIN w : i < j => w[i].kind # "response"
  <1> DEFINE ResponseLast(w) == \A i, j \in DOMAIN w : i < j => w[i].kind # "response"
  <1>1. out \in Seq(Messages \union {Response}) /\ stored \in Seq(Messages \union {Response})
    BY DEF TypeOK
  <1>2. ResponseLast(out) /\ ResponseLast(stored) /\ \A x \in Written : x.kind # "response"
    BY DEF LastWord
  <1>3. ToSet(out) \subseteq Written /\ ToSet(stored) \subseteq Written
    BY DEF Written
  <1>4. ASSUME NEW q \in Seq(Messages \union {Response}), ToSet(q) \subseteq Written, Ascending(q)
        PROVE  /\ Ascending(Append(q, m)) /\ ToSet(Append(q, m)) = ToSet(q) \union {m}
               /\ ResponseLast(Append(q, m))
    <2>1. \A x \in ToSet(q) : Before(x, m) /\ x.kind # "response"
      BY <1>2, <1>4 DEF Precede
    <2> HIDE DEF Response
    <2> QED BY <1>4, <2>1, AscendingAppend, RangeAppend, LastAppend
  <1>5. out' \in {out, Append(out, m)} /\ stored' \in {stored, Append(stored, m)}
    BY DEF Write, wireVars
  <1>6. /\ Ascending(out') /\ Ascending(stored') /\ ResponseLast(out') /\ ResponseLast(stored')
        /\ ToSet(out') \subseteq ToSet(out) \union {m}
        /\ ToSet(stored') \subseteq ToSet(stored) \union {m}
    <2> HIDE DEF ResponseLast
    <2> QED BY <1>1, <1>2, <1>3, <1>4, <1>5
  <1>7. Written' \subseteq Written \union {m}
    BY <1>6 DEF Written
  <1>8. Precede(Written', Rest)
    BY <1>7 DEF Precede
  <1> QED BY <1>6, <1>7, <1>8

LEMMA FlowStep == Delivery /\ Order /\ [Next]_vars => (Flow /\ LastWord)'
  <1> SUFFICES ASSUME Delivery, Order, [Next]_vars PROVE (Flow /\ LastWord)'
    OBVIOUS
  <1>a. TypeOK /\ Stations /\ Phases /\ Kinds /\ Flow /\ Numbers /\ LastWord
    BY DEF Delivery, TypeInv, Order
  <1>b. ASSUME UNCHANGED <<out, stored>>,
               resp \in {"written", "finished"} => resp' \in {"written", "finished"}
        PROVE  LastWord' /\ Written' = Written
    BY <1>b, <1>a DEF LastWord, Written
  <1>c. ASSUME UNCHANGED <<out, stored, queueVars>>, fwd'.msg = fwd.msg PROVE Flow'
    BY <1>c, <1>a DEF Flow, Written, Held, Queued, queueVars
  <1>1. ASSUME NEW s \in Senders,
               \/ BeginNote(s) \/ BeginAsk(s) \/ ProbeDone(s) \/ Register(s) \/ LockSend(s)
               \/ SendGivesUp(s) \/ FallbackAsk(s) \/ Answered(s) \/ AskGivesUp(s)
        PROVE  (Flow /\ LastWord)'
    <2>1. UNCHANGED <<out, stored, queueVars, fwd, resp>>
      BY <1>1 DEF BeginNote, BeginAsk, ProbeDone, Register, LockSend, SendGivesUp, FallbackAsk,
         Answered, AskGivesUp, wireVars, queueVars
    <2> QED BY <2>1, <1>b, <1>c
  <1>2. ASSUME NEW s \in Senders, SendScoped(s) \/ FallbackNote(s) PROVE (Flow /\ LastWord)'
    <2>1. /\ UNCHANGED <<out, stored, fwd, resp>> /\ msg[s] \in Messages /\ msg[s].from = s
          /\ at[s] \notin {"idle", "waiting"}
      BY <1>2, <1>a DEF SendScoped, FallbackNote, wireVars, Stations
    <2>2. Fresh(msg[s])
      BY <2>1, <1>a DEF Numbers, Fresh
    <2> DEFINE m == [msg[s] EXCEPT !.via = "channel"]
    <2>3. m \in Messages /\ Fresh(m)
      BY <2>1, <2>2 DEF Fresh, Messages
    <2>4. \/ notes' = Append(notes, msg[s]) /\ UNCHANGED <<channel, asks>>
          \/ asks' = Append(asks, msg[s]) /\ UNCHANGED <<channel, notes>>
          \/ channel' = Append(channel, m) /\ UNCHANGED <<notes, asks>>
          \/ UNCHANGED queueVars
      BY <1>2 DEF SendScoped, FallbackNote, queueVars
    <2> HIDE DEF m
    <2>5. Flow'
      BY <1>a, <1>c, <2>1, <2>2, <2>3, <2>4, Queues
    <2> QED BY <2>1, <2>5, <1>b
  <1>3. ASSUME FwdTakeNote \/ FwdTakeAsk PROVE (Flow /\ LastWord)'
    <2>1. UNCHANGED <<out, stored, resp>> /\ fwd.at = "select"
      BY <1>3 DEF FwdTakeNote, FwdTakeAsk, wireVars
    <2>2. /\ \/ notes # <<>> /\ fwd'.msg = Head(notes) /\ notes' = Tail(notes)
                /\ UNCHANGED <<channel, asks>>
             \/ channel # <<>> /\ fwd'.msg = Head(channel) /\ channel' = Tail(channel)
                /\ UNCHANGED <<notes, asks>>
             \/ asks # <<>> /\ fwd'.msg = Head(asks) /\ asks' = Tail(asks)
                /\ UNCHANGED <<notes, channel>>
      BY <1>3 DEF FwdTakeNote, FwdTakeAsk
    <2>3. /\ Ascending(notes') /\ Ascending(channel') /\ Ascending(asks')
          /\ fwd'.msg \in Queued /\ fwd'.msg \in Messages /\ Queued' \subseteq Queued
          /\ Precede({fwd'.msg}, Queued')
      BY <1>a, <2>2, Takes
    <2>4. LastWord' /\ Written' = Written /\ Held' \subseteq {fwd'.msg}
      BY <1>b, <2>1 DEF Held
    <2>5. Precede(Written', Held' \union Queued') /\ Precede(Held', Queued')
      BY <1>a, <2>3, <2>4 DEF Flow, Precede
    <2> QED BY <1>a, <2>1, <2>3, <2>4, <2>5 DEF Flow
  <1>4. ASSUME FwdWrite PROVE (Flow /\ LastWord)'
    <2>1. /\ fwd.msg \in Messages /\ fwd.msg # NoMsg /\ resp \notin {"written", "finished"}
          /\ fwd'.msg = NoMsg /\ UNCHANGED <<resp, queueVars>>
      BY <1>4, <1>a DEF FwdWrite, Stations, Phases, Over2, Messages, NoMsg
    <2>2. Held = {fwd.msg} /\ Held' = {} /\ Queued' = Queued
      BY <2>1 DEF Held, Queued, queueVars
    <2>3. /\ Ascending(out) /\ Ascending(stored) /\ Precede(Written, {fwd.msg})
          /\ Precede(Written, Queued) /\ Precede({fwd.msg}, Queued)
          /\ Ascending(notes) /\ Ascending(channel) /\ Ascending(asks)
      BY <1>a, <2>2 DEF Flow, Precede
    <2>4. CASE UNCHANGED wireVars
      <3>1. UNCHANGED <<out, stored>>
        BY <2>4 DEF wireVars
      <3> QED BY <2>1, <2>2, <2>3, <3>1, <1>b DEF Flow, queueVars, Precede
    <2>5. CASE Write(fwd.msg)
      <3>1. /\ Ascending(out') /\ Ascending(stored') /\ Precede(Written', Queued)
            /\ \A w \in {out', stored'} : \A i, j \in DOMAIN w : i < j => w[i].kind # "response"
            /\ Written' \subseteq Written \union {fwd.msg}
        <4> HIDE DEF Queued
        <4> QED BY <1>a, <2>1, <2>3, <2>5, Writes
      <3>2. \A x \in Written' : x.kind # "response"
        BY <1>a, <2>1, <3>1 DEF LastWord, Messages
      <3> QED BY <2>1, <2>2, <2>3, <3>1, <3>2 DEF Flow, LastWord, queueVars, Precede
    <2> QED BY <1>4, <2>4, <2>5 DEF FwdWrite
  <1>5. ASSUME Drain PROVE (Flow /\ LastWord)'
    <2>1. /\ resp = "drain" /\ fwd.msg = NoMsg /\ UNCHANGED <<resp, asks, fwd>>
      BY <1>5, <1>a DEF Drain, Stations, Phases
    <2>2. PICK m : /\ Write(m)
                   /\ \/ notes # <<>> /\ m = Head(notes) /\ notes' = Tail(notes)
                         /\ UNCHANGED channel
                      \/ channel # <<>> /\ m = Head(channel) /\ channel' = Tail(channel)
                         /\ UNCHANGED notes
      BY <1>5 DEF Drain
    <2>3. /\ Ascending(notes') /\ Ascending(channel') /\ Ascending(asks')
          /\ m \in Queued /\ m \in Messages /\ Queued' \subseteq Queued
          /\ Precede({m}, Queued')
      BY <1>a, <2>1, <2>2, Takes
    <2>4. /\ Ascending(out) /\ Ascending(stored) /\ Precede(Written, {m})
          /\ Precede(Written, Queued')
      BY <1>a, <2>3 DEF Flow, Precede
    <2>5. /\ Ascending(out') /\ Ascending(stored') /\ Precede(Written', Queued')
          /\ \A w \in {out', stored'} : \A i, j \in DOMAIN w : i < j => w[i].kind # "response"
          /\ Written' \subseteq Written \union {m}
      <3> DEFINE Rest == Queued'
      <3>1. Precede(Written, Rest) /\ Precede({m}, Rest)
        BY <2>3, <2>4
      <3> HIDE DEF Rest
      <3>2. /\ Ascending(out') /\ Ascending(stored') /\ Precede(Written', Rest)
            /\ \A w \in {out', stored'} : \A i, j \in DOMAIN w : i < j => w[i].kind # "response"
            /\ Written' \subseteq Written \union {m}
        BY <1>a, <2>1, <2>2, <2>3, <2>4, <3>1, Writes
      <3> QED BY <3>2 DEF Rest
    <2>6. Held' = {}
      BY <2>1 DEF Held
    <2>7. \A x \in Written' : x.kind # "response"
      BY <1>a, <2>1, <2>3, <2>5 DEF LastWord, Messages
    <2> QED BY <2>1, <2>3, <2>5, <2>6, <2>7 DEF Flow, LastWord, Precede
  <1>6. ASSUME Respond PROVE (Flow /\ LastWord)'
    <2>1. /\ resp = "respond" /\ resp' = "written" /\ UNCHANGED <<fwd, queueVars>>
          /\ fwd.msg = NoMsg
      BY <1>6, <1>a DEF Respond, Stations, Phases, Over2
    <2>2. \A x \in Held \union Queued : x.kind # "response"
      BY <1>a, <2>1 DEF Held, Queued, Kinds
    <2>3. \A x \in Written : x.kind # "response"
      BY <1>a, <2>1 DEF LastWord
    <2>4. UNCHANGED <<Held, Queued>>
      BY <2>1 DEF Held, Queued, queueVars
    <2>5. /\ Ascending(notes') /\ Ascending(channel') /\ Ascending(asks')
          /\ Precede(Held', Queued')
      BY <1>a, <2>1, <2>4 DEF Flow, queueVars
    <2>6. Response.kind = "response" /\ Response \in Messages \union {Response}
      BY DEF Response
    <2>7. Precede(Written, {Response}) /\ Precede({Response}, Held \union Queued)
      BY <2>2, <2>3, <2>6 DEF Precede, Before
    <2>8. Precede(Written, Held \union Queued) /\ Ascending(out) /\ Ascending(stored)
      BY <1>a DEF Flow
    <2>9. CASE UNCHANGED <<out, stored>>
      BY <1>b, <2>1, <2>4, <2>5, <2>8, <2>9 DEF Flow
    <2>10. CASE Write(Response)
      <3> HIDE DEF Response, Held, Queued
      <3>1. /\ Ascending(out') /\ Ascending(stored') /\ Precede(Written', Held \union Queued)
            /\ \A w \in {out', stored'} : \A i, j \in DOMAIN w : i < j => w[i].kind # "response"
        BY <1>a, <2>1, <2>6, <2>7, <2>8, <2>10, Writes
      <3> QED BY <2>1, <2>4, <2>5, <3>1 DEF Flow, LastWord
    <2>11. CASE out' = Append(out, Response) /\ UNCHANGED stored
      <3> HIDE DEF Response, Held, Queued
      <3>1. /\ out \in Seq(Messages \union {Response})
            /\ ToSet(out) \subseteq Written /\ ToSet(stored) \subseteq Written
        BY <1>a DEF TypeOK, Written
      <3>2. \A x \in ToSet(out) : Before(x, Response) /\ x.kind # "response"
        BY <2>3, <2>7, <3>1 DEF Precede
      <3>3. /\ Ascending(out') /\ ToSet(out') = ToSet(out) \union {Response}
            /\ \A i, j \in DOMAIN out' : i < j => out'[i].kind # "response"
        BY <2>6, <2>8, <2>11, <3>1, <3>2, AscendingAppend, RangeAppend, LastAppend
      <3>4. Written' = Written \union {Response}
        BY <2>11, <3>3 DEF Written
      <3>5. Precede(Written', Held' \union Queued')
        BY <2>4, <2>7, <2>8, <3>4 DEF Precede
      <3>6. LastWord'
        BY <1>a, <2>1, <2>11, <3>3 DEF LastWord
      <3> QED BY <2>5, <2>8, <2>11, <3>3, <3>5, <3>6 DEF Flow
    <2> QED BY <1>6, <2>9, <2>10, <2>11 DEF Respond, wireVars
  <1>7. ASSUME \/ FwdExits \/ HandleMessageReturns \/ CloseDone \/ CloseWaits \/ AwaitForwarder
               \/ Drained \/ Finish \/ Disconnect \/ Cancelled
               \/ OthersRegister \/ OthersRemove \/ UNCHANGED vars
        PROVE  (Flow /\ LastWord)'
    <2>1. /\ UNCHANGED <<out, stored, queueVars>> /\ fwd'.msg = fwd.msg
          /\ resp \in {"written", "finished"} => resp' \in {"written", "finished"}
      BY <1>7, <1>a DEF FwdExits, HandleMessageReturns, CloseDone, CloseWaits, AwaitForwarder,
         Drained, Finish, Disconnect, Cancelled,
         OthersRegister, OthersRemove, vars, queueVars, wireVars, TypeOK
    <2> QED BY <2>1, <1>b, <1>c
  <1>8. ASSUME OtherTakes PROVE (Flow /\ LastWord)'
    <2>1. UNCHANGED <<out, stored, fwd, resp, notes, asks>> /\ channel # <<>>
          /\ channel' = Tail(channel)
      BY <1>8 DEF OtherTakes, wireVars
    <2>2. /\ Ascending(notes') /\ Ascending(channel') /\ Ascending(asks')
          /\ Queued' \subseteq Queued
      BY <1>a, <2>1, Takes
    <2>3. Written' = Written /\ Held' = Held /\ LastWord'
      BY <2>1, <1>b DEF Held
    <2>4. Precede(Written', Held' \union Queued') /\ Precede(Held', Queued')
      BY <1>a, <2>2, <2>3 DEF Flow, Precede
    <2> QED BY <1>a, <2>1, <2>2, <2>3, <2>4 DEF Flow
  <1> QED BY <1>1, <1>2, <1>3, <1>4, <1>5, <1>6, <1>7, <1>8
          DEF Next, SenderNext, ForwarderNext, ResponseNext

Seen == Written \union Held \union Queued

\* Nothing is seen that was not seen before but what a sender was about, and
\* the response.
LEMMA SeenStep ==
  ASSUME Delivery, Order, [Next]_vars,
         ~ \E s \in Senders : SendScoped(s) \/ FallbackNote(s)
  PROVE  Seen' \subseteq Seen \union {Response}
  <1>a. TypeOK /\ Stations /\ Phases /\ Kinds /\ Flow /\ LastWord
    BY DEF Delivery, TypeInv, Order
  <1>w. ASSUME NEW m \in Seen \union {Response}, m \in Messages \union {Response},
               out' \in {out, Append(out, m)}, stored' \in {stored, Append(stored, m)}
        PROVE  Written' \subseteq Seen \union {Response}
    <2>1. out \in Seq(Messages \union {Response}) /\ stored \in Seq(Messages \union {Response})
      BY <1>a DEF TypeOK
    <2>2. /\ ToSet(Append(out, m)) = ToSet(out) \union {m}
          /\ ToSet(Append(stored, m)) = ToSet(stored) \union {m}
      <3> HIDE DEF Response
      <3> QED BY <1>w, <2>1, RangeAppend
    <2> QED BY <1>w, <2>2 DEF Written, Seen
  <1>1. CASE FwdTakeNote \/ FwdTakeAsk
    <2>1. /\ fwd'.msg \in Queued /\ Queued' \subseteq Queued
      <3>1. \/ notes # <<>> /\ fwd'.msg = Head(notes) /\ notes' = Tail(notes)
                /\ UNCHANGED <<channel, asks>>
            \/ channel # <<>> /\ fwd'.msg = Head(channel) /\ channel' = Tail(channel)
                /\ UNCHANGED <<notes, asks>>
            \/ asks # <<>> /\ fwd'.msg = Head(asks) /\ asks' = Tail(asks)
                /\ UNCHANGED <<notes, channel>>
        BY <1>1 DEF FwdTakeNote, FwdTakeAsk
      <3> QED BY <1>a, <3>1, Takes
    <2>2. Written' = Written
      BY <1>1 DEF FwdTakeNote, FwdTakeAsk, wireVars, Written
    <2> QED BY <2>1, <2>2 DEF Seen, Held
  <1>2. CASE FwdWrite
    <2>1. /\ fwd.msg \in Messages /\ fwd.msg \in Held /\ Held' = {} /\ Queued' = Queued
      BY <1>2, <1>a DEF FwdWrite, Stations, Messages, NoMsg, Held, Queued, queueVars
    <2>2. out' \in {out, Append(out, fwd.msg)} /\ stored' \in {stored, Append(stored, fwd.msg)}
      BY <1>2 DEF FwdWrite, Write, wireVars
    <2>3. Written' \subseteq Seen \union {Response}
      BY <1>w, <2>1, <2>2 DEF Seen
    <2> QED BY <2>1, <2>3 DEF Seen
  <1>3. CASE Drain
    <2>1. PICK m : /\ Write(m) /\ UNCHANGED <<asks, fwd>>
                   /\ \/ notes # <<>> /\ m = Head(notes) /\ notes' = Tail(notes)
                         /\ UNCHANGED channel
                      \/ channel # <<>> /\ m = Head(channel) /\ channel' = Tail(channel)
                         /\ UNCHANGED notes
      BY <1>3 DEF Drain
    <2>2. m \in Queued /\ m \in Messages /\ Queued' \subseteq Queued /\ Held' = Held
      BY <1>a, <2>1, Takes DEF Held
    <2>3. out' \in {out, Append(out, m)} /\ stored' \in {stored, Append(stored, m)}
      BY <2>1 DEF Write, wireVars
    <2>4. Written' \subseteq Seen \union {Response}
      BY <1>w, <2>2, <2>3 DEF Seen
    <2> QED BY <2>2, <2>4 DEF Seen
  <1>4. CASE Respond
    <2>1. out' \in {out, Append(out, Response)} /\ stored' \in {stored, Append(stored, Response)}
      BY <1>4 DEF Respond, Write, wireVars
    <2>2. Written' \subseteq Seen \union {Response}
      BY <1>w, <2>1
    <2>3. Queued' = Queued /\ Held' = Held
      BY <1>4 DEF Respond, Queued, Held, queueVars
    <2> QED BY <2>2, <2>3 DEF Seen
  <1>5. CASE OtherTakes
    <2>1. /\ UNCHANGED <<out, stored, fwd, notes, asks>>
          /\ channel # <<>> /\ channel' = Tail(channel)
      BY <1>5 DEF OtherTakes, wireVars
    <2>2. Queued' \subseteq Queued /\ Written' = Written /\ Held' = Held
      BY <1>a, <2>1, Takes DEF Written, Held
    <2> QED BY <2>2 DEF Seen
  <1>6. CASE UNCHANGED <<out, stored, queueVars>> /\ fwd'.msg = fwd.msg
    BY <1>6 DEF Seen, Written, Held, Queued, queueVars
  <1>7. ASSUME NEW s \in Senders, BeginNote(s) \/ BeginAsk(s) \/ SenderNext(s) \/ Answered(s),
               ~ (SendScoped(s) \/ FallbackNote(s))
        PROVE  UNCHANGED <<out, stored, queueVars>> /\ fwd'.msg = fwd.msg
    BY <1>7 DEF BeginNote, BeginAsk, SenderNext, ProbeDone, Register, LockSend, SendGivesUp,
       FallbackAsk, Answered, AskGivesUp, queueVars, wireVars
  <1>8. ASSUME \/ FwdExits \/ HandleMessageReturns \/ CloseDone \/ CloseWaits \/ AwaitForwarder
               \/ Drained \/ Finish \/ Disconnect \/ Cancelled
               \/ OthersRegister \/ OthersRemove \/ UNCHANGED vars
        PROVE  UNCHANGED <<out, stored, queueVars>> /\ fwd'.msg = fwd.msg
    BY <1>8, <1>a DEF FwdExits, HandleMessageReturns, CloseDone, CloseWaits, AwaitForwarder,
       Drained, Finish, Disconnect, Cancelled,
       OthersRegister, OthersRemove, vars, queueVars, wireVars, TypeOK
  <1> QED BY <1>1, <1>2, <1>3, <1>4, <1>5, <1>6, <1>7, <1>8
          DEF Next, ForwarderNext, ResponseNext

LEMMA NumbersStep == Delivery /\ Order /\ [Next]_vars => Numbers'
  <1> SUFFICES ASSUME Delivery, Order, [Next]_vars PROVE Numbers'
    OBVIOUS
  <1>a. TypeOK /\ Stations /\ Flow /\ Numbers
    BY DEF Delivery, TypeInv, Order
  <1>b. /\ at \in [Senders -> Pcs] /\ msg \in [Senders -> Messages \union {NoMsg}]
        /\ sent \in Nat /\ NoMsg.n = 0 /\ Response.n = 0
        /\ \A s \in Senders : at[s] # "idle" => msg[s].n \in Nat /\ msg[s].n >= 1
    BY <1>a, PostStreamAssumption
       DEF TypeOK, Pcs, Stations, Messages, NoMsg, Response, PostStreamAssumption
  <1>c. \A m \in Seen : /\ m.n <= sent
                        /\ \A s \in Senders : m.from = s /\ at[s] \notin {"idle", "waiting"}
                                                => m.n < msg[s].n
    BY <1>a DEF Numbers, Seen
  <1>d. ASSUME \A s \in Senders : msg'[s].n <= sent',
               \A m \in Seen' :
                 /\ m.n <= sent'
                 /\ \A s \in Senders : m.from = s /\ at'[s] \notin {"idle", "waiting"}
                                         => m.n < msg'[s].n
        PROVE  Numbers'
    BY <1>d DEF Numbers, Seen
  <1>1. ASSUME NEW s \in Senders, BeginNote(s) \/ BeginAsk(s) PROVE Numbers'
    <2>1. /\ UNCHANGED <<out, stored, queueVars, fwd>> /\ sent' = sent + 1
          /\ \A t \in Senders \ {s} : msg'[t] = msg[t] /\ at'[t] = at[t]
          /\ msg'[s].n = sent + 1
      BY <1>1, <1>b DEF BeginNote, BeginAsk, Goto, wireVars
    <2>2. Seen' = Seen
      BY <2>1 DEF Seen, Written, Held, Queued, queueVars
    <2>3. \A t \in Senders : msg'[t].n <= sent'
      <3>1. \A t \in Senders : msg[t].n <= sent /\ msg[t].n \in Nat
        BY <1>a, <1>b DEF Numbers, Messages
      <3> QED BY <1>b, <2>1, <3>1
    <2>4. \A m \in Seen : m.n <= sent /\ m.n \in Nat
      <3>1. Seen \subseteq Messages \union {Response, NoMsg}
        <4>1. /\ ToSet(out) \subseteq Messages \union {Response}
              /\ ToSet(stored) \subseteq Messages \union {Response}
              /\ ToSet(notes) \subseteq Messages /\ ToSet(channel) \subseteq Messages
              /\ ToSet(asks) \subseteq Messages /\ fwd.msg \in Messages \union {NoMsg}
          <5>1. ASSUME NEW S, NEW q \in Seq(S) PROVE ToSet(q) \subseteq S
            BY <5>1, ElementOfSeq DEF ToSet
          <5>2. /\ out \in Seq(Messages \union {Response})
                /\ stored \in Seq(Messages \union {Response})
                /\ notes \in Seq(Messages) /\ channel \in Seq(Messages) /\ asks \in Seq(Messages)
                /\ fwd.msg \in Messages \union {NoMsg}
            BY <1>a DEF TypeOK
          <5> HIDE DEF Response
          <5> QED BY <5>1, <5>2
        <4> QED BY <4>1 DEF Seen, Written, Held, Queued
      <3>2. \A m \in Messages : m.n \in Nat
        BY DEF Messages
      <3> QED BY <1>b, <1>c, <3>1, <3>2
    <2> QED BY <1>b, <1>c, <1>d, <2>1, <2>2, <2>3, <2>4
  <1>2. ASSUME NEW s \in Senders,
               \/ ProbeDone(s) \/ Register(s) \/ LockSend(s) \/ SendGivesUp(s)
        PROVE  Numbers'
    <2>1. /\ UNCHANGED <<out, stored, queueVars, fwd, sent, msg>>
          /\ \A t \in Senders \ {s} : at'[t] = at[t]
          /\ at[s] \in {"probe", "register", "lock", "sending"}
      BY <1>2, <1>b DEF ProbeDone, Register, LockSend, SendGivesUp, Goto, wireVars
    <2>2. Seen' = Seen
      BY <2>1 DEF Seen, Written, Held, Queued, queueVars
    <2> QED BY <1>a, <1>c, <1>d, <2>1, <2>2 DEF Numbers
  <1>3. ASSUME NEW s \in Senders, FallbackAsk(s) \/ Answered(s) \/ AskGivesUp(s)
        PROVE  Numbers'
    <2>1. /\ UNCHANGED <<out, stored, queueVars, fwd, sent>>
          /\ \A t \in Senders \ {s} : at'[t] = at[t] /\ msg'[t] = msg[t]
          /\ at'[s] \in {"idle", "waiting"}
      BY <1>3, <1>b DEF FallbackAsk, Answered, AskGivesUp, Over, Goto, wireVars
    <2>2. msg'[s].n \in {0, msg[s].n}
      <3>1. \/ msg' = [msg EXCEPT ![s] = NoMsg]
            \/ msg' = [msg EXCEPT ![s].via = "channel"] /\ msg[s] \in Messages
        BY <1>3, <1>a DEF FallbackAsk, Answered, AskGivesUp, Over, Stations
      <3> QED BY <1>b, <3>1 DEF Messages
    <2>3. Seen' = Seen
      BY <2>1 DEF Seen, Written, Held, Queued, queueVars
    <2>4. \A t \in Senders : msg[t].n <= sent
      BY <1>a DEF Numbers
    <2>5. \A t \in Senders : msg'[t].n <= sent'
      BY <1>b, <2>1, <2>2, <2>4
    <2> QED BY <1>c, <1>d, <2>1, <2>3, <2>5
  <1>4. ASSUME NEW s \in Senders, SendScoped(s) \/ FallbackNote(s) PROVE Numbers'
    <2> DEFINE m == [msg[s] EXCEPT !.via = "channel"]
    <2>1. /\ UNCHANGED <<out, stored, fwd, sent>> /\ msg[s] \in Messages /\ msg[s].from = s
          /\ at[s] \notin {"idle", "waiting"}
      BY <1>4, <1>a DEF SendScoped, FallbackNote, wireVars, Stations
    <2>2. Fresh(msg[s]) /\ m \in Messages /\ Fresh(m) /\ m.n = msg[s].n /\ m.from = s
      BY <2>1, <1>a DEF Numbers, Fresh, Messages
    <2>3. \/ notes' = Append(notes, msg[s]) /\ UNCHANGED <<channel, asks>>
          \/ asks' = Append(asks, msg[s]) /\ UNCHANGED <<channel, notes>>
          \/ channel' = Append(channel, m) /\ UNCHANGED <<notes, asks>>
          \/ UNCHANGED queueVars
      BY <1>4 DEF SendScoped, FallbackNote, queueVars
    <2>4. /\ \A t \in Senders \ {s} : at'[t] = at[t] /\ msg'[t] = msg[t]
          /\ at'[s] \in {"idle", "waiting"} /\ msg'[s] \in {msg[s], NoMsg}
      BY <1>4, <1>b DEF SendScoped, FallbackNote, Over, Goto
    <2> HIDE DEF m
    <2>5. Seen' \subseteq Seen \union {msg[s], m}
      <3>1. CASE UNCHANGED queueVars
        BY <2>1, <3>1 DEF Seen, Written, Held, Queued, queueVars
      <3>2. CASE ~ UNCHANGED queueVars
        <4>1. /\ Queued' \subseteq Queued \union {msg[s], m} /\ Written' = Written /\ Held' = Held
          BY <1>a, <2>1, <2>2, <2>3, <3>2, Queues
        <4> QED BY <4>1 DEF Seen
      <3> QED BY <3>1, <3>2
    <2>6. \A t \in Senders : msg[t].n <= sent
      BY <1>a DEF Numbers
    <2>7. \A t \in Senders : msg'[t].n <= sent'
      BY <1>b, <2>1, <2>4, <2>6
    <2>8. ASSUME NEW x \in Seen'
          PROVE  /\ x.n <= sent'
                 /\ \A t \in Senders : x.from = t /\ at'[t] \notin {"idle", "waiting"}
                                         => x.n < msg'[t].n
      <3>1. CASE x \in Seen
        BY <1>c, <2>1, <2>4, <3>1
      <3>2. CASE x \in {msg[s], m}
        BY <2>1, <2>2, <2>4, <2>6, <3>2
      <3> QED BY <2>5, <2>8, <3>1, <3>2
    <2> QED BY <1>d, <2>7, <2>8
  <1>5. ASSUME UNCHANGED sendVars, ~ \E s \in Senders : SendScoped(s) \/ FallbackNote(s)
        PROVE  Numbers'
    <2>1. Seen' \subseteq Seen \union {Response}
      BY <1>5, SeenStep
    <2>2. UNCHANGED <<at, msg, sent>>
      BY <1>5 DEF sendVars
    <2>3. ASSUME NEW x \in Seen'
          PROVE  /\ x.n <= sent'
                 /\ \A t \in Senders : x.from = t /\ at'[t] \notin {"idle", "waiting"}
                                         => x.n < msg'[t].n
      <3>1. CASE x \in Seen
        BY <1>c, <2>2, <3>1
      <3>2. CASE x = Response
        <4> HIDE DEF Response
        <4> QED BY <1>b, <2>2, <3>2
      <3> QED BY <2>1, <2>3, <3>1, <3>2
    <2>4. \A t \in Senders : msg[t].n <= sent
      BY <1>a DEF Numbers
    <2> QED BY <1>d, <2>2, <2>3, <2>4
  <1>6. ASSUME \/ ForwarderNext \/ HandleMessageReturns \/ ResponseNext
               \/ Disconnect \/ Cancelled \/ OtherTakes
               \/ OthersRegister \/ OthersRemove \/ UNCHANGED vars
        PROVE  UNCHANGED sendVars
    BY <1>6 DEF ForwarderNext, FwdTakeNote, FwdTakeAsk, FwdWrite, FwdExits,
       HandleMessageReturns, ResponseNext, CloseDone, CloseWaits, AwaitForwarder, Drain,
       Drained, Respond, Finish, Disconnect, Cancelled, OtherTakes,
       OthersRegister, OthersRemove, vars, sendVars
  <1> QED BY <1>1, <1>2, <1>3, <1>4, <1>5, <1>6 DEF Next, SenderNext

\* What a goroutine sends on one channel is written once and in its order, by
\* the forwarder or, after it, by the drain; and nothing is written after the
\* response.
THEOREM PostInOrder == Spec => []InOrder
  <1>1. Init => Delivery /\ Order
    <2> SUFFICES ASSUME Init PROVE Order
      BY DeliveryInit
    <2>1. /\ Written = {} /\ Held = {} /\ Queued = {}
      BY RangeEmpty DEF Init, Written, Held, Queued
    <2>2. Ascending(<<>>)
      BY DEF Ascending
    <2>3. Flow
      BY <2>1, <2>2 DEF Init, Flow, Precede
    <2>4. Numbers
      BY <2>1 DEF Init, Numbers, NoMsg
    <2>5. LastWord
      BY <2>1 DEF Init, LastWord
    <2> QED BY <2>3, <2>4, <2>5 DEF Order
  <1>2. Delivery /\ Order /\ [Next]_vars => (Delivery /\ Order)'
    BY TypeStep, LockingStep, PhasesStep, KindsStep, FlowStep, NumbersStep DEF Delivery, Order
  <1>3. Delivery /\ Order => InOrder
    BY DEF Order, Flow, LastWord, InOrder, Ascending, Before
  <1> QED BY <1>1, <1>2, <1>3, PTL DEF Spec
=============================================================================
