--------------------------- MODULE ResumableProofs ---------------------------
(***************************************************************************)
(* Proofs about ResumableStream, for any number of connections, messages   *)
(* and any capacity of a sink: every connection carries what its client    *)
(* has not seen, in order and without a gap; the client reads a run of the *)
(* recorded events; and while the session lives the server ends the        *)
(* client's connection only when everything was sent or another one has    *)
(* overtaken it.                                                           *)
(*                                                                         *)
(* The argument.  What a connection carries is in three places, which      *)
(* follow one another: what was written, what waits in its sink, and what  *)
(* the producer holds for it.  Together they have no gap (ChainInv), and   *)
(* while the connection is attached they are all that is due.  A           *)
(* connection that is superseded keeps what it has.  The client's last ID  *)
(* is either the one it resumed from or one it has read (ReadInv), so that *)
(* the next event it reads is the one recorded next.                       *)
(***************************************************************************)
EXTENDS ResumableStream, SequenceTheorems, TLAPS

-----------------------------------------------------------------------------
(* The inductive invariant.                                                *)

\* The store issues IDs in order; its log is the end of what it has issued,
\* all of it until the session is purged.
StoreInv ==
  /\ \A i, j \in DOMAIN recorded : i < j => recorded[i] < recorded[j]
  /\ \A i \in DOMAIN recorded : recorded[i] <= produced
  /\ Len(log) <= Len(recorded)
  /\ \A i \in DOMAIN log : log[i] = recorded[Len(recorded) - Len(log) + i]
  /\ cleanup # "done" => log = recorded

\* One message is on its way at a time, the newest one; after the last there
\* is none.
PushInv ==
  /\ pump \in {"off", "exited"} => push.pc = "idle"
  /\ push.pc = "idle" => push = Idle
  /\ push.msg.last => closed
  /\ closed => pump = "exited" \/ push.msg.last
  /\ push.msg.id # 0 => push.msg.id \in ToSet(recorded)
  /\ \A i \in DOMAIN recorded : push.msg.id # 0 => recorded[i] <= push.msg.id
  /\ push.pc = "clear" => push.to = Post

\* The stream is tracked from its first message on until it is cleaned up.
TrackInv ==
  /\ tracked = "none" => recorded = <<>>
  /\ tracked = "dropped" => cleanup \in {"streams", "done"}

\* The client opens its connections one after the other.
CurInv ==
  /\ hungUp \subseteq {Post} \union {c \in Conns : cur \in Conns /\ c < cur}
  /\ cur \notin Conns => hungUp = {}
  /\ \A c \in Conns : (cur \in Conns => cur < c) => get[c] = "unused"

\* The attached connection is served; a GET that has not attached is nobody's.
ConnInv ==
  /\ conn # None => ~postW /\ tracked # "none"
  /\ listening => ~postW
  /\ \A c \in Conns :
       /\ conn = c => get[c] \in {"closing", "cutting"} \/ (get[c] = "serving" /\ ~gone[c])
       /\ get[c] \in {"unused", "probed", "found", "lost"} =>
            out[c] = <<>> /\ sink[c] = <<>> /\ ~gone[c] /\ push.to # c
       /\ get[c] \in {"probed", "found", "lost"} => lastID[c] \in ToSet(recorded)
       /\ get[c] # "ended" => lastID[c] = 0 \/ lastID[c] \in ToSet(recorded)

Below(ids, others) == \A e \in ids, f \in others : e < f

\* What c carries and is about to carry.
Chain(c) == Ids(out[c]) \union Ids(sink[c]) \union InHand(c)

\* See the argument above.
Chained(c) ==
  /\ InOrder(sink[c])
  /\ Below(Ids(out[c]), Ids(sink[c]) \union InHand(c))
  /\ Below(Ids(sink[c]), InHand(c))
  /\ NoGap(Chain(c), Due(c))
  /\ conn = c => Due(c) \subseteq Chain(c)

ChainInv ==
  \A c \in Conns :
    /\ InOrder(out[c]) /\ NoGap(Ids(out[c]), Due(c))
    /\ get[c] = "serving" => Chained(c)

\* The same for the POST's response, which carries every event until it is
\* given up.
PostInv ==
  /\ InOrder(out[Post]) /\ NoGap(Ids(out[Post]) \union InHand(Post), ToSet(recorded))
  /\ Below(Ids(out[Post]), InHand(Post))
  /\ postW => ToSet(recorded) \subseteq Ids(out[Post]) \union InHand(Post)

\* Where the client is.
ReadInv ==
  /\ cur = None => read = 0
  /\ cur # None => read <= Len(out[cur])
  /\ cur # None => \A i \in 1..read : out[cur][i].id <= Seen
  /\ got # <<>> /\ cur = Post => \E i \in 1..read : out[cur][i].id = Seen
  /\ got # <<>> /\ cur \in Conns /\ get[cur] # "unused" =>
       /\ lastID[cur] <= Seen
       /\ Seen = lastID[cur] \/ \E i \in 1..read : out[cur][i].id = Seen

\* The last message is behind all others, on a connection that is served.
LastOn(c) ==
  /\ \A i \in DOMAIN out[c] : ~out[c][i].last
  /\ \A i \in DOMAIN sink[c] : sink[c][i].last =>
       /\ closed /\ pump = "exited"
       /\ Due(c) \subseteq Chain(c)
       /\ \A j \in DOMAIN sink[c] : i < j => sink[c][j].id = 0
  /\ push.to = c /\ push.msg.last => Due(c) \subseteq Chain(c)

LastInv == \A c \in Conns : get[c] = "serving" => LastOn(c)

Attached == {"serving", "closing", "cutting", "ended", "cut"}

\* How the client's connection may come to its end while the session lives.
EndInv ==
  cur \in Conns /\ cleanup = "no" =>
    /\ get[cur] # "lost"
    /\ get[cur] = "serving" /\ gone[cur] => \E c \in 1..(cur - 1) : get[c] \in Attached
    /\ get[cur] = "closing" => closed /\ Ids(out[cur]) = Due(cur)

IInv ==
  /\ TypeOK /\ StoreInv /\ PushInv /\ TrackInv /\ CurInv /\ ConnInv
  /\ ChainInv /\ PostInv /\ ReadInv /\ LastInv /\ EndInv
  /\ ClientReadsRun /\ EndsOnlyComplete

-----------------------------------------------------------------------------
(* Messages and their IDs.                                                 *)

LEMMA FunctionIsSequence ==
  ASSUME NEW S, NEW n \in Nat, NEW f \in [1..n -> S]
  PROVE  f \in Seq(S)
  BY DEF Seq

LEMMA IdsOne == \A m : Ids(<<m>>) = {m.id} \ {0}
  BY DEF Ids

LEMMA EmptyMessages == Ids(<<>>) = {} /\ InOrder(<<>>)
  BY DEF Ids, InOrder

LEMMA AppendMessage ==
  ASSUME NEW q \in Seq(Messages), NEW m \in Messages
  PROVE  /\ Ids(Append(q, m)) = Ids(q) \union Ids(<<m>>)
         /\ InOrder(q) /\ Below(Ids(q), Ids(<<m>>)) => InOrder(Append(q, m))
  <1> DEFINE r == Append(q, m)
  <1>1. /\ Len(r) = Len(q) + 1 /\ Len(q) \in Nat
        /\ \A i \in 1..Len(q) : r[i] = q[i]
        /\ r[Len(q) + 1] = m
    BY AppendProperties
  <1>2. DOMAIN r = 1..(Len(q) + 1) /\ DOMAIN q = 1..Len(q)
    BY <1>1, AppendProperties, LenProperties
  <1>3. \A i \in 1..(Len(q) + 1) : i \in 1..Len(q) \/ i = Len(q) + 1
    BY <1>1
  <1> HIDE DEF r
  <1>4. Ids(r) = Ids(q) \union Ids(<<m>>)
    <2>1. ASSUME NEW x \in Ids(r) PROVE x \in Ids(q) \union Ids(<<m>>)
      BY <2>1, <1>1, <1>2, <1>3, IdsOne DEF Ids
    <2>2. ASSUME NEW x \in Ids(q) PROVE x \in Ids(r)
      BY <2>2, <1>1, <1>2 DEF Ids
    <2>3. ASSUME NEW x \in Ids(<<m>>) PROVE x \in Ids(r)
      <3>1. x = r[Len(q) + 1].id /\ x # 0 /\ Len(q) + 1 \in DOMAIN r
        BY <2>3, <1>1, <1>2, IdsOne
      <3> QED BY <3>1 DEF Ids
    <2> QED BY <2>1, <2>2, <2>3
  <1>5. ASSUME InOrder(q), Below(Ids(q), Ids(<<m>>)) PROVE InOrder(r)
    <2>1. ASSUME NEW i \in DOMAIN r, NEW j \in DOMAIN r, i < j, r[i].id # 0, r[j].id # 0
          PROVE  r[i].id < r[j].id
      <3>1. i \in 1..Len(q) /\ r[i] = q[i]
        BY <2>1, <1>1, <1>2
      <3>2. CASE j \in 1..Len(q)
        BY <2>1, <3>1, <3>2, <1>1, <1>2, <1>5 DEF InOrder
      <3>3. CASE j = Len(q) + 1
        <4>1. r[i].id \in Ids(q)
          BY <2>1, <3>1, <1>2 DEF Ids
        <4>2. r[j].id \in Ids(<<m>>)
          BY <2>1, <3>3, <1>1, IdsOne
        <4> QED BY <4>1, <4>2, <1>5 DEF Below
      <3> QED BY <3>2, <3>3, <1>2, <1>3
    <2> QED BY <2>1 DEF InOrder
  <1> QED BY <1>4, <1>5 DEF r

LEMMA TakeMessage ==
  ASSUME NEW q \in Seq(Messages), q # <<>>
  PROVE  /\ Head(q) \in Messages /\ Tail(q) \in Seq(Messages) /\ Len(Tail(q)) <= Len(q)
         /\ Head(q) = q[1] /\ 1 \in DOMAIN q
         /\ \A i \in DOMAIN Tail(q) : i + 1 \in DOMAIN q /\ Tail(q)[i] = q[i + 1]
         /\ Ids(q) = Ids(<<Head(q)>>) \union Ids(Tail(q))
         /\ InOrder(q) => InOrder(Tail(q)) /\ Below(Ids(<<Head(q)>>), Ids(Tail(q)))
  <1> DEFINE r == Tail(q)
             h == Head(q)
  <1>1. /\ h \in Messages /\ r \in Seq(Messages) /\ Len(r) = Len(q) - 1
        /\ \A i \in 1..Len(r) : r[i] = q[i + 1]
    BY HeadTailProperties
  <1>2. Len(q) \in Nat /\ Len(q) >= 1 /\ h = q[1]
    BY EmptySeq
  <1>3. DOMAIN q = 1..Len(q) /\ DOMAIN r = 1..Len(r)
    BY <1>1, LenProperties
  <1>4. \A i \in DOMAIN r : i + 1 \in DOMAIN q /\ r[i] = q[i + 1]
    BY <1>1, <1>2, <1>3
  <1>5. \A i \in DOMAIN q : i = 1 \/ (i - 1 \in DOMAIN r /\ r[i - 1] = q[i])
    BY <1>1, <1>2, <1>3
  <1>0. 1 \in DOMAIN q /\ Len(r) <= Len(q)
    BY <1>1, <1>2, <1>3
  <1> HIDE DEF r, h
  <1>6. Ids(q) = Ids(<<h>>) \union Ids(r)
    <2>1. ASSUME NEW x \in Ids(q) PROVE x \in Ids(<<h>>) \union Ids(r)
      <3>1. PICK i \in DOMAIN q : x = q[i].id /\ x # 0
        BY <2>1 DEF Ids
      <3> QED BY <3>1, <1>2, <1>5, IdsOne DEF Ids
    <2>2. ASSUME NEW x \in Ids(<<h>>) PROVE x \in Ids(q)
      BY <2>2, <1>0, <1>2, IdsOne DEF Ids
    <2>3. ASSUME NEW x \in Ids(r) PROVE x \in Ids(q)
      BY <2>3, <1>4 DEF Ids
    <2> QED BY <2>1, <2>2, <2>3
  <1>7. ASSUME InOrder(q) PROVE InOrder(r) /\ Below(Ids(<<h>>), Ids(r))
    <2>1. InOrder(r)
      <3> SUFFICES ASSUME NEW i \in DOMAIN r, NEW j \in DOMAIN r, i < j,
                          r[i].id # 0, r[j].id # 0
                   PROVE  r[i].id < r[j].id
        BY DEF InOrder
      <3>1. i + 1 < j + 1
        BY <1>1, <1>3
      <3> QED BY <3>1, <1>4, <1>7 DEF InOrder
    <2>2. ASSUME NEW x \in Ids(<<h>>), NEW y \in Ids(r) PROVE x < y
      <3>1. PICK j \in DOMAIN r : y = r[j].id /\ y # 0
        BY <2>2 DEF Ids
      <3>2. x = q[1].id /\ x # 0 /\ y = q[j + 1].id /\ j + 1 \in DOMAIN q /\ 1 < j + 1
        BY <2>2, <3>1, <1>1, <1>2, <1>3, <1>4, IdsOne
      <3> QED BY <3>1, <3>2, <1>0, <1>7 DEF InOrder
    <2> QED BY <2>1, <2>2 DEF Below
  <1> QED BY <1>0, <1>1, <1>2, <1>4, <1>6, <1>7 DEF r, h

LEMMA JoinMessages ==
  ASSUME NEW q \in Seq(Messages), NEW r \in Seq(Messages)
  PROVE  /\ Ids(q \o r) = Ids(q) \union Ids(r)
         /\ InOrder(q) /\ InOrder(r) /\ Below(Ids(q), Ids(r)) => InOrder(q \o r)
  <1> DEFINE t == q \o r
  <1>1. /\ Len(q) \in Nat /\ Len(r) \in Nat /\ Len(t) = Len(q) + Len(r)
        /\ \A i \in 1..(Len(q) + Len(r)) : t[i] = IF i <= Len(q) THEN q[i] ELSE r[i - Len(q)]
    BY ConcatProperties, LenProperties
  <1>2. /\ DOMAIN t = 1..(Len(q) + Len(r)) /\ DOMAIN q = 1..Len(q) /\ DOMAIN r = 1..Len(r)
    BY <1>1, ConcatProperties, LenProperties
  <1> HIDE DEF t
  <1>3. \A i \in DOMAIN q : i \in DOMAIN t /\ t[i] = q[i]
    BY <1>1, <1>2
  <1>4. \A i \in DOMAIN r : i + Len(q) \in DOMAIN t /\ t[i + Len(q)] = r[i]
    BY <1>1, <1>2
  <1>5. \A i \in DOMAIN t : \/ i \in DOMAIN q /\ t[i] = q[i]
                            \/ i > Len(q) /\ i - Len(q) \in DOMAIN r /\ t[i] = r[i - Len(q)]
    BY <1>1, <1>2
  <1>6. Ids(t) = Ids(q) \union Ids(r)
    <2>1. ASSUME NEW x \in Ids(t) PROVE x \in Ids(q) \union Ids(r)
      <3>1. PICK i \in DOMAIN t : x = t[i].id /\ x # 0
        BY <2>1 DEF Ids
      <3> QED BY <3>1, <1>5 DEF Ids
    <2>2. ASSUME NEW x \in Ids(q) PROVE x \in Ids(t)
      BY <2>2, <1>3 DEF Ids
    <2>3. ASSUME NEW x \in Ids(r) PROVE x \in Ids(t)
      BY <2>3, <1>4 DEF Ids
    <2> QED BY <2>1, <2>2, <2>3
  <1>7. ASSUME InOrder(q), InOrder(r), Below(Ids(q), Ids(r)) PROVE InOrder(t)
    <2> SUFFICES ASSUME NEW i \in DOMAIN t, NEW j \in DOMAIN t, i < j,
                        t[i].id # 0, t[j].id # 0
                 PROVE  t[i].id < t[j].id
      BY DEF InOrder
    <2>1. CASE i \in DOMAIN q /\ j \in DOMAIN q
      BY <2>1, <1>3, <1>7 DEF InOrder
    <2>2. CASE i > Len(q) /\ j > Len(q)
      <3>1. i - Len(q) \in DOMAIN r /\ j - Len(q) \in DOMAIN r /\ i - Len(q) < j - Len(q)
            /\ t[i] = r[i - Len(q)] /\ t[j] = r[j - Len(q)]
        BY <2>2, <1>1, <1>2
      <3> QED BY <3>1, <1>7 DEF InOrder
    <2>3. CASE i \in DOMAIN q /\ j > Len(q)
      <3>1. t[i].id \in Ids(q)
        BY <2>3, <1>3 DEF Ids
      <3>2. t[j].id \in Ids(r)
        <4>1. j - Len(q) \in DOMAIN r /\ t[j] = r[j - Len(q)]
          BY <2>3, <1>1, <1>2
        <4> QED BY <4>1 DEF Ids
      <3> QED BY <3>1, <3>2, <1>7 DEF Below
    <2> QED BY <2>1, <2>2, <2>3, <1>1, <1>2
  <1> QED BY <1>6, <1>7 DEF t

LEMMA EventInLog ==
  ASSUME NEW id, Contains(log, id), log \in Seq(1..MaxEvents)
  PROVE  Position(id) \in DOMAIN log /\ log[Position(id)] = id
  <1>1. \E i \in DOMAIN log : log[i] = id
    BY LenProperties DEF Contains
  <1> QED BY <1>1 DEF Position

\* What a replay writes is what was recorded after the event the client names.
LEMMA ReplayIsDue ==
  ASSUME TypeOK, StoreInv, NEW id, Contains(log, id)
  PROVE  /\ Replay(id) \in Seq(Messages) /\ InOrder(Replay(id))
         /\ Ids(Replay(id)) = {e \in ToSet(recorded) : e > id}
         /\ \A i \in DOMAIN Replay(id) : ~Replay(id)[i].last
  <1> DEFINE p == Position(id)
             n == Len(log) - p
             d == Len(recorded) - Len(log)
             r == Replay(id)
  <1>1. /\ log \in Seq(1..MaxEvents) /\ recorded \in Seq(1..MaxEvents)
        /\ Len(log) \in Nat /\ Len(recorded) \in Nat /\ d \in Nat
        /\ DOMAIN log = 1..Len(log) /\ DOMAIN recorded = 1..Len(recorded)
    BY LenProperties DEF TypeOK, StoreInv
  <1>2. p \in 1..Len(log) /\ log[p] = id
    BY <1>1, EventInLog
  <1>3. /\ \A i \in DOMAIN log : log[i] \in 1..MaxEvents
        /\ \A i \in DOMAIN recorded : recorded[i] \in 1..MaxEvents
    BY <1>1, ElementOfSeq
  <1>4. \A i \in 1..Len(log) : log[i] = recorded[d + i] /\ d + i \in DOMAIN recorded
    BY <1>1 DEF StoreInv
  <1>5. \A i, j \in DOMAIN recorded : i < j => recorded[i] < recorded[j]
    BY DEF StoreInv
  <1>6. r = [i \in 1..n |-> [id |-> log[p + 1 + i - 1], last |-> FALSE]] /\ n \in Nat
    BY <1>1, <1>2 DEF Replay, From
  <1> HIDE DEF r
  <1>7. /\ DOMAIN r = 1..n
        /\ \A i \in 1..n : r[i].id = log[p + i] /\ ~r[i].last /\ p + i \in 1..Len(log)
    BY <1>1, <1>2, <1>6
  <1>8. r \in Seq(Messages)
    <2>1. \A i \in 1..n : [id |-> log[p + 1 + i - 1], last |-> FALSE] \in Messages
      <3> TAKE i \in 1..n
      <3>1. p + 1 + i - 1 \in 1..Len(log)
        BY <1>1, <1>2, <1>6
      <3>2. log[p + 1 + i - 1] \in 0..MaxEvents
        BY <3>1, <1>1, <1>3, ResumableAssumption DEF ResumableAssumption
      <3> QED BY <3>2 DEF Messages
    <2>2. r \in [1..n -> Messages]
      BY <1>6, <2>1
    <2> HIDE DEF n
    <2> QED BY <1>6, <2>2, FunctionIsSequence
  <1>9. InOrder(r)
    <2> SUFFICES ASSUME NEW i \in 1..n, NEW j \in 1..n, i < j PROVE r[i].id < r[j].id
      BY <1>7 DEF InOrder
    <2>1. /\ r[i].id = recorded[d + (p + i)] /\ d + (p + i) \in DOMAIN recorded
          /\ r[j].id = recorded[d + (p + j)] /\ d + (p + j) \in DOMAIN recorded
      BY <1>4, <1>7
    <2>2. d + (p + i) < d + (p + j)
      BY <1>1, <1>2, <1>6
    <2> QED BY <2>1, <2>2, <1>5
  <1>10. ASSUME NEW x \in Ids(r) PROVE x \in ToSet(recorded) /\ x > id
    <2>1. PICK i \in 1..n : x = r[i].id
      BY <1>7, <1>10 DEF Ids
    <2>2. x = recorded[d + (p + i)] /\ d + (p + i) \in DOMAIN recorded
      BY <2>1, <1>4, <1>7
    <2>3. id = recorded[d + p] /\ d + p \in DOMAIN recorded /\ d + p < d + (p + i)
      BY <1>1, <1>2, <1>4, <1>6
    <2>4. id < x
      BY <2>2, <2>3, <1>5
    <2>5. id \in Int /\ x \in Int
      BY <2>2, <2>3, <1>3
    <2> QED BY <2>2, <2>4, <2>5 DEF ToSet
  <1>11. ASSUME NEW x \in ToSet(recorded), x > id PROVE x \in Ids(r)
    <2>1. PICK k \in DOMAIN recorded : x = recorded[k]
      BY <1>11 DEF ToSet
    <2>2. id = recorded[d + p] /\ d + p \in DOMAIN recorded /\ x \in 1..MaxEvents /\ id \in Int
      BY <1>1, <1>2, <1>3, <1>4, <2>1
    <2>3. ~(k < d + p) /\ k # d + p
      BY <2>1, <2>2, <1>5, <1>11
    <2>4. k - d - p \in 1..n
      BY <2>1, <2>2, <2>3, <1>1, <1>2
    <2>5. log[p + (k - d - p)] = recorded[k]
      <3>1. p + (k - d - p) \in 1..Len(log) /\ d + (p + (k - d - p)) = k
        BY <2>1, <2>4, <1>1, <1>2, <1>7
      <3> QED BY <3>1, <1>4
    <2>6. r[k - d - p].id = x /\ k - d - p \in DOMAIN r /\ x # 0
      BY <2>1, <2>2, <2>4, <2>5, <1>7
    <2> QED BY <2>6 DEF Ids
  <1>12. Ids(r) = {e \in ToSet(recorded) : e > id}
    BY <1>10, <1>11
  <1> QED BY <1>7, <1>8, <1>9, <1>12 DEF r

\* Whatever the log holds, what a replay writes are messages.
LEMMA ReplayTyped ==
  ASSUME TypeOK, NEW id, Contains(log, id)
  PROVE  Replay(id) \in Seq(Messages)
  <1> DEFINE p == Position(id) + 1
             n == Len(log) - p + 1
  <1>1. p \in 1..(Len(log) + 1) /\ n \in Nat /\ log \in Seq(1..MaxEvents) /\ Len(log) \in Nat
    BY EventInLog, LenProperties DEF TypeOK
  <1>2. \A i \in 1..n : [id |-> log[p + i - 1], last |-> FALSE] \in Messages
    <2> TAKE i \in 1..n
    <2>1. p + i - 1 \in 1..Len(log)
      BY <1>1
    <2>2. log[p + i - 1] \in 0..MaxEvents
      BY <1>1, <2>1, ElementOfSeq, ResumableAssumption DEF ResumableAssumption
    <2> QED BY <2>2 DEF Messages
  <1>3. [i \in 1..n |-> [id |-> log[p + i - 1], last |-> FALSE]] \in [1..n -> Messages]
    BY <1>2
  <1>4. Replay(id) \in [1..n -> Messages]
    BY <1>3 DEF Replay, From
  <1> HIDE DEF n
  <1> QED BY <1>1, <1>4, FunctionIsSequence

\* What a replay that is cut short writes is the beginning of that.
LEMMA ReplayBegins ==
  ASSUME TypeOK, NEW id, Contains(log, id), NEW k \in 0..Len(Replay(id))
  PROVE  /\ SubSeq(Replay(id), 1, k) \in Seq(Messages)
         /\ DOMAIN SubSeq(Replay(id), 1, k) = 1..k /\ 1..k \subseteq DOMAIN Replay(id)
         /\ \A i \in 1..k : SubSeq(Replay(id), 1, k)[i] = Replay(id)[i]
  <1> DEFINE r == Replay(id)
  <1>1. r \in Seq(Messages) /\ Len(r) \in Nat /\ DOMAIN r = 1..Len(r) /\ k \in 0..Len(r)
    BY ReplayTyped, LenProperties
  <1> HIDE DEF r
  <1>2. SubSeq(r, 1, k) = [i \in 1..k |-> r[i]]
    BY <1>1
  <1>3. \A i \in 1..k : r[i] \in Messages
    BY <1>1, ElementOfSeq
  <1>4. [i \in 1..k |-> r[i]] \in [1..k -> Messages] /\ k \in Nat
    BY <1>1, <1>3
  <1>5. SubSeq(r, 1, k) \in Seq(Messages)
    BY <1>2, <1>4, FunctionIsSequence
  <1> QED BY <1>1, <1>2, <1>5 DEF r

LEMMA ReplayBeginsDue ==
  ASSUME TypeOK, StoreInv, NEW id, Contains(log, id), NEW k \in 0..Len(Replay(id))
  PROVE  /\ InOrder(SubSeq(Replay(id), 1, k))
         /\ NoGap(Ids(SubSeq(Replay(id), 1, k)), {e \in ToSet(recorded) : e > id})
         /\ \A i \in 1..k : ~SubSeq(Replay(id), 1, k)[i].last
  <1> DEFINE r == Replay(id)
             w == SubSeq(r, 1, k)
             D == {e \in ToSet(recorded) : e > id}
  <1>1. /\ r \in Seq(Messages) /\ InOrder(r) /\ Ids(r) = D
        /\ \A i \in DOMAIN r : ~r[i].last
    BY ReplayIsDue
  <1>2. DOMAIN w = 1..k /\ 1..k \subseteq DOMAIN r /\ \A i \in 1..k : w[i] = r[i]
    BY ReplayBegins
  <1>3. k \in Nat /\ Len(r) \in Nat /\ DOMAIN r = 1..Len(r)
        /\ \A i \in DOMAIN r : r[i].id \in Nat
    <2>1. Len(r) \in Nat /\ DOMAIN r = 1..Len(r) /\ k \in 0..Len(r)
      BY <1>1, LenProperties
    <2>2. \A i \in DOMAIN r : r[i] \in Messages
      BY <1>1, ElementOfSeq
    <2>3. \A m \in Messages : m.id \in Nat
      BY ResumableAssumption DEF Messages, ResumableAssumption
    <2> HIDE DEF r
    <2> QED BY <2>1, <2>2, <2>3
  <1> HIDE DEF r, w, D
  <1>4. InOrder(w)
    BY <1>1, <1>2 DEF InOrder
  <1>5. Ids(w) \subseteq D
    BY <1>1, <1>2 DEF Ids
  <1>6. ASSUME NEW f \in Ids(w), NEW e \in D, e < f PROVE e \in Ids(w)
    <2>1. PICK i \in 1..k : f = r[i].id /\ f # 0
      BY <1>2, <1>6 DEF Ids
    <2>2. PICK j \in DOMAIN r : e = r[j].id /\ e # 0
      BY <1>1, <1>6 DEF Ids
    <2>3. ~(i < j)
      <3> SUFFICES ASSUME i < j PROVE FALSE
        OBVIOUS
      <3>1. f < e
        BY <1>1, <1>2, <2>1, <2>2 DEF InOrder
      <3>2. f \in Nat /\ e \in Nat
        BY <1>2, <1>3, <2>1, <2>2
      <3> QED BY <1>6, <3>1, <3>2
    <2>4. j \in 1..k
      BY <1>3, <2>1, <2>2, <2>3
    <2> QED BY <1>2, <2>2, <2>4 DEF Ids
  <1>7. NoGap(Ids(w), D)
    BY <1>5, <1>6 DEF NoGap
  <1>8. \A i \in 1..k : ~w[i].last
    BY <1>1, <1>2
  <1> QED BY <1>4, <1>7, <1>8 DEF r, w, D

\* A replay of c that is cut short.
CutReplay(c) == \E k \in 0..MaxEvents, unseen \in BOOLEAN : replayCut(c, k, unseen)

LEMMA CutSame ==
  ASSUME NEW c \in Conns, CutReplay(c)
  PROVE  UNCHANGED <<listening, tracked, closed, log, recorded, produced, push, pump, lastID,
                     sink, hungUp, cur, read, got, cleanup>>
  BY DEF CutReplay, replayCut, storeVars, prodVars, clientVars

-----------------------------------------------------------------------------
(* Types.                                                                  *)

LEMMA TypeInit == Init => TypeOK
  <1> SUFFICES ASSUME Init PROVE TypeOK
    OBVIOUS
  <1>1. MaxEvents \in Nat /\ SinkCap \in Nat /\ Post \in Writers
    BY ResumableAssumption DEF ResumableAssumption, Writers
  <1>2. <<>> \in Seq(1..MaxEvents) /\ <<>> \in Seq(Messages) /\ Len(<<>>) = 0
    BY EmptySeq
  <1>3. push \in [pc : {"idle", "push", "clear"}, msg : Messages, to : Writers \union {None}]
    BY <1>1 DEF Init, Idle, Messages
  <1>4. sink \in [Conns -> Seq(Messages)] /\ \A c \in Conns : Len(sink[c]) <= SinkCap
    BY <1>1, <1>2 DEF Init
  <1>5. out \in [Writers -> Seq(Messages)]
    BY <1>2 DEF Init
  <1>6. log \in Seq(1..MaxEvents) /\ recorded \in Seq(1..MaxEvents) /\ got \in Seq(1..MaxEvents)
    BY <1>2 DEF Init
  <1>7. lastID \in [Conns -> 0..MaxEvents] /\ produced \in 0..MaxEvents
    BY <1>1 DEF Init
  <1>8. /\ get \in [Conns -> {"unused", "probed", "found", "lost", "serving", "closing", "cutting",
                          "ended", "cut"}]
        /\ gone \in [Conns -> BOOLEAN]
    BY DEF Init
  <1> QED BY <1>1, <1>3, <1>4, <1>5, <1>6, <1>7, <1>8 DEF Init, TypeOK

\* The handlers' program counters.
Pcs == {"unused", "probed", "found", "lost", "serving", "closing", "cutting", "ended", "cut"}

LEMMA TypeStep == TypeOK /\ [Next]_vars => TypeOK'
  <1> SUFFICES ASSUME TypeOK, [Next]_vars PROVE TypeOK'
    OBVIOUS
  <1>a. /\ MaxEvents \in Nat /\ SinkCap \in Nat /\ Conns \subseteq Writers /\ Post \in Writers
        /\ Conns \subseteq Nat
    BY ResumableAssumption DEF ResumableAssumption, Writers, Conns
  <1>b. /\ out \in [Writers -> Seq(Messages)] /\ sink \in [Conns -> Seq(Messages)]
        /\ \A c \in Conns : Len(sink[c]) <= SinkCap
        /\ log \in Seq(1..MaxEvents) /\ recorded \in Seq(1..MaxEvents) /\ got \in Seq(1..MaxEvents)
        /\ push \in [pc : {"idle", "push", "clear"}, msg : Messages, to : Writers \union {None}]
        /\ get \in [Conns -> Pcs] /\ gone \in [Conns -> BOOLEAN]
        /\ lastID \in [Conns -> 0..MaxEvents]
    BY DEF TypeOK, Pcs
  <1>c. Superseded \in [Conns -> BOOLEAN]
    BY <1>b DEF Superseded
  <1>d. Idle \in [pc : {"idle", "push", "clear"}, msg : Messages, to : Writers \union {None}]
    BY <1>a DEF Idle, Messages
  <1>e. ASSUME NEW c \in Conns, NEW q \in Seq(Messages), Len(q) <= SinkCap,
               sink' = [sink EXCEPT ![c] = q]
        PROVE  sink' \in [Conns -> Seq(Messages)] /\ \A d \in Conns : Len(sink'[d]) <= SinkCap
    BY <1>b, <1>e
  <1>1. ASSUME NEW stored \in BOOLEAN, NEW last \in BOOLEAN, NEW ctxErr \in BOOLEAN,
               deliver(stored, last, ctxErr)
        PROVE  TypeOK'
    <2>1. produced' \in 1..MaxEvents
      BY <1>1, <1>a DEF deliver, TypeOK
    <2>2. log' \in Seq(1..MaxEvents) /\ recorded' \in Seq(1..MaxEvents)
      <3>1. CASE stored
        <4>1. log' = Append(log, produced') /\ recorded' = Append(recorded, produced')
          BY <1>1, <3>1 DEF deliver
        <4> QED BY <1>b, <2>1, <4>1, AppendProperties
      <3>2. CASE ~stored
        BY <1>1, <1>b, <3>2 DEF deliver
      <3> QED BY <3>1, <3>2
    <2>3. push' \in [pc : {"idle", "push", "clear"}, msg : Messages, to : Writers \union {None}]
      <3>1. [id |-> IF stored THEN produced' ELSE 0, last |-> last] \in Messages
        BY <2>1, <1>a DEF Messages
      <3>2. (IF conn # None THEN conn ELSE IF postW' THEN Post ELSE None) \in Writers \union {None}
        BY <1>a DEF TypeOK
      <3> QED BY <1>1, <3>1, <3>2 DEF deliver
    <2>4. postW' \in BOOLEAN /\ closed' \in BOOLEAN /\ tracked' \in {"none", "yes", "dropped"}
      BY <1>1 DEF deliver, postWriter, TypeOK
    <2>5. produced' \in 0..MaxEvents
      BY <2>1, <1>a
    <2> QED BY <1>1, <2>2, <2>3, <2>4, <2>5 DEF deliver, TypeOK, connVars, clientVars
  <1>f. ASSUME afterPush PROVE /\ push' \in [pc : {"idle", "push", "clear"}, msg : Messages,
                                             to : Writers \union {None}]
                               /\ pump' \in {"off", "on", "stopping", "exited"}
    BY <1>f, <1>d DEF afterPush, TypeOK
  <1>2. ASSUME NEW c \in Conns, PushToSink(c) PROVE TypeOK'
    <2>1. Append(sink[c], push.msg) \in Seq(Messages) /\ Len(Append(sink[c], push.msg)) <= SinkCap
      BY <1>2, <1>a, <1>b, AppendProperties, LenProperties DEF PushToSink
    <2>2. sink' \in [Conns -> Seq(Messages)] /\ \A d \in Conns : Len(sink'[d]) <= SinkCap
      BY <1>2, <1>e, <2>1 DEF PushToSink
    <2> QED BY <1>2, <1>f, <2>2 DEF PushToSink, TypeOK, streamVars, storeVars, clientVars
  <1>3. ASSUME PushDropped PROVE TypeOK'
    BY <1>3, <1>f DEF PushDropped, TypeOK, streamVars, storeVars, connVars, clientVars
  <1>4. ASSUME PushToPost PROVE TypeOK'
    <2>1. out' \in [Writers -> Seq(Messages)]
      BY <1>4, <1>a, <1>b, AppendProperties DEF PushToPost
    <2> QED BY <1>4, <1>f, <2>1 DEF PushToPost, TypeOK, streamVars, storeVars, clientVars
  <1>5. ASSUME PushToPostFails PROVE TypeOK'
    <2>1. push' \in [pc : {"idle", "push", "clear"}, msg : Messages, to : Writers \union {None}]
      BY <1>5, <1>b DEF PushToPostFails
    <2> QED BY <1>5, <2>1 DEF PushToPostFails, TypeOK, streamVars, storeVars, connVars, clientVars
  <1>6. ASSUME clearPostWriterIf PROVE TypeOK'
    BY <1>6, <1>f DEF clearPostWriterIf, TypeOK, storeVars, connVars, clientVars
  <1>7. ASSUME PumpExits \/ PostReturns \/ CleanupPump PROVE TypeOK'
    BY <1>7 DEF PumpExits, PostReturns, CleanupPump, TypeOK, streamVars, storeVars, connVars,
                clientVars
  <1>8. ASSUME NEW c \in Conns, serveListeningStream(c) PROVE TypeOK'
    <2>1. (IF recorded = <<>> THEN 0 ELSE Last(recorded)) \in 0..MaxEvents
      <3>1. CASE recorded # <<>>
        <4>1. Len(recorded) \in 1..Len(recorded)
          BY <1>b, <3>1, EmptySeq
        <4>2. Last(recorded) \in 1..MaxEvents
          BY <1>b, <4>1, ElementOfSeq DEF Last
        <4> QED BY <4>2, <1>a
      <3> QED BY <3>1, <1>a
    <2>2. lastID' \in [Conns -> 0..MaxEvents]
      BY <1>8, <1>b, <2>1 DEF serveListeningStream
    <2>3. get' \in [Conns -> Pcs]
      BY <1>8, <1>b DEF serveListeningStream, Pcs
    <2> QED BY <1>8, <1>c, <2>2, <2>3
          DEF serveListeningStream, TypeOK, Pcs, storeVars, clientVars
  <1>9. ASSUME NEW c \in Conns, handleResumeGet(c) PROVE TypeOK'
    <2>1. Seen \in 0..MaxEvents
      <3>1. CASE got # <<>>
        <4>1. Len(got) \in 1..Len(got)
          BY <1>b, <3>1, EmptySeq
        <4>2. Last(got) \in 1..MaxEvents
          BY <1>b, <4>1, ElementOfSeq DEF Last
        <4> QED BY <3>1, <4>2, <1>a DEF Seen
      <3> QED BY <3>1, <1>a DEF Seen
    <2>2. lastID' \in [Conns -> 0..MaxEvents]
      BY <1>9, <1>b, <2>1 DEF handleResumeGet
    <2>3. get' \in [Conns -> Pcs]
      BY <1>9, <1>b DEF handleResumeGet, Pcs
    <2> QED BY <1>9, <2>2, <2>3
          DEF handleResumeGet, TypeOK, Pcs, streamVars, storeVars, prodVars, clientVars
  <1>10. ASSUME NEW c \in Conns, FindStream(c) PROVE TypeOK'
    <2>1. get' \in [Conns -> Pcs]
      BY <1>10, <1>b DEF FindStream, Pcs
    <2> QED BY <1>10, <2>1
          DEF FindStream, TypeOK, Pcs, streamVars, storeVars, prodVars, clientVars
  <1>11. ASSUME NEW c \in Conns, replayAndAttach(c) PROVE TypeOK'
    <2>1. get' \in [Conns -> Pcs]
      BY <1>11, <1>b DEF replayAndAttach, Pcs
    <2>2. out' \in [Writers -> Seq(Messages)]
      BY <1>11, <1>a, <1>b, ReplayTyped DEF replayAndAttach
    <2>3. conn' \in Conns \union {None} /\ gone' \in [Conns -> BOOLEAN] /\ postW' \in BOOLEAN
      BY <1>11, <1>c DEF replayAndAttach
    <2> QED BY <1>11, <2>1, <2>2, <2>3
          DEF replayAndAttach, TypeOK, Pcs, storeVars, prodVars, clientVars
  <1>21. ASSUME NEW c \in Conns, CutReplay(c) PROVE TypeOK'
    <2>0. PICK k \in 0..MaxEvents, unseen \in BOOLEAN : replayCut(c, k, unseen)
      BY <1>21 DEF CutReplay
    <2>1. get' \in [Conns -> Pcs]
      BY <2>0, <1>b DEF replayCut, Pcs
    <2>2. Contains(log, lastID[c]) /\ k \in 0..Len(Replay(lastID[c]))
      <3>1. Len(Replay(lastID[c])) \in Nat
        BY <2>0, ReplayTyped, LenProperties DEF replayCut
      <3> QED BY <2>0, <3>1, <1>a DEF replayCut
    <2>3. out' \in [Writers -> Seq(Messages)]
      BY <2>0, <2>2, <1>a, <1>b, ReplayBegins DEF replayCut
    <2>4. conn' \in Conns \union {None} /\ postW' \in BOOLEAN
      BY <2>0 DEF replayCut
    <2>5. gone' \in [Conns -> BOOLEAN]
      BY <2>0, <1>c DEF replayCut
    <2> QED BY <2>0, <2>1, <2>3, <2>4, <2>5
          DEF replayCut, TypeOK, Pcs, storeVars, prodVars, clientVars
  <1>12. ASSUME NEW c \in Conns, ReplayUntracked(c) PROVE TypeOK'
    <2>1. get' \in [Conns -> Pcs]
      BY <1>12, <1>b DEF ReplayUntracked, Pcs
    <2>2. <<>> \in Seq(Messages)
      BY EmptySeq
    <2>4. ASSUME Contains(log, lastID[c]) PROVE out' \in [Writers -> Seq(Messages)]
      <3>1. PICK k \in 0..Len(Replay(lastID[c])) :
               out' = [out EXCEPT ![c] = SubSeq(Replay(lastID[c]), 1, k)]
        BY <1>12, <2>4 DEF ReplayUntracked
      <3>2. SubSeq(Replay(lastID[c]), 1, k) \in Seq(Messages)
        BY <2>4, ReplayBegins
      <3> QED BY <3>1, <3>2, <1>a, <1>b
    <2>5. ASSUME ~Contains(log, lastID[c]) PROVE out' \in [Writers -> Seq(Messages)]
      BY <1>12, <1>a, <1>b, <2>2, <2>5 DEF ReplayUntracked
    <2>3. out' \in [Writers -> Seq(Messages)]
      BY <2>4, <2>5
    <2> QED BY <1>12, <2>1, <2>3
          DEF ReplayUntracked, TypeOK, Pcs, streamVars, storeVars, prodVars, clientVars
  <1>13. ASSUME NEW c \in Conns, NEW fails \in BOOLEAN, ServeEvent(c, fails) PROVE TypeOK'
    <2>1. /\ Head(sink[c]) \in Messages /\ Tail(sink[c]) \in Seq(Messages)
          /\ Len(Tail(sink[c])) <= SinkCap
      <3>1. sink[c] \in Seq(Messages) /\ sink[c] # <<>> /\ Len(sink[c]) <= SinkCap
        BY <1>13, <1>b DEF ServeEvent
      <3>2. Len(sink[c]) \in Nat /\ Len(Tail(sink[c])) \in Nat
        BY <3>1, TakeMessage, LenProperties
      <3> QED BY <3>1, <3>2, <1>a, TakeMessage
    <2>2. sink' \in [Conns -> Seq(Messages)] /\ \A d \in Conns : Len(sink'[d]) <= SinkCap
      BY <1>13, <1>e, <2>1 DEF ServeEvent
    <2>3. out' \in [Writers -> Seq(Messages)]
      BY <1>13, <1>a, <1>b, <2>1, AppendProperties DEF ServeEvent
    <2>4. get' \in [Conns -> Pcs] /\ gone' \in [Conns -> BOOLEAN]
      BY <1>13, <1>b DEF ServeEvent, Pcs
    <2> QED BY <1>13, <2>2, <2>3, <2>4
          DEF ServeEvent, TypeOK, Pcs, streamVars, storeVars, prodVars, clientVars
  <1>14. ASSUME NEW c \in Conns, ServeGone(c) \/ ServeCtxDone(c) \/ detachIf(c) PROVE TypeOK'
    <2>1. get' \in [Conns -> Pcs] /\ gone' \in [Conns -> BOOLEAN]
      BY <1>14, <1>b DEF ServeGone, ServeCtxDone, detachIf, Pcs
    <2>2. conn' \in Conns \union {None}
      BY <1>14 DEF ServeGone, ServeCtxDone, detachIf, TypeOK, streamVars
    <2> QED BY <1>14, <2>1, <2>2
          DEF ServeGone, ServeCtxDone, detachIf, TypeOK, Pcs, streamVars, storeVars, prodVars,
              clientVars
  <1>15. ASSUME NEW c \in Conns, deliverTransient(c) PROVE TypeOK'
    <2> DEFINE m == [id |-> 0, last |-> FALSE]
    <2>1. m \in Messages
      BY <1>a DEF Messages
    <2> HIDE DEF m
    <2>2. Append(sink[c], m) \in Seq(Messages) /\ Len(Append(sink[c], m)) <= SinkCap
      BY <1>15, <1>a, <1>b, <2>1, AppendProperties, LenProperties DEF deliverTransient
    <2>3. sink' = [sink EXCEPT ![c] = Append(@, m)]
      BY <1>15 DEF deliverTransient, m
    <2>4. sink' \in [Conns -> Seq(Messages)] /\ \A d \in Conns : Len(sink'[d]) <= SinkCap
      BY <1>e, <2>2, <2>3
    <2> QED BY <1>15, <2>4
          DEF deliverTransient, TypeOK, streamVars, storeVars, prodVars, clientVars
  <1>16. ASSUME ClientReads PROVE TypeOK'
    <2>1. read' \in 1..Len(out[cur]) /\ read' = read + 1 /\ cur \in Writers /\ read' \in Nat
      BY <1>16, <1>b, LenProperties DEF ClientReads, TypeOK
    <2>2. out[cur][read + 1] \in Messages
      BY <1>b, <2>1, ElementOfSeq
    <2>3. got' \in Seq(1..MaxEvents)
      <3>1. CASE out[cur][read + 1].id = 0
        BY <1>16, <1>b, <3>1 DEF ClientReads
      <3>2. CASE out[cur][read + 1].id # 0
        <4>1. out[cur][read + 1].id \in 1..MaxEvents
          BY <1>a, <2>2, <3>2 DEF Messages
        <4> QED BY <1>16, <1>b, <3>2, <4>1, AppendProperties DEF ClientReads
      <3> QED BY <3>1, <3>2
    <2> QED BY <1>16, <2>1, <2>3
          DEF ClientReads, TypeOK, streamVars, storeVars, prodVars, connVars
  <1>17. ASSUME NEW c \in Conns, Reconnect(c) PROVE TypeOK'
    <2>1. cur \in Writers \union {None} /\ hungUp \subseteq Writers
      BY DEF TypeOK
    <2>2. hungUp' \subseteq Writers /\ cur' \in Writers \union {None} /\ read' \in Nat
      BY <1>17, <1>a, <2>1 DEF Reconnect
    <2>3. UNCHANGED <<streamVars, storeVars, prodVars, connVars, got, cleanup>>
      BY <1>17 DEF Reconnect
    <2> QED BY <2>2, <2>3 DEF TypeOK, streamVars, storeVars, prodVars, connVars
  <1>18. ASSUME CleanupStreams PROVE TypeOK'
    <2>1. gone' \in [Conns -> BOOLEAN] /\ conn' \in Conns \union {None} /\ postW' \in BOOLEAN
          /\ tracked' \in {"none", "yes", "dropped"}
      BY <1>18, <1>b, <1>c DEF CleanupStreams, TypeOK
    <2> QED BY <1>18, <2>1 DEF CleanupStreams, TypeOK, storeVars, prodVars, clientVars
  <1>19. ASSUME CleanupPurge PROVE TypeOK'
    <2>1. log' \in Seq(1..MaxEvents)
      BY <1>19, EmptySeq DEF CleanupPurge
    <2> QED BY <1>19, <2>1 DEF CleanupPurge, TypeOK, streamVars, prodVars, connVars, clientVars
  <1>20. ASSUME UNCHANGED vars PROVE TypeOK'
    BY <1>20 DEF vars, TypeOK
  <1> QED BY <1>1, <1>2, <1>3, <1>4, <1>5, <1>6, <1>7, <1>8, <1>9, <1>10, <1>11, <1>12, <1>13,
             <1>14, <1>15, <1>16, <1>17, <1>18, <1>19, <1>20, <1>21
          DEF Next, Produce, Handle, CutReplay

-----------------------------------------------------------------------------
(* The store, and what is on its way.                                      *)

LEMMA RangeAppend ==
  ASSUME NEW S, NEW q \in Seq(S), NEW m \in S
  PROVE  ToSet(Append(q, m)) = ToSet(q) \union {m}
  <1> DEFINE r == Append(q, m)
  <1>1. /\ Len(r) = Len(q) + 1 /\ \A i \in 1..Len(q) : r[i] = q[i]
        /\ r[Len(q) + 1] = m /\ DOMAIN r = 1..(Len(q) + 1)
        /\ DOMAIN q = 1..Len(q) /\ Len(q) \in Nat
    BY AppendProperties, LenProperties
  <1>2. \A i \in DOMAIN r : i \in DOMAIN q \/ i = Len(q) + 1
    BY <1>1
  <1>3. Len(q) + 1 \in DOMAIN r /\ DOMAIN q \subseteq DOMAIN r
    BY <1>1
  <1> HIDE DEF r
  <1>4. ASSUME NEW x \in ToSet(r) PROVE x \in ToSet(q) \union {m}
    BY <1>1, <1>2, <1>4 DEF ToSet
  <1>5. ASSUME NEW x \in ToSet(q) \union {m} PROVE x \in ToSet(r)
    BY <1>1, <1>3, <1>5 DEF ToSet
  <1> QED BY <1>4, <1>5 DEF r

LEMMA RecordedAppend ==
  ASSUME TypeOK, NEW n \in 1..MaxEvents
  PROVE  ToSet(Append(recorded, n)) = ToSet(recorded) \union {n}
  <1>1. recorded \in Seq(1..MaxEvents)
    BY DEF TypeOK
  <1> DEFINE S == 1..MaxEvents
  <1> HIDE DEF S
  <1>2. recorded \in Seq(S) /\ n \in S
    BY <1>1 DEF S
  <1> QED BY <1>2, RangeAppend

LEMMA RecordedRange ==
  ASSUME TypeOK
  PROVE  /\ DOMAIN recorded = 1..Len(recorded) /\ Len(recorded) \in Nat
         /\ \A i \in DOMAIN recorded : recorded[i] \in 1..MaxEvents
         /\ ToSet(recorded) \subseteq 1..MaxEvents
  <1>1. recorded \in Seq(1..MaxEvents)
    BY DEF TypeOK
  <1>2. DOMAIN recorded = 1..Len(recorded) /\ Len(recorded) \in Nat
    BY <1>1, LenProperties
  <1>3. \A i \in DOMAIN recorded : recorded[i] \in 1..MaxEvents
    BY <1>1, <1>2, ElementOfSeq
  <1> QED BY <1>2, <1>3 DEF ToSet

\* A delivery records its message, if at all, behind everything recorded.
LEMMA DeliverRecords ==
  ASSUME TypeOK, StoreInv,
         NEW stored \in BOOLEAN, NEW last \in BOOLEAN, NEW ctxErr \in BOOLEAN,
         deliver(stored, last, ctxErr)
  PROVE  /\ StoreInv'
         /\ push'.msg \in Messages /\ push'.pc = "push" /\ push'.msg.last = last
         /\ ToSet(recorded') = ToSet(recorded) \union Ids(<<push'.msg>>)
         /\ Below(ToSet(recorded), Ids(<<push'.msg>>))
         /\ push'.msg.id # 0 => \A i \in DOMAIN recorded' : recorded'[i] <= push'.msg.id
         /\ recorded' = <<>> => recorded = <<>>
  <1> DEFINE n == produced + 1
             id == IF stored THEN n ELSE 0
  <1>1. /\ n \in 1..MaxEvents /\ produced' = n /\ produced \in Nat
        /\ push'.msg = [id |-> id, last |-> last] /\ push'.pc = "push"
        /\ cleanup' = cleanup
    BY ResumableAssumption DEF deliver, TypeOK, ResumableAssumption
  <1>2. push'.msg \in Messages /\ push'.msg.id = id /\ push'.msg.last = last
    BY <1>1, ResumableAssumption DEF Messages, ResumableAssumption
  <1>3. Ids(<<push'.msg>>) = {id} \ {0}
    BY <1>2, IdsOne
  <1>4. /\ recorded \in Seq(1..MaxEvents) /\ log \in Seq(1..MaxEvents)
        /\ DOMAIN recorded = 1..Len(recorded) /\ DOMAIN log = 1..Len(log)
        /\ Len(recorded) \in Nat /\ Len(log) \in Nat
        /\ \A i \in DOMAIN recorded : recorded[i] \in Nat /\ recorded[i] < n
    BY <1>1, RecordedRange, LenProperties DEF TypeOK, StoreInv
  <1>5. CASE ~stored
    <2>1. log' = log /\ recorded' = recorded /\ Ids(<<push'.msg>>) = {}
      BY <1>3, <1>5 DEF deliver
    <2>2. StoreInv'
      BY <1>1, <1>4, <2>1 DEF StoreInv
    <2> QED BY <1>2, <1>5, <1>1, <2>1, <2>2 DEF Below
  <1>6. CASE stored
    <2>1. log' = Append(log, n) /\ recorded' = Append(recorded, n) /\ id = n /\ n # 0
      BY <1>1, <1>6 DEF deliver
    <2>2. /\ Len(log') = Len(log) + 1 /\ DOMAIN log' = 1..(Len(log) + 1)
          /\ \A i \in 1..Len(log) : log'[i] = log[i]
          /\ log'[Len(log) + 1] = n
      BY <1>1, <1>4, <2>1, AppendProperties, LenProperties
    <2>3. /\ Len(recorded') = Len(recorded) + 1 /\ DOMAIN recorded' = 1..(Len(recorded) + 1)
          /\ \A i \in 1..Len(recorded) : recorded'[i] = recorded[i]
          /\ recorded'[Len(recorded) + 1] = n
      BY <1>1, <1>4, <2>1, AppendProperties, LenProperties
    <2>4. \A i, j \in DOMAIN recorded' : i < j => recorded'[i] < recorded'[j]
      <3> SUFFICES ASSUME NEW i \in DOMAIN recorded', NEW j \in DOMAIN recorded', i < j
                   PROVE  recorded'[i] < recorded'[j]
        OBVIOUS
      <3>1. CASE j = Len(recorded) + 1
        BY <3>1, <1>4, <2>3
      <3>2. CASE j \in 1..Len(recorded)
        BY <3>2, <1>4, <2>3 DEF StoreInv
      <3> QED BY <3>1, <3>2, <1>4, <2>3
    <2>5. \A i \in DOMAIN recorded' : recorded'[i] <= n
      BY <1>1, <1>4, <2>3
    <2>6. Len(log') <= Len(recorded')
      BY <1>4, <2>2, <2>3 DEF StoreInv
    <2>7. \A i \in DOMAIN log' : log'[i] = recorded'[Len(recorded') - Len(log') + i]
      <3> SUFFICES ASSUME NEW i \in DOMAIN log'
                   PROVE  log'[i] = recorded'[Len(recorded') - Len(log') + i]
        OBVIOUS
      <3>1. CASE i = Len(log) + 1
        <4>1. Len(recorded') - Len(log') + i = Len(recorded) + 1
          BY <3>1, <1>4, <2>2, <2>3
        <4> QED BY <3>1, <4>1, <2>2, <2>3
      <3>2. CASE i \in 1..Len(log)
        <4>1. /\ Len(recorded') - Len(log') + i = Len(recorded) - Len(log) + i
              /\ Len(recorded) - Len(log) + i \in 1..Len(recorded)
          BY <3>2, <1>4, <2>2, <2>3 DEF StoreInv
        <4> QED BY <3>2, <4>1, <1>4, <2>2, <2>3 DEF StoreInv
      <3> QED BY <3>1, <3>2, <1>4, <2>2
    <2>8. cleanup' # "done" => log' = recorded'
      BY <1>1, <2>1 DEF StoreInv
    <2>9. StoreInv'
      BY <1>1, <2>4, <2>5, <2>6, <2>7, <2>8 DEF StoreInv
    <2>10. ToSet(recorded') = ToSet(recorded) \union {n}
      BY <1>1, <2>1, RecordedAppend
    <2>11. Below(ToSet(recorded), {n})
      BY <1>4 DEF Below, ToSet
    <2>12. recorded' # <<>>
      BY <1>1, <1>4, <2>1, AppendProperties
    <2> QED BY <1>1, <1>2, <1>3, <2>1, <2>5, <2>9, <2>10, <2>11, <2>12
  <1> QED BY <1>5, <1>6

LEMMA LastRecorded ==
  ASSUME TypeOK, StoreInv, recorded # <<>>
  PROVE  /\ Last(recorded) \in ToSet(recorded)
         /\ \A e \in ToSet(recorded) : e <= Last(recorded)
  <1>1. Len(recorded) \in DOMAIN recorded /\ Last(recorded) = recorded[Len(recorded)]
    BY RecordedRange, EmptySeq DEF Last, TypeOK
  <1>2. ASSUME NEW i \in DOMAIN recorded PROVE recorded[i] <= Last(recorded)
    <2>1. i < Len(recorded) \/ i = Len(recorded)
      BY <1>2, RecordedRange
    <2> QED BY <1>1, <2>1, RecordedRange DEF StoreInv
  <1> QED BY <1>1, <1>2 DEF ToSet

LEMMA LogRecorded ==
  ASSUME TypeOK, StoreInv, NEW id, Contains(log, id)
  PROVE  id \in ToSet(recorded)
  <1>1. PICK i \in DOMAIN log : log[i] = id
    BY LenProperties DEF Contains, TypeOK
  <1>2. log \in Seq(1..MaxEvents) /\ DOMAIN log = 1..Len(log) /\ Len(log) \in Nat
    BY LenProperties DEF TypeOK
  <1>3. Len(recorded) - Len(log) + i \in 1..Len(recorded)
    BY <1>2, RecordedRange DEF StoreInv
  <1> QED BY <1>1, <1>3, RecordedRange DEF StoreInv, ToSet

\* A connection records nothing and cleans up nothing; it can only make its
\* stream tracked.
LEMMA ConnRecordsNothing ==
  ASSUME NEW c \in Conns, Handle(c) \/ deliverTransient(c)
  PROVE  UNCHANGED <<log, recorded, produced, cleanup>> /\ tracked' \in {"yes", tracked}
  <1>1. CASE serveListeningStream(c) \/ handleResumeGet(c) \/ FindStream(c)
    BY <1>1 DEF serveListeningStream, handleResumeGet, FindStream, storeVars, prodVars,
                streamVars
  <1>2. CASE replayAndAttach(c) \/ ReplayUntracked(c)
    BY <1>2 DEF replayAndAttach, ReplayUntracked, storeVars, prodVars, streamVars
  <1>3. CASE CutReplay(c)
    BY <1>3, CutSame
  <1>4. CASE (\E fails \in BOOLEAN : ServeEvent(c, fails)) \/ ServeGone(c) \/ ServeCtxDone(c)
    BY <1>4 DEF ServeEvent, ServeGone, ServeCtxDone, storeVars, prodVars, streamVars
  <1>5. CASE detachIf(c) \/ deliverTransient(c)
    BY <1>5 DEF detachIf, deliverTransient, storeVars, prodVars, streamVars
  <1> QED BY <1>1, <1>2, <1>3, <1>4, <1>5 DEF Handle, CutReplay

LEMMA StoreStep == TypeOK /\ StoreInv /\ [Next]_vars => StoreInv'
  <1> SUFFICES ASSUME TypeOK, StoreInv, [Next]_vars PROVE StoreInv'
    OBVIOUS
  <1>1. CASE \E stored, last, ctxErr \in BOOLEAN : deliver(stored, last, ctxErr)
    BY <1>1, DeliverRecords
  <1>2. CASE CleanupPurge
    <2>1. log' = <<>> /\ recorded' = recorded /\ produced' = produced /\ cleanup' = "done"
      BY <1>2 DEF CleanupPurge, prodVars
    <2>2. Len(log') = 0 /\ DOMAIN log' = {} /\ Len(recorded) \in Nat
      BY <2>1, RecordedRange
    <2> QED BY <2>1, <2>2 DEF StoreInv
  <1>3. CASE UNCHANGED <<log, recorded, produced>> /\ (cleanup' # "done" => cleanup # "done")
    BY <1>3 DEF StoreInv
  <1>4. \/ \E stored, last, ctxErr \in BOOLEAN : deliver(stored, last, ctxErr)
        \/ CleanupPurge
        \/ UNCHANGED <<log, recorded, produced>> /\ (cleanup' # "done" => cleanup # "done")
    BY ConnRecordsNothing
       DEF Next, Produce, PushToSink, PushDropped, PushToPost, PushToPostFails,
           clearPostWriterIf, PumpExits, PostReturns, ClientReads, Reconnect, CleanupPump,
           CleanupStreams, vars, prodVars, storeVars
  <1> QED BY <1>1, <1>2, <1>3, <1>4

\* The producer's steps with the message it holds.
Handed ==
  \/ \E c \in Conns : PushToSink(c)
  \/ PushDropped \/ PushToPost \/ clearPostWriterIf

LEMMA PushMoves ==
  Next => \/ \E stored, last, ctxErr \in BOOLEAN : deliver(stored, last, ctxErr)
          \/ Handed /\ UNCHANGED <<closed, recorded>>
          \/ PushToPostFails /\ UNCHANGED <<closed, recorded, pump>>
          \/ UNCHANGED <<push, closed, recorded>>
             /\ (pump' = pump \/ (pump # "exited" /\ pump' \in {"on", "stopping"})
                 \/ (push.pc = "idle" /\ pump' = "exited"))
  BY DEF Handed, Next, Produce, Handle, PushToSink, PushDropped, PushToPost, PushToPostFails,
         clearPostWriterIf, PumpExits, PostReturns, serveListeningStream, handleResumeGet,
         FindStream, replayAndAttach, replayCut, ReplayUntracked, ServeEvent, ServeGone,
         ServeCtxDone,
         detachIf, deliverTransient, ClientReads, Reconnect, CleanupPump, CleanupStreams,
         CleanupPurge, prodVars, storeVars, streamVars

LEMMA PushStep == TypeOK /\ StoreInv /\ PushInv /\ [Next]_vars => PushInv'
  <1> SUFFICES ASSUME TypeOK, StoreInv, PushInv, [Next]_vars PROVE PushInv'
    OBVIOUS
  <1>a. /\ push \in [pc : {"idle", "push", "clear"}, msg : Messages, to : Writers \union {None}]
        /\ closed \in BOOLEAN /\ pump \in {"off", "on", "stopping", "exited"}
        /\ Idle.pc = "idle" /\ Idle.msg.id = 0 /\ ~Idle.msg.last
    BY DEF TypeOK, Idle
  <1>1. ASSUME NEW stored \in BOOLEAN, NEW last \in BOOLEAN, NEW ctxErr \in BOOLEAN,
               deliver(stored, last, ctxErr)
        PROVE  PushInv'
    <2>1. /\ push.pc = "idle" /\ pump \in {"on", "stopping"} /\ pump' = pump
          /\ push'.pc = "push" /\ closed' = (closed \/ last)
      BY <1>1 DEF deliver
    <2>2. ~closed
      BY <1>a, <2>1 DEF PushInv
    <2>3. push'.msg.last = last /\ push'.msg.id \in Nat
      BY <1>1, DeliverRecords, ResumableAssumption DEF Messages, ResumableAssumption
    <2>4. push'.msg.id # 0 => push'.msg.id \in ToSet(recorded')
      BY <1>1, DeliverRecords, IdsOne
    <2>5. \A i \in DOMAIN recorded' : push'.msg.id # 0 => recorded'[i] <= push'.msg.id
      BY <1>1, DeliverRecords
    <2> QED BY <2>1, <2>2, <2>3, <2>4, <2>5 DEF PushInv
  <1>2. CASE Handed /\ UNCHANGED <<closed, recorded>>
    <2>1. push' = Idle /\ pump' = (IF push.msg.last THEN "exited" ELSE pump) /\ push.pc # "idle"
      BY <1>2 DEF Handed, PushToSink, PushDropped, PushToPost, clearPostWriterIf, afterPush
    <2> QED BY <1>2, <1>a, <2>1 DEF PushInv
  <1>3. CASE PushToPostFails /\ UNCHANGED <<closed, recorded, pump>>
    <2>1. push'.pc = "clear" /\ push'.msg = push.msg /\ push'.to = push.to /\ push.to = Post
          /\ push.pc = "push"
      BY <1>3, <1>a DEF PushToPostFails
    <2> QED BY <1>3, <2>1 DEF PushInv
  <1>4. CASE UNCHANGED <<push, closed, recorded>>
             /\ (pump' = pump \/ (pump # "exited" /\ pump' \in {"on", "stopping"})
                 \/ (push.pc = "idle" /\ pump' = "exited"))
    BY <1>4, <1>a DEF PushInv
  <1>5. CASE UNCHANGED vars
    BY <1>5 DEF vars, PushInv
  <1> QED BY <1>1, <1>2, <1>3, <1>4, <1>5, PushMoves

LEMMA TrackStep == TypeOK /\ StoreInv /\ TrackInv /\ [Next]_vars => TrackInv'
  <1> SUFFICES ASSUME TypeOK, StoreInv, TrackInv, [Next]_vars PROVE TrackInv'
    OBVIOUS
  <1>1. \/ tracked' = "yes"
        \/ tracked' = tracked /\ recorded' = recorded
           /\ (cleanup' = cleanup \/ (cleanup \in {"no", "pump"} /\ cleanup' = "pump")
               \/ cleanup' \in {"streams", "done"})
        \/ tracked' = "dropped" /\ cleanup' = "streams"
        \/ tracked' = tracked /\ tracked # "none" /\ cleanup' = cleanup
    <2>1. CASE Produce
      BY <2>1 DEF Produce, deliver, PushToSink, PushDropped, PushToPost, PushToPostFails,
                  clearPostWriterIf, PumpExits, PostReturns, streamVars, storeVars
    <2>2. ASSUME NEW c \in Conns, Handle(c) \/ deliverTransient(c)
          PROVE  UNCHANGED <<recorded, cleanup>> /\ tracked' \in {"yes", tracked}
      BY <2>2, ConnRecordsNothing
    <2>3. CASE \/ \E c \in Conns : Reconnect(c)
               \/ ClientReads \/ CleanupPump \/ CleanupStreams \/ CleanupPurge
               \/ UNCHANGED vars
      BY <2>3 DEF ClientReads, Reconnect, CleanupPump, CleanupStreams, CleanupPurge, vars,
                  streamVars, storeVars
    <2> QED BY <2>1, <2>2, <2>3 DEF Next
  <1>2. cleanup \in {"no", "pump"} => tracked # "dropped"
    BY DEF TrackInv
  <1> QED BY <1>1, <1>2 DEF TrackInv

-----------------------------------------------------------------------------
(* Who is where.                                                           *)

LEMMA CurStep == TypeOK /\ CurInv /\ [Next]_vars => CurInv'
  <1> SUFFICES ASSUME TypeOK, CurInv, [Next]_vars PROVE CurInv'
    OBVIOUS
  <1>a. /\ cur \in Writers \union {None} /\ Post \notin Conns /\ None \notin Conns
        /\ Conns \subseteq Nat /\ Writers = Conns \union {Post}
        /\ get \in [Conns -> Pcs]
    BY ResumableAssumption DEF TypeOK, ResumableAssumption, Conns, Writers, Pcs
  <1>1. ASSUME NEW c \in Conns, Reconnect(c) PROVE CurInv'
    <2>1. /\ cur' = c /\ get' = get /\ c = (IF cur \in Conns THEN cur + 1 ELSE 1)
          /\ hungUp' = (IF cur = None THEN hungUp ELSE hungUp \union {cur})
      BY <1>1 DEF Reconnect, connVars
    <2>2. hungUp' \subseteq {Post} \union {d \in Conns : d < c}
      <3>1. CASE cur \in Conns
        <4>1. cur < c /\ \A d \in Conns : d < cur => d < c
          BY <1>a, <2>1, <3>1
        <4>2. hungUp' = hungUp \union {cur}
          BY <1>a, <2>1, <3>1
        <4> QED BY <3>1, <4>1, <4>2 DEF CurInv
      <3>2. CASE cur \notin Conns
        <4>1. hungUp = {} /\ (cur = Post \/ cur = None)
          BY <1>a, <3>2 DEF CurInv
        <4> QED BY <2>1, <4>1
      <3> QED BY <3>1, <3>2
    <2>3. \A d \in Conns : c < d => get[d] = "unused"
      BY <1>a, <2>1 DEF CurInv
    <2> QED BY <2>1, <2>2, <2>3 DEF CurInv
  <1>2. ASSUME UNCHANGED <<cur, hungUp>>, NEW c \in Conns,
               \A d \in Conns : d # c => get'[d] = get[d],
               get[c] # "unused" \/ c = cur \/ get'[c] = "unused"
        PROVE  CurInv'
    BY <1>2, <1>a DEF CurInv
  <1>3. ASSUME UNCHANGED <<cur, hungUp, get>> PROVE CurInv'
    BY <1>3 DEF CurInv
  <1>4. ASSUME NEW c \in Conns, Handle(c) PROVE CurInv'
    <2>1. UNCHANGED <<cur, hungUp>>
      BY <1>4 DEF Handle, serveListeningStream, handleResumeGet, FindStream, replayAndAttach,
                  replayCut,
                  ReplayUntracked, ServeEvent, ServeGone, ServeCtxDone, detachIf, clientVars
    <2>2. get[c] # "unused" \/ c = cur
      BY <1>4 DEF Handle, serveListeningStream, handleResumeGet, FindStream, replayAndAttach,
                  replayCut,
                  ReplayUntracked, ServeEvent, ServeGone, ServeCtxDone, detachIf
    <2>3. \A d \in Conns : d # c => get'[d] = get[d]
      BY <1>4, <1>a
         DEF Handle, serveListeningStream, handleResumeGet, FindStream, replayAndAttach, replayCut,
             ReplayUntracked, ServeEvent, ServeGone, ServeCtxDone, detachIf
    <2> QED BY <1>2, <2>1, <2>2, <2>3
  <1>5. ASSUME Next PROVE \/ \E c \in Conns : Reconnect(c) \/ Handle(c)
                          \/ UNCHANGED <<cur, hungUp, get>>
    BY <1>5 DEF Next, Produce, deliver, PushToSink, PushDropped, PushToPost, PushToPostFails,
           clearPostWriterIf, PumpExits, PostReturns, deliverTransient, ClientReads, CleanupPump,
           CleanupStreams, CleanupPurge, connVars, clientVars
  <1>6. CASE UNCHANGED vars
    BY <1>6, <1>3 DEF vars
  <1> QED BY <1>1, <1>3, <1>4, <1>5, <1>6

LEMMA ConnStep ==
  TypeOK /\ StoreInv /\ PushInv /\ TrackInv /\ ConnInv /\ [Next]_vars => ConnInv'
  <1> SUFFICES ASSUME TypeOK, StoreInv, PushInv, TrackInv, ConnInv, [Next]_vars PROVE ConnInv'
    OBVIOUS
  <1>a. /\ get \in [Conns -> Pcs] /\ gone \in [Conns -> BOOLEAN] /\ Post \notin Conns
        /\ None \notin Conns /\ Post # None /\ out \in [Writers -> Seq(Messages)]
        /\ lastID \in [Conns -> 0..MaxEvents] /\ sink \in [Conns -> Seq(Messages)]
        /\ conn \in Conns \union {None} /\ Conns \subseteq Writers
        /\ postW \in BOOLEAN /\ listening \in BOOLEAN
    BY ResumableAssumption DEF TypeOK, ResumableAssumption, Conns, Writers, Pcs
  <1>b. Idle.to = None /\ push.to \in Writers \union {None}
    BY DEF Idle, TypeOK
  <1>1. ASSUME NEW stored \in BOOLEAN, NEW last \in BOOLEAN, NEW ctxErr \in BOOLEAN,
               deliver(stored, last, ctxErr)
        PROVE  ConnInv'
    <2>1. /\ UNCHANGED <<conn, get, gone, out, sink, lastID, listening>>
          /\ postW' = postWriter(ctxErr) /\ tracked' # "none"
          /\ push'.to = (IF conn # None THEN conn ELSE IF postW' THEN Post ELSE None)
      BY <1>1 DEF deliver, connVars
    <2>2. ToSet(recorded) \subseteq ToSet(recorded')
      BY <1>1, DeliverRecords
    <2>3. (conn # None => ~postW') /\ (listening => ~postW')
      BY <1>a, <2>1 DEF ConnInv, postWriter
    <2>4. \A d \in Conns : push'.to = d => conn = d
      BY <1>a, <2>1
    <2> QED BY <1>a, <2>1, <2>2, <2>3, <2>4 DEF ConnInv
  <1>2. ASSUME NEW c \in Conns, PushToSink(c) PROVE ConnInv'
    <2>1. /\ push.to = c /\ push'.to = None
          /\ UNCHANGED <<conn, postW, tracked, listening, get, gone, out, lastID, recorded>>
          /\ \A d \in Conns : d # c => sink'[d] = sink[d]
      BY <1>2, <1>a, <1>b DEF PushToSink, afterPush, streamVars, storeVars
    <2> QED BY <1>a, <2>1 DEF ConnInv
  <1>3. ASSUME PushDropped \/ PushToPost \/ PushToPostFails \/ clearPostWriterIf PROVE ConnInv'
    <2>1. /\ UNCHANGED <<conn, tracked, listening, get, gone, sink, lastID, recorded>>
          /\ \A d \in Conns : out'[d] = out[d]
          /\ postW' = postW \/ ~postW'
      BY <1>3, <1>a DEF PushDropped, PushToPost, PushToPostFails, clearPostWriterIf, streamVars,
                        storeVars, connVars
    <2>2. push'.to = None \/ push'.to = push.to
      BY <1>3, <1>b DEF PushDropped, PushToPost, PushToPostFails, clearPostWriterIf, afterPush,
                        TypeOK
    <2> QED BY <1>a, <2>1, <2>2 DEF ConnInv
  <1>4. ASSUME NEW c \in Conns, serveListeningStream(c) PROVE ConnInv'
    <2>1. /\ get[c] = "unused" /\ conn' = c /\ get' = [get EXCEPT ![c] = "serving"]
          /\ gone' = Superseded /\ listening /\ tracked' = "yes"
          /\ UNCHANGED <<listening, postW, out, sink, push, recorded>>
          /\ \A d \in Conns : d # c => lastID'[d] = lastID[d]
      BY <1>4, <1>a DEF serveListeningStream, storeVars
    <2>2. conn # c /\ ~gone'[c]
      BY <1>a, <2>1 DEF ConnInv, Superseded
    <2>3. \A d \in Conns : d # conn => gone'[d] = gone[d]
      BY <1>a, <2>1 DEF Superseded
    <2>4. lastID'[c] = 0 \/ lastID'[c] \in ToSet(recorded)
      BY <1>4, <1>a, LastRecorded DEF serveListeningStream
    <2> QED BY <1>a, <2>1, <2>2, <2>3, <2>4 DEF ConnInv
  <1>5. ASSUME NEW c \in Conns, handleResumeGet(c) PROVE ConnInv'
    <2>1. /\ get[c] = "unused" /\ lastID' = [lastID EXCEPT ![c] = Seen]
          /\ get' = [get EXCEPT ![c] = IF Contains(log, Seen) THEN "probed" ELSE "ended"]
          /\ UNCHANGED <<conn, tracked, listening, postW, out, sink, push, recorded, gone>>
      BY <1>5 DEF handleResumeGet, streamVars, storeVars, prodVars
    <2>2. Contains(log, Seen) => Seen \in ToSet(recorded)
      BY LogRecorded
    <2> QED BY <1>a, <2>1, <2>2 DEF ConnInv
  <1>6. ASSUME NEW c \in Conns, replayAndAttach(c) PROVE ConnInv'
    <2>1. /\ get[c] = "found" /\ gone' = Superseded /\ ~postW'
          /\ UNCHANGED <<tracked, listening, sink, push, recorded, lastID>>
          /\ \A d \in Conns : d # c => out'[d] = out[d] /\ get'[d] = get[d]
          /\ \/ conn' = None /\ get'[c] = "ended"
             \/ conn' = c /\ get'[c] = "serving"
      BY <1>6, <1>a DEF replayAndAttach, storeVars, prodVars
    <2>2. conn # c /\ ~gone'[c]
      BY <1>a, <2>1 DEF ConnInv, Superseded
    <2>3. \A d \in Conns : d # conn => gone'[d] = gone[d]
      BY <1>a, <2>1 DEF Superseded
    <2>4. tracked # "none"
      <3>1. recorded # <<>>
        BY <2>1, <1>a, RecordedRange DEF ConnInv, ToSet
      <3> QED BY <3>1 DEF TrackInv
    <2>5. \A d \in Conns : conn' = d =>
             get'[d] \in {"closing", "cutting"} \/ (get'[d] = "serving" /\ ~gone'[d])
      BY <1>a, <2>1, <2>2
    <2>6. ASSUME NEW d \in Conns, d # c
          PROVE  /\ get'[d] \in {"unused", "probed", "found", "lost"} =>
                      out'[d] = <<>> /\ sink'[d] = <<>> /\ ~gone'[d] /\ push'.to # d
                 /\ get'[d] \in {"probed", "found", "lost"} => lastID'[d] \in ToSet(recorded')
                 /\ get'[d] # "ended" => lastID'[d] = 0 \/ lastID'[d] \in ToSet(recorded')
      BY <1>a, <2>1, <2>3, <2>6 DEF ConnInv
    <2> QED BY <1>a, <2>1, <2>4, <2>5, <2>6 DEF ConnInv
  <1>14. ASSUME NEW c \in Conns, CutReplay(c) PROVE ConnInv'
    <2>0. PICK k \in 0..MaxEvents, unseen \in BOOLEAN : replayCut(c, k, unseen)
      BY <1>14 DEF CutReplay
    <2>1. /\ get[c] = "found" /\ ~postW'
          /\ gone' = [Superseded EXCEPT ![c] = unseen]
          /\ UNCHANGED <<tracked, listening, sink, push, recorded, lastID>>
          /\ \A d \in Conns : d # c => out'[d] = out[d] /\ get'[d] = get[d]
          /\ \/ conn' = None /\ get'[c] = "cut"
             \/ conn' = c /\ get'[c] = "cutting"
      BY <2>0, <1>a DEF replayCut, storeVars, prodVars
    <2>2. conn # c
      BY <1>a, <2>1 DEF ConnInv
    <2>3. \A d \in Conns : d # conn /\ d # c => gone'[d] = gone[d]
      BY <1>a, <2>1 DEF Superseded
    <2>4. tracked # "none"
      <3>1. recorded # <<>>
        BY <2>1, <1>a, RecordedRange DEF ConnInv, ToSet
      <3> QED BY <3>1 DEF TrackInv
    <2>5. \A d \in Conns : conn' = d =>
             get'[d] \in {"closing", "cutting"} \/ (get'[d] = "serving" /\ ~gone'[d])
      BY <1>a, <2>1, <2>2
    <2>6. ASSUME NEW d \in Conns, d # c
          PROVE  /\ get'[d] \in {"unused", "probed", "found", "lost"} =>
                      out'[d] = <<>> /\ sink'[d] = <<>> /\ ~gone'[d] /\ push'.to # d
                 /\ get'[d] \in {"probed", "found", "lost"} => lastID'[d] \in ToSet(recorded')
                 /\ get'[d] # "ended" => lastID'[d] = 0 \/ lastID'[d] \in ToSet(recorded')
      BY <1>a, <2>1, <2>3, <2>6 DEF ConnInv
    <2> QED BY <1>a, <2>1, <2>4, <2>5, <2>6 DEF ConnInv
  <1>7. ASSUME NEW c \in Conns, FindStream(c) \/ ReplayUntracked(c) \/ ServeGone(c) PROVE ConnInv'
    <2>1. /\ UNCHANGED <<conn, tracked, listening, postW, sink, push, recorded, gone, lastID>>
          /\ \A d \in Conns : d # c => out'[d] = out[d] /\ get'[d] = get[d]
          /\ \/ get[c] = "probed" /\ get'[c] \in {"found", "lost"} /\ out' = out
             \/ get[c] = "lost" /\ get'[c] = "ended"
             \/ get[c] = "serving" /\ gone[c] /\ get'[c] = "ended"
      BY <1>7, <1>a DEF FindStream, ReplayUntracked, ServeGone, streamVars, storeVars, prodVars
    <2> QED BY <1>a, <2>1 DEF ConnInv
  <1>8. ASSUME NEW c \in Conns,
               (\E fails \in BOOLEAN : ServeEvent(c, fails)) \/ ServeCtxDone(c)
        PROVE  ConnInv'
    <2>1. /\ get[c] = "serving" /\ UNCHANGED <<conn, tracked, listening, postW, push, recorded, lastID>>
          /\ \A d \in Conns : d # c => /\ out'[d] = out[d] /\ get'[d] = get[d]
                                       /\ sink'[d] = sink[d] /\ gone'[d] = gone[d]
          /\ \/ get'[c] = "serving" /\ gone'[c] = gone[c]
             \/ get'[c] = "closing"
      BY <1>8, <1>a DEF ServeEvent, ServeCtxDone, streamVars, storeVars, prodVars
    <2> QED BY <1>a, <2>1 DEF ConnInv
  <1>9. ASSUME NEW c \in Conns, detachIf(c) PROVE ConnInv'
    BY <1>9, <1>a DEF ConnInv, detachIf, storeVars, prodVars
  <1>10. ASSUME NEW c \in Conns, deliverTransient(c) PROVE ConnInv'
    <2>1. /\ get[c] \in {"serving", "closing"}
          /\ UNCHANGED <<conn, tracked, listening, postW, push, recorded, lastID, out, get, gone>>
          /\ \A d \in Conns : d # c => sink'[d] = sink[d]
      BY <1>10, <1>a DEF deliverTransient, streamVars, storeVars, prodVars
    <2> QED BY <1>a, <2>1 DEF ConnInv
  <1>11. ASSUME CleanupStreams PROVE ConnInv'
    <2>1. /\ UNCHANGED <<listening, push, recorded, lastID, out, sink, get>>
          /\ \/ conn' = None /\ ~postW' /\ gone' = Superseded
             \/ UNCHANGED <<conn, postW, gone, tracked>>
      BY <1>11 DEF CleanupStreams, storeVars, prodVars
    <2> QED BY <1>a, <2>1 DEF ConnInv, Superseded
  <1>12. ASSUME UNCHANGED <<conn, tracked, listening, postW, push, recorded, lastID, out, sink, get, gone>>
         PROVE  ConnInv'
    BY <1>12 DEF ConnInv
  <1>13. ASSUME PumpExits \/ PostReturns \/ ClientReads \/ (\E c \in Conns : Reconnect(c))
                \/ CleanupPump \/ CleanupPurge \/ UNCHANGED vars
         PROVE  ConnInv'
    BY <1>12, <1>13 DEF PumpExits, PostReturns, ClientReads, Reconnect, CleanupPump, CleanupPurge,
             vars, streamVars, storeVars, connVars, prodVars
  <1> QED BY <1>1, <1>2, <1>3, <1>4, <1>5, <1>6, <1>7, <1>8, <1>9, <1>10, <1>11, <1>13, <1>14
          DEF Next, Produce, Handle, CutReplay

-----------------------------------------------------------------------------
(* Sets of IDs without a gap.                                              *)

LEMMA NoGapPrefix ==
  ASSUME NEW D \in SUBSET Int, NEW A, NEW B, NoGap(A \union B, D), Below(A, B)
  PROVE  NoGap(A, D)
  <1>1. ASSUME NEW f \in A, NEW e \in D, e < f, e \in B PROVE FALSE
    <2>1. f < e /\ f \in Int
      BY <1>1 DEF Below, NoGap
    <2> QED BY <1>1, <2>1
  <1> QED BY <1>1 DEF NoGap

LEMMA NoGapGrows ==
  ASSUME NEW D \in SUBSET Int, NEW A, NEW N \in SUBSET Int, NoGap(A, D), Below(D, N)
  PROVE  /\ NoGap(A, D \union N)
         /\ D \subseteq A => NoGap(A \union N, D \union N)
         /\ Below(A, N)
  <1>1. A \subseteq D /\ \A f \in A, e \in D : e < f => e \in A
    BY DEF NoGap
  <1>2. \A e \in D, n \in N : e < n
    BY DEF Below
  <1>3. \A e \in D, n \in N : ~(n < e)
    BY <1>2
  <1> QED BY <1>1, <1>2, <1>3 DEF NoGap, Below

LEMMA DueTyped == TypeOK => \A c \in Conns : Due(c) \subseteq Int /\ Due(c) \subseteq ToSet(recorded)
  BY RecordedRange DEF Due

-----------------------------------------------------------------------------
(* What a connection carries.                                              *)

\* What a delivery makes due, of what c is owed and of what it is handed.
LEMMA DeliverDue ==
  ASSUME TypeOK, StoreInv, PushInv, ConnInv,
         NEW stored \in BOOLEAN, NEW last \in BOOLEAN, NEW ctxErr \in BOOLEAN,
         deliver(stored, last, ctxErr), NEW c \in Conns
  PROVE  \E N \in SUBSET Int :
           /\ N = Ids(<<push'.msg>>) /\ Below(Due(c), N)
           /\ Due(c)' = Due(c) \union {e \in N : e > lastID[c]}
           /\ get[c] # "ended" => Due(c)' = Due(c) \union N
           /\ InHand(c) = {} /\ InHand(c)' = (IF push'.to = c THEN N ELSE {})
           /\ conn = c => push'.to = c
  <1> DEFINE N == Ids(<<push'.msg>>)
  <1>1. /\ push'.msg \in Messages /\ ToSet(recorded') = ToSet(recorded) \union N
        /\ Below(ToSet(recorded), N) /\ TypeOK
    BY DeliverRecords
  <1>2. N \subseteq Int /\ 0 \notin N /\ \A n \in N : n > 0
    BY <1>1, IdsOne, ResumableAssumption DEF Messages, ResumableAssumption
  <1>3. /\ lastID' = lastID /\ push.pc = "idle"
        /\ push'.to = (IF conn # None THEN conn ELSE IF postW' THEN Post ELSE None)
    BY DEF deliver, connVars
  <1>4. InHand(c) = {} /\ InHand(c)' = (IF push'.to = c THEN N ELSE {})
    <2>1. push.msg.id = 0 /\ Ids(<<push.msg>>) = {}
      BY <1>3, IdsOne DEF PushInv, Idle
    <2> QED BY <2>1 DEF InHand, Ids
  <1>5. Below(Due(c), N)
    BY <1>1 DEF Due, Below
  <1> HIDE DEF N
  <1>6. Due(c)' = Due(c) \union {e \in N : e > lastID[c]}
    BY <1>1, <1>3 DEF Due
  <1>7. get[c] # "ended" => \A e \in N : e > lastID[c]
    BY <1>1, <1>2 DEF ConnInv, Below
  <1>8. conn = c => push'.to = c
    BY <1>3, ResumableAssumption DEF ResumableAssumption, Conns
  <1> QED BY <1>2, <1>3, <1>4, <1>5, <1>6, <1>7, <1>8 DEF N

\* A connection that is left alone keeps what it has.
LEMMA ChainFrame ==
  ASSUME ChainInv, NEW c \in Conns,
         out'[c] = out[c], sink'[c] = sink[c], lastID'[c] = lastID[c], recorded' = recorded,
         InHand(c)' = InHand(c),
         get'[c] = "serving" => get[c] = "serving",
         conn' = c => conn = c
  PROVE  /\ InOrder(out[c])' /\ NoGap(Ids(out[c]), Due(c))'
         /\ get'[c] = "serving" => Chained(c)'
  <1>1. /\ Ids(out[c])' = Ids(out[c]) /\ Ids(sink[c])' = Ids(sink[c]) /\ Due(c)' = Due(c)
        /\ InOrder(out[c])' = InOrder(out[c]) /\ InOrder(sink[c])' = InOrder(sink[c])
    BY DEF Ids, Due, InOrder
  <1>2. Chain(c)' = Chain(c)
    BY <1>1 DEF Chain
  <1>3. /\ NoGap(Ids(out[c]), Due(c))' = NoGap(Ids(out[c]), Due(c))
        /\ NoGap(Chain(c), Due(c))' = NoGap(Chain(c), Due(c))
        /\ Below(Ids(out[c]), Ids(sink[c]) \union InHand(c))'
             = Below(Ids(out[c]), Ids(sink[c]) \union InHand(c))
        /\ Below(Ids(sink[c]), InHand(c))' = Below(Ids(sink[c]), InHand(c))
    BY <1>1, <1>2 DEF NoGap, Below
  <1>4. ASSUME get'[c] = "serving" PROVE Chained(c)'
    BY <1>1, <1>2, <1>3, <1>4 DEF ChainInv, Chained
  <1> QED BY <1>1, <1>3, <1>4 DEF ChainInv

LEMMA ChainDeliver ==
  ASSUME TypeOK, StoreInv, PushInv, ConnInv, ChainInv,
         NEW stored \in BOOLEAN, NEW last \in BOOLEAN, NEW ctxErr \in BOOLEAN,
         deliver(stored, last, ctxErr)
  PROVE  ChainInv'
  <1> SUFFICES ASSUME NEW c \in Conns
               PROVE  /\ InOrder(out[c])' /\ NoGap(Ids(out[c]), Due(c))'
                      /\ get'[c] = "serving" => Chained(c)'
    BY DEF ChainInv
  <1>1. PICK N \in SUBSET Int :
           /\ N = Ids(<<push'.msg>>) /\ Below(Due(c), N)
           /\ Due(c)' = Due(c) \union {e \in N : e > lastID[c]}
           /\ get[c] # "ended" => Due(c)' = Due(c) \union N
           /\ InHand(c) = {} /\ InHand(c)' = (IF push'.to = c THEN N ELSE {})
           /\ conn = c => push'.to = c
    BY DeliverDue
  <1>2. UNCHANGED <<conn, get, lastID, sink, gone, out>>
    BY DEF deliver, connVars
  <1>3. /\ Ids(out[c])' = Ids(out[c]) /\ Ids(sink[c])' = Ids(sink[c])
        /\ InOrder(out[c])' /\ (get[c] = "serving" => InOrder(sink[c])')
    BY <1>2 DEF Ids, InOrder, ChainInv, Chained
  <1>4. Due(c) \in SUBSET Int
    BY DueTyped
  <1>5. NoGap(Ids(out[c]), Due(c)')
    <2> DEFINE M == {e \in N : e > lastID[c]}
    <2>1. M \in SUBSET Int /\ Below(Due(c), M)
      BY <1>1 DEF Below
    <2>2. NoGap(Ids(out[c]), Due(c))
      BY DEF ChainInv
    <2>3. Due(c)' = Due(c) \union M
      BY <1>1
    <2> HIDE DEF M
    <2>4. NoGap(Ids(out[c]), Due(c) \union M)
      BY <1>4, <2>1, <2>2, NoGapGrows
    <2> QED BY <2>3, <2>4
  <1>6. ASSUME get[c] = "serving" PROVE Chained(c)'
    <2>1. NoGap(Chain(c), Due(c)) /\ Due(c)' = Due(c) \union N
      BY <1>1, <1>6 DEF ChainInv, Chained
    <2>2. /\ NoGap(Chain(c), Due(c)')
          /\ Due(c) \subseteq Chain(c) => NoGap(Chain(c) \union N, Due(c)')
          /\ Below(Chain(c), N)
      BY <1>1, <1>4, <2>1, NoGapGrows
    <2>3. Chain(c) = Ids(out[c]) \union Ids(sink[c]) /\ Chain(c)' = Chain(c) \union InHand(c)'
      BY <1>1, <1>3 DEF Chain
    <2>4. conn = c => Due(c) \subseteq Chain(c)
      BY <1>6 DEF ChainInv, Chained
    <2>5. push'.to = c => conn = c
      BY ResumableAssumption DEF ResumableAssumption, Conns, deliver
    <2>6. NoGap(Chain(c)', Due(c)')
      BY <1>1, <2>2, <2>3, <2>4, <2>5
    <2>7. Below(Ids(out[c]), Ids(sink[c]) \union InHand(c)')
      BY <1>1, <1>6, <2>2, <2>3 DEF ChainInv, Chained, Below
    <2>8. Below(Ids(sink[c]), InHand(c)')
      BY <1>1, <2>2, <2>3 DEF Below
    <2>9. conn' = c => Due(c)' \subseteq Chain(c)'
      BY <1>1, <1>2, <2>1, <2>3, <2>4
    <2> QED BY <1>3, <1>6, <2>6, <2>7, <2>8, <2>9 DEF Chained
  <1> QED BY <1>2, <1>3, <1>5, <1>6

\* The message in the producer's hand goes behind those in the sink.
LEMMA ChainPush ==
  ASSUME TypeOK, PushInv, ConnInv, ChainInv, NEW c \in Conns, PushToSink(c), NEW d \in Conns
  PROVE  /\ InOrder(out[d])' /\ NoGap(Ids(out[d]), Due(d))'
         /\ get'[d] = "serving" => Chained(d)'
         /\ d = c => Chain(d)' = Chain(d)
  <1>1. /\ push.to = c /\ sink' = [sink EXCEPT ![c] = Append(@, push.msg)]
        /\ push' = Idle /\ UNCHANGED <<conn, get, lastID, gone, out, recorded>>
    BY DEF PushToSink, afterPush, streamVars, storeVars
  <1>2. sink \in [Conns -> Seq(Messages)] /\ push.msg \in Messages
    BY DEF TypeOK
  <1>3. InHand(d)' = {}
    BY <1>1, IdsOne DEF InHand, Idle, Ids
  <1>4. CASE d # c
    <2>1. InHand(d) = {} /\ sink'[d] = sink[d]
      BY <1>1, <1>2, <1>4 DEF InHand
    <2> QED BY <1>1, <1>3, <1>4, <2>1, ChainFrame
  <1>5. CASE d = c
    <2>1. sink'[d] = Append(sink[d], push.msg) /\ InHand(d) = Ids(<<push.msg>>)
      BY <1>1, <1>2, <1>5 DEF InHand
    <2>2. /\ Ids(sink[d])' = Ids(sink[d]) \union InHand(d)
          /\ InOrder(sink[d]) /\ Below(Ids(sink[d]), InHand(d)) => InOrder(sink[d])'
      BY <1>2, <2>1, AppendMessage
    <2>3. /\ Ids(out[d])' = Ids(out[d]) /\ Due(d)' = Due(d) /\ InOrder(out[d])' = InOrder(out[d])
      BY <1>1 DEF Ids, Due, InOrder
    <2>4. Chain(d)' = Chain(d)
      BY <1>3, <2>2, <2>3 DEF Chain
    <2>5. ASSUME get[d] = "serving" PROVE Chained(d)'
      <3>1. Chained(d)
        BY <2>5 DEF ChainInv
      <3>2. InOrder(sink[d])' /\ (conn' = d => Due(d)' \subseteq Chain(d)')
        BY <3>1, <1>1, <2>2, <2>3, <2>4 DEF Chained
      <3>3. Below(Ids(out[d]), Ids(sink[d]) \union InHand(d))'
        BY <3>1, <1>3, <2>2, <2>3 DEF Chained, Below
      <3>4. Below(Ids(sink[d]), InHand(d))' /\ NoGap(Chain(d), Due(d))'
        BY <3>1, <1>3, <2>3, <2>4 DEF Chained, Below, NoGap
      <3> QED BY <3>2, <3>3, <3>4 DEF Chained
    <2> QED BY <1>1, <2>3, <2>4, <2>5 DEF ChainInv, NoGap
  <1> QED BY <1>4, <1>5

\* A message that is dropped leaves a connection that is no longer attached.
LEMMA ChainDrop ==
  ASSUME TypeOK, PushInv, ConnInv, ChainInv, PushDropped \/ PushToPost \/ clearPostWriterIf,
         NEW d \in Conns
  PROVE  /\ InOrder(out[d])' /\ NoGap(Ids(out[d]), Due(d))'
         /\ get'[d] = "serving" => Chained(d)'
  <1>0. Post \notin Conns /\ None \notin Conns /\ Conns \subseteq Writers /\ out \in [Writers -> Seq(Messages)]
    BY ResumableAssumption DEF ResumableAssumption, Conns, Writers, TypeOK
  <1>1. /\ push' = Idle /\ UNCHANGED <<conn, get, lastID, gone, sink, recorded>>
        /\ out'[d] = out[d] /\ (push.to = d => gone[d])
    BY <1>0 DEF PushDropped, PushToPost, clearPostWriterIf, afterPush, streamVars, storeVars,
                connVars, PushInv, TypeOK
  <1>2. InHand(d)' = {}
    BY <1>1, IdsOne DEF InHand, Idle, Ids
  <1>3. /\ Ids(out[d])' = Ids(out[d]) /\ Ids(sink[d])' = Ids(sink[d]) /\ Due(d)' = Due(d)
        /\ InOrder(out[d])' = InOrder(out[d]) /\ InOrder(sink[d])' = InOrder(sink[d])
    BY <1>1 DEF Ids, Due, InOrder
  <1>4. CASE push.to # d
    BY <1>1, <1>2, <1>4, ChainFrame DEF InHand
  <1>5. CASE push.to = d
    <2>1. ASSUME get[d] = "serving" PROVE Chained(d)'
      <3>1. Chained(d) /\ conn # d
        BY <2>1, <1>1, <1>5 DEF ChainInv, ConnInv
      <3> DEFINE A == Ids(out[d]) \union Ids(sink[d])
      <3>2. Chain(d) = A \union InHand(d) /\ Chain(d)' = A
        BY <1>2, <1>3 DEF Chain
      <3>3. Below(A, InHand(d))
        BY <3>1 DEF Chained, Below
      <3>4. NoGap(A, Due(d))
        BY <3>1, <3>2, <3>3, NoGapPrefix, DueTyped DEF Chained
      <3>5. Below(Ids(out[d]), Ids(sink[d]) \union InHand(d))' /\ Below(Ids(sink[d]), InHand(d))'
        BY <3>1, <1>2, <1>3 DEF Chained, Below
      <3> HIDE DEF A
      <3>6. NoGap(Chain(d), Due(d))'
        BY <3>2, <3>4, <1>3 DEF NoGap
      <3> QED BY <3>1, <3>5, <3>6, <1>1, <1>3 DEF Chained
    <2> QED BY <1>1, <1>3, <2>1 DEF ChainInv, NoGap
  <1> QED BY <1>4, <1>5

\* A GET that has not attached has nothing.
LEMMA Unattached ==
  ASSUME ConnInv, NEW c \in Conns, get[c] \in {"unused", "probed", "found", "lost"}
  PROVE  /\ out[c] = <<>> /\ sink[c] = <<>> /\ Ids(out[c]) = {} /\ Ids(sink[c]) = {}
         /\ InHand(c) = {} /\ Chain(c) = {}
  BY EmptyMessages DEF ConnInv, InHand, Chain

\* A listening GET continues from what was recorded last.
LEMMA ChainListen ==
  ASSUME TypeOK, StoreInv, ConnInv, ChainInv, NEW c \in Conns, serveListeningStream(c)
  PROVE  /\ InOrder(out[c])' /\ NoGap(Ids(out[c]), Due(c))' /\ Chained(c)'
  <1>1. /\ get[c] = "unused" /\ UNCHANGED <<out, sink, push, recorded>>
        /\ lastID' = [lastID EXCEPT ![c] = IF recorded = <<>> THEN 0 ELSE Last(recorded)]
    BY DEF serveListeningStream, storeVars
  <1>2. out'[c] = <<>> /\ sink'[c] = <<>> /\ InHand(c)' = {}
    BY <1>1, Unattached DEF InHand, Ids
  <1>3. Chain(c)' = {} /\ Ids(out'[c]) = {} /\ Ids(sink'[c]) = {} /\ InOrder(out'[c])
        /\ InOrder(sink'[c])
    BY <1>2, EmptyMessages DEF Chain
  <1>4. Due(c)' = {}
    <2>1. lastID'[c] = (IF recorded = <<>> THEN 0 ELSE Last(recorded))
      BY <1>1 DEF TypeOK
    <2>2. CASE recorded = <<>>
      BY <1>1, <2>2 DEF Due, ToSet
    <2>3. CASE recorded # <<>>
      <3>1. \A e \in ToSet(recorded) : e \in Int /\ e <= Last(recorded)
        BY <2>3, LastRecorded, RecordedRange
      <3>2. Last(recorded) \in Int
        BY <2>3, LastRecorded, RecordedRange
      <3> QED BY <1>1, <2>1, <2>3, <3>1, <3>2 DEF Due
    <2> QED BY <2>2, <2>3
  <1> QED BY <1>2, <1>3, <1>4 DEF Chained, Below, NoGap, InOrder

\* What a replay writes is all that is due.
LEMMA ChainReplay ==
  ASSUME TypeOK, StoreInv, ConnInv, ChainInv, NEW c \in Conns, replayAndAttach(c)
  PROVE  /\ InOrder(out[c])' /\ NoGap(Ids(out[c]), Due(c))'
         /\ get'[c] = "serving" => Chained(c)'
         /\ Contains(log, lastID[c]) => Ids(out'[c]) = Due(c)
         /\ \A i \in DOMAIN out'[c] : ~out'[c][i].last
  <1>1. /\ get[c] = "found" /\ UNCHANGED <<lastID, sink, push, recorded>>
        /\ \/ Contains(log, lastID[c]) /\ out'[c] = Replay(lastID[c])
           \/ ~Contains(log, lastID[c]) /\ get'[c] = "ended" /\ out' = out
    BY DEF replayAndAttach, storeVars, prodVars, TypeOK, Writers
  <1>2. InHand(c)' = {} /\ Due(c)' = Due(c) /\ Ids(sink[c])' = {} /\ InOrder(sink'[c])
        /\ out[c] = <<>>
    BY <1>1, Unattached, EmptyMessages DEF InHand, Due, Ids
  <1>3. CASE Contains(log, lastID[c]) /\ out'[c] = Replay(lastID[c])
    <2>1. Ids(out'[c]) = Due(c) /\ InOrder(out'[c]) /\ \A i \in DOMAIN out'[c] : ~out'[c][i].last
      BY <1>3, ReplayIsDue DEF Due
    <2>2. Chain(c)' = Due(c)
      BY <1>2, <2>1 DEF Chain
    <2>3. NoGap(Ids(out'[c]), Due(c)')
      BY <1>2, <2>1 DEF NoGap
    <2>4. Chained(c)'
      BY <1>2, <2>2 DEF Chained, Below, NoGap
    <2> QED BY <1>3, <2>1, <2>3, <2>4
  <1>4. CASE ~Contains(log, lastID[c]) /\ get'[c] = "ended" /\ out' = out
    <2>1. out'[c] = <<>> /\ Ids(out'[c]) = {} /\ InOrder(out'[c])
      BY <1>2, <1>4, EmptyMessages
    <2> QED BY <1>4, <2>1 DEF NoGap
  <1> QED BY <1>1, <1>3, <1>4

\* A replay that is cut short, or of a stream no longer tracked, writes the
\* beginning of what is due.
LEMMA ChainCut ==
  ASSUME TypeOK, StoreInv, ConnInv, ChainInv, NEW c \in Conns,
         CutReplay(c) \/ ReplayUntracked(c)
  PROVE  /\ InOrder(out[c])' /\ NoGap(Ids(out[c]), Due(c))'
         /\ get'[c] # "serving"
         /\ \A i \in DOMAIN out'[c] : ~out'[c][i].last
  <1>1. /\ UNCHANGED <<lastID, recorded>> /\ get'[c] # "serving"
        /\ \/ /\ Contains(log, lastID[c])
              /\ \E k \in 0..Len(Replay(lastID[c])) :
                   out'[c] = SubSeq(Replay(lastID[c]), 1, k)
           \/ out'[c] = <<>>
    <2>1. c \in Writers /\ out \in [Writers -> Seq(Messages)] /\ get \in [Conns -> Pcs]
      BY DEF TypeOK, Writers, Pcs
    <2>2. CASE ReplayUntracked(c)
      BY <2>1, <2>2 DEF ReplayUntracked, storeVars
    <2>3. CASE CutReplay(c)
      <3>1. PICK k \in 0..MaxEvents, unseen \in BOOLEAN : replayCut(c, k, unseen)
        BY <2>3 DEF CutReplay
      <3>2. Contains(log, lastID[c]) /\ k < Len(Replay(lastID[c]))
            /\ out'[c] = SubSeq(Replay(lastID[c]), 1, k)
        BY <2>1, <3>1 DEF replayCut
      <3>3. k \in 0..Len(Replay(lastID[c]))
        <4>1. Len(Replay(lastID[c])) \in Nat
          BY <3>2, ReplayTyped, LenProperties
        <4> QED BY <3>2, <4>1
      <3>4. UNCHANGED <<lastID, recorded>> /\ get'[c] # "serving"
        BY <2>1, <3>1 DEF replayCut, storeVars
      <3> QED BY <3>2, <3>3, <3>4
    <2> QED BY <2>2, <2>3
  <1>2. Due(c)' = Due(c)
    BY <1>1 DEF Due
  <1>3. CASE /\ Contains(log, lastID[c])
             /\ \E k \in 0..Len(Replay(lastID[c])) :
                  out'[c] = SubSeq(Replay(lastID[c]), 1, k)
    <2>1. PICK k \in 0..Len(Replay(lastID[c])) : out'[c] = SubSeq(Replay(lastID[c]), 1, k)
      BY <1>3
    <2>2. InOrder(out'[c]) /\ NoGap(Ids(out'[c]), Due(c))
      BY <1>3, <2>1, ReplayBeginsDue DEF Due
    <2>3. /\ DOMAIN out'[c] = 1..k
          /\ \A i \in 1..k : ~SubSeq(Replay(lastID[c]), 1, k)[i].last
      BY <1>3, <2>1, ReplayBegins, ReplayBeginsDue
    <2> QED BY <1>1, <1>2, <2>1, <2>2, <2>3
  <1>4. CASE out'[c] = <<>>
    <2>1. Ids(out'[c]) = {} /\ InOrder(out'[c])
      BY <1>4, EmptyMessages
    <2> QED BY <1>1, <1>4, <2>1 DEF NoGap
  <1> QED BY <1>1, <1>3, <1>4

\* An event moves from the sink to what is written.
LEMMA ChainServe ==
  ASSUME TypeOK, ChainInv, NEW c \in Conns, NEW fails \in BOOLEAN, ServeEvent(c, fails)
  PROVE  /\ InOrder(out[c])' /\ NoGap(Ids(out[c]), Due(c))'
         /\ get'[c] = "serving" => Chained(c)'
         /\ ~fails => /\ Ids(out'[c]) = Ids(out[c]) \union Ids(<<Head(sink[c])>>)
                      /\ Chain(c)' = Chain(c)
  <1> DEFINE h == Head(sink[c])
             H == Ids(<<h>>)
             T == Ids(Tail(sink[c]))
  <1>1. /\ get[c] = "serving" /\ sink[c] # <<>> /\ sink[c] \in Seq(Messages)
        /\ out[c] \in Seq(Messages) /\ Chained(c) /\ InOrder(out[c])
        /\ sink'[c] = Tail(sink[c]) /\ UNCHANGED <<conn, push, recorded, lastID>>
        /\ out'[c] = (IF fails THEN out[c] ELSE Append(out[c], h))
        /\ fails => get'[c] = "closing"
    BY DEF ServeEvent, TypeOK, ChainInv, Writers, streamVars, storeVars, prodVars
  <1>2. h \in Messages /\ Ids(sink[c]) = H \union T /\ InOrder(Tail(sink[c])) /\ Below(H, T)
    BY <1>1, TakeMessage DEF Chained
  <1>3. /\ Ids(Append(out[c], h)) = Ids(out[c]) \union H
        /\ Below(Ids(out[c]), H) => InOrder(Append(out[c], h))
    BY <1>1, <1>2, AppendMessage
  <1> HIDE DEF H, T, h
  <1>4. Below(Ids(out[c]), H)
    BY <1>1, <1>2 DEF Chained, Below
  <1>5. Due(c)' = Due(c) /\ InHand(c)' = InHand(c)
    BY <1>1 DEF Due, InHand, Ids
  <1>6. CASE fails
    BY <1>1, <1>5, <1>6 DEF ChainInv, NoGap
  <1>7. CASE ~fails
    <2>1. Ids(out'[c]) = Ids(out[c]) \union H /\ Ids(sink'[c]) = T /\ InOrder(out'[c])
      BY <1>1, <1>3, <1>4, <1>7 DEF T
    <2>2. Chain(c)' = Chain(c) /\ Chain(c) = (Ids(out[c]) \union H) \union (T \union InHand(c))
      BY <1>2, <1>5, <2>1 DEF Chain
    <2>3. Below(Ids(out[c]) \union H, T \union InHand(c))
      BY <1>1, <1>2 DEF Chained, Below
    <2>4. NoGap((Ids(out[c]) \union H) \union (T \union InHand(c)), Due(c))
      BY <1>1, <2>2 DEF Chained
    <2>5. NoGap(Ids(out[c]) \union H, Due(c))
      BY <2>3, <2>4, NoGapPrefix, DueTyped
    <2>6. Chained(c)'
      <3>1. InOrder(sink'[c]) /\ (conn' = c => Due(c)' \subseteq Chain(c)')
        BY <1>1, <1>2, <1>5, <2>2 DEF Chained
      <3>2. Below(Ids(out'[c]), Ids(sink'[c]) \union InHand(c)') /\ NoGap(Chain(c)', Due(c)')
        BY <1>5, <2>1, <2>2, <2>3, <2>4
      <3>3. Below(Ids(sink'[c]), InHand(c)')
        BY <1>1, <1>2, <1>5, <2>1 DEF Chained, Below
      <3> QED BY <3>1, <3>2, <3>3 DEF Chained
    <2> QED BY <1>5, <2>1, <2>2, <2>5, <2>6 DEF H, h
  <1> QED BY <1>6, <1>7

\* A ping has no ID.
LEMMA ChainPing ==
  ASSUME TypeOK, ChainInv, NEW c \in Conns, deliverTransient(c)
  PROVE  /\ InOrder(out[c])' /\ NoGap(Ids(out[c]), Due(c))'
         /\ get'[c] = "serving" => Chained(c)'
         /\ Chain(c)' = Chain(c)
  <1> DEFINE m == [id |-> 0, last |-> FALSE]
  <1>1. /\ UNCHANGED <<conn, push, recorded, lastID, get, out>>
        /\ sink'[c] = Append(sink[c], m) /\ sink[c] \in Seq(Messages)
    BY DEF deliverTransient, TypeOK, streamVars, storeVars, prodVars
  <1>2. m \in Messages /\ m.id = 0
    BY ResumableAssumption DEF Messages, ResumableAssumption
  <1> HIDE DEF m
  <1>3. Ids(<<m>>) = {}
    BY <1>2, IdsOne
  <1>4. Ids(sink'[c]) = Ids(sink[c]) /\ (InOrder(sink[c]) => InOrder(sink'[c]))
    BY <1>1, <1>2, <1>3, AppendMessage DEF Below
  <1>5. Due(c)' = Due(c) /\ InHand(c)' = InHand(c) /\ Chain(c)' = Chain(c)
    BY <1>1, <1>4 DEF Due, InHand, Chain, Ids
  <1> QED BY <1>1, <1>4, <1>5 DEF ChainInv, Chained, NoGap, Below

\* A handler works on its own connection; it attaches no other.
LEMMA HandleFrame ==
  ASSUME TypeOK, NEW c \in Conns, Handle(c) \/ deliverTransient(c)
  PROVE  /\ UNCHANGED <<push, recorded, cur, hungUp, got, read, closed, cleanup, produced, log>>
         /\ out'[Post] = out[Post]
         /\ \A d \in Conns : d # c =>
              /\ out'[d] = out[d] /\ sink'[d] = sink[d] /\ lastID'[d] = lastID[d]
              /\ get'[d] = get[d] /\ (conn' = d => conn = d)
  <1>1. /\ get \in [Conns -> Pcs] /\ lastID \in [Conns -> 0..MaxEvents]
        /\ sink \in [Conns -> Seq(Messages)] /\ out \in [Writers -> Seq(Messages)]
        /\ Post \in Writers /\ Conns \subseteq Writers /\ Post \notin Conns /\ None \notin Conns
    BY ResumableAssumption DEF TypeOK, Pcs, Writers, Conns, ResumableAssumption
  <1>2. UNCHANGED <<push, recorded, cur, hungUp, got, read, closed, cleanup, produced, log>>
    BY DEF Handle, serveListeningStream, handleResumeGet, FindStream, replayAndAttach, replayCut,
           ReplayUntracked, ServeEvent, ServeGone, ServeCtxDone, detachIf, deliverTransient,
           storeVars, prodVars, clientVars, streamVars
  <1>3. ASSUME serveListeningStream(c) \/ handleResumeGet(c) \/ FindStream(c) \/ ServeGone(c)
               \/ ServeCtxDone(c) \/ detachIf(c) \/ deliverTransient(c)
        PROVE  /\ UNCHANGED out
               /\ \A d \in Conns : d # c =>
                    /\ sink'[d] = sink[d] /\ lastID'[d] = lastID[d]
                    /\ get'[d] = get[d] /\ (conn' = d => conn = d)
    BY <1>3, <1>1
       DEF serveListeningStream, handleResumeGet, FindStream, ServeGone, ServeCtxDone, detachIf,
           deliverTransient, streamVars
  <1>4. ASSUME replayAndAttach(c) \/ CutReplay(c) \/ ReplayUntracked(c)
               \/ \E fails \in BOOLEAN : ServeEvent(c, fails)
        PROVE  /\ out'[Post] = out[Post]
               /\ \A d \in Conns : d # c =>
                    /\ out'[d] = out[d] /\ sink'[d] = sink[d] /\ lastID'[d] = lastID[d]
                    /\ get'[d] = get[d] /\ (conn' = d => conn = d)
    BY <1>4, <1>1 DEF replayAndAttach, CutReplay, replayCut, ReplayUntracked, ServeEvent,
                      streamVars
  <1> QED BY <1>2, <1>3, <1>4 DEF Handle, CutReplay

LEMMA ChainStep ==
  TypeOK /\ StoreInv /\ PushInv /\ ConnInv /\ ChainInv /\ [Next]_vars => ChainInv'
  <1> SUFFICES ASSUME TypeOK, StoreInv, PushInv, ConnInv, ChainInv, [Next]_vars PROVE ChainInv'
    OBVIOUS
  <1> DEFINE Good(d) == /\ InOrder(out[d])' /\ NoGap(Ids(out[d]), Due(d))'
                        /\ get'[d] = "serving" => Chained(d)'
  <1>0. (\A d \in Conns : Good(d)) => ChainInv'
    BY DEF ChainInv
  <1>1. CASE \E stored, last, ctxErr \in BOOLEAN : deliver(stored, last, ctxErr)
    BY <1>1, ChainDeliver
  <1>2. CASE \E c \in Conns : PushToSink(c)
    BY <1>2, <1>0, ChainPush
  <1>3. CASE PushDropped \/ PushToPost \/ clearPostWriterIf
    BY <1>3, <1>0, ChainDrop
  <1>4. ASSUME NEW c \in Conns, Handle(c) \/ deliverTransient(c) PROVE ChainInv'
    <2>1. ASSUME NEW d \in Conns, d # c PROVE Good(d)
      <3>1. InHand(d)' = InHand(d)
        BY <1>4, HandleFrame DEF InHand, Ids
      <3> QED BY <1>4, <2>1, <3>1, HandleFrame, ChainFrame
    <2>2. CASE serveListeningStream(c)
      BY <1>0, <2>1, <2>2, ChainListen
    <2>3. CASE replayAndAttach(c)
      BY <1>0, <2>1, <2>3, ChainReplay
    <2>8. CASE CutReplay(c) \/ ReplayUntracked(c)
      BY <1>0, <2>1, <2>8, ChainCut
    <2>4. CASE \E fails \in BOOLEAN : ServeEvent(c, fails)
      BY <1>0, <2>1, <2>4, ChainServe
    <2>5. CASE deliverTransient(c)
      BY <1>0, <2>1, <2>5, ChainPing
    <2>6. CASE handleResumeGet(c)
      <3>1. get[c] = "unused" /\ get'[c] # "serving" /\ out' = out
        BY <2>6 DEF handleResumeGet, TypeOK
      <3>2. Ids(out'[c]) = {} /\ InOrder(out'[c])
        BY <3>1, Unattached, EmptyMessages
      <3>3. Good(c)
        BY <3>1, <3>2 DEF NoGap
      <3> QED BY <1>0, <2>1, <3>3
    <2>7. CASE FindStream(c) \/ ServeGone(c) \/ ServeCtxDone(c) \/ detachIf(c)
      <3>1. /\ UNCHANGED <<out, sink, lastID, push, recorded>> /\ get'[c] # "serving"
            /\ conn' = c => conn = c
        BY <2>7, ResumableAssumption
           DEF FindStream, ServeGone, ServeCtxDone, detachIf, TypeOK, streamVars, storeVars,
               prodVars, ResumableAssumption, Conns
      <3>2. InHand(c)' = InHand(c)
        BY <3>1 DEF InHand, Ids
      <3>3. Good(c)
        BY <3>1, <3>2, ChainFrame
      <3> QED BY <1>0, <2>1, <3>3
    <2> QED BY <1>4, <2>2, <2>3, <2>4, <2>5, <2>6, <2>7, <2>8 DEF Handle, CutReplay
  <1>5. ASSUME UNCHANGED <<out, sink, lastID, recorded, get>>, conn' = conn \/ conn' = None,
               push' = push \/ PushToPostFails
        PROVE  ChainInv'
    <2>1. \A d \in Conns : InHand(d)' = InHand(d)
      <3>1. push'.to = push.to /\ push'.msg = push.msg
        BY <1>5 DEF PushToPostFails, TypeOK
      <3> QED BY <3>1 DEF InHand, Ids
    <2>2. \A d \in Conns : conn' = d => conn = d
      BY <1>5, ResumableAssumption DEF ResumableAssumption, Conns
    <2> QED BY <1>0, <1>5, <2>1, <2>2, ChainFrame
  <1>6. CASE PushToPostFails \/ PumpExits \/ PostReturns \/ (\E c \in Conns : Reconnect(c))
             \/ ClientReads \/ CleanupPump \/ CleanupStreams \/ CleanupPurge \/ UNCHANGED vars
    BY <1>6, <1>5 DEF PushToPostFails, PumpExits, PostReturns, Reconnect, ClientReads, CleanupPump,
         CleanupStreams, CleanupPurge, vars, streamVars, storeVars, prodVars, connVars
  <1> QED BY <1>1, <1>2, <1>3, <1>4, <1>6 DEF Next, Produce

-----------------------------------------------------------------------------
(* The response of the POST.                                               *)

LEMMA PostStep ==
  TypeOK /\ StoreInv /\ PushInv /\ TrackInv /\ ConnInv /\ PostInv /\ [Next]_vars => PostInv'
  <1> SUFFICES ASSUME TypeOK, StoreInv, PushInv, TrackInv, ConnInv, PostInv, [Next]_vars
               PROVE  PostInv'
    OBVIOUS
  <1> DEFINE A == Ids(out[Post])
             R == ToSet(recorded)
  <1>a. /\ A \union InHand(Post) \subseteq R /\ R \in SUBSET Int
        /\ NoGap(A \union InHand(Post), R) /\ Below(A, InHand(Post)) /\ InOrder(out[Post])
        /\ postW => R \subseteq A \union InHand(Post)
    BY RecordedRange DEF PostInv, NoGap
  <1>b. Post \notin Conns /\ None \notin Conns /\ Post # None /\ Post \in Writers
    BY ResumableAssumption DEF ResumableAssumption, Conns, Writers
  <1>c. out \in [Writers -> Seq(Messages)] /\ push.msg \in Messages
    BY DEF TypeOK
  <1>d. ASSUME out' = out PROVE A' = A /\ InOrder(out[Post])'
    BY <1>a, <1>d DEF Ids, InOrder
  <1>e. Idle.to = None /\ Idle.pc = "idle"
    BY DEF Idle
  <1>1. ASSUME NEW stored \in BOOLEAN, NEW last \in BOOLEAN, NEW ctxErr \in BOOLEAN,
               deliver(stored, last, ctxErr)
        PROVE  PostInv'
    <2> DEFINE N == Ids(<<push'.msg>>)
    <2>1. /\ R' = R \union N /\ Below(R, N) /\ push'.msg \in Messages
      BY <1>1, DeliverRecords
    <2>2. N \in SUBSET Int
      BY <2>1, IdsOne DEF Messages
    <2>3. /\ UNCHANGED <<out, conn>> /\ push.pc = "idle" /\ postW' = postWriter(ctxErr)
          /\ push'.to = (IF conn # None THEN conn ELSE IF postW' THEN Post ELSE None)
      BY <1>1 DEF deliver, connVars
    <2>4. InHand(Post) = {} /\ InHand(Post)' = (IF push'.to = Post THEN N ELSE {})
      BY <1>b, <2>3, <1>e DEF PushInv, InHand, Ids
    <2>5. postW' => R \subseteq A
      <3>1. CASE tracked = "none"
        BY <3>1 DEF TrackInv, ToSet
      <3>2. CASE tracked # "none"
        BY <3>2, <1>a, <2>3, <2>4 DEF postWriter
      <3> QED BY <3>1, <3>2
    <2>6. postW' <=> push'.to = Post
      BY <1>b, <2>3 DEF ConnInv, postWriter, TypeOK
    <2> HIDE DEF N, A, R
    <2>7. NoGap(A, R) /\ A' = A /\ InOrder(out[Post])'
      BY <1>a, <1>d, <2>3, <2>4
    <2>8. NoGap(A, R \union N) /\ (R \subseteq A => NoGap(A \union N, R \union N)) /\ Below(A, N)
      BY <1>a, <2>1, <2>2, <2>7, NoGapGrows
    <2>9. NoGap(A' \union InHand(Post)', R') /\ Below(A', InHand(Post)')
      BY <2>1, <2>4, <2>5, <2>6, <2>7, <2>8 DEF Below
    <2>10. postW' => R' \subseteq A' \union InHand(Post)'
      BY <2>1, <2>4, <2>5, <2>6, <2>7
    <2> QED BY <2>7, <2>9, <2>10 DEF PostInv, A, R
  <1>2. CASE PushToPost
    <2>1. /\ push.to = Post /\ push' = Idle /\ UNCHANGED <<postW, recorded>>
          /\ out'[Post] = Append(out[Post], push.msg)
      BY <1>2, <1>b, <1>c DEF PushToPost, afterPush, streamVars, storeVars
    <2>2. InHand(Post) = Ids(<<push.msg>>) /\ InHand(Post)' = {}
      BY <2>1, <1>b, <1>e DEF InHand, Ids
    <2>3. A' = A \union InHand(Post) /\ InOrder(out'[Post])
      BY <1>a, <1>b, <1>c, <2>1, <2>2, AppendMessage
    <2> QED BY <1>a, <2>1, <2>2, <2>3 DEF PostInv, Below
  <1>3. CASE clearPostWriterIf
    <2>1. push.to = Post /\ push' = Idle /\ UNCHANGED <<out, recorded>> /\ ~postW'
      BY <1>3 DEF clearPostWriterIf, afterPush, PushInv, storeVars, connVars
    <2>2. InHand(Post)' = {} /\ A' = A /\ InOrder(out[Post])'
      BY <1>b, <1>d, <1>e, <2>1 DEF InHand
    <2> HIDE DEF A, R
    <2>3. NoGap(A, R)
      BY <1>a, NoGapPrefix
    <2> QED BY <2>1, <2>2, <2>3 DEF PostInv, Below, A, R
  <1>4. ASSUME UNCHANGED recorded, A' = A, InOrder(out[Post])', postW' => postW,
               InHand(Post)' = InHand(Post)
        PROVE  PostInv'
    BY <1>4, <1>a DEF PostInv
  <1>5. CASE PushDropped \/ \E c \in Conns : PushToSink(c)
    <2>1. push.to # Post /\ push' = Idle /\ UNCHANGED <<out, recorded, postW>>
      BY <1>5, <1>b DEF PushDropped, PushToSink, afterPush, streamVars, storeVars, connVars
    <2>2. InHand(Post)' = InHand(Post)
      BY <1>b, <1>e, <2>1 DEF InHand
    <2> QED BY <1>4, <1>d, <2>1, <2>2
  <1>6. CASE PushToPostFails
    <2>1. push'.to = push.to /\ push'.msg = push.msg /\ UNCHANGED <<out, recorded, postW>>
      BY <1>6 DEF PushToPostFails, TypeOK, streamVars, storeVars, connVars
    <2>2. InHand(Post)' = InHand(Post)
      BY <2>1 DEF InHand, Ids
    <2> QED BY <1>4, <1>d, <2>1, <2>2
  <1>7. ASSUME NEW c \in Conns, Handle(c) \/ deliverTransient(c) PROVE PostInv'
    <2>1. UNCHANGED <<push, recorded>> /\ out'[Post] = out[Post]
      BY <1>7, HandleFrame
    <2>2. postW' => postW
      BY <1>7 DEF Handle, serveListeningStream, handleResumeGet, FindStream, replayAndAttach,
                  replayCut,
           ReplayUntracked, ServeEvent, ServeGone, ServeCtxDone, detachIf, deliverTransient,
           streamVars
    <2>3. InHand(Post)' = InHand(Post) /\ A' = A /\ InOrder(out[Post])'
      BY <2>1, <1>a DEF InHand, Ids, InOrder
    <2> QED BY <1>4, <2>1, <2>2, <2>3
  <1>8. CASE PumpExits \/ PostReturns \/ (\E c \in Conns : Reconnect(c))
             \/ ClientReads \/ CleanupPump \/ CleanupStreams \/ CleanupPurge \/ UNCHANGED vars
    <2>1. UNCHANGED <<push, recorded, out>> /\ (postW' => postW)
      BY <1>8 DEF PumpExits, PostReturns, Reconnect, ClientReads, CleanupPump,
         CleanupStreams, CleanupPurge, vars, streamVars, storeVars, prodVars, connVars
    <2>2. InHand(Post)' = InHand(Post)
      BY <2>1 DEF InHand, Ids
    <2> QED BY <1>4, <1>d, <2>1, <2>2
  <1> QED BY <1>1, <1>2, <1>3, <1>5, <1>6, <1>7, <1>8 DEF Next, Produce

-----------------------------------------------------------------------------
(* The client.                                                             *)

LEMMA SeenTyped ==
  ASSUME TypeOK
  PROVE  /\ Seen \in 0..MaxEvents
         /\ got = <<>> => Seen = 0
         /\ got # <<>> => Seen \in 1..MaxEvents /\ Len(got) \in DOMAIN got
                          /\ Seen = got[Len(got)]
  <1>1. got \in Seq(1..MaxEvents) /\ MaxEvents \in Nat /\ Len(got) \in Nat
        /\ DOMAIN got = 1..Len(got)
    BY ResumableAssumption, LenProperties DEF TypeOK, ResumableAssumption
  <1>2. CASE got = <<>>
    BY <1>1, <1>2 DEF Seen
  <1>3. CASE got # <<>>
    <2>1. Len(got) \in 1..Len(got)
      BY <1>1, <1>3, EmptySeq
    <2>2. got[Len(got)] \in 1..MaxEvents
      BY <1>1, <2>1, ElementOfSeq
    <2> QED BY <1>1, <1>3, <2>1, <2>2 DEF Seen, Last
  <1> QED BY <1>2, <1>3

\* What was written to a connection stays as it is.
OutGrows ==
  \A w \in Writers : /\ Len(out[w]) <= Len(out'[w])
                     /\ \A i \in 1..Len(out[w]) : out'[w][i] = out[w][i]

LEMMA OutputGrows == TypeOK /\ ConnInv /\ [Next]_vars => OutGrows
  <1> SUFFICES ASSUME TypeOK, ConnInv, [Next]_vars PROVE OutGrows
    OBVIOUS
  <1>a. /\ out \in [Writers -> Seq(Messages)] /\ Conns \subseteq Writers /\ Post \in Writers
        /\ sink \in [Conns -> Seq(Messages)] /\ push.msg \in Messages
    BY DEF TypeOK, Writers
  <1>b. \A w \in Writers : Len(out[w]) \in Nat
    BY <1>a, LenProperties
  <1>1. CASE out' = out
    BY <1>1, <1>b DEF OutGrows
  <1>2. ASSUME NEW w \in Writers, NEW m \in Messages, out' = [out EXCEPT ![w] = Append(@, m)]
        PROVE  OutGrows
    <2>1. /\ Len(Append(out[w], m)) = Len(out[w]) + 1
          /\ \A i \in 1..Len(out[w]) : Append(out[w], m)[i] = out[w][i]
      BY <1>a, AppendProperties
    <2> QED BY <1>2, <1>a, <1>b, <2>1 DEF OutGrows
  <1>3. ASSUME NEW c \in Conns, replayAndAttach(c) \/ CutReplay(c) \/ ReplayUntracked(c)
        PROVE  OutGrows
    <2>1. out[c] = <<>> /\ Len(out[c]) = 0
      BY <1>3 DEF replayAndAttach, CutReplay, replayCut, ReplayUntracked, ConnInv
    <2>2. \A d \in Writers : d # c => out'[d] = out[d]
      BY <1>3, <1>a DEF replayAndAttach, CutReplay, replayCut, ReplayUntracked
    <2>3. TypeOK'
      BY TypeStep
    <2>4. Len(out'[c]) \in Nat
      BY <2>3, <1>a, LenProperties DEF TypeOK
    <2> QED BY <1>b, <2>1, <2>2, <2>4 DEF OutGrows
  <1>4. ASSUME NEW c \in Conns, NEW fails \in BOOLEAN, ServeEvent(c, fails) PROVE OutGrows
    <2>1. Head(sink[c]) \in Messages
      BY <1>4, <1>a, HeadTailProperties DEF ServeEvent
    <2>2. out' = out \/ out' = [out EXCEPT ![c] = Append(@, Head(sink[c]))]
      BY <1>4, <1>a DEF ServeEvent
    <2> QED BY <1>1, <1>2, <1>a, <2>1, <2>2
  <1>5. CASE PushToPost
    BY <1>5, <1>2, <1>a DEF PushToPost
  <1>6. \/ out' = out \/ PushToPost
        \/ \E c \in Conns : replayAndAttach(c) \/ CutReplay(c) \/ ReplayUntracked(c)
                            \/ \E fails \in BOOLEAN : ServeEvent(c, fails)
    BY DEF Next, Produce, Handle, deliver, PushToSink, PushDropped, PushToPostFails,
           clearPostWriterIf, PumpExits, PostReturns, serveListeningStream, handleResumeGet,
           FindStream, CutReplay, ServeGone, ServeCtxDone, detachIf, deliverTransient,
           ClientReads, Reconnect, CleanupPump, CleanupStreams, CleanupPurge, vars, connVars
  <1> QED BY <1>1, <1>3, <1>4, <1>5, <1>6

LEMMA RecordedGrows ==
  ASSUME TypeOK, [Next]_vars
  PROVE  /\ Len(recorded) <= Len(recorded')
         /\ \A i \in 1..Len(recorded) : recorded'[i] = recorded[i]
  <1>1. \/ recorded' = recorded
        \/ recorded' = Append(recorded, produced + 1) /\ produced + 1 \in 1..MaxEvents
    <2>1. ASSUME \E stored, last, ctxErr \in BOOLEAN : deliver(stored, last, ctxErr)
          PROVE  \/ recorded' = recorded
                 \/ recorded' = Append(recorded, produced + 1) /\ produced + 1 \in 1..MaxEvents
      BY <2>1, ResumableAssumption DEF ResumableAssumption, TypeOK, deliver
    <2>2. ASSUME NEW c \in Conns, Handle(c) \/ deliverTransient(c) PROVE recorded' = recorded
      BY <2>2, HandleFrame
    <2>3. \/ \E stored, last, ctxErr \in BOOLEAN : deliver(stored, last, ctxErr)
          \/ \E c \in Conns : Handle(c) \/ deliverTransient(c)
          \/ recorded' = recorded
      BY DEF Next, Produce, PushToSink, PushDropped, PushToPost, PushToPostFails,
             clearPostWriterIf, PumpExits, PostReturns, ClientReads, Reconnect, CleanupPump,
             CleanupStreams, CleanupPurge, vars, storeVars
    <2> QED BY <2>1, <2>2, <2>3
  <1>2. recorded \in Seq(1..MaxEvents) /\ Len(recorded) \in Nat
    BY RecordedRange DEF TypeOK
  <1>3. CASE recorded' = Append(recorded, produced + 1) /\ produced + 1 \in 1..MaxEvents
    BY <1>2, <1>3, AppendProperties
  <1> QED BY <1>1, <1>2, <1>3

\* What the client's connection was sent: a part of what was recorded after
\* some event, which the client knows if it knows any.
LEMMA CurOut ==
  ASSUME TypeOK, StoreInv, ConnInv, ChainInv, PostInv, ReadInv, cur # None, Len(out[cur]) > read
  PROVE  /\ InOrder(out[cur])
         /\ \E l \in Int :
              /\ NoGap(Ids(out[cur]), {e \in ToSet(recorded) : e > l})
              /\ cur \in Conns => l = lastID[cur]
              /\ got # <<>> => /\ l <= Seen
                               /\ Seen = l \/ \E i \in 1..read : out[cur][i].id = Seen
  <1>1. CASE cur = Post
    <2>1. {e \in ToSet(recorded) : e > 0} = ToSet(recorded)
      BY RecordedRange
    <2>2. NoGap(Ids(out[Post]), ToSet(recorded))
      BY NoGapPrefix, RecordedRange DEF PostInv
    <2>3. Seen \in Int /\ 0 <= Seen
      BY SeenTyped
    <2>4. cur \notin Conns
      BY <1>1, ResumableAssumption DEF Conns, ResumableAssumption
    <2>5. got # <<>> => \E i \in 1..read : out[cur][i].id = Seen
      BY <1>1 DEF ReadInv
    <2>6. NoGap(Ids(out[cur]), {e \in ToSet(recorded) : e > 0})
      BY <1>1, <2>1, <2>2
    <2>7. InOrder(out[cur])
      BY <1>1 DEF PostInv
    <2> DEFINE R(l) == {e \in ToSet(recorded) : e > l}
    <2>8. NoGap(Ids(out[cur]), R(0))
      BY <2>6
    <2> HIDE DEF R
    <2>9. \E l \in Int : NoGap(Ids(out[cur]), R(l)) /\ l = 0
      BY <2>8
    <2>10. PICK l \in Int : NoGap(Ids(out[cur]), R(l)) /\ l = 0
      BY <2>9
    <2> QED BY <2>3, <2>4, <2>5, <2>7, <2>10 DEF R
  <1>2. CASE cur \in Conns
    <2>1. get[cur] # "unused"
      <3>1. SUFFICES ASSUME get[cur] = "unused" PROVE FALSE
        OBVIOUS
      <3>2. Len(out[cur]) = 0
        BY <1>2, <3>1, Unattached
      <3> QED BY <3>2 DEF TypeOK
    <2>2. lastID[cur] \in Int
      BY <1>2 DEF TypeOK
    <2> QED BY <1>2, <2>1, <2>2 DEF ChainInv, ReadInv, Due
  <1> QED BY <1>1, <1>2 DEF TypeOK, Writers

\* The event the client reads next is the one recorded next.
LEMMA NextRead ==
  ASSUME TypeOK, StoreInv, ConnInv, ChainInv, PostInv, ReadInv, ClientReads,
         out[cur][read + 1].id # 0
  PROVE  /\ \A i \in 1..read : out[cur][i].id <= out[cur][read + 1].id
         /\ cur \in Conns => lastID[cur] <= out[cur][read + 1].id
         /\ \E j \in DOMAIN recorded :
              /\ recorded[j] = out[cur][read + 1].id
              /\ \A s \in DOMAIN recorded : got # <<>> /\ recorded[s] = Seen => j = s + 1
  <1> DEFINE o == out[cur]
             r == read + 1
             id == o[r].id
  <1>1. /\ cur # None /\ read \in Nat /\ read < Len(o) /\ o \in Seq(Messages)
    BY DEF ClientReads, TypeOK
  <1>2. DOMAIN o = 1..Len(o) /\ Len(o) \in Nat /\ \A i \in DOMAIN o : o[i] \in Messages
    BY <1>1, LenProperties, ElementOfSeq
  <1>3. r \in DOMAIN o /\ r = read + 1 /\ \A i \in 1..read : i \in DOMAIN o /\ i < r
    BY <1>1, <1>2
  <1>4. \A i \in DOMAIN o : o[i].id \in Nat
    BY <1>2, ResumableAssumption DEF Messages, ResumableAssumption
  <1>5. InOrder(o)
    BY <1>1, CurOut
  <1>6. PICK l \in Int : /\ NoGap(Ids(o), {e \in ToSet(recorded) : e > l})
                         /\ cur \in Conns => l = lastID[cur]
                         /\ got # <<>> => /\ l <= Seen
                                          /\ Seen = l \/ \E i \in 1..read : o[i].id = Seen
    BY <1>1, CurOut
  <1> DEFINE D == {e \in ToSet(recorded) : e > l}
  <1>7. id \in Ids(o) /\ id # 0 /\ id \in Nat
    BY <1>3, <1>4 DEF Ids
  <1>8. id \in D /\ id \in ToSet(recorded) /\ id > l
    BY <1>6, <1>7 DEF NoGap
  <1> HIDE DEF o, r
  <1>9. \A i \in 1..read : o[i].id <= id
    BY <1>3, <1>4, <1>5, <1>7 DEF InOrder
  <1>10. PICK j \in DOMAIN recorded : recorded[j] = id
    BY <1>8 DEF ToSet
  <1>11. ASSUME NEW s \in DOMAIN recorded, got # <<>>, recorded[s] = Seen PROVE j = s + 1
    <2>1. Seen < id /\ Seen \in Nat
      <3>1. CASE Seen = l
        BY <3>1, <1>8, SeenTyped
      <3>2. CASE \E i \in 1..read : o[i].id = Seen
        BY <3>2, <1>3, <1>5, <1>7, <1>11, SeenTyped DEF InOrder
      <3> QED BY <3>1, <3>2, <1>6, <1>11
    <2>2. s < j
      <3>1. SUFFICES ASSUME ~(s < j) PROVE FALSE
        OBVIOUS
      <3>2. j < s \/ j = s
        BY <3>1, RecordedRange
      <3> QED BY <3>2, <2>1, <1>7, <1>10, <1>11 DEF StoreInv
    <2>3. SUFFICES ASSUME s + 1 < j PROVE FALSE
      BY <2>2, RecordedRange
    <2> DEFINE e == recorded[s + 1]
    <2>4. s + 1 \in DOMAIN recorded /\ s < s + 1
      BY <2>2, <2>3, RecordedRange
    <2>5. Seen < e /\ e < id /\ e \in Nat /\ e # 0 /\ e \in ToSet(recorded)
      BY <2>3, <2>4, <1>10, <1>11, RecordedRange DEF StoreInv, ToSet
    <2> HIDE DEF e
    <2>6. e \in D
      BY <2>1, <2>5, <1>6, <1>11
    <2>7. e \in Ids(o)
      BY <2>5, <2>6, <1>6, <1>7 DEF NoGap
    <2>8. PICK q \in DOMAIN o : o[q].id = e
      BY <2>7 DEF Ids
    <2>9. q < r
      <3>1. SUFFICES ASSUME ~(q < r) PROVE FALSE
        OBVIOUS
      <3>2. q = r \/ r < q
        BY <3>1, <1>1, <1>2, <1>3
      <3>3. ~(r < q)
        BY <2>5, <2>8, <1>3, <1>5, <1>7 DEF InOrder
      <3> QED BY <3>2, <3>3, <2>5, <2>8, <1>7
    <2>10. q \in 1..read
      BY <2>9, <1>1, <1>2, <1>3
    <2>11. o[q].id <= Seen
      BY <2>10, <1>1 DEF ReadInv, o
    <2> QED BY <2>1, <2>5, <2>8, <2>11
  <1>12. cur \in Conns => lastID[cur] <= id
    BY <1>6, <1>7, <1>8
  <1> QED BY <1>9, <1>10, <1>11, <1>12 DEF o, r

\* ClientReads, in terms of the message it reads.
LEMMA Reads ==
  ASSUME TypeOK, ClientReads
  PROVE  /\ cur # None /\ read' = read + 1 /\ read \in Nat /\ read + 1 <= Len(out[cur])
         /\ UNCHANGED <<out, cur, get, lastID, recorded>>
         /\ out[cur][read + 1] \in Messages
         /\ out[cur][read + 1].id = 0 => got' = got /\ Seen' = Seen
         /\ out[cur][read + 1].id # 0 =>
              /\ got' = Append(got, out[cur][read + 1].id) /\ got' # <<>>
              /\ Seen' = out[cur][read + 1].id
  <1> DEFINE m == out[cur][read + 1]
  <1>1. /\ cur # None /\ read' = read + 1 /\ read \in Nat /\ read < Len(out[cur])
        /\ UNCHANGED <<out, cur, get, lastID, recorded>>
        /\ got' = (IF m.id = 0 THEN got ELSE Append(got, m.id))
    BY DEF ClientReads, TypeOK, storeVars, connVars
  <1>2. out[cur] \in Seq(Messages)
    BY <1>1 DEF TypeOK
  <1>3. m \in Messages
    BY <1>1, <1>2, ElementOfSeq, LenProperties
  <1> HIDE DEF m
  <1>4. CASE m.id = 0
    BY <1>1, <1>3, <1>4 DEF Seen, m
  <1>5. CASE m.id # 0
    <2>1. m.id \in 1..MaxEvents /\ got \in Seq(1..MaxEvents)
      BY <1>3, <1>5, ResumableAssumption DEF Messages, ResumableAssumption, TypeOK
    <2> DEFINE S == 1..MaxEvents
               x == m.id
    <2> HIDE DEF S, x
    <2>2. x \in S /\ got \in Seq(S)
      BY <2>1 DEF S, x
    <2>3. /\ Append(got, x) # <<>> /\ Len(Append(got, x)) = Len(got) + 1
          /\ Append(got, x)[Len(got) + 1] = x
      BY <2>2, AppendProperties
    <2>4. Append(got, m.id) # <<>> /\ Last(Append(got, m.id)) = m.id
      BY <2>3 DEF Last, x
    <2> QED BY <1>1, <1>3, <1>5, <2>4 DEF Seen, m
  <1> QED BY <1>4, <1>5

LEMMA ReadStep ==
  /\ TypeOK /\ StoreInv /\ CurInv /\ ConnInv /\ ChainInv /\ PostInv /\ ReadInv
  /\ [Next]_vars
  => ReadInv'
  <1> SUFFICES ASSUME TypeOK, StoreInv, CurInv, ConnInv, ChainInv, PostInv, ReadInv, [Next]_vars
               PROVE  ReadInv'
    OBVIOUS
  <1>a. /\ cur \in Writers \union {None} /\ Post \notin Conns /\ None \notin Writers
        /\ Conns \subseteq Nat /\ Writers = Conns \union {Post} /\ read \in Nat
        /\ get \in [Conns -> Pcs] /\ lastID \in [Conns -> 0..MaxEvents]
        /\ Seen \in Nat
    <2>1. Seen \in Nat /\ read \in Nat /\ lastID \in [Conns -> 0..MaxEvents]
      BY SeenTyped, ResumableAssumption DEF ResumableAssumption, TypeOK
    <2>2. /\ cur \in Writers \union {None} /\ Post \notin Conns /\ None \notin Writers
          /\ Conns \subseteq Nat /\ Writers = Conns \union {Post} /\ get \in [Conns -> Pcs]
      BY ResumableAssumption DEF TypeOK, ResumableAssumption, Conns, Writers, Pcs
    <2> QED BY <2>1, <2>2
  <1>1. CASE ClientReads
    <2>0. /\ cur # None /\ read' = read + 1 /\ read + 1 <= Len(out[cur])
          /\ UNCHANGED <<out, cur, get, lastID>>
          /\ out[cur][read + 1] \in Messages
      BY <1>1, Reads
    <2>1. \A i \in 1..(read + 1) : i \in 1..read \/ i = read + 1
      BY <1>a
    <2>2. CASE out[cur][read + 1].id = 0
      <3>1. Seen' = Seen /\ got' = got
        BY <1>1, <2>2, Reads
      <3>2. \A i \in 1..read' : out'[cur'][i].id <= Seen'
        BY <3>1, <2>0, <2>1, <2>2, <1>a DEF ReadInv
      <3>3. (\E i \in 1..read : out[cur][i].id = Seen)
              => (\E i \in 1..read' : out'[cur'][i].id = Seen')
        BY <3>1, <2>0, <1>a
      <3> QED BY <3>1, <3>2, <3>3, <2>0 DEF ReadInv
    <2>3. CASE out[cur][read + 1].id # 0
      <3>1. /\ \A i \in 1..read : out[cur][i].id <= out[cur][read + 1].id
            /\ cur \in Conns => lastID[cur] <= out[cur][read + 1].id
        BY <1>1, <2>3, NextRead
      <3>2. Seen' = out[cur][read + 1].id /\ out[cur][read + 1].id \in Nat
        BY <1>1, <2>0, <2>3, Reads, ResumableAssumption DEF Messages, ResumableAssumption
      <3>3. \A i \in 1..read' : out'[cur'][i].id <= Seen'
        BY <3>1, <3>2, <2>0, <2>1
      <3>4. \E i \in 1..read' : out'[cur'][i].id = Seen'
        BY <3>2, <2>0, <1>a
      <3>5. cur \in Conns => lastID'[cur'] <= Seen'
        BY <3>1, <3>2, <2>0
      <3> QED BY <2>0, <3>3, <3>4, <3>5 DEF ReadInv
    <2> QED BY <2>2, <2>3
  <1>2. ASSUME NEW c \in Conns, Reconnect(c) PROVE ReadInv'
    <2>1. /\ cur' = c /\ read' = 0 /\ UNCHANGED <<out, got, get>>
          /\ c = (IF cur \in Conns THEN cur + 1 ELSE 1)
      BY <1>2 DEF Reconnect, connVars
    <2>2. get'[c] = "unused"
      BY <1>a, <2>1 DEF CurInv
    <2>3. out[c] \in Seq(Messages) /\ Len(out[c]) \in Nat
      BY <1>a, LenProperties DEF TypeOK
    <2>4. c # None /\ c # Post
      BY <1>a
    <2> QED BY <2>1, <2>2, <2>3, <2>4 DEF ReadInv
  <1>3. ASSUME UNCHANGED <<cur, read, got>>,
               \/ cur \in Conns => lastID'[cur] = lastID[cur] /\ (get[cur] = "unused" => get'[cur] = "unused")
               \/ serveListeningStream(cur) \/ handleResumeGet(cur)
        PROVE  ReadInv'
    <2>1. OutGrows /\ Seen' = Seen
      BY <1>3, OutputGrows DEF Seen
    <2>2. cur # None => /\ Len(out[cur]) <= Len(out'[cur]) /\ read <= Len(out'[cur])
                        /\ \A i \in 1..read : out'[cur][i] = out[cur][i]
      <3> SUFFICES ASSUME cur # None PROVE /\ Len(out[cur]) <= Len(out'[cur])
                                           /\ read <= Len(out'[cur])
                                           /\ \A i \in 1..read : out'[cur][i] = out[cur][i]
        OBVIOUS
      <3>1. Len(out[cur]) \in Nat /\ read <= Len(out[cur])
        BY <1>a, LenProperties DEF TypeOK, ReadInv
      <3>2. TypeOK'
        BY TypeStep
      <3>3. Len(out'[cur]) \in Nat
        BY <1>a, <3>2, LenProperties DEF TypeOK
      <3> QED BY <1>a, <2>1, <3>1, <3>3 DEF OutGrows
    <2>3. ASSUME got # <<>>, cur \in Conns, get'[cur] # "unused"
          PROVE  /\ lastID'[cur] <= Seen
                 /\ Seen = lastID'[cur] \/ \E i \in 1..read : out[cur][i].id = Seen
      <3>1. CASE lastID'[cur] = lastID[cur] /\ (get[cur] = "unused" => get'[cur] = "unused")
        BY <2>3, <3>1, <1>a DEF ReadInv, Pcs
      <3>2. CASE serveListeningStream(cur)
        BY <2>3, <3>2, SeenTyped DEF serveListeningStream
      <3>3. CASE handleResumeGet(cur)
        BY <2>3, <3>3, <1>a DEF handleResumeGet
      <3> QED BY <1>3, <2>3, <3>1, <3>2, <3>3
    <2> QED BY <1>3, <2>1, <2>2, <2>3, <1>a DEF ReadInv
  <1>4. ASSUME NEW c \in Conns, Handle(c) \/ deliverTransient(c) PROVE ReadInv'
    <2>1. UNCHANGED <<cur, read, got>>
      BY <1>4, HandleFrame
    <2>2. CASE c # cur
      BY <2>1, <2>2, <1>3, <1>4, HandleFrame
    <2>3. CASE c = cur /\ (serveListeningStream(c) \/ handleResumeGet(c))
      BY <2>1, <2>3, <1>3
    <2>4. CASE c = cur /\ ~(serveListeningStream(c) \/ handleResumeGet(c))
      <3>1. lastID' = lastID /\ get[c] # "unused"
        BY <1>4, <2>4 DEF Handle, FindStream, replayAndAttach, replayCut, ReplayUntracked,
                          ServeEvent,
                          ServeGone, ServeCtxDone, detachIf, deliverTransient
      <3> QED BY <2>1, <2>4, <3>1, <1>3
    <2> QED BY <2>2, <2>3, <2>4
  <1>5. Next => \/ ClientReads \/ \E c \in Conns : Reconnect(c) \/ Handle(c) \/ deliverTransient(c)
                \/ UNCHANGED <<cur, read, got, lastID, get>>
    BY DEF Next, Produce, deliver, PushToSink, PushDropped, PushToPost, PushToPostFails,
           clearPostWriterIf, PumpExits, PostReturns, CleanupPump,
           CleanupStreams, CleanupPurge, connVars, clientVars
  <1>6. CASE UNCHANGED vars
    BY <1>6, <1>3 DEF vars
  <1> QED BY <1>1, <1>2, <1>3, <1>4, <1>5, <1>6

LEMMA RunStep ==
  /\ TypeOK /\ StoreInv /\ ConnInv /\ ChainInv /\ PostInv /\ ReadInv /\ ClientReadsRun
  /\ [Next]_vars
  => ClientReadsRun'
  <1> SUFFICES ASSUME TypeOK, StoreInv, ConnInv, ChainInv, PostInv, ReadInv, ClientReadsRun,
                      [Next]_vars
               PROVE  ClientReadsRun'
    OBVIOUS
  <1>1. /\ DOMAIN recorded = 1..Len(recorded) /\ Len(recorded) \in Nat
        /\ got \in Seq(1..MaxEvents) /\ Len(got) \in Nat /\ DOMAIN got = 1..Len(got)
    BY RecordedRange, LenProperties DEF TypeOK
  <1>2. PICK k \in 0..Len(recorded) : /\ k + Len(got) <= Len(recorded)
                                      /\ \A i \in DOMAIN got : got[i] = recorded[k + i]
    BY DEF ClientReadsRun
  <1>3. /\ Len(recorded) <= Len(recorded') /\ Len(recorded') \in Nat
        /\ \A i \in 1..Len(recorded) : recorded'[i] = recorded[i]
    <2>1. TypeOK'
      BY TypeStep
    <2> QED BY <2>1, RecordedGrows, LenProperties DEF TypeOK
  <1>4. CASE got' = got
    <2>1. k \in 0..Len(recorded') /\ k + Len(got') <= Len(recorded')
      BY <1>1, <1>2, <1>3, <1>4
    <2>2. \A i \in DOMAIN got' : got'[i] = recorded'[k + i]
      BY <1>1, <1>2, <1>3, <1>4
    <2> QED BY <2>1, <2>2 DEF ClientReadsRun
  <1>5. CASE ClientReads
    <2> DEFINE id == out[cur][read + 1].id
    <2>1. CASE id = 0
      BY <1>4, <1>5, <2>1, Reads
    <2>2. CASE id # 0
      <3>1. PICK j \in DOMAIN recorded :
              /\ recorded[j] = id
              /\ \A s \in DOMAIN recorded : got # <<>> /\ recorded[s] = Seen => j = s + 1
        BY <1>5, <2>2, NextRead
      <3>2. got' = Append(got, id) /\ recorded' = recorded
        BY <1>5, <2>2, Reads
      <3>3. id \in 1..MaxEvents
        BY <3>1, RecordedRange
      <3> HIDE DEF id
      <3>4. /\ Len(got') = Len(got) + 1 /\ DOMAIN got' = 1..(Len(got) + 1)
            /\ \A i \in 1..Len(got) : got'[i] = got[i]
            /\ got'[Len(got) + 1] = id
        BY <1>1, <3>2, <3>3, AppendProperties, LenProperties
      <3>5. CASE got = <<>>
        <4>1. j - 1 \in 0..Len(recorded) /\ Len(got) = 0 /\ j - 1 + 1 = j
          BY <3>5, <1>1
        <4>2. \A i \in DOMAIN got' : i = 1 /\ got'[i] = id
          BY <3>4, <4>1
        <4> QED BY <3>1, <3>2, <3>4, <4>1, <4>2, <1>1 DEF ClientReadsRun
      <3>6. CASE got # <<>>
        <4>1. Len(got) \in DOMAIN got /\ Seen = got[Len(got)]
          BY <3>6, SeenTyped
        <4>2. k + Len(got) \in DOMAIN recorded /\ recorded[k + Len(got)] = Seen
          BY <4>1, <1>1, <1>2
        <4>3. j = k + Len(got) + 1
          BY <3>1, <3>6, <4>2
        <4>4. k + Len(got') <= Len(recorded')
          BY <4>3, <3>2, <3>4, <1>1, <1>2
        <4>5. \A i \in DOMAIN got' : got'[i] = recorded'[k + i]
          <5> SUFFICES ASSUME NEW i \in DOMAIN got' PROVE got'[i] = recorded'[k + i]
            OBVIOUS
          <5>1. CASE i = Len(got) + 1
            <6>1. k + i = j
              BY <4>3, <5>1, <1>1, <1>2
            <6> QED BY <3>1, <3>2, <3>4, <5>1, <6>1
          <5>2. CASE i \in 1..Len(got)
            BY <5>2, <1>1, <1>2, <3>2, <3>4
          <5> QED BY <5>1, <5>2, <3>4, <1>1
        <4> QED BY <4>4, <4>5, <3>2 DEF ClientReadsRun
      <3> QED BY <3>5, <3>6
    <2> QED BY <2>1, <2>2
  <1>6. Next => ClientReads \/ got' = got
    BY DEF Next, Produce, Handle, deliver, PushToSink, PushDropped, PushToPost,
           PushToPostFails, clearPostWriterIf, PumpExits, PostReturns, serveListeningStream,
           handleResumeGet, FindStream, replayAndAttach, replayCut, ReplayUntracked, ServeEvent,
           ServeGone, ServeCtxDone, detachIf, deliverTransient, Reconnect, CleanupPump,
           CleanupStreams, CleanupPurge, clientVars
  <1> QED BY <1>4, <1>5, <1>6 DEF vars

-----------------------------------------------------------------------------
(* The last message.                                                       *)

\* As long as the producer runs, no sink holds the last message.
LEMMA NoLastYet ==
  ASSUME LastInv, pump # "exited", NEW c \in Conns, get[c] = "serving"
  PROVE  \A i \in DOMAIN sink[c] : ~sink[c][i].last
  BY DEF LastInv, LastOn

LEMMA LastFrame ==
  ASSUME LastInv, NEW c \in Conns, get[c] = "serving",
         out'[c] = out[c], sink'[c] = sink[c], lastID'[c] = lastID[c], recorded' = recorded,
         push' = push, closed' = closed, pump = "exited" => pump' = "exited"
  PROVE  LastOn(c)'
  <1>1. Due(c)' = Due(c) /\ Chain(c)' = Chain(c)
    BY DEF Due, Chain, InHand, Ids
  <1> QED BY <1>1 DEF LastInv, LastOn

\* The producer is through with a message that is not handed to a connection.
LEMMA LastDropped ==
  ASSUME LastInv, PushInv, push.pc # "idle", NEW c \in Conns, get[c] = "serving",
         out'[c] = out[c], sink'[c] = sink[c], push'.to # c
  PROVE  LastOn(c)'
  <1>1. pump # "exited"
    BY DEF PushInv
  <1> QED BY <1>1, NoLastYet DEF LastInv, LastOn

LEMMA LastDeliver ==
  ASSUME TypeOK, StoreInv, PushInv, ConnInv, ChainInv, LastInv, NEW c \in Conns, get[c] = "serving",
         NEW stored \in BOOLEAN, NEW last \in BOOLEAN, NEW ctxErr \in BOOLEAN,
         deliver(stored, last, ctxErr)
  PROVE  LastOn(c)'
  <1>1. /\ pump # "exited" /\ UNCHANGED <<out, sink, conn, get>>
        /\ push'.to = (IF conn # None THEN conn ELSE IF postW' THEN Post ELSE None)
    BY DEF deliver, connVars
  <1>2. push'.to = c => conn' = c
    BY <1>1, ResumableAssumption DEF Conns, ResumableAssumption
  <1>3. Chained(c)'
    BY <1>1, ChainDeliver DEF ChainInv
  <1> QED BY <1>1, <1>2, <1>3, NoLastYet DEF LastInv, LastOn, Chained

LEMMA LastPush ==
  ASSUME TypeOK, PushInv, ConnInv, ChainInv, LastInv, NEW c \in Conns, PushToSink(c),
         NEW d \in Conns, get[d] = "serving"
  PROVE  LastOn(d)'
  <1>1. /\ push.pc = "push" /\ push.to = c /\ push' = Idle /\ sink[c] \in Seq(Messages)
        /\ push.msg \in Messages /\ pump # "exited"
        /\ \A e \in Conns : e # c => sink'[e] = sink[e]
        /\ sink'[c] = Append(sink[c], push.msg)
        /\ pump' = (IF push.msg.last THEN "exited" ELSE pump)
        /\ UNCHANGED <<out, closed, get, lastID, recorded>>
    BY DEF PushToSink, afterPush, TypeOK, PushInv, streamVars, storeVars
  <1>2. Idle.to \notin Conns
    BY ResumableAssumption DEF Idle, Conns, ResumableAssumption
  <1>3. CASE d # c
    BY <1>1, <1>2, <1>3, LastDropped
  <1>4. CASE d = c
    <2>1. Chain(d)' = Chain(d) /\ Due(d)' = Due(d)
      BY <1>1, <1>4, ChainPush DEF Due
    <2>2. /\ Len(sink[c]) \in Nat /\ DOMAIN sink'[c] = 1..(Len(sink[c]) + 1)
          /\ DOMAIN sink[c] = 1..Len(sink[c])
          /\ \A i \in 1..Len(sink[c]) : sink'[c][i] = sink[c][i]
          /\ sink'[c][Len(sink[c]) + 1] = push.msg
      BY <1>1, AppendProperties, LenProperties
    <2>3. \A i \in DOMAIN sink[c] : ~sink[c][i].last
      BY <1>1, <1>4, NoLastYet
    <2>4. ASSUME NEW i \in DOMAIN sink'[c], sink'[c][i].last
          PROVE  push.msg.last /\ i = Len(sink[c]) + 1
      BY <2>2, <2>3, <2>4
    <2>5. ASSUME push.msg.last PROVE closed' /\ pump' = "exited" /\ Due(d)' \subseteq Chain(d)'
      BY <2>1, <2>5, <1>1, <1>4 DEF PushInv, LastInv, LastOn
    <2>6. \A i, j \in DOMAIN sink'[c] : sink'[c][i].last => ~(i < j)
      BY <2>2, <2>4
    <2>7. \A i \in DOMAIN out'[d] : ~out'[d][i].last
      BY <1>1 DEF LastInv, LastOn
    <2> QED BY <1>1, <1>2, <1>4, <2>4, <2>5, <2>6, <2>7 DEF LastOn
  <1> QED BY <1>3, <1>4

\* A GET that attaches has nothing but the replay.
LEMMA LastAttach ==
  ASSUME TypeOK, StoreInv, ConnInv, ChainInv, NEW c \in Conns,
         serveListeningStream(c) \/ replayAndAttach(c)
  PROVE  LastOn(c)'
  <1>1. get[c] \in {"unused", "found"} /\ UNCHANGED <<sink, push>>
    BY DEF serveListeningStream, replayAndAttach, prodVars
  <1>2. sink'[c] = <<>> /\ push'.to # c
    BY <1>1 DEF ConnInv
  <1>3. \A i \in DOMAIN out'[c] : ~out'[c][i].last
    <2>1. CASE serveListeningStream(c)
      BY <2>1, <1>1 DEF ConnInv, serveListeningStream
    <2>2. CASE replayAndAttach(c)
      BY <2>2, ChainReplay
    <2> QED BY <2>1, <2>2
  <1> QED BY <1>2, <1>3 DEF LastOn

LEMMA LastServe ==
  ASSUME TypeOK, ChainInv, LastInv, NEW c \in Conns, NEW fails \in BOOLEAN, ServeEvent(c, fails),
         get'[c] = "serving"
  PROVE  LastOn(c)'
  <1> DEFINE h == Head(sink[c])
  <1>1. /\ get[c] = "serving" /\ sink[c] # <<>> /\ sink[c] \in Seq(Messages)
        /\ out[c] \in Seq(Messages) /\ ~fails /\ ~h.last
        /\ sink'[c] = Tail(sink[c]) /\ UNCHANGED <<push, recorded, lastID, closed, pump>>
        /\ out'[c] = Append(out[c], h)
    BY DEF ServeEvent, TypeOK, Writers, streamVars, storeVars, prodVars
  <1>2. /\ h \in Messages /\ DOMAIN sink'[c] \subseteq Int
        /\ \A i \in DOMAIN sink'[c] : i + 1 \in DOMAIN sink[c] /\ sink'[c][i] = sink[c][i + 1]
    <2>1. Tail(sink[c]) \in Seq(Messages)
      BY <1>1, TakeMessage
    <2>2. DOMAIN sink'[c] = 1..Len(Tail(sink[c])) /\ Len(Tail(sink[c])) \in Nat
      BY <1>1, <2>1, LenProperties
    <2> QED BY <1>1, <2>2, TakeMessage
  <1>3. Chain(c)' = Chain(c) /\ Due(c)' = Due(c)
    BY <1>1, ChainServe DEF Due
  <1>4. \A i \in DOMAIN out'[c] : ~out'[c][i].last
    <2> HIDE DEF h
    <2>1. /\ DOMAIN out'[c] = 1..(Len(out[c]) + 1) /\ Len(out[c]) \in Nat
          /\ DOMAIN out[c] = 1..Len(out[c])
          /\ \A i \in 1..Len(out[c]) : out'[c][i] = out[c][i]
          /\ out'[c][Len(out[c]) + 1] = h
      BY <1>1, <1>2, AppendProperties, LenProperties
    <2>2. \A i \in DOMAIN out[c] : ~out[c][i].last
      BY <1>1 DEF LastInv, LastOn
    <2> QED BY <1>1, <2>1, <2>2
  <1>5. \A i \in DOMAIN sink'[c] : sink'[c][i].last =>
          /\ closed' /\ pump' = "exited" /\ Due(c)' \subseteq Chain(c)'
          /\ \A j \in DOMAIN sink'[c] : i < j => sink'[c][j].id = 0
    <2> SUFFICES ASSUME NEW i \in DOMAIN sink'[c], sink'[c][i].last
                 PROVE  /\ closed' /\ pump' = "exited" /\ Due(c)' \subseteq Chain(c)'
                        /\ \A j \in DOMAIN sink'[c] : i < j => sink'[c][j].id = 0
      OBVIOUS
    <2>1. i + 1 \in DOMAIN sink[c] /\ sink[c][i + 1].last
      BY <1>2
    <2>2. /\ closed /\ pump = "exited" /\ Due(c) \subseteq Chain(c)
          /\ \A j \in DOMAIN sink[c] : i + 1 < j => sink[c][j].id = 0
      BY <1>1, <2>1 DEF LastInv, LastOn
    <2>3. ASSUME NEW j \in DOMAIN sink'[c], i < j PROVE sink'[c][j].id = 0
      BY <1>2, <2>2, <2>3
    <2> QED BY <1>1, <1>3, <2>2, <2>3
  <1> QED BY <1>1, <1>3, <1>4, <1>5 DEF LastInv, LastOn

LEMMA LastPing ==
  ASSUME TypeOK, ChainInv, LastInv, NEW c \in Conns, deliverTransient(c), get[c] = "serving"
  PROVE  LastOn(c)'
  <1> DEFINE m == [id |-> 0, last |-> FALSE]
             q == sink[c]
  <1>1. /\ UNCHANGED <<push, recorded, lastID, out, closed, pump>>
        /\ sink'[c] = Append(q, m) /\ q \in Seq(Messages)
    BY DEF deliverTransient, TypeOK, streamVars, storeVars, prodVars
  <1>2. m.id = 0 /\ ~m.last /\ m \in Messages
    BY ResumableAssumption DEF Messages, ResumableAssumption
  <1>3. Chain(c)' = Chain(c) /\ Due(c)' = Due(c)
    BY <1>1, ChainPing DEF Due
  <1>4. LastOn(c)
    BY DEF LastInv
  <1> HIDE DEF m
  <1>5. /\ DOMAIN sink'[c] = 1..(Len(q) + 1) /\ Len(q) \in Nat /\ DOMAIN q = 1..Len(q)
        /\ \A i \in 1..Len(q) : sink'[c][i] = q[i]
        /\ sink'[c][Len(q) + 1] = m
    BY <1>1, <1>2, AppendProperties, LenProperties
  <1>6. ASSUME NEW i \in DOMAIN sink'[c], sink'[c][i].last
        PROVE  /\ closed /\ pump = "exited" /\ Due(c) \subseteq Chain(c)
               /\ \A j \in DOMAIN sink'[c] : i < j => sink'[c][j].id = 0
    <2>1. i \in DOMAIN q /\ q[i].last
      BY <1>2, <1>5, <1>6
    <2>2. \A j \in DOMAIN sink'[c] : j \in DOMAIN q \/ sink'[c][j].id = 0
      BY <1>2, <1>5
    <2> QED BY <1>4, <1>5, <2>1, <2>2 DEF LastOn
  <1> QED BY <1>1, <1>3, <1>4, <1>6 DEF LastOn

LEMMA LastStep ==
  TypeOK /\ StoreInv /\ PushInv /\ ConnInv /\ ChainInv /\ LastInv /\ [Next]_vars => LastInv'
  <1> SUFFICES ASSUME TypeOK, StoreInv, PushInv, ConnInv, ChainInv, LastInv, [Next]_vars,
                      NEW d \in Conns, get'[d] = "serving"
               PROVE  LastOn(d)'
    BY DEF LastInv
  <1>1. CASE \E stored, last, ctxErr \in BOOLEAN : deliver(stored, last, ctxErr)
    <2>1. get[d] = "serving"
      BY <1>1 DEF deliver, connVars
    <2> QED BY <1>1, <2>1, LastDeliver
  <1>2. CASE \E c \in Conns : PushToSink(c)
    <2>1. get[d] = "serving"
      BY <1>2 DEF PushToSink
    <2> QED BY <1>2, <2>1, LastPush
  <1>3. CASE PushDropped \/ PushToPost \/ PushToPostFails \/ clearPostWriterIf
    <2>1. get[d] = "serving" /\ push.pc # "idle" /\ sink'[d] = sink[d] /\ out'[d] = out[d]
      BY <1>3, ResumableAssumption
         DEF PushDropped, PushToPost, PushToPostFails, clearPostWriterIf, connVars, TypeOK,
             Writers, Conns, ResumableAssumption
    <2>2. push'.to \in {None, Post}
      BY <1>3 DEF PushDropped, PushToPost, PushToPostFails, clearPostWriterIf, afterPush, Idle,
                  TypeOK
    <2>3. push'.to # d
      BY <2>2, ResumableAssumption DEF Conns, ResumableAssumption
    <2> QED BY <2>1, <2>3, LastDropped
  <1>4. ASSUME NEW c \in Conns, Handle(c) \/ deliverTransient(c) PROVE LastOn(d)'
    <2>1. closed' = closed /\ push' = push /\ recorded' = recorded
          /\ (pump = "exited" => pump' = "exited")
      <3>1. pump = "exited" => pump' = "exited"
        BY <1>4 DEF Handle, serveListeningStream, handleResumeGet, FindStream, replayAndAttach,
                    replayCut,
           ReplayUntracked, ServeEvent, ServeGone, ServeCtxDone, detachIf, deliverTransient,
           prodVars
      <3> QED BY <1>4, <3>1, HandleFrame
    <2>2. CASE d # c
      BY <1>4, <2>1, <2>2, HandleFrame, LastFrame
    <2>3. CASE d = c /\ (serveListeningStream(c) \/ replayAndAttach(c))
      BY <2>3, LastAttach
    <2>4. CASE d = c /\ \E fails \in BOOLEAN : ServeEvent(c, fails)
      BY <2>4, LastServe
    <2>5. CASE d = c /\ deliverTransient(c)
      BY <2>5, LastPing DEF deliverTransient
    <2>7. CASE d = c /\ CutReplay(c)
      BY <2>7 DEF CutReplay, replayCut, TypeOK
    <2>6. CASE d = c /\ (handleResumeGet(c) \/ FindStream(c) \/ ReplayUntracked(c)
                         \/ ServeGone(c) \/ ServeCtxDone(c) \/ detachIf(c))
      BY <2>6 DEF handleResumeGet, FindStream, ReplayUntracked, ServeGone, ServeCtxDone, detachIf,
                  TypeOK
    <2> QED BY <1>4, <2>2, <2>3, <2>4, <2>5, <2>6, <2>7 DEF Handle, CutReplay
  <1>5. CASE PumpExits \/ PostReturns \/ (\E c \in Conns : Reconnect(c))
             \/ ClientReads \/ CleanupPump \/ CleanupStreams \/ CleanupPurge \/ UNCHANGED vars
    <2>1. UNCHANGED <<push, recorded, out, sink, lastID, get, closed>>
          /\ (pump = "exited" => pump' = "exited")
      BY <1>5 DEF PumpExits, PostReturns, Reconnect, ClientReads, CleanupPump,
         CleanupStreams, CleanupPurge, vars, streamVars, storeVars, prodVars, connVars
    <2> QED BY <2>1, LastFrame
  <1> QED BY <1>1, <1>2, <1>3, <1>4, <1>5 DEF Next, Produce

-----------------------------------------------------------------------------
(* How the client's connection ends.                                       *)

LEMMA SeenRecorded ==
  ASSUME TypeOK, ClientReadsRun, Seen # 0
  PROVE  Seen \in ToSet(recorded)
  <1>1. PICK k \in 0..Len(recorded) : /\ k + Len(got) <= Len(recorded)
                                      /\ \A i \in DOMAIN got : got[i] = recorded[k + i]
    BY DEF ClientReadsRun
  <1>2. Len(got) \in DOMAIN got /\ Seen = got[Len(got)] /\ Len(got) \in 1..Len(got)
    BY SeenTyped, LenProperties DEF TypeOK
  <1>3. k + Len(got) \in DOMAIN recorded
    BY <1>1, <1>2, RecordedRange
  <1> QED BY <1>1, <1>2, <1>3 DEF ToSet

\* The log holds every event until the session is purged.
LEMMA RecordedInLog ==
  ASSUME TypeOK, StoreInv, cleanup = "no", NEW e \in ToSet(recorded)
  PROVE  Contains(log, e)
  <1>1. log = recorded
    BY DEF StoreInv
  <1> QED BY <1>1, RecordedRange DEF ToSet, Contains

LEMMA CurUp ==
  ASSUME CurInv, cur \in Conns
  PROVE  cur \notin hungUp /\ \A c \in Conns : get[c] # "unused" /\ c # cur => c \in 1..(cur - 1)
  <1>1. Post \notin Conns /\ Conns = 1..MaxConns /\ MaxConns \in Nat
    BY ResumableAssumption DEF Conns, ResumableAssumption
  <1> QED BY <1>1 DEF CurInv

Attaches == \A c \in Conns : get[c] \in Attached => get'[c] \in Attached

\* What another connection's handler, or the producer, does leaves the
\* client's connection as it is.
LEMMA EndFrame ==
  ASSUME EndInv, EndsOnlyComplete, Attaches, cur \in Conns,
         UNCHANGED <<cur, cleanup, closed, recorded>>, out'[cur] = out[cur],
         lastID'[cur] = lastID[cur], get'[cur] = get[cur], gone'[cur] = gone[cur]
  PROVE  EndInv' /\ EndsOnlyComplete'
  <1>1. Ids(out[cur])' = Ids(out[cur]) /\ Due(cur)' = Due(cur)
    BY DEF Ids, Due
  <1>2. \A c \in 1..(cur - 1) : c \in Conns
    BY ResumableAssumption DEF Conns, ResumableAssumption
  <1>3. Overtaken => Overtaken'
    BY <1>2 DEF Overtaken, Attached, Attaches
  <1> QED BY <1>1, <1>2, <1>3 DEF EndInv, EndsOnlyComplete, Attached, Attaches

LEMMA EndDeliver ==
  ASSUME PushInv, EndInv, EndsOnlyComplete, TypeOK,
         NEW stored \in BOOLEAN, NEW last \in BOOLEAN, NEW ctxErr \in BOOLEAN,
         deliver(stored, last, ctxErr)
  PROVE  EndInv' /\ EndsOnlyComplete'
  <1>1. /\ UNCHANGED <<get, gone, out, cur, cleanup>> /\ ~closed
    BY DEF deliver, connVars, clientVars, PushInv, Idle
  <1>2. Overtaken => Overtaken'
    BY <1>1 DEF Overtaken
  <1> QED BY <1>1, <1>2 DEF EndInv, EndsOnlyComplete

\* The client's own handler.
LEMMA EndLookup ==
  ASSUME TypeOK, StoreInv, TrackInv, ConnInv, ClientReadsRun, cur \in Conns, cleanup = "no",
         serveListeningStream(cur) \/ handleResumeGet(cur) \/ FindStream(cur)
  PROVE  EndInv' /\ EndsOnlyComplete'
  <1>1. /\ cur' = cur /\ cur \notin {None} /\ get \in [Conns -> Pcs] /\ gone \in [Conns -> BOOLEAN]
    BY ResumableAssumption
       DEF serveListeningStream, handleResumeGet, FindStream, clientVars, TypeOK, Conns,
           ResumableAssumption, Pcs
  <1>2. CASE serveListeningStream(cur)
    <2>1. get'[cur] = "serving" /\ ~gone'[cur]
      BY <1>1, <1>2 DEF serveListeningStream, ConnInv, Superseded
    <2> QED BY <1>1, <2>1 DEF EndInv, EndsOnlyComplete
  <1>3. CASE handleResumeGet(cur)
    <2>1. Contains(log, Seen)
      BY <1>3, SeenRecorded, RecordedInLog DEF handleResumeGet
    <2>2. get'[cur] = "probed"
      BY <1>1, <1>3, <2>1 DEF handleResumeGet
    <2> QED BY <1>1, <2>2 DEF EndInv, EndsOnlyComplete
  <1>4. CASE FindStream(cur)
    <2>1. recorded # <<>>
      BY <1>4, RecordedRange DEF FindStream, ConnInv, ToSet
    <2>2. tracked = "yes"
      BY <2>1 DEF TrackInv, TypeOK
    <2>3. get'[cur] = "found"
      BY <1>1, <1>4, <2>2 DEF FindStream
    <2> QED BY <1>1, <2>3 DEF EndInv, EndsOnlyComplete
  <1> QED BY <1>2, <1>3, <1>4

LEMMA EndReplay ==
  ASSUME TypeOK, StoreInv, CurInv, ConnInv, ChainInv, EndInv, cur \in Conns, cleanup = "no",
         replayAndAttach(cur) \/ ReplayUntracked(cur)
  PROVE  EndInv' /\ EndsOnlyComplete'
  <1>1. replayAndAttach(cur) /\ get[cur] = "found"
    BY DEF EndInv, ReplayUntracked, replayAndAttach
  <1>2. Contains(log, lastID[cur]) /\ cur \notin hungUp
    BY <1>1, RecordedInLog, CurUp DEF ConnInv
  <1>3. /\ get'[cur] = (IF closed THEN "ended" ELSE "serving") /\ gone'[cur] = gone[cur]
        /\ UNCHANGED <<cur, closed, recorded, lastID>>
    BY <1>1, <1>2 DEF replayAndAttach, storeVars, clientVars, TypeOK, ConnInv, Superseded
  <1>4. ~gone[cur]
    BY <1>1 DEF ConnInv
  <1>5. Ids(out'[cur]) = Due(cur)
    BY <1>1, <1>2, ChainReplay
  <1>6. Due(cur)' = Due(cur)
    BY <1>3 DEF Due
  <1> QED BY <1>3, <1>4, <1>5, <1>6 DEF EndInv, EndsOnlyComplete

\* A replay that is cut short does not end the connection as complete.
LEMMA EndCut ==
  ASSUME TypeOK, cur \in Conns, CutReplay(cur)
  PROVE  EndInv' /\ EndsOnlyComplete'
  <1>1. get'[cur] \in {"cutting", "cut"} /\ cur' = cur
    BY CutSame DEF CutReplay, replayCut, TypeOK
  <1> QED BY <1>1 DEF EndInv, EndsOnlyComplete

\* The last message is written behind everything else.
LEMMA EndServe ==
  ASSUME TypeOK, PushInv, CurInv, ChainInv, LastInv, EndInv, cur \in Conns, cleanup = "no",
         NEW fails \in BOOLEAN, ServeEvent(cur, fails)
  PROVE  EndInv' /\ EndsOnlyComplete'
  <1> DEFINE q == sink[cur]
             h == Head(q)
  <1>1. /\ get[cur] = "serving" /\ q \in Seq(Messages) /\ q # <<>> /\ ~fails
        /\ UNCHANGED <<cur, closed, recorded, lastID, cleanup>>
        /\ \A c \in Conns : c # cur => get'[c] = get[c]
    BY CurUp DEF ServeEvent, TypeOK, streamVars, storeVars, clientVars
  <1>2. CASE ~h.last
    <2>1. get' = get /\ gone' = gone
      BY <1>1, <1>2 DEF ServeEvent
    <2> QED BY <1>1, <2>1 DEF EndInv, EndsOnlyComplete
  <1>3. CASE h.last
    <2>1. get'[cur] = "closing"
      BY <1>1, <1>3 DEF ServeEvent, TypeOK
    <2>2. /\ h = q[1] /\ 1 \in DOMAIN q /\ Tail(q) \in Seq(Messages)
          /\ Ids(q) = Ids(<<h>>) \union Ids(Tail(q))
          /\ \A i \in DOMAIN Tail(q) : i + 1 \in DOMAIN q /\ Tail(q)[i] = q[i + 1]
      BY <1>1, TakeMessage
    <2>3. /\ closed /\ pump = "exited" /\ Due(cur) \subseteq Chain(cur)
          /\ \A j \in DOMAIN q : 1 < j => q[j].id = 0
      BY <1>1, <1>3, <2>2 DEF LastInv, LastOn
    <2>4. Ids(Tail(q)) = {}
      <3>1. DOMAIN Tail(q) = 1..Len(Tail(q))
        BY <2>2, LenProperties
      <3>2. \A i \in DOMAIN Tail(q) : Tail(q)[i].id = 0
        BY <2>2, <2>3, <3>1
      <3> QED BY <3>2 DEF Ids
    <2>5. InHand(cur) = {}
      BY <2>3, IdsOne DEF PushInv, InHand, Idle
    <2>6. Ids(out'[cur]) = Ids(out[cur]) \union Ids(<<h>>)
      BY <1>1, ChainServe
    <2>7. Chain(cur) = Ids(out'[cur])
      BY <2>2, <2>4, <2>5, <2>6 DEF Chain
    <2>8. Chain(cur) \subseteq Due(cur) /\ Due(cur)' = Due(cur)
      BY <1>1 DEF ChainInv, Chained, NoGap, Due
    <2> DEFINE A == Chain(cur)
               B == Due(cur)
    <2>a. A \subseteq B /\ B \subseteq A
      BY <2>3, <2>8
    <2> HIDE DEF A, B
    <2>b. A = B
      BY <2>a
    <2>9. Ids(out'[cur]) = Due(cur)'
      BY <2>7, <2>8, <2>b DEF A, B
    <2> QED BY <1>1, <2>1, <2>3, <2>9 DEF EndInv, EndsOnlyComplete
  <1> QED BY <1>2, <1>3

LEMMA EndLeave ==
  ASSUME TypeOK, CurInv, LastInv, EndInv, cur \in Conns, cleanup = "no",
         ServeGone(cur) \/ ServeCtxDone(cur) \/ detachIf(cur)
  PROVE  EndInv' /\ EndsOnlyComplete'
  <1>1. ~ServeCtxDone(cur)
    BY CurUp DEF ServeCtxDone
  <1>2. /\ UNCHANGED <<cur, closed, recorded, lastID, out, gone>>
        /\ get'[cur] = (IF get[cur] = "cutting" THEN "cut" ELSE "ended")
        /\ get[cur] \in {"serving", "closing", "cutting"}
        /\ \A c \in Conns : c # cur => get'[c] = get[c]
    BY <1>1 DEF ServeGone, detachIf, TypeOK, streamVars, storeVars, clientVars
  <1>3. Ids(out[cur])' = Ids(out[cur]) /\ Due(cur)' = Due(cur)
    BY <1>2 DEF Ids, Due
  <1>4. CASE detachIf(cur)
    <2>1. get[cur] \in {"closing", "cutting"}
      BY <1>4 DEF detachIf
    <2> QED BY <1>2, <1>3, <2>1 DEF EndInv, EndsOnlyComplete
  <1>5. CASE ServeGone(cur)
    <2>1. PICK c \in 1..(cur - 1) : get[c] \in Attached
      BY <1>5 DEF EndInv, ServeGone
    <2>2. c \in Conns /\ c # cur
      BY ResumableAssumption DEF Conns, ResumableAssumption
    <2>3. get'[c] \in Attached
      BY <1>2, <2>1, <2>2
    <2>4. gone[cur] /\ \A i \in DOMAIN out[cur] : ~out[cur][i].last
      BY <1>5 DEF ServeGone, LastInv, LastOn
    <2>5. Overtaken'
      BY <1>2, <2>3, <2>4 DEF Overtaken, Attached
    <2> QED BY <1>2, <2>5 DEF EndInv, EndsOnlyComplete
  <1> QED BY <1>1, <1>4, <1>5

\* Another connection's handler may supersede the client's connection; it is
\* an older one.
LEMMA EndOther ==
  ASSUME TypeOK, CurInv, ConnInv, EndInv, EndsOnlyComplete, Attaches, cur \in Conns, cleanup = "no",
         NEW c \in Conns, c # cur, Handle(c) \/ deliverTransient(c)
  PROVE  EndInv' /\ EndsOnlyComplete'
  <1>1. /\ UNCHANGED <<cur, cleanup, closed, recorded>> /\ out'[cur] = out[cur]
        /\ lastID'[cur] = lastID[cur] /\ get'[cur] = get[cur]
    BY HandleFrame
  <1>2. CASE gone'[cur] = gone[cur]
    BY <1>1, <1>2, EndFrame
  <1>3. CASE gone'[cur] # gone[cur]
    <2>1. (replayAndAttach(c) \/ CutReplay(c)) /\ conn = cur /\ gone'[cur]
      BY <1>3 DEF Handle, CutReplay, serveListeningStream, handleResumeGet, FindStream,
           replayAndAttach, replayCut, ReplayUntracked, ServeEvent, ServeGone, ServeCtxDone,
           detachIf, deliverTransient, TypeOK, Superseded
    <2>2. c \in 1..(cur - 1) /\ get'[c] \in Attached
      BY <2>1, CurUp DEF replayAndAttach, CutReplay, replayCut, TypeOK, Attached
    <2>3. get[cur] \in {"serving", "closing", "cutting"}
      BY <2>1 DEF ConnInv
    <2>4. Ids(out[cur])' = Ids(out[cur]) /\ Due(cur)' = Due(cur)
      BY <1>1 DEF Ids, Due
    <2> QED BY <1>1, <2>2, <2>3, <2>4 DEF EndInv, EndsOnlyComplete
  <1> QED BY <1>2, <1>3

LEMMA EndStep ==
  /\ TypeOK /\ StoreInv /\ PushInv /\ TrackInv /\ CurInv /\ ConnInv /\ ChainInv /\ LastInv
  /\ EndInv /\ ClientReadsRun /\ EndsOnlyComplete /\ [Next]_vars
  => EndInv' /\ EndsOnlyComplete'
  <1> SUFFICES ASSUME TypeOK, StoreInv, PushInv, TrackInv, CurInv, ConnInv, ChainInv, LastInv,
                      EndInv, ClientReadsRun, EndsOnlyComplete, [Next]_vars
               PROVE  EndInv' /\ EndsOnlyComplete'
    OBVIOUS
  <1>1. CASE \E stored, last, ctxErr \in BOOLEAN : deliver(stored, last, ctxErr)
    BY <1>1, EndDeliver
  <1>2. CASE UNCHANGED <<get, gone, lastID, cur, cleanup, closed, recorded>>
             /\ \A c \in Conns : out'[c] = out[c]
    <2>1. Attaches
      BY <1>2 DEF Attaches
    <2>2. CASE cur \in Conns
      BY <1>2, <2>1, <2>2, EndFrame
    <2> QED BY <1>2, <2>2 DEF EndInv, EndsOnlyComplete
  <1>3. ASSUME NEW c \in Conns, Handle(c) \/ deliverTransient(c), cur \in Conns, cleanup = "no"
        PROVE  EndInv' /\ EndsOnlyComplete'
    <2>1. CASE c # cur
      <3>1. Attaches
        BY <1>3, HandleFrame
           DEF Handle, serveListeningStream, handleResumeGet, FindStream, replayAndAttach,
               replayCut,
               ReplayUntracked, ServeEvent, ServeGone, ServeCtxDone, detachIf, deliverTransient,
               TypeOK, Attached, Attaches
      <3> QED BY <1>3, <2>1, <3>1, EndOther
    <2>2. CASE c = cur /\ deliverTransient(c)
      BY <1>2, <2>2 DEF deliverTransient, streamVars, storeVars, clientVars
    <2> QED BY <1>3, <2>1, <2>2, EndLookup, EndReplay, EndCut, EndServe, EndLeave
           DEF Handle, CutReplay
  <1>4. ASSUME cur \notin Conns \/ cleanup # "no", NEW c \in Conns, Handle(c) \/ deliverTransient(c)
        PROVE  EndInv' /\ EndsOnlyComplete'
    BY <1>4, HandleFrame DEF EndInv, EndsOnlyComplete
  <1>5. ASSUME NEW c \in Conns, Reconnect(c) PROVE EndInv' /\ EndsOnlyComplete'
    <2>1. /\ cur' = c /\ get'[c] = get[c] /\ c = (IF cur \in Conns THEN cur + 1 ELSE 1)
      BY <1>5 DEF Reconnect, connVars
    <2>2. get[c] = "unused"
      BY <2>1, ResumableAssumption DEF CurInv, Conns, ResumableAssumption
    <2> QED BY <2>1, <2>2 DEF EndInv, EndsOnlyComplete
  <1>6. CASE CleanupPump \/ CleanupStreams \/ CleanupPurge
    BY <1>6 DEF CleanupPump, CleanupStreams, CleanupPurge, EndInv, EndsOnlyComplete
  <1>7. \/ \E stored, last, ctxErr \in BOOLEAN : deliver(stored, last, ctxErr)
        \/ \E c \in Conns : Handle(c) \/ deliverTransient(c) \/ Reconnect(c)
        \/ CleanupPump \/ CleanupStreams \/ CleanupPurge
        \/ UNCHANGED <<get, gone, lastID, cur, cleanup, closed, recorded>>
           /\ \A c \in Conns : out'[c] = out[c]
    <2>1. CASE PushToPost
      BY <2>1, ResumableAssumption
         DEF PushToPost, streamVars, storeVars, clientVars, TypeOK, Writers, Conns,
             ResumableAssumption
    <2> QED BY <2>1 DEF Next, Produce, PushToSink, PushDropped,
                 PushToPostFails, clearPostWriterIf, PumpExits, PostReturns, ClientReads,
                 vars, streamVars, storeVars, clientVars, connVars
  <1> QED BY <1>1, <1>2, <1>3, <1>4, <1>5, <1>6, <1>7

-----------------------------------------------------------------------------
(* The theorems.                                                           *)

LEMMA InitInv == Init => IInv
  <1> SUFFICES ASSUME Init PROVE IInv
    OBVIOUS
  <1>1. TypeOK
    BY TypeInit
  <1>2. /\ recorded = <<>> /\ log = <<>> /\ got = <<>> /\ DOMAIN <<>> = {} /\ Len(<<>>) = 0
        /\ cleanup = "no" /\ tracked = "none" /\ conn = None /\ ~postW /\ ~closed
        /\ hungUp = {} /\ read = 0
    BY EmptySeq DEF Init
  <1>3. \A c \in Conns : get[c] = "unused" /\ out[c] = <<>> /\ sink[c] = <<>> /\ ~gone[c]
                         /\ lastID[c] = 0
    BY DEF Init, Writers
  <1>4. push = Idle /\ push.pc = "idle" /\ push.to = None /\ push.msg.id = 0 /\ ~push.msg.last
    BY DEF Init, Idle
  <1>5. None \notin Conns /\ Post \notin Conns /\ Post \in Writers
    BY ResumableAssumption DEF ResumableAssumption, Conns, Writers
  <1>6. StoreInv
    BY <1>2 DEF StoreInv
  <1>7. PushInv
    BY <1>2, <1>4 DEF PushInv
  <1>8. TrackInv /\ CurInv /\ ConnInv
    BY <1>2, <1>3, <1>4, <1>5 DEF TrackInv, CurInv, ConnInv
  <1>9. ChainInv
    BY <1>3, EmptyMessages DEF ChainInv, NoGap
  <1>10. PostInv
    <2>1. out[Post] = <<>> /\ InHand(Post) = {} /\ ToSet(recorded) = {}
      BY <1>2, <1>4, <1>5, ResumableAssumption DEF Init, InHand, ToSet, ResumableAssumption
    <2> QED BY <2>1, EmptyMessages DEF PostInv, NoGap, Below
  <1>11. ReadInv
    <2>1. cur # None => out[cur] = <<>>
      BY DEF Init, Writers
    <2> QED BY <1>2, <2>1 DEF ReadInv
  <1>12. LastInv /\ EndInv /\ EndsOnlyComplete
    BY <1>3 DEF LastInv, EndInv, EndsOnlyComplete
  <1>13. ClientReadsRun
    BY <1>2 DEF ClientReadsRun
  <1> QED BY <1>1, <1>6, <1>7, <1>8, <1>9, <1>10, <1>11, <1>12, <1>13 DEF IInv

LEMMA StepInv == IInv /\ [Next]_vars => IInv'
  <1> SUFFICES ASSUME IInv, [Next]_vars PROVE IInv'
    OBVIOUS
  <1>1. /\ TypeOK /\ StoreInv /\ PushInv /\ TrackInv /\ CurInv /\ ConnInv
        /\ ChainInv /\ PostInv /\ ReadInv /\ LastInv /\ EndInv
        /\ ClientReadsRun /\ EndsOnlyComplete
    BY DEF IInv
  <1>2. TypeOK' /\ StoreInv' /\ PushInv' /\ TrackInv' /\ CurInv' /\ ConnInv'
    BY <1>1, TypeStep, StoreStep, PushStep, TrackStep, CurStep, ConnStep
  <1>3. ChainInv' /\ PostInv' /\ ReadInv' /\ LastInv'
    BY <1>1, ChainStep, PostStep, ReadStep, LastStep
  <1>4. EndInv' /\ ClientReadsRun' /\ EndsOnlyComplete'
    BY <1>1, EndStep, RunStep
  <1> QED BY <1>2, <1>3, <1>4 DEF IInv

LEMMA Invariance == Spec => []IInv
  BY InitInv, StepInv, PTL DEF Spec

\* Every variable has its type, and no sink holds more than its capacity
\* (newSSEConn's channel).
THEOREM ResumableTypes == Spec => []TypeOK
  <1>1. IInv => TypeOK
    BY DEF IInv
  <1> QED BY <1>1, Invariance, PTL

\* A served connection carries what was recorded after its Last-Event-ID,
\* through the replay or live, "never both and never neither" (replayAndAttach,
\* attach, deliver).
THEOREM NothingTwiceNothingLost == Spec => []NeverBothNeverNeither
  <1>1. ASSUME IInv PROVE NeverBothNeverNeither
    <2> SUFFICES ASSUME NEW c \in Conns, get[c] = "serving"
                 PROVE  /\ InOrder(Carried(c)) /\ NoGap(Ids(Carried(c)), Due(c))
                        /\ conn = c /\ ~gone[c] => Due(c) \ Ids(Carried(c)) = InHand(c)
      BY DEF NeverBothNeverNeither
    <2>1. InOrder(out[c]) /\ Chained(c) /\ TypeOK
      BY <1>1 DEF IInv, ChainInv
    <2>2. out[c] \in Seq(Messages) /\ sink[c] \in Seq(Messages)
      BY <2>1 DEF TypeOK, Writers
    <2> DEFINE A == Ids(out[c]) \union Ids(sink[c])
    <2>3. Ids(Carried(c)) = A /\ InOrder(Carried(c))
      <3>1. Below(Ids(out[c]), Ids(sink[c])) /\ InOrder(sink[c])
        BY <2>1 DEF Chained, Below
      <3> QED BY <2>1, <2>2, <3>1, JoinMessages DEF Carried
    <2>4. Chain(c) = A \union InHand(c) /\ Below(A, InHand(c)) /\ NoGap(Chain(c), Due(c))
      BY <2>1 DEF Chain, Chained, Below
    <2>5. Due(c) \in SUBSET Int
      BY <2>1, DueTyped
    <2> HIDE DEF A
    <2>6. NoGap(A, Due(c))
      BY <2>4, <2>5, NoGapPrefix
    <2>7. ASSUME conn = c PROVE Due(c) \ A = InHand(c)
      <3>1. Due(c) \subseteq A \union InHand(c) /\ A \union InHand(c) \subseteq Due(c)
        BY <2>1, <2>4, <2>7 DEF Chained, NoGap
      <3>2. ASSUME NEW e \in A, e \in InHand(c) PROVE FALSE
        <4>1. e < e /\ e \in Int
          BY <2>4, <2>5, <3>1, <3>2 DEF Below
        <4> QED BY <4>1
      <3> QED BY <3>1, <3>2
    <2> QED BY <2>3, <2>6, <2>7
  <1> QED BY <1>1, Invariance, PTL

\* The client reads a run of the recorded events over all its connections
\* (handleResumeGet, serve, deliver).
THEOREM ReadsRun == Spec => []ClientReadsRun
  <1>1. IInv => ClientReadsRun
    BY DEF IInv
  <1> QED BY <1>1, Invariance, PTL

\* The server ends the client's connection only once it carried everything of
\* a complete stream, or another one overtook it (replayAndAttach, serve).
THEOREM EndsComplete == Spec => []EndsOnlyComplete
  <1>1. IInv => EndsOnlyComplete
    BY DEF IInv
  <1> QED BY <1>1, Invariance, PTL
=============================================================================
