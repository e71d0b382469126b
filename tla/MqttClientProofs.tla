-------------------------- MODULE MqttClientProofs --------------------------
(***************************************************************************)
(* What holds of MqttClient for every set of topics and callers, and any   *)
(* number of starts, connections and packets.                              *)
(***************************************************************************)
EXTENDS MqttClient, SequenceTheorems, FiniteSetTheorems, TLAPS

(* The owner's step tells whether the library handle exists and whether it was
   asked to disconnect; the loop thread's step tells what the library knows of
   its socket and what the connect callback reported. *)
ControlInv ==
  /\ closing <=> owner_pc \in {"joinStart", "joinStop"}
  /\ owner_pc \in {"joinStart", "joinStop", "wait", "posted", "timedOut"} => mosq
  /\ owner_pc = "open" => ~mosq
  /\ ~mosq => net_pc = "off"
  /\ net_pc \in {"off", "lost"} => link = "down"
  /\ net_pc = "connack" => link # "opening"
  /\ net_pc = "resub" => link = "up"
  /\ net_pc # "lost" => (connection_ready <=> link = "up")

(* Only a call knows a topic; the map is finite. *)
CallInv ==
  /\ \A c \in Callers : call[c] = Idle \/ (call[c].pc # "idle" /\ call[c].topic \in Topics)
  /\ IsFiniteSet(sub_topics)

(* Nothing of a connection outlives it. *)
SocketInv ==
  link = "down" =>
    /\ out = << >> /\ broker_subs = {}
    /\ \A c \in Callers : ~call[c].sent

(* The topics the broker will hold once it has taken the packets under way:
   the last packet about a topic decides. *)
Mentions(q, t) == \E i \in DOMAIN q : q[i].topic = t
EndsSubscribed(q, t) ==
  \E i \in DOMAIN q : /\ q[i].topic = t
                      /\ q[i].op = "SUBSCRIBE"
                      /\ \A j \in DOMAIN q : j > i => q[j].topic # t
HeldAfter(q, subs) == {t \in Topics : EndsSubscribed(q, t) \/ (t \in subs /\ ~Mentions(q, t))}
Held == HeldAfter(out, broker_subs)

(* The connection stands and its connect callback has run to the end. *)
Settled == link = "up" /\ net_pc = "loop"

(* Between calls: nothing is held that the map does not have, and once the
   callback is through everything the map has is held. *)
QuietInv ==
  \A t \in Topics \ raced : Quiet(t) =>
    /\ t \in Held => t \in sub_topics
    /\ Settled /\ t \in sub_topics => t \in Held

(* Between the packet of a call and its update of the map: its packet was the
   last one about the topic, or the topic has none on this connection; two such
   calls on a topic not in "raced" were both overtaken by a lost connection. *)
PendingInv ==
  \A c \in Callers, t \in Topics \ raced : Pending(c, t) =>
    /\ Settled => call[c].sent
    /\ t \in Held <=> call[c].sent /\ call[c].pc = "store"
    /\ Overlaps(c, t) => ~call[c].sent

IInv == TypeOK /\ ControlInv /\ CallInv /\ SocketInv /\ QuietInv /\ PendingInv

-----------------------------------------------------------------------------
(* What a packet does to the topics that will be held. *)

LEMMA HeldEmpty == HeldAfter(<< >>, {}) = {}
BY DEF HeldAfter, EndsSubscribed, Mentions

LEMMA HeldAppend ==
  ASSUME NEW q \in Seq(Packet), NEW subs \in SUBSET Topics, NEW p \in Packet
  PROVE  HeldAfter(Append(q, p), subs) =
           IF p.op = "SUBSCRIBE" THEN HeldAfter(q, subs) \cup {p.topic}
                                 ELSE HeldAfter(q, subs) \ {p.topic}
<1> DEFINE r == Append(q, p)
<1>1. /\ DOMAIN q = 1..Len(q) /\ Len(q) \in Nat
      /\ DOMAIN r = 1..(Len(q) + 1)
      /\ r[Len(q) + 1] = p
      /\ \A i \in 1..Len(q) : r[i] = q[i]
  OBVIOUS
<1> HIDE DEF r
<1>2. p.topic \in Topics
  BY DEF Packet
<1>3. \A t \in Topics : Mentions(r, t) <=> t = p.topic \/ Mentions(q, t)
  BY <1>1 DEF Mentions
<1>4. EndsSubscribed(r, p.topic) <=> p.op = "SUBSCRIBE"
  BY <1>1 DEF EndsSubscribed
<1>5. ASSUME NEW t \in Topics, t # p.topic
      PROVE  EndsSubscribed(r, t) <=> EndsSubscribed(q, t)
  <2>1. ASSUME EndsSubscribed(r, t) PROVE EndsSubscribed(q, t)
    BY <1>1, <1>5, <2>1 DEF EndsSubscribed
  <2>2. ASSUME EndsSubscribed(q, t) PROVE EndsSubscribed(r, t)
    BY <1>1, <1>5, <2>2 DEF EndsSubscribed
  <2> QED
    BY <2>1, <2>2
<1>6. \A t \in Topics : t \in HeldAfter(r, subs) <=>
        IF t = p.topic THEN p.op = "SUBSCRIBE" ELSE t \in HeldAfter(q, subs)
  BY <1>3, <1>4, <1>5 DEF HeldAfter
<1>7. HeldAfter(r, subs) \subseteq Topics /\ HeldAfter(q, subs) \subseteq Topics
  BY DEF HeldAfter
<1> QED
  BY <1>2, <1>6, <1>7 DEF r

(* What the broker holds after it took the first packet. *)
Taken(q, subs) == IF Head(q).op = "SUBSCRIBE" THEN subs \cup {Head(q).topic}
                                              ELSE subs \ {Head(q).topic}

LEMMA HeldTail ==
  ASSUME NEW q \in Seq(Packet), q # << >>, NEW subs \in SUBSET Topics
  PROVE  HeldAfter(Tail(q), Taken(q, subs)) = HeldAfter(q, subs)
<1> DEFINE r == Tail(q)
<1>1. /\ DOMAIN q = 1..Len(q) /\ Len(q) \in Nat /\ Len(q) > 0
      /\ DOMAIN r = 1..(Len(q) - 1)
      /\ Head(q) = q[1] /\ Head(q) \in Packet
      /\ \A i \in 1..(Len(q) - 1) : r[i] = q[i + 1]
  OBVIOUS
<1> HIDE DEF r
<1>2. ASSUME NEW t \in Topics
      PROVE  Mentions(q, t) <=> t = q[1].topic \/ Mentions(r, t)
  <2>1. \A i \in 2..Len(q) : i - 1 \in DOMAIN r /\ r[i - 1] = q[i]
    BY <1>1
  <2> QED
    BY <1>1, <2>1 DEF Mentions
<1>3. ASSUME NEW t \in Topics
      PROVE  EndsSubscribed(q, t) <=>
               EndsSubscribed(r, t) \/ (q[1].topic = t /\ q[1].op = "SUBSCRIBE" /\ ~Mentions(r, t))
  <2>1. \A i \in 2..Len(q) : i - 1 \in DOMAIN r /\ r[i - 1] = q[i]
    BY <1>1
  <2>2. ASSUME EndsSubscribed(q, t)
        PROVE  EndsSubscribed(r, t) \/ (q[1].topic = t /\ q[1].op = "SUBSCRIBE" /\ ~Mentions(r, t))
    <3>1. PICK i \in DOMAIN q : /\ q[i].topic = t /\ q[i].op = "SUBSCRIBE"
                                /\ \A j \in DOMAIN q : j > i => q[j].topic # t
      BY <2>2 DEF EndsSubscribed
    <3>2. CASE i = 1
      BY <1>1, <3>1, <3>2 DEF Mentions
    <3>3. CASE i # 1
      <4>1. i - 1 \in DOMAIN r /\ r[i - 1] = q[i]
        BY <1>1, <2>1, <3>3
      <4>2. \A j \in DOMAIN r : j > i - 1 => r[j].topic # t
        BY <1>1, <3>1
      <4> QED
        BY <3>1, <4>1, <4>2 DEF EndsSubscribed
    <3> QED
      BY <3>2, <3>3
  <2>3. ASSUME EndsSubscribed(r, t) PROVE EndsSubscribed(q, t)
    <3>1. PICK i \in DOMAIN r : /\ r[i].topic = t /\ r[i].op = "SUBSCRIBE"
                                /\ \A j \in DOMAIN r : j > i => r[j].topic # t
      BY <2>3 DEF EndsSubscribed
    <3>2. i + 1 \in DOMAIN q /\ q[i + 1] = r[i]
      BY <1>1
    <3>3. \A j \in DOMAIN q : j > i + 1 => q[j].topic # t
      BY <1>1, <2>1, <3>1
    <3> QED
      BY <3>1, <3>2, <3>3 DEF EndsSubscribed
  <2>4. ASSUME q[1].topic = t, q[1].op = "SUBSCRIBE", ~Mentions(r, t) PROVE EndsSubscribed(q, t)
    BY <1>1, <2>1, <2>4 DEF EndsSubscribed, Mentions
  <2> QED
    BY <2>2, <2>3, <2>4
<1>4. ASSUME NEW t \in Topics PROVE EndsSubscribed(r, t) => Mentions(r, t)
  BY DEF EndsSubscribed, Mentions
<1>5. ASSUME NEW t \in Topics
      PROVE  t \in HeldAfter(r, Taken(q, subs)) <=> t \in HeldAfter(q, subs)
  BY <1>1, <1>2, <1>3, <1>4 DEF HeldAfter, Taken, Packet
<1>6. HeldAfter(r, Taken(q, subs)) \subseteq Topics /\ HeldAfter(q, subs) \subseteq Topics
  BY DEF HeldAfter
<1> QED
  BY <1>5, <1>6 DEF r

LEMMA HeldResubscribed ==
  ASSUME NEW q \in Seq(Packet), NEW subs \in SUBSET Topics,
         NEW S \in SUBSET Topics, IsFiniteSet(S), NEW order \in Orders(S)
  PROVE  /\ q \o Resubscribes(order) \in Seq(Packet)
         /\ HeldAfter(q \o Resubscribes(order), subs) = HeldAfter(q, subs) \cup S
<1> DEFINE n == Cardinality(S)
           a == Resubscribes(order)
           r == q \o a
<1>1. n \in Nat /\ order \in [1..n -> S] /\ \A s \in S : \E i \in 1..n : order[i] = s
  BY FS_CardinalityType DEF Orders
<1>2. a \in [1..n -> Packet] /\ \A i \in 1..n : a[i].topic = order[i] /\ a[i].op = "SUBSCRIBE"
  BY <1>1 DEF Resubscribes, Packet
<1>3. a \in Seq(Packet) /\ Len(a) = n
  BY <1>1, <1>2
<1> HIDE DEF a
<1>4. /\ r \in Seq(Packet) /\ Len(r) = Len(q) + n
      /\ \A i \in 1..Len(q) : r[i] = q[i]
      /\ \A i \in 1..n : r[Len(q) + i] = a[i]
  <2>1. /\ r \in Seq(Packet) /\ Len(r) = Len(q) + n
        /\ \A i \in 1..Len(r) : r[i] = IF i <= Len(q) THEN q[i] ELSE a[i - Len(q)]
    BY <1>3, ConcatProperties
  <2> HIDE DEF r, n
  <2>2. \A i \in 1..n : Len(q) + i \in 1..Len(r) /\ ~(Len(q) + i <= Len(q)) /\ (Len(q) + i) - Len(q) = i
    BY <1>1, <2>1 DEF n
  <2>3. \A i \in 1..Len(q) : i \in 1..Len(r) /\ i <= Len(q)
    BY <1>1, <2>1 DEF n
  <2>4. \A i \in 1..n : r[Len(q) + i] = a[i]
    BY <2>1, <2>2
  <2> QED
    BY <2>1, <2>3, <2>4
<1>5. DOMAIN q = 1..Len(q) /\ Len(q) \in Nat /\ DOMAIN r = 1..(Len(q) + n)
  BY <1>4
<1> HIDE DEF r, n
<1>6. \A i, j \in 1..n : order[i] = order[j] => i = j
  <2>1. order \in Surjection(1..n, S)
    BY <1>1 DEF Surjection
  <2>2. IsFiniteSet(1..n) /\ Cardinality(1..n) = Cardinality(S)
    BY <1>1, FS_Interval DEF n
  <2>3. order \in Injection(1..n, S)
    BY <2>1, <2>2, FS_SurjSameCardinalityImpliesInj
  <2> QED
    BY <2>3 DEF Injection, IsInjective
<1>7. ASSUME NEW t \in S PROVE EndsSubscribed(r, t)
  <2>1. PICK k \in 1..n : order[k] = t
    BY <1>1
  <2>2. /\ Len(q) + k \in DOMAIN r
        /\ r[Len(q) + k].topic = t /\ r[Len(q) + k].op = "SUBSCRIBE"
    BY <1>1, <1>2, <1>4, <1>5, <2>1
  <2>3. ASSUME NEW j \in DOMAIN r, j > Len(q) + k PROVE r[j].topic # t
    <3>1. j - Len(q) \in 1..n /\ j - Len(q) # k /\ j = Len(q) + (j - Len(q))
      BY <1>1, <1>5, <2>3
    <3>2. r[j] = a[j - Len(q)] /\ r[j].topic = order[j - Len(q)]
      BY <1>2, <1>4, <3>1
    <3> QED
      BY <1>6, <2>1, <3>1, <3>2
  <2> QED
    BY <2>2, <2>3 DEF EndsSubscribed
<1>8. ASSUME NEW t \in Topics, t \notin S
      PROVE  /\ Mentions(r, t) <=> Mentions(q, t)
             /\ EndsSubscribed(r, t) <=> EndsSubscribed(q, t)
  <2>1. ASSUME NEW j \in DOMAIN r, j \notin DOMAIN q PROVE r[j].topic # t
    <3>1. j - Len(q) \in 1..n /\ j = Len(q) + (j - Len(q))
      BY <1>1, <1>5, <2>1
    <3>2. r[j].topic = order[j - Len(q)] /\ order[j - Len(q)] \in S
      BY <1>1, <1>2, <1>4, <3>1
    <3> QED
      BY <1>8, <3>2
  <2>2. \A j \in DOMAIN q : j \in DOMAIN r /\ r[j] = q[j]
    BY <1>1, <1>4, <1>5
  <2> HIDE <1>4, <1>5
  <2> QED
    BY <2>1, <2>2 DEF Mentions, EndsSubscribed
<1>9. ASSUME NEW t \in Topics
      PROVE  t \in HeldAfter(r, subs) <=> t \in HeldAfter(q, subs) \cup S
  BY <1>7, <1>8 DEF HeldAfter
<1>10. HeldAfter(r, subs) \subseteq Topics /\ HeldAfter(q, subs) \subseteq Topics
  BY DEF HeldAfter
<1> QED
  BY <1>4, <1>9, <1>10 DEF r, a

-----------------------------------------------------------------------------
(* The steps of Next, with what each does to the shared state named. *)

CallRecord == [pc : {"idle", "send", "store", "erase"}, topic : Topics \cup {NoTopic},
               sent : BOOLEAN]

(* Caller c goes on with the record r; nobody else moves. *)
Moves(c, r) ==
  /\ r \in CallRecord
  /\ call' = [call EXCEPT ![c] = r]

LEMMA MovesOne ==
  ASSUME NEW c \in Callers, NEW r, call \in [Callers -> CallRecord], Moves(c, r)
  PROVE  /\ call' \in [Callers -> CallRecord]
         /\ call'[c] = r
         /\ \A d \in Callers \ {c} : call'[d] = call[d]
BY DEF Moves

(* A call hands its packet over. *)
LEMMA SendsMove ==
  ASSUME TypeOK, CallInv, ControlInv, NEW c \in Callers, SubscribeSend(c)
  PROVE  /\ call[c].topic \in Topics
         /\ Moves(c, [pc |-> "store", topic |-> call[c].topic, sent |-> HasSocket])
<1>1. call[c].topic \in Topics
  BY DEF CallInv, Idle, SubscribeSend
<1>3. HasSocket \in BOOLEAN
  BY DEF HasSocket, TypeOK
<1> QED
  BY <1>1, <1>3 DEF Moves, CallRecord, SubscribeSend

LEMMA SocketGoneType ==
  ASSUME call \in [Callers -> CallRecord], SocketGone
  PROVE  /\ call' \in [Callers -> CallRecord]
         /\ \A c \in Callers : /\ call'[c].pc = call[c].pc
                               /\ call'[c].topic = call[c].topic
                               /\ ~call'[c].sent
BY DEF SocketGone, CallRecord

LEMMA SendType ==
  ASSUME out \in Seq(Packet), NEW t \in Topics, NEW op \in {"SUBSCRIBE", "UNSUBSCRIBE"},
         Send(op, t)
  PROVE  out' \in Seq(Packet)
<1>1. [op |-> op, topic |-> t] \in Packet
  BY DEF Packet
<1> QED
  BY <1>1 DEF Send

LEMMA ControlKeeps == TypeOK /\ ControlInv /\ CallInv /\ [Next]_vars => ControlInv'
<1> SUFFICES ASSUME TypeOK, ControlInv, [Next]_vars PROVE ControlInv'
  OBVIOUS
<1> USE DEF ControlInv
<1>1. CASE Owner
  BY <1>1 DEF Owner, StartClient, StopClient, CloseClient, OpenClient, WaitPosted, WaitTimedOut,
              StartReturns, LoopJoined, netVars, clientVars, TypeOK
<1>2. ASSUME NEW c \in Callers, Caller(c) PROVE ControlInv'
  BY <1>2 DEF Caller, CallSteps, SubscribeCheck, SubscribeSend, SubscribeStore, UnsubscribeSend,
              UnsubscribeErase, clientVars, ownerVars, netVars
<1>3. CASE Net
  BY <1>3 DEF Net, NetConnect, NetConnack, Callback, NetPost, NetResubscribe, NetDisconnected,
              NetLost, NetQuit, SocketGone, Ready, AfterDisconnect, clientVars, ownerVars, TypeOK
<1>4. CASE BrokerTakes
  BY <1>4 DEF BrokerTakes, clientVars, ownerVars, netVars
<1>5. CASE UNCHANGED vars
  BY <1>5 DEF vars, clientVars, ownerVars, netVars
<1> QED
  BY <1>1, <1>2, <1>3, <1>4, <1>5 DEF Next

(* What the socket takes with it, or a call hands over. *)
LEMMA TypeKeeps == TypeOK /\ ControlInv /\ CallInv /\ [Next]_vars => TypeOK'
<1> SUFFICES ASSUME TypeOK, ControlInv, CallInv, [Next]_vars PROVE TypeOK'
  OBVIOUS
<1> USE DEF TypeOK
<1>c. call \in [Callers -> CallRecord]
  BY DEF CallRecord
<1>d. call' \in [Callers -> CallRecord] => (call \in [Callers -> CallRecord])'
  OBVIOUS
<1>1. CASE Owner
  <2> USE DEF netVars, clientVars, brokerVars, historyVars
  <2>1. ASSUME NEW wait \in BOOLEAN, StartClient(wait) PROVE TypeOK'
    BY <2>1, MqttClientAssumption DEF StartClient
  <2>2. CASE StopClient \/ CloseClient
    BY <2>2 DEF StopClient, CloseClient
  <2>3. CASE OpenClient
    BY <2>3 DEF OpenClient
  <2>4. CASE WaitPosted
    BY <2>4 DEF WaitPosted, Posted
  <2>5. CASE WaitTimedOut \/ StartReturns
    BY <2>5 DEF WaitTimedOut, StartReturns
  <2> QED
    BY <1>1, <2>1, <2>2, <2>3, <2>4, <2>5 DEF Owner
<1>2. ASSUME NEW c \in Callers, NEW t \in Topics, SubscribeCheck(c, t) PROVE TypeOK'
  <2>1. Moves(c, [pc |-> "send", topic |-> t, sent |-> FALSE])
    BY <1>2 DEF SubscribeCheck, Moves, CallRecord
  <2>2. (call \in [Callers -> CallRecord])'
    BY <1>c, <2>1, MovesOne
  <2> QED
    BY <1>2, <2>2 DEF SubscribeCheck, clientVars, ownerVars, netVars, brokerVars, historyVars, CallRecord
<1>3. ASSUME NEW c \in Callers, SubscribeSend(c) PROVE TypeOK'
  <2>1. /\ call[c].topic \in Topics
        /\ Moves(c, [pc |-> "store", topic |-> call[c].topic, sent |-> HasSocket])
    BY <1>3, SendsMove
  <2>2. (call \in [Callers -> CallRecord])'
    BY <1>c, <2>1, MovesOne
  <2>3. out' \in Seq(Packet)
    BY <1>3, <2>1, SendType DEF SubscribeSend
  <2> QED
    BY <1>3, <2>1, <2>2, <2>3 DEF SubscribeSend, NoteOverlap, clientVars, ownerVars, netVars, CallRecord
<1>4. ASSUME NEW c \in Callers, SubscribeStore(c) \/ UnsubscribeErase(c) PROVE TypeOK'
  <2>1. call[c].topic \in Topics
    BY <1>4 DEF CallInv, Idle, SubscribeStore, UnsubscribeErase
  <2>2. Moves(c, Idle)
    BY <1>4 DEF SubscribeStore, UnsubscribeErase, Moves, Idle, CallRecord
  <2>3. (call \in [Callers -> CallRecord])'
    BY <1>c, <2>2, MovesOne
  <2> QED
    BY <1>4, <2>1, <2>3
    DEF SubscribeStore, UnsubscribeErase, Stored, Erased, clientVars, ownerVars, netVars, brokerVars,
        CallRecord
<1>5. ASSUME NEW c \in Callers, NEW t \in Topics, UnsubscribeSend(c, t) PROVE TypeOK'
  <2>1. Moves(c, [pc |-> "erase", topic |-> t, sent |-> HasSocket])
    BY <1>5 DEF UnsubscribeSend, Moves, CallRecord, HasSocket
  <2>2. (call \in [Callers -> CallRecord])'
    BY <1>c, <2>1, MovesOne
  <2>3. out' \in Seq(Packet)
    BY <1>5, SendType DEF UnsubscribeSend
  <2> QED
    BY <1>5, <2>2, <2>3 DEF UnsubscribeSend, NoteOverlap, clientVars, ownerVars, netVars, CallRecord
<1>6. CASE NetConnect \/ NetPost \/ NetDisconnected \/ NetQuit
  <2> USE DEF clientVars, ownerVars, brokerVars, historyVars
  <2>1. CASE NetConnect
    BY <2>1, MqttClientAssumption DEF NetConnect
  <2>2. CASE NetPost
    BY <2>2 DEF NetPost
  <2>3. CASE NetDisconnected \/ NetQuit
    BY <2>3 DEF NetDisconnected, NetQuit, AfterDisconnect
  <2> QED
    BY <1>6, <2>1, <2>2, <2>3
<1>7. ASSUME SocketGone PROVE (call \in [Callers -> CallRecord])' /\ out' \in Seq(Packet)
  BY <1>7, <1>c, SocketGoneType DEF SocketGone
<1>8. ASSUME NEW accepted \in BOOLEAN, NetConnack(accepted) PROVE TypeOK'
  BY <1>8, <1>7, <1>c
  DEF NetConnack, Ready, SocketGone, clientVars, ownerVars, historyVars, CallRecord
<1>9. CASE NetLost
  <2>1. SocketGone
    BY <1>9 DEF NetLost
  <2>2. link' = "down" /\ broker_subs' = {}
    BY <2>1 DEF SocketGone
  <2> QED
    BY <1>9, <1>7, <2>1, <2>2 DEF NetLost, clientVars, ownerVars, historyVars, CallRecord
<1>10. CASE NetResubscribe
  <2>1. PICK order \in Orders(sub_topics) : out' = out \o Resubscribes(order)
    BY <1>10 DEF NetResubscribe
  <2>2. out' \in Seq(Packet)
    <3>1. out \in Seq(Packet) /\ broker_subs \in SUBSET Topics /\ sub_topics \in SUBSET Topics
          /\ IsFiniteSet(sub_topics)
      BY DEF CallInv
    <3> QED
      BY <2>1, <3>1, HeldResubscribed
  <2> QED
    BY <1>10, <2>2 DEF NetResubscribe, Overtaken, clientVars, ownerVars
<1>11. CASE BrokerTakes
  <2>1. Head(out) \in Packet /\ Tail(out) \in Seq(Packet)
    BY <1>11 DEF BrokerTakes
  <2> QED
    BY <1>11, <2>1 DEF BrokerTakes, Packet, clientVars, ownerVars, netVars, historyVars
<1>12. CASE UNCHANGED vars
  BY <1>12 DEF vars, clientVars, ownerVars, netVars, brokerVars, historyVars
<1>13. \A c \in Callers : TopicsOf[c] \subseteq Topics
  BY MqttClientAssumption
<1> QED
  BY <1>1, <1>2, <1>3, <1>4, <1>5, <1>6, <1>8, <1>9, <1>10, <1>11, <1>12, <1>13
  DEF Next, Caller, CallSteps, Net, Callback

-----------------------------------------------------------------------------
(* The topics that will be held, step by step. *)

LEMMA HeldSent ==
  ASSUME TypeOK, NEW t \in Topics, NEW op \in {"SUBSCRIBE", "UNSUBSCRIBE"}, Send(op, t),
         UNCHANGED broker_subs
  PROVE  Held' = IF ~HasSocket THEN Held
                 ELSE IF op = "SUBSCRIBE" THEN Held \cup {t} ELSE Held \ {t}
<1>1. [op |-> op, topic |-> t] \in Packet
  BY DEF Packet
<1>2. out \in Seq(Packet) /\ broker_subs \in SUBSET Topics
  BY DEF TypeOK
<1>3. Held' = HeldAfter(out', broker_subs)
  BY DEF Held
<1> QED
  BY <1>1, <1>2, <1>3, HeldAppend DEF Held, Send

LEMMA HeldGone == (SocketGone => Held' = {}) /\ (SocketInv /\ link = "down" => Held = {})
BY HeldEmpty DEF SocketGone, SocketInv, Held

LEMMA HeldTaken == TypeOK /\ BrokerTakes => Held' = Held
<1> SUFFICES ASSUME TypeOK, BrokerTakes PROVE Held' = Held
  OBVIOUS
<1>1. out \in Seq(Packet) /\ broker_subs \in SUBSET Topics /\ out # << >>
  BY DEF TypeOK, BrokerTakes
<1>2. out' = Tail(out) /\ broker_subs' = Taken(out, broker_subs)
  BY DEF BrokerTakes, Taken
<1> QED
  BY <1>1, <1>2, HeldTail DEF Held

LEMMA HeldResub == TypeOK /\ CallInv /\ NetResubscribe => Held' = Held \cup sub_topics
<1> SUFFICES ASSUME TypeOK, CallInv, NetResubscribe PROVE Held' = Held \cup sub_topics
  OBVIOUS
<1>1. /\ out \in Seq(Packet) /\ broker_subs \in SUBSET Topics
      /\ sub_topics \in SUBSET Topics /\ IsFiniteSet(sub_topics)
  BY DEF TypeOK, CallInv
<1>2. PICK order \in Orders(sub_topics) : out' = out \o Resubscribes(order)
  BY DEF NetResubscribe
<1>3. UNCHANGED broker_subs
  BY DEF NetResubscribe
<1> QED
  BY <1>1, <1>2, <1>3, HeldResubscribed DEF Held

(* A step that leaves calls, packets and the map alone. *)
LEMMA QuietFrame ==
  ASSUME QuietInv, PendingInv, UNCHANGED <<call, Held, sub_topics, raced>>, Settled' => Settled
  PROVE  QuietInv' /\ PendingInv'
<1>1. QuietInv'
  BY DEF QuietInv, Quiet, Pending
<1>2. PendingInv'
  BY DEF PendingInv, Overlaps, Pending
<1> QED
  BY <1>1, <1>2

(* The calls stay calls of known topics, the map stays finite, and a socket
   that is gone leaves nothing behind. *)
LEMMA CallKeeps ==
  TypeOK /\ ControlInv /\ CallInv /\ SocketInv /\ [Next]_vars => CallInv' /\ SocketInv'
<1> SUFFICES ASSUME TypeOK, ControlInv, CallInv, SocketInv, [Next]_vars
             PROVE  CallInv' /\ SocketInv'
  OBVIOUS
<1>c. call \in [Callers -> CallRecord]
  BY DEF TypeOK, CallRecord
<1>f. UNCHANGED <<call, sub_topics, out, broker_subs>> /\ (link' = "down" => link = "down")
        => CallInv' /\ SocketInv'
  BY DEF CallInv, SocketInv
<1>g. SocketGone /\ UNCHANGED sub_topics => CallInv' /\ SocketInv'
  <2> SUFFICES ASSUME SocketGone, UNCHANGED sub_topics PROVE CallInv' /\ SocketInv'
    OBVIOUS
  <2>1. ASSUME NEW c \in Callers
        PROVE  call'[c] = Idle \/ (call'[c].pc # "idle" /\ call'[c].topic \in Topics)
    <3>1. call'[c] = [pc |-> call[c].pc, topic |-> call[c].topic, sent |-> FALSE]
      BY DEF SocketGone
    <3>2. Idle.pc = "idle" /\ Idle.topic = NoTopic
      BY DEF Idle
    <3>3. call[c] = Idle => call'[c] = [pc |-> "idle", topic |-> NoTopic, sent |-> FALSE]
      BY <3>1, <3>2
    <3>4. call[c] = Idle => call'[c] = Idle
      BY <3>3 DEF Idle
    <3> QED
      BY <1>c, <3>4, SocketGoneType DEF CallInv
  <2> QED
    BY <1>c, <2>1, SocketGoneType DEF CallInv, SocketInv, SocketGone
<1>m. ASSUME NEW c \in Callers, NEW r, Moves(c, r), IsFiniteSet(sub_topics'),
             r = Idle \/ (r.pc # "idle" /\ r.topic \in Topics),
             UNCHANGED <<link, broker_subs>>,
             link = "down" => out' = out /\ ~r.sent
      PROVE  CallInv' /\ SocketInv'
  BY <1>c, <1>m, MovesOne DEF CallInv, SocketInv
<1>n. HasSocket => link # "down"
  BY DEF HasSocket
<1>1. CASE Owner
  BY <1>1, <1>f DEF Owner, StartClient, StopClient, CloseClient, OpenClient, WaitPosted, WaitTimedOut,
                    StartReturns, netVars, brokerVars
<1>2. ASSUME NEW c \in Callers, NEW t \in Topics, SubscribeCheck(c, t) PROVE CallInv' /\ SocketInv'
  <2> DEFINE r == [pc |-> "send", topic |-> t, sent |-> FALSE]
  <2>1. Moves(c, r)
    BY <1>2 DEF SubscribeCheck, Moves, CallRecord
  <2>2. r.pc # "idle" /\ r.topic \in Topics /\ ~r.sent
    OBVIOUS
  <2> HIDE DEF r
  <2> QED
    BY <1>2, <1>m, <2>1, <2>2 DEF SubscribeCheck, brokerVars, netVars, CallInv
<1>3. ASSUME NEW c \in Callers, SubscribeSend(c) PROVE CallInv' /\ SocketInv'
  <2> DEFINE r == [pc |-> "store", topic |-> call[c].topic, sent |-> HasSocket]
  <2>1. call[c].topic \in Topics /\ Moves(c, r)
    BY <1>3, SendsMove
  <2>2. r.pc # "idle" /\ r.topic \in Topics /\ (r.sent <=> HasSocket)
    BY <2>1
  <2>3. ~HasSocket => out' = out
    BY <1>3 DEF SubscribeSend, Send
  <2> HIDE DEF r
  <2> QED
    BY <1>3, <1>m, <1>n, <2>1, <2>2, <2>3 DEF SubscribeSend, netVars, CallInv
<1>4. ASSUME NEW c \in Callers, SubscribeStore(c) \/ UnsubscribeErase(c) PROVE CallInv' /\ SocketInv'
  <2>1. Moves(c, Idle)
    BY <1>4 DEF SubscribeStore, UnsubscribeErase, Moves, Idle, CallRecord
  <2>2. IsFiniteSet(sub_topics')
    BY <1>4, FS_AddElement, FS_RemoveElement DEF SubscribeStore, UnsubscribeErase, Stored, Erased, CallInv
  <2>3. ~Idle.sent
    BY DEF Idle
  <2> QED
    BY <1>4, <1>m, <2>1, <2>2, <2>3 DEF SubscribeStore, UnsubscribeErase, brokerVars, netVars
<1>5. ASSUME NEW c \in Callers, NEW t \in Topics, UnsubscribeSend(c, t) PROVE CallInv' /\ SocketInv'
  <2> DEFINE r == [pc |-> "erase", topic |-> t, sent |-> HasSocket]
  <2>1. Moves(c, r)
    BY <1>5 DEF UnsubscribeSend, Moves, CallRecord, HasSocket, TypeOK
  <2>2. r.pc # "idle" /\ r.topic \in Topics /\ (r.sent <=> HasSocket)
    OBVIOUS
  <2>3. ~HasSocket => out' = out
    BY <1>5 DEF UnsubscribeSend, Send
  <2> HIDE DEF r
  <2> QED
    BY <1>5, <1>m, <1>n, <2>1, <2>2, <2>3 DEF UnsubscribeSend, netVars, CallInv
<1>6. CASE NetConnect \/ NetPost \/ NetDisconnected \/ NetQuit
  BY <1>6, <1>f DEF NetConnect, NetPost, NetDisconnected, NetQuit, brokerVars
<1>7. ASSUME NEW accepted \in BOOLEAN, NetConnack(accepted) PROVE CallInv' /\ SocketInv'
  BY <1>7, <1>f, <1>g DEF NetConnack
<1>8. CASE NetLost
  BY <1>8, <1>g DEF NetLost
<1>9. CASE NetResubscribe
  <2>1. link = "up" /\ link' = "up"
    BY <1>9 DEF NetResubscribe, ControlInv
  <2> QED
    BY <1>9, <2>1 DEF NetResubscribe, CallInv, SocketInv
<1>10. CASE BrokerTakes
  BY <1>10 DEF BrokerTakes, CallInv, SocketInv, netVars
<1>11. CASE UNCHANGED vars
  BY <1>11, <1>f DEF vars, netVars, brokerVars
<1>12. \A c \in Callers : TopicsOf[c] \subseteq Topics
  BY MqttClientAssumption
<1> QED
  BY <1>1, <1>2, <1>3, <1>4, <1>5, <1>6, <1>7, <1>8, <1>9, <1>10, <1>11, <1>12
  DEF Next, Caller, CallSteps, Net, Callback

(* What is promised for the topics no call is at, and for those a call is at. *)
LEMMA QuietKeeps == IInv /\ [Next]_vars => QuietInv' /\ PendingInv'
<1> SUFFICES ASSUME TypeOK, ControlInv, CallInv, SocketInv, QuietInv, PendingInv, [Next]_vars
             PROVE  QuietInv' /\ PendingInv'
  BY DEF IInv
<1>c. call \in [Callers -> CallRecord] /\ sub_topics \subseteq Topics /\ Held \subseteq Topics
  BY DEF TypeOK, CallRecord, Held, HeldAfter
<1>h. UNCHANGED <<out, broker_subs>> => Held' = Held
  BY DEF Held
<1>n. HasSocket <=> link # "down"
  BY DEF HasSocket, ControlInv
<1>o. ASSUME NEW c \in Callers, NEW r, Moves(c, r)
      PROVE  /\ call'[c] = r
             /\ \A d \in Callers \ {c} : call'[d] = call[d]
  BY <1>c, <1>o, MovesOne
<1>1. CASE Owner
  BY <1>1, <1>h, QuietFrame
  DEF Owner, StartClient, StopClient, CloseClient, OpenClient, WaitPosted, WaitTimedOut,
      StartReturns, netVars, brokerVars, historyVars, Settled, ControlInv
<1>2. ASSUME NEW c \in Callers, NEW t \in Topics, SubscribeCheck(c, t)
      PROVE  QuietInv' /\ PendingInv'
  <2> DEFINE r == [pc |-> "send", topic |-> t, sent |-> FALSE]
  <2>1. Moves(c, r)
    BY <1>2 DEF SubscribeCheck, Moves, CallRecord
  <2>2. r.pc = "send" /\ call[c].pc = "idle"
    BY <1>2 DEF SubscribeCheck, Idle
  <2>3. UNCHANGED <<Held, sub_topics, raced, link, net_pc>>
    BY <1>2, <1>h DEF SubscribeCheck, brokerVars, historyVars, netVars
  <2> HIDE DEF r
  <2>4. \A d \in Callers : \A u : Pending(d, u)' <=> Pending(d, u)
    BY <1>o, <2>1, <2>2 DEF Pending
  <2>5. QuietInv'
    BY <2>3, <2>4 DEF QuietInv, Quiet, Settled
  <2>6. \A d \in Callers : \A u : Pending(d, u) => call'[d] = call[d]
    BY <1>o, <2>1, <2>2 DEF Pending
  <2>7. PendingInv'
    BY <2>3, <2>4, <2>6 DEF PendingInv, Overlaps, Settled
  <2> QED
    BY <2>5, <2>7
<1>3. ASSUME NEW c \in Callers, NEW t \in Topics, NEW op \in {"SUBSCRIBE", "UNSUBSCRIBE"}, NEW r,
             Moves(c, r), r.topic = t, r.sent <=> HasSocket,
             r.pc = IF op = "SUBSCRIBE" THEN "store" ELSE "erase",
             call[c].pc \in {"idle", "send"}, Send(op, t), NoteOverlap(c, t),
             UNCHANGED <<broker_subs, sub_topics, link, net_pc>>
      PROVE  QuietInv' /\ PendingInv'
  <2>1. /\ \A u : ~Pending(c, u) /\ (Pending(c, u)' <=> u = t)
        /\ \A d \in Callers \ {c} : \A u : /\ Pending(d, u)' <=> Pending(d, u)
                                           /\ call'[d] = call[d]
    BY <1>o, <1>3 DEF Pending
  <2>2. Held' = IF ~HasSocket THEN Held
                ELSE IF op = "SUBSCRIBE" THEN Held \cup {t} ELSE Held \ {t}
    BY <1>3, HeldSent
  <2>3. ~HasSocket => Held = {}
    BY <1>n, HeldGone
  <2>4. raced \subseteq raced' /\ \A u : u # t /\ u \notin raced' => u \notin raced
    BY <1>3 DEF NoteOverlap
  <2>5. t \notin raced' => \A d \in Callers \ {c} : ~Pending(d, t)
    BY <1>3 DEF NoteOverlap, Overlaps
  <2>6. ASSUME NEW u \in Topics, u \notin raced', Quiet(u)'
        PROVE  (u \in Held' => u \in sub_topics') /\ (Settled' /\ u \in sub_topics' => u \in Held')
    <3>q. \A d \in Callers : ~Pending(d, u)'
      BY <2>6 DEF Quiet
    <3>r. u # t /\ ~Pending(c, u)
      BY <2>1, <3>q
    <3>s. ASSUME NEW d \in Callers \ {c} PROVE ~Pending(d, u)
      <4>1. Pending(d, u)' <=> Pending(d, u)
        BY <2>1
      <4>2. ~Pending(d, u)'
        BY <3>q
      <4> QED
        BY <4>1, <4>2
    <3>1. u # t /\ Quiet(u)
      BY <3>r, <3>s DEF Quiet
    <3> QED
      BY <1>3, <2>2, <2>4, <2>6, <3>1 DEF QuietInv, Settled
  <2>7. ASSUME NEW d \in Callers, NEW u \in Topics, u \notin raced', Pending(d, u)'
        PROVE  /\ Settled' => call'[d].sent
               /\ u \in Held' <=> call'[d].sent /\ call'[d].pc = "store"
               /\ Overlaps(d, u)' => ~call'[d].sent
    <3>1. CASE d = c
      <4>1. u = t /\ call'[d] = r
        BY <1>o, <1>3, <2>1, <2>7, <3>1
      <4>2. ~Overlaps(d, u)'
        BY <2>1, <2>5, <2>7, <3>1, <4>1 DEF Overlaps
      <4>3. Settled' => HasSocket
        BY <1>3, <1>n DEF Settled
      <4>4. u \in Held' <=> r.sent /\ r.pc = "store"
        BY <1>3, <2>2, <2>3, <4>1
      <4> QED
        BY <1>3, <4>1, <4>2, <4>3, <4>4
    <3>2. CASE d # c
      <4>1. u # t /\ Pending(d, u) /\ u \notin raced /\ call'[d] = call[d]
        BY <2>1, <2>4, <2>5, <2>7, <3>2
      <4>2. Overlaps(d, u)' => Overlaps(d, u)
        BY <2>1, <4>1 DEF Overlaps
      <4>3. u \in Held' <=> u \in Held
        BY <2>2, <4>1
      <4> QED
        BY <1>3, <4>1, <4>2, <4>3 DEF PendingInv, Settled
    <3> QED
      BY <3>1, <3>2
  <2> QED
    BY <2>6, <2>7 DEF QuietInv, PendingInv
<1>4. ASSUME NEW c \in Callers, SubscribeSend(c) PROVE QuietInv' /\ PendingInv'
  <2> DEFINE r == [pc |-> "store", topic |-> call[c].topic, sent |-> HasSocket]
  <2>1. call[c].topic \in Topics /\ Moves(c, r)
    BY <1>4, SendsMove
  <2>2. r.pc = "store" /\ r.topic = call[c].topic /\ (r.sent <=> HasSocket)
    OBVIOUS
  <2> HIDE DEF r
  <2> QED
    BY <1>3, <1>4, <2>1, <2>2 DEF SubscribeSend, netVars
<1>5. ASSUME NEW c \in Callers, NEW t \in Topics, UnsubscribeSend(c, t)
      PROVE  QuietInv' /\ PendingInv'
  <2> DEFINE r == [pc |-> "erase", topic |-> t, sent |-> HasSocket]
  <2>1. Moves(c, r)
    BY <1>5 DEF UnsubscribeSend, Moves, CallRecord, HasSocket, TypeOK
  <2>2. r.pc = "erase" /\ r.topic = t /\ (r.sent <=> HasSocket) /\ call[c].pc = "idle"
    BY <1>5 DEF UnsubscribeSend, Idle
  <2> HIDE DEF r
  <2> QED
    BY <1>3, <1>5, <2>1, <2>2 DEF UnsubscribeSend, netVars
<1>6. ASSUME NEW c \in Callers, SubscribeStore(c) \/ UnsubscribeErase(c)
      PROVE  QuietInv' /\ PendingInv'
  <2> DEFINE t == call[c].topic
  <2>1. Moves(c, Idle) /\ Idle.pc = "idle"
    BY <1>6 DEF SubscribeStore, UnsubscribeErase, Moves, Idle, CallRecord
  <2>2. /\ \A u : ~Pending(c, u)' /\ (Pending(c, u) <=> u = t)
        /\ \A d \in Callers \ {c} : \A u : /\ Pending(d, u)' <=> Pending(d, u)
                                           /\ call'[d] = call[d]
    BY <1>o, <1>6, <2>1 DEF Pending, SubscribeStore, UnsubscribeErase
  <2>3. t \in Topics
    BY <1>6 DEF CallInv, Idle, SubscribeStore, UnsubscribeErase
  <2>4. UNCHANGED <<Held, raced, link, net_pc>>
    BY <1>6, <1>h DEF SubscribeStore, UnsubscribeErase, brokerVars, netVars
  <2>5. /\ call[c].pc \in {"store", "erase"}
        /\ sub_topics' = IF call[c].pc = "store" THEN sub_topics \cup {t} ELSE sub_topics \ {t}
    BY <1>6 DEF SubscribeStore, UnsubscribeErase, Stored, Erased
  <2> HIDE DEF t
  <2>6. ASSUME NEW u \in Topics, u \notin raced', Quiet(u)'
        PROVE  (u \in Held' => u \in sub_topics') /\ (Settled' /\ u \in sub_topics' => u \in Held')
    <3>1. CASE u = t
      <4>1. /\ Settled => call[c].sent
            /\ t \in Held <=> call[c].sent /\ call[c].pc = "store"
        BY <2>2, <2>3, <2>4, <2>6, <3>1 DEF PendingInv
      <4> QED
        BY <2>4, <2>5, <3>1, <4>1 DEF Settled
    <3>2. CASE u # t
      <4>q. \A d \in Callers : ~Pending(d, u)'
        BY <2>6 DEF Quiet
      <4>r. ~Pending(c, u)
        BY <2>2, <3>2
      <4>s. ASSUME NEW d \in Callers \ {c} PROVE ~Pending(d, u)
        <5>1. Pending(d, u)' <=> Pending(d, u)
          BY <2>2
        <5>2. ~Pending(d, u)'
          BY <4>q
        <5> QED
          BY <5>1, <5>2
      <4>1. Quiet(u) /\ (u \in sub_topics' <=> u \in sub_topics)
        BY <2>5, <3>2, <4>r, <4>s DEF Quiet
      <4> QED
        BY <2>4, <2>6, <4>1 DEF QuietInv, Settled
    <3> QED
      BY <3>1, <3>2
  <2>7. ASSUME NEW d \in Callers, NEW u \in Topics, u \notin raced', Pending(d, u)'
        PROVE  /\ Settled' => call'[d].sent
               /\ u \in Held' <=> call'[d].sent /\ call'[d].pc = "store"
               /\ Overlaps(d, u)' => ~call'[d].sent
    <3>1. d # c /\ Pending(d, u) /\ call'[d] = call[d]
      BY <2>2, <2>7
    <3>2. Overlaps(d, u)' => Overlaps(d, u)
      BY <2>2 DEF Overlaps
    <3> QED
      BY <2>4, <2>7, <3>1, <3>2 DEF PendingInv, Settled
  <2> QED
    BY <2>6, <2>7 DEF QuietInv, PendingInv
<1>g. ASSUME SocketGone, UNCHANGED sub_topics, raced \subseteq raced', ~Settled'
      PROVE  QuietInv' /\ PendingInv'
  <2>1. Held' = {}
    BY <1>g, HeldGone
  <2>2. \A c \in Callers : ~call'[c].sent
    BY <1>c, <1>g, SocketGoneType
  <2> QED
    BY <1>g, <2>1, <2>2 DEF QuietInv, PendingInv
<1>7. CASE NetConnect
  <2>1. Held' = {} /\ \A c \in Callers : ~call[c].sent
    BY <1>7, <1>h, HeldGone DEF NetConnect, SocketInv, brokerVars
  <2>2. UNCHANGED call /\ ~Settled'
    BY <1>7 DEF NetConnect, Settled
  <2> QED
    BY <2>1, <2>2 DEF QuietInv, PendingInv
<1>8. ASSUME NEW accepted \in BOOLEAN, NetConnack(accepted) PROVE QuietInv' /\ PendingInv'
  <2>1. ~Settled' /\ UNCHANGED <<sub_topics, raced>>
    BY <1>8 DEF NetConnack, Settled, historyVars
  <2>2. CASE accepted
    BY <1>8, <1>h, <2>1, <2>2, QuietFrame DEF NetConnack
  <2>3. CASE ~accepted
    BY <1>8, <1>g, <2>1, <2>3 DEF NetConnack
  <2> QED
    BY <2>2, <2>3
<1>9. CASE NetPost \/ NetDisconnected \/ NetQuit
  <2>1. UNCHANGED <<call, Held, sub_topics, raced>>
    BY <1>9, <1>h DEF NetPost, NetDisconnected, NetQuit, brokerVars, historyVars
  <2>2. ~Settled'
    BY <1>9 DEF NetPost, NetDisconnected, NetQuit, Settled, ControlInv
  <2> QED
    BY <2>1, <2>2, QuietFrame
<1>10. CASE NetResubscribe
  <2>1. Held' = Held \cup sub_topics
    BY <1>10, HeldResub
  <2>2. UNCHANGED <<call, sub_topics>> /\ raced' = raced \cup Overtaken
    BY <1>10 DEF NetResubscribe
  <2>3. \A t \in Topics \ raced', c \in Callers : Pending(c, t) => call[c].pc = "store" /\ call[c].sent
    BY <2>2 DEF Overtaken
  <2>4. QuietInv'
    BY <2>1, <2>2 DEF QuietInv, Quiet, Pending
  <2>5. PendingInv'
    BY <2>1, <2>2, <2>3 DEF PendingInv, Overlaps, Pending
  <2> QED
    BY <2>4, <2>5
<1>11. CASE NetLost
  <2>1. ~Settled' /\ SocketGone /\ UNCHANGED <<sub_topics, raced>>
    BY <1>11 DEF NetLost, Settled, historyVars
  <2> QED
    BY <1>g, <2>1
<1>12. CASE BrokerTakes
  <2>1. UNCHANGED <<call, Held, sub_topics, raced>> /\ (Settled' => Settled)
    BY <1>12, HeldTaken DEF BrokerTakes, historyVars, netVars, Settled
  <2> QED
    BY <2>1, QuietFrame
<1>13. CASE UNCHANGED vars
  <2>1. UNCHANGED <<call, Held, sub_topics, raced>> /\ (Settled' => Settled)
    BY <1>13, <1>h DEF vars, brokerVars, historyVars, netVars, Settled
  <2> QED
    BY <2>1, QuietFrame
<1>14. \A c \in Callers : TopicsOf[c] \subseteq Topics
  BY MqttClientAssumption
<1> QED
  BY <1>1, <1>2, <1>4, <1>5, <1>6, <1>7, <1>8, <1>9, <1>10, <1>11, <1>12, <1>13, <1>14
  DEF Next, Caller, CallSteps, Net, Callback

LEMMA InitHolds == Init => IInv
<1> SUFFICES ASSUME Init PROVE IInv
  OBVIOUS
<1>1. \A c \in Callers : call[c] = Idle
  BY DEF Init
<1>2. Idle.pc = "idle" /\ Idle.topic = NoTopic /\ ~Idle.sent
  BY DEF Idle
<1>3. TypeOK
  <2>1. call \in [Callers -> CallRecord]
    BY DEF Init, Idle, CallRecord
  <2>2. 0 \in 0..MaxStarts /\ 0 \in 0..MaxConnects /\ << >> \in Seq(Packet)
    BY MqttClientAssumption
  <2> QED
    BY <2>1, <2>2 DEF Init, TypeOK, CallRecord
<1>4. ControlInv
  BY DEF Init, ControlInv
<1>5. CallInv /\ SocketInv
  BY <1>1, <1>2, FS_EmptySet DEF Init, CallInv, SocketInv
<1>6. Held = {}
  BY HeldEmpty DEF Init, Held
<1>7. QuietInv
  BY <1>6 DEF Init, QuietInv, Settled
<1>8. PendingInv
  BY <1>1, <1>2 DEF PendingInv, Pending
<1> QED
  BY <1>3, <1>4, <1>5, <1>7, <1>8 DEF IInv

LEMMA StepKeeps == IInv /\ [Next]_vars => IInv'
BY TypeKeeps, ControlKeeps, CallKeeps, QuietKeeps DEF IInv

(* The type invariant of MqttClient, its callers, its loop thread and the
   broker. *)
THEOREM TypeCorrect == Spec => []TypeOK
<1>1. IInv => TypeOK
  BY DEF IInv
<1> QED
  BY <1>1, InitHolds, StepKeeps, PTL DEF Spec

(* isConnected tells the truth between callbacks, and closeClient leaves no
   loop thread, packet or subscription behind, wherever stopClient, a failed
   start, a refusal or the loss of the connection found the client. *)
THEOREM ReadyCorrect == Spec => []ReadyMeansConnected
<1>1. IInv => ReadyMeansConnected
  BY DEF IInv, ControlInv, SocketInv, ReadyMeansConnected
<1> QED
  BY <1>1, InitHolds, StepKeeps, PTL DEF Spec

(* The subscriptions of the broker are the topics of the map once the packets
   are delivered, however calls, callbacks, lost connections and restarts
   interleave, except for the topics of calls that were overtaken. *)
THEOREM SubscriptionsCorrect == Spec => []MapMatchesBroker
<1>1. IInv => MapMatchesBroker
  <2> SUFFICES ASSUME IInv, link = "up", net_pc = "loop", out = << >>,
                      NEW t \in Topics, Quiet(t), t \notin raced
               PROVE  t \in sub_topics <=> t \in broker_subs
    BY DEF MapMatchesBroker
  <2>1. t \in Held <=> t \in broker_subs
    BY DEF Held, HeldAfter, EndsSubscribed, Mentions
  <2> QED
    BY <2>1 DEF IInv, QuietInv, Settled
<1> QED
  BY <1>1, InitHolds, StepKeeps, PTL DEF Spec

=============================================================================
