--------------------------- MODULE LiteIpcProofs ---------------------------
(***************************************************************************)
(* What holds of LiteIpc for every set of nodes and threads, any number of *)
(* messages, restarts and lost connections.                                *)
(***************************************************************************)
EXTENDS LiteIpc, SequenceTheorems, TLAPS

(* The conditions under which sendControl keeps its promise: all objects of a
   process share one sync adapter, so there is one object; a control is not
   sent twice by the library; and a magic does not come round while a caller
   waits, neither for another caller nor for a late ACK. *)
OneObject    == \A m, n \in Nodes : Process(m) = Process(n) => m = n
ControlsOnce == Qos("CONTROL") # 1

Open(c) == call[c].pc # "idle"

MagicsApart ==
  /\ \A c, d \in Callers :
       c # d /\ Open(c) /\ Open(d) /\ Home(c) = Home(d) => Magic(call[c].id[2]) # Magic(call[d].id[2])
  /\ \A c \in Callers, m \in inbox :
       Open(c) /\ IsAck(m) /\ m.to = Home(c) /\ Magic(m.id[2]) = Magic(call[c].id[2]) => m.id = call[c].id

(* Every message there is, wherever it is. *)
Serving == {n \in Nodes : rx_pc[n] = "serving"}

MessagesIn(out, in, queue, pc, msg) ==
  UNION {out, in, {m \in Message : \E n \in Nodes : \E j \in DOMAIN queue[n] : m = queue[n][j]},
                  {m \in Message : \E n \in Nodes : pc[n] = "serving" /\ m = msg[n]}}

Live == MessagesIn(outbox, inbox, rx_queue, rx_pc, rx_msg)

(* A message carries a number that its node gave out; a control goes out from
   that node and its ACK, which there is only after the control was executed,
   goes back to it.  The number of a call is of its node, of no other call and
   of no status. *)
Numbered(i) == i[2] < numbered[i[1]]

MessageInv ==
  /\ \A m \in Live : /\ m \in Message /\ Numbered(m.id)
                     /\ m.kind = "CONTROL" => m.id[1] = m.from
                     /\ m.kind = "ACK" => m.id[1] = m.to /\ m.id \in executed
  /\ \A n \in Serving : rx_msg[n].kind = "CONTROL" => rx_msg[n].id \in executed
  /\ \A i \in executed : Numbered(i)
  /\ \A n \in Nodes : owner_pc[n] = "stopped" => rx_pc[n] = "off"

CallInv ==
  \A c \in Callers : Open(c) =>
    /\ call[c].to \in Nodes
    /\ call[c].id \in Ids /\ call[c].id[1] = Home(c) /\ Numbered(call[c].id)
    /\ \A d \in Callers : Open(d) /\ call[d].id = call[c].id => d = c
    /\ \A m \in Live : m.id = call[c].id => m.kind # "STATUS"

(* There is one copy of a control until it is executed: in the sender's
   library, or in the receiver's, or in the queue of an rx thread; none before
   it is published. *)
Control(m) == m.kind = "CONTROL"

PlacedOnce(out, in, queue, done) ==
  /\ \A m, w \in out : Control(m) /\ Control(w) /\ m.id = w.id => m = w
  /\ \A m, w \in in : Control(m) /\ Control(w) /\ m.id = w.id => m = w
  /\ \A m \in out, w \in in : Control(m) /\ Control(w) => m.id # w.id
  /\ \A m \in out \cup in : Control(m) =>
       m.id \notin done /\ \A n \in Nodes : \A j \in DOMAIN queue[n] : Control(queue[n][j]) => m.id # queue[n][j].id
  /\ \A n, o \in Nodes : \A j \in DOMAIN queue[n], k \in DOMAIN queue[o] :
       Control(queue[n][j]) /\ Control(queue[o][k]) /\ queue[n][j].id = queue[o][k].id => n = o /\ j = k
  /\ \A n \in Nodes : \A j \in DOMAIN queue[n] : Control(queue[n][j]) => queue[n][j].id \notin done

OnceInv == PlacedOnce(outbox, inbox, rx_queue, executed)

FreshInv ==
  \A c \in Callers : call[c].pc = "prepared" =>
    call[c].id \notin executed /\ \A m \in Live : m.id # call[c].id

(* A slot is there exactly as long as a call of its own is, and what is posted
   to it is the ACK of that call. *)
SlotInv ==
  /\ \A c \in Callers : Open(c) => CallSlot(c) \in DOMAIN slots
  /\ \A s \in DOMAIN slots : \E c \in Callers : Open(c) /\ CallSlot(c) = s
  /\ \A c \in Callers : Open(c) /\ Posted(c) => slots[CallSlot(c)] = call[c].id /\ call[c].id \in executed

WaitInv ==
  \A c \in Callers : call[c].pc = "waiting" /\ ~Posted(c) =>
    (\E m \in Live : m.id = call[c].id) \/ call[c].id \in lost

IInv == TypeOK /\ MessageInv /\ CallInv /\ OnceInv /\ FreshInv
SInv == SlotInv /\ WaitInv

-----------------------------------------------------------------------------
(* The type of every variable. *)

CallRecord == [pc : {"idle", "prepared", "waiting"}, id : Ids \cup {Empty},
               to : Nodes \cup {Empty}, result : Ids \cup {Empty}]

LEMMA WithWithout ==
  ASSUME NEW f, NEW k, NEW v
  PROVE  /\ DOMAIN With(f, k, v) = DOMAIN f \cup {k}
         /\ With(f, k, v)[k] = v
         /\ \A x \in DOMAIN f \ {k} : With(f, k, v)[x] = f[x]
         /\ DOMAIN Without(f, k) = DOMAIN f \ {k}
         /\ \A x \in DOMAIN f \ {k} : Without(f, k)[x] = f[x]
BY DEF With, Without

SlotsOK(f) ==
  /\ DOMAIN f \subseteq {Slot(n, k) : n \in Nodes, k \in 0..MaxMessages}
  /\ \A s \in DOMAIN f : f[s] \in Ids \cup {Empty}

LEMMA SlotsType ==
  ASSUME NEW f, SlotsOK(f)
  PROVE  /\ \A n \in Nodes, k \in 0..MaxMessages : SlotsOK(With(f, Slot(n, k), Empty))
         /\ \A s \in DOMAIN f, v \in Ids \cup {Empty} : SlotsOK(With(f, s, v))
         /\ \A s : SlotsOK(Without(f, s))
<1> DEFINE All == {Slot(n, k) : n \in Nodes, k \in 0..MaxMessages}
<1>0. DOMAIN f \subseteq All /\ \A x \in DOMAIN f : f[x] \in Ids \cup {Empty}
  BY DEF SlotsOK
<1>a. \A n \in Nodes, k \in 0..MaxMessages : Slot(n, k) \in All
  OBVIOUS
<1>b. ASSUME NEW g, DOMAIN g \subseteq All, \A x \in DOMAIN g : g[x] \in Ids \cup {Empty} PROVE SlotsOK(g)
  BY <1>b DEF SlotsOK
<1> HIDE DEF All
<1>1. ASSUME NEW s \in All, NEW v \in Ids \cup {Empty} PROVE SlotsOK(With(f, s, v))
  <2> DEFINE g == With(f, s, v)
  <2>1. DOMAIN g = DOMAIN f \cup {s} /\ g[s] = v /\ \A x \in DOMAIN f \ {s} : g[x] = f[x]
    BY DEF With
  <2> HIDE DEF g
  <2>2. SlotsOK(g)
    BY <1>0, <1>1, <1>b, <2>1
  <2> QED
    BY <2>2 DEF g
<1>2. ASSUME NEW s PROVE SlotsOK(Without(f, s))
  <2> DEFINE g == Without(f, s)
  <2>1. DOMAIN g = DOMAIN f \ {s} /\ \A x \in DOMAIN f \ {s} : g[x] = f[x]
    BY WithWithout
  <2> HIDE DEF g
  <2>2. SlotsOK(g)
    BY <1>0, <1>b, <2>1
  <2> QED
    BY <2>2 DEF g
<1> QED
  BY <1>0, <1>1, <1>2, <1>a

LEMMA CallUpdate ==
  ASSUME NEW f \in [Callers -> CallRecord], NEW c \in Callers, NEW r \in CallRecord
  PROVE  [f EXCEPT ![c] = r] \in [Callers -> CallRecord]
OBVIOUS

LEMMA Homes == \A c \in Callers : Home(c) \in Nodes
BY LiteIpcAssumption DEF Home

LEMMA TypeKeeps == TypeOK /\ CallInv /\ [Next]_vars => TypeOK'
<1> SUFFICES ASSUME TypeOK, CallInv, [Next]_vars PROVE TypeOK'
  OBVIOUS
<1> USE DEF TypeOK, ownerVars, rxVars
<1>k. MaxMessages \in Nat /\ \A c \in Callers : Home(c) \in Nodes
  BY LiteIpcAssumption, Homes
<1>c. call \in [Callers -> CallRecord]
  BY DEF CallRecord
<1>s. SlotsOK(slots)
  BY DEF SlotsOK
<1>t. \A m \in Message : m.id \in Ids /\ m.from \in Nodes /\ m.to \in Nodes /\ m.kind \in {"CONTROL", "STATUS", "ACK"}
  BY DEF Message
<1>i. \A n \in Nodes : \A k \in 0..MaxMessages : <<n, k>> \in Ids
  BY DEF Ids
<1>n. \A n : NextTurn(n) \in {"pop", "off"}
  BY DEF NextTurn
<1>1. ASSUME NEW n \in Nodes, StartIPC(n) \/ StartSubscribe(n) \/ StartFails(n) \/ StopRx(n) \/ JoinRx(n)
      PROVE  TypeOK'
  <2>1. CASE StartIPC(n)
    BY <2>1 DEF StartIPC
  <2>2. CASE StartSubscribe(n)
    BY <2>2 DEF StartSubscribe
  <2>3. CASE StartFails(n)
    BY <2>3 DEF StartFails
  <2>4. CASE StopRx(n)
    BY <2>4 DEF StopRx
  <2>5. CASE JoinRx(n)
    BY <2>5 DEF JoinRx
  <2> QED
    BY <1>1, <2>1, <2>2, <2>3, <2>4, <2>5
<1>2. ASSUME NEW n \in Nodes, StopClient(n) PROVE TypeOK'
  BY <1>2, <1>t DEF StopClient
<1>3. ASSUME NEW n \in Nodes, Connect(n) PROVE TypeOK'
  BY <1>3 DEF Connect
<1>4. ASSUME NEW n \in Nodes, Disconnect(n) PROVE TypeOK'
  <2>1. PICK gone \in SUBSET (outbox \cup inbox) :
          outbox' = outbox \ gone /\ inbox' = inbox \ gone /\ lost' = lost \cup {m.id : m \in gone}
    BY <1>4 DEF Disconnect
  <2>2. outbox' \subseteq Message /\ inbox' \subseteq Message /\ lost' \subseteq Ids
    BY <1>t, <2>1
  <2> QED
    BY <1>4, <2>2 DEF Disconnect
<1>5. ASSUME NEW n \in Nodes, SendStatus(n) PROVE TypeOK'
  <2>1. numbered[n] \in 0..MaxMessages /\ numbered[n] + 1 \in 0..MaxMessages
    BY <1>5, <1>k DEF SendStatus
  <2>2. outbox' \subseteq Message
    <3>1. <<n, numbered[n]>> \in Ids
      BY <1>i, <2>1
    <3>2. \A l \in Listeners : [kind |-> "STATUS", from |-> n, to |-> l, id |-> <<n, numbered[n]>>, resent |-> FALSE] \in Message
      BY <3>1, LiteIpcAssumption DEF Message
    <3> QED
      BY <1>5, <3>2 DEF SendStatus
  <2> QED
    BY <1>5, <2>1, <2>2 DEF SendStatus
<1>6. ASSUME NEW n \in Nodes, RxWait(n) \/ RxEmpty(n) PROVE TypeOK'
  <2>1. rx_pc' \in [Nodes -> {"off", "wait", "pop", "serving"}]
    <3>1. CASE RxWait(n)
      BY <1>n, <3>1 DEF RxWait
    <3>2. CASE RxEmpty(n)
      BY <3>2 DEF RxEmpty
    <3> QED
      BY <1>6, <3>1, <3>2
  <2> QED
    BY <1>6, <2>1 DEF RxWait, RxEmpty
<1>7. ASSUME NEW n \in Nodes, RxPop(n) PROVE TypeOK'
  <2>1. Head(rx_queue[n]) \in Message /\ Tail(rx_queue[n]) \in Seq(Message)
    BY <1>7 DEF RxPop, IsEmpty
  <2> QED
    BY <1>7, <1>t, <2>1 DEF RxPop, Popped
<1>8. ASSUME NEW n \in Nodes, RxReply(n) PROVE TypeOK'
  <2>1. rx_msg[n] \in Message
    BY <1>8 DEF RxReply, NoMessage
  <2>2. Ack(n, rx_msg[n]) \in Message
    BY <1>t, <2>1 DEF Ack, Message
  <2>3. outbox' \subseteq Message /\ lost' \subseteq Ids
    <3>1. \/ outbox' = outbox \cup {Ack(n, rx_msg[n])} /\ lost' = lost
          \/ outbox' = outbox /\ lost' = lost \cup {rx_msg[n].id}
      BY <1>8 DEF RxReply
    <3>2. rx_msg[n].id \in Ids
      BY <1>t, <2>1
    <3> QED
      BY <2>2, <3>1, <3>2
  <2> QED
    BY <1>8, <2>3 DEF RxReply, NextTurn
<1>9. ASSUME NEW n \in Nodes, RxStatusDone(n) PROVE TypeOK'
  BY <1>9 DEF RxStatusDone, NextTurn
<1>10. ASSUME NEW c \in Callers, NEW to \in Nodes, SendPrepare(c, to) PROVE TypeOK'
  <2>1. numbered[Home(c)] \in 0..MaxMessages /\ numbered[Home(c)] + 1 \in 0..MaxMessages
    BY <1>10, <1>k DEF SendPrepare
  <2>2. [pc |-> "prepared", id |-> <<Home(c), numbered[Home(c)]>>, to |-> to, result |-> Empty] \in CallRecord
    BY <1>i, <1>k, <2>1 DEF CallRecord
  <2>3. call' \in [Callers -> CallRecord]
    BY <1>10, <1>c, <2>2 DEF SendPrepare
  <2>4. SlotsOK(slots')
    BY <1>10, <1>k, <1>s, <2>1, SlotsType DEF SendPrepare, Prepared
  <2> QED
    BY <1>10, <1>k, <2>1, <2>3, <2>4 DEF SendPrepare, SlotsOK, CallRecord
<1>p. ASSUME NEW c \in Callers, NEW p \in {"idle", "waiting"}
      PROVE  [call EXCEPT ![c].pc = p] \in [Callers -> CallRecord]
  BY <1>c DEF CallRecord
<1>11. ASSUME NEW c \in Callers, SendPublish(c) PROVE TypeOK'
  <2> DEFINE m == [kind |-> "CONTROL", from |-> Home(c), to |-> call[c].to, id |-> call[c].id, resent |-> FALSE]
  <2>1. call[c].id \in Ids /\ call[c].to \in Nodes
    BY <1>11 DEF SendPublish, CallInv, Open
  <2>2. m \in Message
    BY <1>k, <2>1 DEF Message
  <2>3. /\ outbox' \in {outbox, outbox \cup {m}}
        /\ slots' \in {slots, Cleared(c)}
        /\ \E p \in {"idle", "waiting"} : call' = [call EXCEPT ![c].pc = p]
    BY <1>11 DEF SendPublish
  <2> HIDE DEF m
  <2>4. SlotsOK(slots')
    BY <1>s, <2>3, SlotsType DEF Cleared
  <2>5. call' \in [Callers -> CallRecord]
    BY <1>p, <2>3
  <2>6. outbox' \subseteq Message
    BY <2>2, <2>3
  <2> QED
    BY <1>11, <2>4, <2>5, <2>6 DEF SendPublish, SlotsOK, CallRecord
<1>12. ASSUME NEW c \in Callers, SendReturns(c) PROVE TypeOK'
  <2>1. slots[CallSlot(c)] \in Ids \cup {Empty}
    BY <1>12 DEF SendReturns, Posted
  <2>2. SlotsOK(slots')
    BY <1>12, <1>s, SlotsType DEF SendReturns, Cleared
  <2> DEFINE r == [pc |-> "idle", id |-> call[c].id, to |-> call[c].to, result |-> slots[CallSlot(c)]]
  <2>4. call' = [call EXCEPT ![c] = r]
    BY <1>12 DEF SendReturns
  <2>5. r \in CallRecord
    BY <1>c, <2>1 DEF CallRecord
  <2> HIDE DEF r
  <2>3. call' \in [Callers -> CallRecord]
    BY <1>c, <2>4, <2>5, CallUpdate
  <2> QED
    BY <1>12, <2>2, <2>3 DEF SendReturns, SlotsOK, CallRecord
<1>13. ASSUME NEW c \in Callers, SendTimesOut(c) PROVE TypeOK'
  <2>1. SlotsOK(slots')
    BY <1>13, <1>s, SlotsType DEF SendTimesOut, Cleared
  <2>2. call' \in [Callers -> CallRecord]
    BY <1>13, <1>p DEF SendTimesOut
  <2> QED
    BY <1>13, <2>1, <2>2 DEF SendTimesOut, SlotsOK, CallRecord
<1>14. ASSUME NEW m \in outbox, BrokerForwards(m) PROVE TypeOK'
  <2>1. \A kept \in Kept(m) : kept \subseteq Message
    <3> DEFINE w == [kind |-> m.kind, from |-> m.from, to |-> m.to, id |-> m.id, resent |-> TRUE]
    <3>1. w \in Message
      BY <1>t DEF Message
    <3>2. \A kept \in Kept(m) : kept = {} \/ kept = {w}
      BY DEF Kept
    <3> HIDE DEF w
    <3> QED
      BY <3>1, <3>2
  <2>2. outbox' \subseteq Message
    BY <1>14, <2>1 DEF BrokerForwards
  <2>3. inbox' \subseteq Message /\ lost' \subseteq Ids
    <3>1. \/ inbox' = inbox \cup {m} /\ lost' = lost
          \/ inbox' = inbox /\ lost' = lost \cup {m.id}
      BY <1>14 DEF BrokerForwards
    <3>2. m \in Message /\ m.id \in Ids
      BY <1>t
    <3> QED
      BY <3>1, <3>2
  <2> QED
    BY <1>14, <2>2, <2>3 DEF BrokerForwards
<1>15. ASSUME NEW m \in inbox, OnRecvAck(m) PROVE TypeOK'
  <2>1. SlotsOK(slots')
    BY <1>15, <1>s, <1>t, SlotsType DEF OnRecvAck
  <2> QED
    BY <1>15, <2>1 DEF OnRecvAck, SlotsOK
<1>16. ASSUME NEW m \in inbox, OnRecvOther(m) PROVE TypeOK'
  <2>1. Append(rx_queue[m.to], m) \in Seq(Message)
    BY <1>t, AppendProperties
  <2> QED
    BY <1>16, <1>t, <2>1 DEF OnRecvOther
<1>17. CASE UNCHANGED vars
  BY <1>17 DEF vars
<1> QED
  BY <1>1, <1>2, <1>3, <1>4, <1>5, <1>6, <1>7, <1>8, <1>9, <1>10, <1>11, <1>12, <1>13, <1>14, <1>15,
     <1>16, <1>17
  DEF Next, Owner, Rx, Send

-----------------------------------------------------------------------------
(* Messages and calls. *)

LEMMA WhereIs ==
  ASSUME NEW out, NEW in, NEW queue, NEW pc, NEW msg
  PROVE  \A w : w \in MessagesIn(out, in, queue, pc, msg) <=>
           \/ w \in out \/ w \in in
           \/ w \in Message /\ \E n \in Nodes : \E j \in DOMAIN queue[n] : w = queue[n][j]
           \/ w \in Message /\ \E n \in Nodes : pc[n] = "serving" /\ w = msg[n]
BY DEF MessagesIn

(* A message comes into being in the library of its sender; from there it
   only moves on. *)
LEMMA Travels == TypeOK /\ [Next]_vars => Live' \subseteq Live \cup outbox'
<1> SUFFICES ASSUME TypeOK, [Next]_vars, NEW w \in Live' PROVE w \in Live \cup outbox'
  OBVIOUS
<1> DEFINE In == w \in Live \cup outbox'
<1>a. \/ w \in outbox' \/ w \in inbox'
      \/ w \in Message /\ \E n \in Nodes : \E j \in DOMAIN rx_queue'[n] : w = rx_queue'[n][j]
      \/ w \in Message /\ \E n \in Nodes : rx_pc'[n] = "serving" /\ w = rx_msg'[n]
  <2>1. w \in MessagesIn(outbox', inbox', rx_queue', rx_pc', rx_msg')
    BY DEF Live
  <2> QED
    BY <2>1, WhereIs
<1>t. /\ rx_queue \in [Nodes -> Seq(Message)] /\ outbox \subseteq Message /\ inbox \subseteq Message
      /\ rx_pc \in [Nodes -> {"off", "wait", "pop", "serving"}]
      /\ rx_msg \in [Nodes -> Message \cup {NoMessage}]
  BY DEF TypeOK
<1>b. /\ \A u \in outbox \cup inbox : u \in Live
      /\ \A n \in Nodes : \A j \in DOMAIN rx_queue[n] : rx_queue[n][j] \in Live
      /\ \A u \in Message, n \in Nodes : rx_pc[n] = "serving" /\ u = rx_msg[n] => u \in Live
  <2>1. \A n \in Nodes : \A j \in DOMAIN rx_queue[n] : rx_queue[n][j] \in Message
    BY <1>t, ElementOfSeq, LenProperties
  <2> QED
    BY <2>1, WhereIs DEF Live
<1>c. w \in outbox' \/ w \in Live => In
  OBVIOUS
<1> USE DEF ownerVars, rxVars
<1>1. CASE rx_queue' = rx_queue /\ rx_msg' = rx_msg /\ inbox' \subseteq inbox \cup outbox
           /\ \A n \in Nodes : rx_pc'[n] = "serving" => rx_pc[n] = "serving"
  BY <1>a, <1>b, <1>c, <1>1
<1> USE DEF TypeOK, ownerVars, rxVars
<1>2. ASSUME NEW n \in Nodes, Owner(n) PROVE In
  <2>1. CASE StartIPC(n)
    BY <1>1, <1>t, <2>1 DEF StartIPC
  <2>2. CASE StartSubscribe(n) \/ StartFails(n) \/ StopRx(n) \/ JoinRx(n)
    BY <1>1, <1>t, <2>2 DEF StartSubscribe, StartFails, StopRx, JoinRx
  <2>3. CASE StopClient(n)
    BY <1>1, <1>t, <2>3 DEF StopClient
  <2> QED
    BY <1>2, <2>1, <2>2, <2>3 DEF Owner
<1>3. ASSUME NEW n \in Nodes, Connect(n) \/ Disconnect(n) \/ SendStatus(n) PROVE In
  BY <1>1, <1>t, <1>3 DEF Connect, Disconnect, SendStatus
<1>4. ASSUME NEW n \in Nodes, Rx(n) PROVE In
  <2>1. CASE RxWait(n)
    BY <1>1, <1>t, <2>1 DEF RxWait, NextTurn
  <2>2. CASE RxEmpty(n)
    BY <1>1, <1>t, <2>2 DEF RxEmpty
  <2>3. CASE RxPop(n)
    <3>1. rx_queue[n] \in Seq(Message) /\ rx_queue[n] # << >>
      BY <1>t, <2>3 DEF RxPop, IsEmpty
    <3>2. /\ 1 \in DOMAIN rx_queue[n] /\ Head(rx_queue[n]) = rx_queue[n][1]
          /\ \A j \in DOMAIN Tail(rx_queue[n]) :
               j + 1 \in DOMAIN rx_queue[n] /\ Tail(rx_queue[n])[j] = rx_queue[n][j + 1]
      BY <3>1, HeadTailProperties
    <3>3. /\ \A o \in Nodes : rx_queue'[o] = IF o = n THEN Tail(rx_queue[n]) ELSE rx_queue[o]
          /\ \A o \in Nodes : rx_msg'[o] = IF o = n THEN Head(rx_queue[n]) ELSE rx_msg[o]
          /\ \A o \in Nodes \ {n} : rx_pc'[o] = rx_pc[o]
          /\ outbox' = outbox /\ inbox' = inbox
      BY <1>t, <2>3 DEF RxPop, Popped
    <3>4. ASSUME NEW o \in Nodes, NEW j \in DOMAIN rx_queue'[o], w = rx_queue'[o][j] PROVE w \in Live
      <4>1. CASE o = n
        <5>1. j \in DOMAIN Tail(rx_queue[n]) /\ w = Tail(rx_queue[n])[j]
          BY <3>3, <3>4, <4>1
        <5> QED
          BY <1>b, <3>2, <5>1
      <4>2. CASE o # n
        BY <1>b, <3>3, <3>4, <4>2
      <4> QED
        BY <4>1, <4>2
    <3>5. ASSUME NEW o \in Nodes, rx_pc'[o] = "serving", w = rx_msg'[o] PROVE w \in Live
      <4>1. w \in Message
        BY <1>a, <1>t, <3>3
      <4> QED
        BY <1>b, <3>2, <3>3, <3>5, <4>1
    <3> QED
      BY <1>a, <1>b, <1>c, <3>3, <3>4, <3>5
  <2>4. CASE RxReply(n)
    <3>1. rx_queue' = rx_queue /\ inbox' = inbox
      BY <2>4 DEF RxReply
    <3>2. \A o \in Nodes : rx_pc'[o] = "serving" => rx_pc[o] = "serving" /\ rx_msg'[o] = rx_msg[o]
      BY <1>t, <2>4 DEF RxReply, NextTurn
    <3> QED
      BY <1>a, <1>b, <1>c, <3>1, <3>2
  <2>5. CASE RxStatusDone(n)
    <3>1. rx_queue' = rx_queue /\ inbox' = inbox
      BY <2>5 DEF RxStatusDone
    <3>2. \A o \in Nodes : rx_pc'[o] = "serving" => rx_pc[o] = "serving" /\ rx_msg'[o] = rx_msg[o]
      BY <1>t, <2>5 DEF RxStatusDone, NextTurn
    <3> QED
      BY <1>a, <1>b, <1>c, <3>1, <3>2
  <2> QED
    BY <1>4, <2>1, <2>2, <2>3, <2>4, <2>5 DEF Rx
<1>5. ASSUME NEW c \in Callers, (\E to \in Nodes : SendPrepare(c, to)) \/ Send(c) PROVE In
  BY <1>1, <1>t, <1>5 DEF SendPrepare, Send, SendPublish, SendReturns, SendTimesOut
<1>6. ASSUME NEW m \in outbox, BrokerForwards(m) PROVE In
  <2>1. inbox' \subseteq inbox \cup outbox
    BY <1>6 DEF BrokerForwards
  <2> QED
    BY <1>1, <1>t, <1>6, <2>1 DEF BrokerForwards
<1>7. ASSUME NEW m \in inbox, OnRecvAck(m) PROVE In
  BY <1>1, <1>t, <1>7 DEF OnRecvAck
<1>8. ASSUME NEW m \in inbox, OnRecvOther(m) PROVE In
  <2>1. m.to \in Nodes
    BY <1>t DEF Message
  <2>2. /\ \A o \in Nodes : rx_queue'[o] = IF o = m.to THEN Append(rx_queue[o], m) ELSE rx_queue[o]
        /\ inbox' \subseteq inbox /\ rx_pc' = rx_pc /\ rx_msg' = rx_msg
    BY <1>8, <1>t, <2>1 DEF OnRecvOther
  <2>3. ASSUME NEW o \in Nodes, NEW j \in DOMAIN rx_queue'[o], w = rx_queue'[o][j] PROVE w \in Live
    <3>1. rx_queue[o] \in Seq(Message) /\ m \in Message
      BY <1>t
    <3>2. \A k \in DOMAIN Append(rx_queue[o], m) :
            \/ Append(rx_queue[o], m)[k] = m
            \/ k \in DOMAIN rx_queue[o] /\ Append(rx_queue[o], m)[k] = rx_queue[o][k]
      BY <3>1, AppendProperties
    <3> QED
      BY <1>b, <2>2, <2>3, <3>1, <3>2
  <2> QED
    BY <1>a, <1>b, <1>c, <2>2, <2>3
<1>9. CASE UNCHANGED vars
  BY <1>1, <1>t, <1>9 DEF vars
<1> QED
  BY <1>2, <1>3, <1>4, <1>5, <1>6, <1>7, <1>8, <1>9 DEF Next

(* What is put into a library: a status with a number of its own; the control
   of a call, once; the ACK of the control that is being served; and again a
   message that was sent at QoS 1. *)
NewStatus(w)  == \E n \in Nodes : /\ w.kind = "STATUS" /\ w.id = <<n, numbered[n]>>
                                  /\ numbered' = [numbered EXCEPT ![n] = numbered[n] + 1] /\ call' = call
NewControl(w) == \E c \in Callers : /\ call[c].pc = "prepared" /\ call'[c].pc = "waiting"
                                    /\ w.kind = "CONTROL" /\ w.from = Home(c) /\ w.id = call[c].id
NewAck(w)     == \E n \in Serving : rx_msg[n].kind = "CONTROL" /\ w = Ack(n, rx_msg[n])
Again(w)      == \E m \in outbox : /\ Qos(m.kind) = 1
                                   /\ w.kind = m.kind /\ w.from = m.from /\ w.to = m.to /\ w.id = m.id

LEMMA Sent ==
  TypeOK /\ [Next]_vars => \A w \in outbox' \ outbox : NewStatus(w) \/ NewControl(w) \/ NewAck(w) \/ Again(w)
<1> SUFFICES ASSUME TypeOK, [Next]_vars, NEW w \in outbox', w \notin outbox
             PROVE  NewStatus(w) \/ NewControl(w) \/ NewAck(w) \/ Again(w)
  OBVIOUS
<1>c. call \in [Callers -> CallRecord]
  BY DEF TypeOK, CallRecord
<1>1. ASSUME NEW n \in Nodes, SendStatus(n) PROVE NewStatus(w)
  <2>1. \E l \in Listeners : w = [kind |-> "STATUS", from |-> n, to |-> l, id |-> <<n, numbered[n]>>, resent |-> FALSE]
    BY <1>1 DEF SendStatus
  <2>2. w.kind = "STATUS" /\ w.id = <<n, numbered[n]>>
    BY <2>1
  <2>3. numbered' = [numbered EXCEPT ![n] = numbered[n] + 1] /\ call' = call
    BY <1>1 DEF SendStatus
  <2> QED
    BY <2>2, <2>3 DEF NewStatus
<1>2. ASSUME NEW n \in Nodes, RxReply(n) PROVE NewAck(w)
  <2>1. outbox' = outbox \/ outbox' = outbox \cup {Ack(n, rx_msg[n])}
    BY <1>2 DEF RxReply
  <2> QED
    BY <1>2, <2>1 DEF RxReply, NewAck, Serving
<1>3. ASSUME NEW c \in Callers, SendPublish(c) PROVE NewControl(w)
  <2> DEFINE m == [kind |-> "CONTROL", from |-> Home(c), to |-> call[c].to, id |-> call[c].id, resent |-> FALSE]
  <2>1. \/ outbox' = outbox
        \/ outbox' = outbox \cup {m} /\ call' = [call EXCEPT ![c].pc = "waiting"]
    BY <1>3 DEF SendPublish
  <2>2. w = m /\ call' = [call EXCEPT ![c].pc = "waiting"]
    BY <2>1
  <2>3. call'[c].pc = "waiting"
    BY <1>c, <2>2 DEF CallRecord
  <2> QED
    BY <1>3, <2>2, <2>3 DEF SendPublish, NewControl
<1>4. ASSUME NEW m \in outbox, BrokerForwards(m) PROVE Again(w)
  <2> DEFINE again == [kind |-> m.kind, from |-> m.from, to |-> m.to, id |-> m.id, resent |-> TRUE]
  <2>1. PICK kept \in Kept(m) : outbox' = (outbox \ {m}) \cup kept
    BY <1>4 DEF BrokerForwards
  <2>2. kept = {} \/ (Qos(m.kind) = 1 /\ kept = {again})
    BY <2>1 DEF Kept
  <2>3. Qos(m.kind) = 1 /\ w = again
    BY <2>1, <2>2
  <2> QED
    BY <2>3 DEF Again
<1>5. CASE outbox' \subseteq outbox
  BY <1>5
<1>6. ASSUME NEW n \in Nodes, Owner(n) PROVE outbox' \subseteq outbox
  BY <1>6 DEF Owner, StartIPC, StartSubscribe, StartFails, StopClient, StopRx, JoinRx
<1>7. ASSUME NEW n \in Nodes, Connect(n) \/ Disconnect(n) PROVE outbox' \subseteq outbox
  BY <1>7 DEF Connect, Disconnect
<1>8. ASSUME NEW n \in Nodes, RxWait(n) \/ RxEmpty(n) \/ RxPop(n) \/ RxStatusDone(n) PROVE outbox' \subseteq outbox
  BY <1>8 DEF RxWait, RxEmpty, RxPop, RxStatusDone
<1>9. ASSUME NEW c \in Callers, (\E to \in Nodes : SendPrepare(c, to)) \/ SendReturns(c) \/ SendTimesOut(c)
      PROVE  outbox' \subseteq outbox
  BY <1>9 DEF SendPrepare, SendReturns, SendTimesOut
<1>10. ASSUME NEW m \in inbox, OnRecvAck(m) \/ OnRecvOther(m) PROVE outbox' \subseteq outbox
  BY <1>10 DEF OnRecvAck, OnRecvOther
<1>11. CASE UNCHANGED vars
  BY <1>11, <1>5 DEF vars
<1> QED
  BY <1>1, <1>2, <1>3, <1>4, <1>5, <1>6, <1>7, <1>8, <1>9, <1>10, <1>11 DEF Next, Rx, Send

(* Numbers and executed controls are not taken back. *)
LEMMA Grows ==
  TypeOK /\ [Next]_vars =>
    /\ \A n \in Nodes : numbered'[n] \in Nat /\ numbered[n] <= numbered'[n]
    /\ executed \subseteq executed'
<1> SUFFICES ASSUME TypeOK, [Next]_vars
             PROVE  /\ \A n \in Nodes : numbered'[n] \in Nat /\ numbered[n] <= numbered'[n]
                    /\ executed \subseteq executed'
  OBVIOUS
<1> DEFINE Goal == (\A n \in Nodes : numbered'[n] \in Nat /\ numbered[n] <= numbered'[n]) /\ executed \subseteq executed'
<1>t. numbered \in [Nodes -> Nat]
  BY LiteIpcAssumption DEF TypeOK
<1> USE DEF ownerVars, rxVars
<1>1. CASE UNCHANGED numbered /\ executed \subseteq executed'
  BY <1>1, <1>t
<1>2. ASSUME NEW n \in Nodes, UNCHANGED executed, numbered' = [numbered EXCEPT ![n] = numbered[n] + 1] PROVE Goal
  BY <1>2, <1>t
<1>3. ASSUME NEW n \in Nodes, Owner(n) PROVE Goal
  BY <1>1, <1>3 DEF Owner, StartIPC, StartSubscribe, StartFails, StopClient, StopRx, JoinRx
<1>4. ASSUME NEW n \in Nodes, Connect(n) \/ Disconnect(n) PROVE Goal
  BY <1>1, <1>4 DEF Connect, Disconnect
<1>5. ASSUME NEW n \in Nodes, SendStatus(n) PROVE Goal
  BY <1>2, <1>5 DEF SendStatus
<1>6. ASSUME NEW n \in Nodes, Rx(n) PROVE Goal
  BY <1>1, <1>6 DEF Rx, RxWait, RxEmpty, RxPop, RxReply, RxStatusDone
<1>7. ASSUME NEW c \in Callers, NEW to \in Nodes, SendPrepare(c, to) PROVE Goal
  BY <1>2, <1>7, Homes DEF SendPrepare
<1>8. ASSUME NEW c \in Callers, Send(c) PROVE Goal
  BY <1>1, <1>8 DEF Send, SendPublish, SendReturns, SendTimesOut
<1>9. ASSUME NEW m \in outbox, BrokerForwards(m) PROVE Goal
  BY <1>1, <1>9 DEF BrokerForwards
<1>10. ASSUME NEW m \in inbox, OnRecvAck(m) \/ OnRecvOther(m) PROVE Goal
  BY <1>1, <1>10 DEF OnRecvAck, OnRecvOther
<1>11. CASE UNCHANGED vars
  BY <1>1, <1>11 DEF vars
<1> QED
  BY <1>3, <1>4, <1>5, <1>6, <1>7, <1>8, <1>9, <1>10, <1>11 DEF Next

(* A call begins with SendPrepare and keeps its number until it is over. *)
LEMMA Calls ==
  TypeOK /\ [Next]_vars =>
    \A c \in Callers : call'[c].pc # "idle" =>
      \/ /\ Open(c) /\ call'[c].id = call[c].id /\ call'[c].to = call[c].to
         /\ call'[c].pc = "prepared" => call[c].pc = "prepared"
      \/ \E to \in Nodes : SendPrepare(c, to)
<1> SUFFICES ASSUME TypeOK, [Next]_vars, NEW c \in Callers, call'[c].pc # "idle"
             PROVE  \/ /\ Open(c) /\ call'[c].id = call[c].id /\ call'[c].to = call[c].to
                       /\ call'[c].pc = "prepared" => call[c].pc = "prepared"
                    \/ \E to \in Nodes : SendPrepare(c, to)
  OBVIOUS
<1>c. call \in [Callers -> CallRecord]
  BY DEF TypeOK, CallRecord
<1>1. CASE call' = call
  BY <1>1 DEF Open
<1>2. ASSUME NEW d \in Callers, NEW to \in Nodes, SendPrepare(d, to), d # c PROVE call'[c] = call[c]
  BY <1>2, <1>c DEF SendPrepare
<1>3. ASSUME NEW d \in Callers, Send(d), d # c PROVE call'[c] = call[c]
  BY <1>3, <1>c DEF Send, SendPublish, SendReturns, SendTimesOut
<1>4. CASE SendPublish(c)
  <2>1. call' = [call EXCEPT ![c].pc = "waiting"] \/ call' = [call EXCEPT ![c].pc = "idle"]
    BY <1>4 DEF SendPublish
  <2>2. call' = [call EXCEPT ![c].pc = "waiting"]
    BY <1>c, <2>1 DEF CallRecord
  <2>3. call'[c].pc = "waiting" /\ call'[c].id = call[c].id /\ call'[c].to = call[c].to
    BY <1>c, <2>2 DEF CallRecord
  <2> QED
    BY <1>4, <2>3 DEF SendPublish, Open
<1>5. ~SendReturns(c) /\ ~SendTimesOut(c)
  BY <1>c DEF SendReturns, SendTimesOut, CallRecord
<1>6. ASSUME NEW n \in Nodes, Owner(n) \/ Connect(n) \/ Disconnect(n) \/ SendStatus(n) \/ Rx(n) PROVE call' = call
  BY <1>6 DEF Owner, StartIPC, StartSubscribe, StartFails, StopClient, StopRx, JoinRx, Connect, Disconnect,
     SendStatus, Rx, RxWait, RxEmpty, RxPop, RxReply, RxStatusDone
<1>7. ASSUME NEW m \in outbox, BrokerForwards(m) PROVE call' = call
  BY <1>7 DEF BrokerForwards
<1>8. ASSUME NEW m \in inbox, OnRecvAck(m) \/ OnRecvOther(m) PROVE call' = call
  BY <1>8 DEF OnRecvAck, OnRecvOther
<1>9. CASE UNCHANGED vars
  BY <1>1, <1>9 DEF vars
<1> QED
  BY <1>1, <1>2, <1>3, <1>4, <1>5, <1>6, <1>7, <1>8, <1>9 DEF Next, Send, Open

(* What an rx thread serves it took from its queue, and a control is executed
   when it is taken. *)
LEMMA Serves ==
  TypeOK /\ [Next]_vars =>
    /\ \A n \in Serving' : (n \in Serving /\ rx_msg'[n] = rx_msg[n]) \/ RxPop(n)
    /\ executed' # executed => \E n \in Nodes : RxPop(n)
    /\ \A n \in Nodes : RxPop(n) =>
         /\ Head(rx_queue[n]) \in Live /\ Head(rx_queue[n]) \in Message
         /\ rx_msg'[n] = Head(rx_queue[n])
         /\ executed' = executed \cup (IF Control(rx_msg'[n]) THEN {rx_msg'[n].id} ELSE {})
<1> SUFFICES ASSUME TypeOK, [Next]_vars
             PROVE  /\ \A n \in Nodes : rx_pc'[n] = "serving" => (rx_pc[n] = "serving" /\ rx_msg'[n] = rx_msg[n]) \/ RxPop(n)
                    /\ executed' # executed => \E n \in Nodes : RxPop(n)
                    /\ \A n \in Nodes : RxPop(n) =>
                         /\ Head(rx_queue[n]) \in Live /\ Head(rx_queue[n]) \in Message
                         /\ rx_msg'[n] = Head(rx_queue[n])
                         /\ executed' = executed \cup (IF Control(rx_msg'[n]) THEN {rx_msg'[n].id} ELSE {})
  BY DEF Serving
<1> DEFINE Stays == \A n \in Nodes : rx_pc'[n] = "serving" => rx_pc[n] = "serving" /\ rx_msg'[n] = rx_msg[n]
           Keep  == executed' = executed /\ Stays
<1>t. /\ rx_queue \in [Nodes -> Seq(Message)]
      /\ rx_pc \in [Nodes -> {"off", "wait", "pop", "serving"}]
      /\ rx_msg \in [Nodes -> Message \cup {NoMessage}]
  BY DEF TypeOK
<1>1. ASSUME NEW n \in Nodes, RxPop(n)
      PROVE  /\ Head(rx_queue[n]) \in Live /\ Head(rx_queue[n]) \in Message
             /\ rx_msg'[n] = Head(rx_queue[n])
             /\ executed' = executed \cup (IF Control(rx_msg'[n]) THEN {rx_msg'[n].id} ELSE {})
             /\ \A o \in Nodes \ {n} : rx_pc'[o] = rx_pc[o] /\ rx_msg'[o] = rx_msg[o]
  <2>1. rx_queue[n] \in Seq(Message) /\ rx_queue[n] # << >>
    BY <1>1, <1>t DEF RxPop, IsEmpty
  <2>2. Head(rx_queue[n]) \in Message /\ 1 \in DOMAIN rx_queue[n] /\ Head(rx_queue[n]) = rx_queue[n][1]
    BY <2>1, HeadTailProperties
  <2>3. Head(rx_queue[n]) \in Live
    BY <2>2, WhereIs DEF Live
  <2>4. /\ rx_msg'[n] = Head(rx_queue[n])
        /\ \A o \in Nodes \ {n} : rx_pc'[o] = rx_pc[o] /\ rx_msg'[o] = rx_msg[o]
    BY <1>1, <1>t DEF RxPop
  <2>5. executed' = executed \cup (IF Control(rx_msg'[n]) THEN {rx_msg'[n].id} ELSE {})
    BY <1>1, <2>4 DEF RxPop, Control
  <2> QED
    BY <2>2, <2>3, <2>4, <2>5
<1> USE DEF ownerVars, rxVars
<1>2. CASE UNCHANGED <<rx_pc, rx_msg, executed>>
  BY <1>1, <1>2
<1>3. ASSUME NEW n \in Nodes, Owner(n) \/ Connect(n) \/ Disconnect(n) \/ SendStatus(n) PROVE Keep
  <2>1. CASE StartIPC(n)
    BY <1>t, <2>1 DEF StartIPC
  <2>2. CASE ~StartIPC(n)
    BY <1>3, <2>2 DEF Owner, StartSubscribe, StartFails, StopClient, StopRx, JoinRx, Connect, Disconnect, SendStatus
  <2> QED
    BY <2>1, <2>2
<1>4. ASSUME NEW n \in Nodes, RxWait(n) PROVE Keep
  BY <1>t, <1>4 DEF RxWait, NextTurn
<1>5. ASSUME NEW n \in Nodes, RxEmpty(n) PROVE Keep
  BY <1>t, <1>5 DEF RxEmpty
<1>6. ASSUME NEW n \in Nodes, RxReply(n) PROVE Keep
  BY <1>t, <1>6 DEF RxReply, NextTurn
<1>7. ASSUME NEW n \in Nodes, RxStatusDone(n) PROVE Keep
  BY <1>t, <1>7 DEF RxStatusDone, NextTurn
<1>8. ASSUME NEW c \in Callers, (\E to \in Nodes : SendPrepare(c, to)) \/ Send(c) PROVE Keep
  BY <1>8 DEF SendPrepare, Send, SendPublish, SendReturns, SendTimesOut
<1>9. ASSUME NEW m \in outbox, BrokerForwards(m) PROVE Keep
  BY <1>9 DEF BrokerForwards
<1>10. ASSUME NEW m \in inbox, OnRecvAck(m) \/ OnRecvOther(m) PROVE Keep
  BY <1>10 DEF OnRecvAck, OnRecvOther
<1>11. UNCHANGED vars => UNCHANGED <<rx_pc, rx_msg, executed>>
  BY DEF vars
<1>12. \/ Keep \/ UNCHANGED vars \/ \E n \in Nodes : RxPop(n)
  BY <1>3, <1>4, <1>5, <1>6, <1>7, <1>8, <1>9, <1>10 DEF Next, Rx
<1> QED
  BY <1>1, <1>2, <1>11, <1>12

LEMMA MessageKeeps == TypeOK /\ TypeOK' /\ MessageInv /\ CallInv /\ [Next]_vars => MessageInv'
<1> SUFFICES ASSUME TypeOK, TypeOK', MessageInv, CallInv, [Next]_vars PROVE MessageInv'
  OBVIOUS
<1>g. /\ \A n \in Nodes : numbered'[n] \in Nat /\ numbered[n] <= numbered'[n]
      /\ executed \subseteq executed'
      /\ \A n \in Nodes : numbered[n] \in Nat
  BY Grows, LiteIpcAssumption DEF TypeOK
<1>i. \A i \in Ids : i[1] \in Nodes /\ i[2] \in Nat
  BY LiteIpcAssumption DEF Ids
<1>m. \A m \in Message : m.id \in Ids
  BY DEF Message
<1>n. \A i \in Ids : Numbered(i) => Numbered(i)'
  BY <1>g, <1>i DEF Numbered
<1>v. \A w \in Live : /\ w \in Message /\ Numbered(w.id)
                      /\ w.kind = "CONTROL" => w.id[1] = w.from
                      /\ w.kind = "ACK" => w.id[1] = w.to /\ w.id \in executed
  BY DEF MessageInv
<1>o. outbox \subseteq Live /\ outbox' \subseteq Message
  BY WhereIs DEF Live, TypeOK
<1>1. ASSUME NEW w \in Live'
      PROVE  /\ w \in Message /\ Numbered(w.id)'
             /\ w.kind = "CONTROL" => w.id[1] = w.from
             /\ w.kind = "ACK" => w.id[1] = w.to /\ w.id \in executed'
  <2>1. CASE w \in Live
    BY <1>g, <1>m, <1>n, <1>v, <2>1
  <2>2. CASE w \in outbox' \ outbox
    <3>0. w \in Message
      BY <1>o, <2>2
    <3>1. CASE NewStatus(w)
      <4>1. PICK n \in Nodes : w.kind = "STATUS" /\ w.id = <<n, numbered[n]>> /\ numbered' = [numbered EXCEPT ![n] = numbered[n] + 1]
        BY <3>1 DEF NewStatus
      <4>2. numbered'[n] = numbered[n] + 1
        BY <4>1 DEF TypeOK
      <4> QED
        BY <1>g, <3>0, <4>1, <4>2 DEF Numbered
    <3>2. CASE NewControl(w)
      <4>1. PICK c \in Callers : call[c].pc = "prepared" /\ w.kind = "CONTROL" /\ w.from = Home(c) /\ w.id = call[c].id
        BY <3>2 DEF NewControl
      <4>2. call[c].id \in Ids /\ call[c].id[1] = Home(c) /\ Numbered(call[c].id)
        BY <4>1 DEF CallInv, Open
      <4> QED
        BY <1>n, <3>0, <4>1, <4>2
    <3>3. CASE NewAck(w)
      <4>1. PICK n \in Serving : rx_msg[n].kind = "CONTROL" /\ w = Ack(n, rx_msg[n])
        BY <3>3 DEF NewAck
      <4>2. n \in Nodes /\ rx_pc[n] = "serving" /\ rx_msg[n] \in Message
        BY <4>1 DEF TypeOK, NoMessage, Serving
      <4>3. rx_msg[n] \in Live
        BY <4>2, WhereIs DEF Live
      <4>4. w.kind = "ACK" /\ w.id = rx_msg[n].id /\ w.to = rx_msg[n].from
        BY <4>1 DEF Ack
      <4>5. rx_msg[n].id \in executed
        BY <4>1 DEF MessageInv
      <4> QED
        BY <1>g, <1>m, <1>n, <1>v, <3>0, <4>1, <4>3, <4>4, <4>5
    <3>4. CASE Again(w)
      <4>1. PICK m \in outbox : w.kind = m.kind /\ w.from = m.from /\ w.to = m.to /\ w.id = m.id
        BY <3>4 DEF Again
      <4> QED
        BY <1>g, <1>m, <1>n, <1>o, <1>v, <3>0, <4>1
    <3> QED
      BY <2>2, <3>1, <3>2, <3>3, <3>4, Sent
  <2> QED
    BY <1>o, <2>1, <2>2, Travels
<1>2. ASSUME NEW n \in Serving', rx_msg'[n].kind = "CONTROL" PROVE rx_msg'[n].id \in executed'
  <2>1. CASE n \in Serving /\ rx_msg'[n] = rx_msg[n]
    BY <1>2, <1>g, <2>1 DEF MessageInv
  <2>2. CASE RxPop(n)
    BY <1>2, <2>2, Serves DEF Serving, Control
  <2> QED
    BY <2>1, <2>2, Serves
<1>3. ASSUME NEW i \in executed' PROVE Numbered(i)'
  <2>1. CASE i \in executed
    <3>1. i \in Ids /\ Numbered(i)
      BY <2>1 DEF MessageInv, TypeOK
    <3> QED
      BY <1>n, <3>1
  <2>2. CASE i \notin executed
    <3>1. PICK n \in Nodes : RxPop(n)
      BY <2>2, Serves
    <3>2. i = rx_msg'[n].id /\ rx_msg'[n] \in Live
      BY <2>2, <3>1, Serves
    <3> QED
      BY <1>m, <1>n, <1>v, <3>2
  <2> QED
    BY <2>1, <2>2
<1>4. ASSUME NEW n \in Nodes, owner_pc'[n] = "stopped" PROVE rx_pc'[n] = "off"
  <2> USE DEF ownerVars, rxVars
  <2>t. /\ owner_pc \in [Nodes -> {"stopped", "starting", "running", "stopping", "joining"}]
        /\ rx_pc \in [Nodes -> {"off", "wait", "pop", "serving"}]
        /\ owner_pc[n] = "stopped" => rx_pc[n] = "off"
    BY DEF TypeOK, MessageInv
  <2>1. CASE UNCHANGED <<owner_pc, rx_pc>>
    BY <1>4, <2>1, <2>t
  <2>2. ASSUME NEW o \in Nodes, Owner(o) PROVE rx_pc'[n] = "off"
    <3>1. CASE StartIPC(o)
      BY <1>4, <2>t, <3>1 DEF StartIPC
    <3>2. CASE StartSubscribe(o)
      BY <1>4, <2>t, <3>2 DEF StartSubscribe
    <3>3. CASE StartFails(o)
      BY <1>4, <2>t, <3>3 DEF StartFails
    <3>4. CASE StopClient(o)
      BY <1>4, <2>t, <3>4 DEF StopClient
    <3>5. CASE StopRx(o)
      BY <1>4, <2>t, <3>5 DEF StopRx
    <3>6. CASE JoinRx(o)
      BY <1>4, <2>t, <3>6 DEF JoinRx
    <3> QED
      BY <2>2, <3>1, <3>2, <3>3, <3>4, <3>5, <3>6 DEF Owner
  <2>3. ASSUME NEW o \in Nodes, Connect(o) \/ Disconnect(o) \/ SendStatus(o) PROVE rx_pc'[n] = "off"
    BY <2>1, <2>3 DEF Connect, Disconnect, SendStatus
  <2>4. ASSUME NEW o \in Nodes, Rx(o) PROVE rx_pc'[n] = "off"
    <3>1. owner_pc' = owner_pc /\ rx_pc[o] # "off" /\ \E p : rx_pc' = [rx_pc EXCEPT ![o] = p]
      BY <2>4 DEF Rx, RxWait, RxEmpty, RxPop, RxReply, RxStatusDone
    <3> QED
      BY <1>4, <2>t, <3>1
  <2>5. ASSUME NEW c \in Callers, (\E to \in Nodes : SendPrepare(c, to)) \/ Send(c) PROVE rx_pc'[n] = "off"
    BY <2>1, <2>5 DEF SendPrepare, Send, SendPublish, SendReturns, SendTimesOut
  <2>6. ASSUME NEW m \in outbox, BrokerForwards(m) PROVE rx_pc'[n] = "off"
    BY <2>1, <2>6 DEF BrokerForwards
  <2>7. ASSUME NEW m \in inbox, OnRecvAck(m) \/ OnRecvOther(m) PROVE rx_pc'[n] = "off"
    BY <2>1, <2>7 DEF OnRecvAck, OnRecvOther
  <2>8. CASE UNCHANGED vars
    BY <2>1, <2>8 DEF vars
  <2> QED
    BY <2>2, <2>3, <2>4, <2>5, <2>6, <2>7, <2>8 DEF Next
<1> QED
  BY <1>1, <1>2, <1>3, <1>4 DEF MessageInv

LEMMA CallKeeps == TypeOK /\ TypeOK' /\ MessageInv /\ CallInv /\ [Next]_vars => CallInv'
<1> SUFFICES ASSUME TypeOK, TypeOK', MessageInv, CallInv, [Next]_vars PROVE CallInv'
  OBVIOUS
<1>g. \A n \in Nodes : numbered[n] \in Nat /\ numbered'[n] \in Nat /\ numbered[n] <= numbered'[n]
  BY Grows, LiteIpcAssumption DEF TypeOK
<1>i. \A i \in Ids : i[1] \in Nodes /\ i[2] \in Nat /\ (Numbered(i) => Numbered(i)')
  BY <1>g, LiteIpcAssumption DEF Ids, Numbered
<1>m. \A m \in Live : m.id \in Ids /\ Numbered(m.id)
  BY DEF Message, MessageInv
<1>o. outbox \subseteq Live
  BY WhereIs DEF Live
<1>c. \A c \in Callers : Open(c) =>
        /\ call[c].to \in Nodes /\ call[c].id \in Ids /\ call[c].id[1] = Home(c) /\ Numbered(call[c].id)
        /\ \A d \in Callers : Open(d) /\ call[d].id = call[c].id => d = c
        /\ \A m \in Live : m.id = call[c].id => m.kind # "STATUS"
  BY DEF CallInv
<1>1. ASSUME NEW c \in Callers, NEW to \in Nodes, SendPrepare(c, to)
      PROVE  /\ call'[c].to = to /\ call'[c].id = <<Home(c), numbered[Home(c)]>>
             /\ call'[c].id \in Ids /\ call'[c].id[1] = Home(c) /\ Numbered(call[c].id)'
             /\ ~Numbered(<<Home(c), numbered[Home(c)]>>)
             /\ \A d \in Callers \ {c} : call'[d] = call[d]
             /\ outbox' = outbox
  <2>h. Home(c) \in Nodes /\ numbered[Home(c)] \in 0..MaxMessages
    BY Homes DEF TypeOK
  <2>1. /\ call'[c] = [pc |-> "prepared", id |-> <<Home(c), numbered[Home(c)]>>, to |-> to, result |-> Empty]
        /\ \A d \in Callers \ {c} : call'[d] = call[d]
        /\ outbox' = outbox
    BY <1>1 DEF SendPrepare, TypeOK
  <2>2. numbered'[Home(c)] = numbered[Home(c)] + 1
    BY <1>1, <2>h DEF SendPrepare, TypeOK
  <2>3. call'[c].to = to /\ call'[c].id = <<Home(c), numbered[Home(c)]>>
    BY <2>1
  <2>4. call'[c].id \in Ids /\ call'[c].id[1] = Home(c) /\ Numbered(call[c].id)' /\ ~Numbered(<<Home(c), numbered[Home(c)]>>)
    BY <1>g, <2>h, <2>2, <2>3 DEF Ids, Numbered
  <2> QED
    BY <2>1, <2>3, <2>4
<1>2. ASSUME NEW c \in Callers, call'[c].pc # "idle"
      PROVE  call'[c].to \in Nodes /\ call'[c].id \in Ids /\ call'[c].id[1] = Home(c) /\ Numbered(call[c].id)'
  <2>1. ASSUME NEW to \in Nodes, SendPrepare(c, to)
        PROVE  call'[c].to \in Nodes /\ call'[c].id \in Ids /\ call'[c].id[1] = Home(c) /\ Numbered(call[c].id)'
    BY <1>1, <2>1
  <2>2. ASSUME Open(c), call'[c].id = call[c].id, call'[c].to = call[c].to
        PROVE  call'[c].to \in Nodes /\ call'[c].id \in Ids /\ call'[c].id[1] = Home(c) /\ Numbered(call[c].id)'
    <3>1. Numbered(call[c].id) /\ call[c].id \in Ids
      BY <1>c, <2>2
    <3>2. call[c].id[1] \in Nodes /\ call[c].id[2] \in Nat
      BY <1>i, <3>1
    <3>3. call'[c].id[2] < numbered'[call'[c].id[1]]
      BY <1>g, <2>2, <3>1, <3>2 DEF Numbered
    <3> QED
      BY <1>c, <2>2, <3>3 DEF Numbered
  <2> QED
    BY <1>2, <2>1, <2>2, Calls
<1>3. ASSUME NEW c \in Callers, NEW d \in Callers, call'[c].pc # "idle", call'[d].pc # "idle",
             call'[d].id = call'[c].id
      PROVE  d = c
  <2>1. CASE Open(c) /\ call'[c].id = call[c].id /\ Open(d) /\ call'[d].id = call[d].id
    BY <1>3, <1>c, <2>1
  <2>2. ASSUME NEW x \in Callers, NEW to \in Nodes, SendPrepare(x, to), NEW y \in Callers, x # y,
               call'[y].pc # "idle", call'[x].id = call'[y].id PROVE FALSE
    <3>1. Open(y) /\ call'[y].id = call[y].id
      BY <1>1, <2>2 DEF Open
    <3>2. Numbered(call[y].id)
      BY <1>c, <3>1
    <3>3. call'[x].id = <<Home(x), numbered[Home(x)]>> /\ ~Numbered(<<Home(x), numbered[Home(x)]>>)
      BY <1>1, <2>2
    <3> QED
      BY <2>2, <3>1, <3>2, <3>3
  <2> QED
    BY <1>3, <2>1, <2>2, Calls
<1>4. ASSUME NEW c \in Callers, call'[c].pc # "idle", NEW w \in Live', w.id = call'[c].id PROVE w.kind # "STATUS"
  <2>1. CASE w \in Live
    <3>1. ASSUME NEW to \in Nodes, SendPrepare(c, to) PROVE FALSE
      <4>1. Numbered(w.id)
        BY <1>m, <2>1
      <4>2. call'[c].id = <<Home(c), numbered[Home(c)]>> /\ ~Numbered(<<Home(c), numbered[Home(c)]>>)
        BY <1>1, <3>1
      <4> QED
        BY <1>4, <4>1, <4>2
    <3> QED
      BY <1>4, <1>c, <2>1, <3>1, Calls
  <2>2. CASE w \in outbox' \ outbox
    <3>1. CASE NewStatus(w)
      <4>1. PICK n \in Nodes : w.id = <<n, numbered[n]>> /\ call' = call
        BY <3>1 DEF NewStatus
      <4>2. Numbered(call[c].id) /\ w.id = call[c].id
        BY <1>4, <1>c, <4>1 DEF Open
      <4> QED
        BY <1>g, <4>1, <4>2 DEF Numbered
    <3>2. CASE NewControl(w) \/ NewAck(w)
      BY <3>2 DEF NewControl, NewAck, Ack
    <3>3. CASE Again(w)
      <4>1. PICK m \in outbox : w.kind = m.kind /\ w.id = m.id
        BY <3>3 DEF Again
      <4>2. outbox' # outbox
        BY <2>2
      <4>3. Open(c) /\ call'[c].id = call[c].id
        BY <1>1, <1>4, <4>2, Calls
      <4> QED
        BY <1>4, <1>c, <1>o, <4>1, <4>3
    <3> QED
      BY <2>2, <3>1, <3>2, <3>3, Sent
  <2> QED
    BY <1>o, <1>4, <2>1, <2>2, Travels
<1> QED
  BY <1>2, <1>3, <1>4 DEF CallInv, Open

LEMMA InitHolds == Init => IInv /\ SInv
<1> SUFFICES ASSUME Init PROVE IInv /\ SInv
  OBVIOUS
<1>1. TypeOK
  <2>1. Empty \notin Ids /\ Idle \in CallRecord /\ 0 \in 0..MaxMessages
    BY LiteIpcAssumption DEF Idle, CallRecord, Ids, Empty
  <2>2. DOMAIN slots = {}
    BY DEF Init
  <2>3. call \in [Callers -> CallRecord]
    BY <2>1 DEF Init
  <2>4. \A n \in Nodes : rx_queue[n] = << >> /\ << >> \in Seq(Message)
    BY DEF Init
  <2>5. rx_queue \in [Nodes -> Seq(Message)] /\ rx_msg \in [Nodes -> Message \cup {NoMessage}]
    BY <2>4 DEF Init
  <2>6. numbered \in [Nodes -> 0..MaxMessages]
    BY <2>1 DEF Init
  <2> QED
    BY <2>2, <2>3, <2>5, <2>6 DEF Init, TypeOK, CallRecord
<1>2. Live = {}
  BY WhereIs DEF Init, Live
<1>3. Serving = {} /\ \A c \in Callers : ~Open(c)
  BY DEF Init, Serving, Open, Idle
<1>4. MessageInv
  BY <1>2, <1>3 DEF Init, MessageInv
<1>5. CallInv
  BY <1>3 DEF CallInv
<1>6. OnceInv
  BY DEF Init, OnceInv, PlacedOnce
<1>7. FreshInv
  BY <1>3 DEF FreshInv, Open
<1>8. SInv
  BY <1>1, <1>3 DEF Init, SInv, SlotInv, WaitInv, Open
<1> QED
  BY <1>1, <1>4, <1>5, <1>6, <1>7, <1>8 DEF IInv

(* Every variable has its type, in every state. *)
THEOREM TypeCorrect == Spec => []TypeOK
<1> DEFINE Inv == TypeOK /\ MessageInv /\ CallInv
<1>1. Init => Inv
  BY InitHolds DEF IInv
<1>2. Inv /\ [Next]_vars => Inv'
  BY TypeKeeps, MessageKeeps, CallKeeps
<1>3. Inv => TypeOK
  OBVIOUS
<1> QED
  BY <1>1, <1>2, <1>3, PTL DEF Spec

-----------------------------------------------------------------------------
(* A control is executed at most once. *)

LEMMA FreshKeeps ==
  TypeOK /\ TypeOK' /\ MessageInv /\ CallInv /\ FreshInv /\ [Next]_vars => FreshInv'
<1> SUFFICES ASSUME TypeOK, TypeOK', MessageInv, CallInv, FreshInv, [Next]_vars,
                    NEW c \in Callers, call'[c].pc = "prepared"
             PROVE  call'[c].id \notin executed' /\ \A w \in Live' : w.id # call'[c].id
  BY DEF FreshInv
<1>g. \A n \in Nodes : numbered[n] \in Nat
  BY LiteIpcAssumption DEF TypeOK
<1>m. /\ \A m \in Live : m.id \in Ids /\ Numbered(m.id)
      /\ \A i \in executed : Numbered(i)
      /\ outbox \subseteq Live
  BY WhereIs DEF Message, MessageInv, Live
<1>1. ASSUME NEW to \in Nodes, SendPrepare(c, to)
      PROVE  call'[c].id \notin executed' /\ \A w \in Live' : w.id # call'[c].id
  <2>1. call'[c].id = <<Home(c), numbered[Home(c)]>> /\ executed' = executed /\ outbox' = outbox
    BY <1>1 DEF SendPrepare, TypeOK, ownerVars
  <2>2. ~Numbered(call'[c].id)
    BY <1>g, <2>1, Homes DEF Numbered
  <2>3. \A w \in Live' : Numbered(w.id)
    BY <1>m, <2>1, Travels
  <2> QED
    BY <1>m, <2>1, <2>2, <2>3
<1>2. ASSUME call[c].pc = "prepared", call'[c].id = call[c].id
      PROVE  call'[c].id \notin executed' /\ \A w \in Live' : w.id # call'[c].id
  <2>0. /\ call[c].id \notin executed /\ \A m \in Live : m.id # call[c].id
        /\ call[c].id \in Ids /\ Numbered(call[c].id)
        /\ \A d \in Callers : Open(d) /\ call[d].id = call[c].id => d = c
    BY <1>2 DEF FreshInv, CallInv, Open
  <2>1. call[c].id \notin executed'
    BY <2>0, Serves
  <2>2. ASSUME NEW w \in outbox' \ outbox PROVE w.id # call[c].id
    <3>1. CASE NewStatus(w)
      BY <1>g, <2>0, <3>1 DEF NewStatus, Numbered
    <3>2. CASE NewControl(w)
      <4>1. PICK d \in Callers : call[d].pc = "prepared" /\ call'[d].pc = "waiting" /\ w.id = call[d].id
        BY <3>2 DEF NewControl
      <4>2. d # c
        BY <1>2, <4>1
      <4> QED
        BY <2>0, <4>1, <4>2 DEF Open
    <3>3. CASE NewAck(w)
      <4>1. PICK n \in Serving : rx_msg[n].kind = "CONTROL" /\ w = Ack(n, rx_msg[n])
        BY <3>3 DEF NewAck
      <4>2. n \in Nodes /\ rx_pc[n] = "serving" /\ rx_msg[n] \in Message
        BY <4>1 DEF TypeOK, NoMessage, Serving
      <4>3. rx_msg[n] \in Live /\ w.id = rx_msg[n].id
        BY <4>1, <4>2, WhereIs DEF Live, Ack
      <4> QED
        BY <2>0, <4>3
    <3>4. CASE Again(w)
      BY <1>m, <2>0, <3>4 DEF Again
    <3> QED
      BY <2>2, <3>1, <3>2, <3>3, <3>4, Sent
  <2> QED
    BY <1>2, <1>m, <2>0, <2>1, <2>2, Travels
<1> QED
  BY <1>1, <1>2, Calls

(* One step of one message at a time. *)
LEMMA PlacesShrink ==
  ASSUME NEW out, NEW in, NEW queue, NEW done, PlacedOnce(out, in, queue, done),
         NEW out2, NEW in2,
         \A m \in out2 : Control(m) => m \in out, \A m \in in2 : Control(m) => m \in in
  PROVE  PlacedOnce(out2, in2, queue, done)
BY DEF PlacedOnce

LEMMA PlacedNew ==
  ASSUME NEW out, NEW in, NEW queue, NEW done, PlacedOnce(out, in, queue, done), NEW m, m.id \notin done,
         \A w \in out \cup in : w.id # m.id,
         \A n \in Nodes : \A j \in DOMAIN queue[n] : queue[n][j].id # m.id
  PROVE  PlacedOnce(out \cup {m}, in, queue, done)
BY DEF PlacedOnce

LEMMA PlacedOn ==
  ASSUME NEW out, NEW in, NEW queue, NEW done, PlacedOnce(out, in, queue, done), NEW m \in out
  PROVE  PlacedOnce(out \ {m}, in \cup {m}, queue, done)
BY DEF PlacedOnce

LEMMA PlacedQueue ==
  ASSUME NEW out, NEW in, NEW queue \in [Nodes -> Seq(Message)], NEW done, PlacedOnce(out, in, queue, done),
         NEW m \in in, m \in Message, NEW n \in Nodes
  PROVE  PlacedOnce(out, in \ {m}, [queue EXCEPT ![n] = Append(@, m)], done)
<1> DEFINE q == [queue EXCEPT ![n] = Append(@, m)]
           top == Len(queue[n]) + 1
<1>1. queue[n] \in Seq(Message) /\ Len(queue[n]) \in Nat /\ DOMAIN queue[n] = 1..Len(queue[n])
  BY LenProperties
<1>2. /\ DOMAIN Append(queue[n], m) = 1..top /\ Append(queue[n], m)[top] = m
      /\ \A j \in 1..Len(queue[n]) : Append(queue[n], m)[j] = queue[n][j]
  BY <1>1, AppendProperties
<1>3. \A o \in Nodes : q[o] = IF o = n THEN Append(queue[n], m) ELSE queue[o]
  OBVIOUS
<1>4. \A o \in Nodes : \A j \in DOMAIN q[o] :
        \/ o = n /\ j = top /\ q[o][j] = m
        \/ j \in DOMAIN queue[o] /\ q[o][j] = queue[o][j]
  BY <1>1, <1>2, <1>3
<1> HIDE DEF q, top
<1>o. /\ \A u, w \in out : Control(u) /\ Control(w) /\ u.id = w.id => u = w
      /\ \A u, w \in in : Control(u) /\ Control(w) /\ u.id = w.id => u = w
      /\ \A u \in out, w \in in : Control(u) /\ Control(w) => u.id # w.id
      /\ \A u \in out \cup in : Control(u) =>
           u.id \notin done /\ \A o \in Nodes : \A j \in DOMAIN queue[o] : Control(queue[o][j]) => u.id # queue[o][j].id
      /\ \A o, p \in Nodes : \A j \in DOMAIN queue[o], k \in DOMAIN queue[p] :
           Control(queue[o][j]) /\ Control(queue[p][k]) /\ queue[o][j].id = queue[p][k].id => o = p /\ j = k
      /\ \A o \in Nodes : \A j \in DOMAIN queue[o] : Control(queue[o][j]) => queue[o][j].id \notin done
  BY DEF PlacedOnce
<1>5. ASSUME NEW u \in out \cup (in \ {m}), Control(u), Control(m) PROVE u.id # m.id
  <2>1. CASE u \in out
    BY <1>5, <1>o, <2>1
  <2>2. CASE u \in in /\ u # m
    BY <1>5, <1>o, <2>2
  <2> QED
    BY <2>1, <2>2
<1>6. ASSUME NEW u \in out \cup (in \ {m}), Control(u),
             NEW o \in Nodes, NEW j \in DOMAIN q[o], Control(q[o][j])
      PROVE  u.id # q[o][j].id
  <2>1. CASE q[o][j] = m
    BY <1>5, <1>6, <2>1
  <2>2. CASE j \in DOMAIN queue[o] /\ q[o][j] = queue[o][j]
    BY <1>6, <1>o, <2>2
  <2> QED
    BY <1>4, <2>1, <2>2
<1>7. ASSUME NEW o \in Nodes, NEW p \in Nodes, NEW j \in DOMAIN q[o], NEW k \in DOMAIN q[p],
             Control(q[o][j]), Control(q[p][k]), q[o][j].id = q[p][k].id
      PROVE  o = p /\ j = k
  <2>1. CASE j \in DOMAIN queue[o] /\ q[o][j] = queue[o][j] /\ k \in DOMAIN queue[p] /\ q[p][k] = queue[p][k]
    BY <1>7, <1>o, <2>1
  <2>2. CASE j \in DOMAIN queue[o] /\ q[o][j] = queue[o][j] /\ p = n /\ k = top /\ q[p][k] = m
    BY <1>7, <1>o, <2>2
  <2>3. CASE o = n /\ j = top /\ q[o][j] = m /\ k \in DOMAIN queue[p] /\ q[p][k] = queue[p][k]
    BY <1>7, <1>o, <2>3
  <2>4. CASE o = n /\ j = top /\ p = n /\ k = top
    BY <2>4
  <2> QED
    BY <1>4, <2>1, <2>2, <2>3, <2>4
<1>8. \A o \in Nodes : \A j \in DOMAIN q[o] : Control(q[o][j]) => q[o][j].id \notin done
  BY <1>4, <1>o
<1>9. PlacedOnce(out, in \ {m}, q, done)
  BY <1>6, <1>7, <1>8, <1>o DEF PlacedOnce
<1> QED
  BY <1>9 DEF q

LEMMA PlacedPop ==
  ASSUME NEW out, NEW in, NEW queue \in [Nodes -> Seq(Message)], NEW done, PlacedOnce(out, in, queue, done),
         NEW n \in Nodes, queue[n] # << >>
  PROVE  PlacedOnce(out, in, [queue EXCEPT ![n] = Tail(@)],
                    IF Control(Head(queue[n])) THEN done \cup {Head(queue[n]).id} ELSE done)
<1> DEFINE q  == [queue EXCEPT ![n] = Tail(@)]
           d2 == IF Control(Head(queue[n])) THEN done \cup {Head(queue[n]).id} ELSE done
<1>1. queue[n] \in Seq(Message)
  OBVIOUS
<1>2. /\ 1 \in DOMAIN queue[n] /\ Head(queue[n]) = queue[n][1]
      /\ \A j \in DOMAIN Tail(queue[n]) :
           j \in Nat \ {0} /\ j + 1 \in DOMAIN queue[n] /\ Tail(queue[n])[j] = queue[n][j + 1]
  BY <1>1, HeadTailProperties, LenProperties
<1>3. \A o \in Nodes : \A j \in DOMAIN q[o] :
        \/ o = n /\ j \in Nat \ {0} /\ j + 1 \in DOMAIN queue[o] /\ q[o][j] = queue[o][j + 1]
        \/ o # n /\ j \in DOMAIN queue[o] /\ q[o][j] = queue[o][j]
  BY <1>2
<1>4. \A i \in d2 : i \in done \/ (Control(queue[n][1]) /\ i = queue[n][1].id)
  BY <1>2
<1> HIDE DEF q, d2
<1>5. ASSUME NEW o \in Nodes, NEW p \in Nodes, NEW j \in DOMAIN q[o], NEW k \in DOMAIN q[p],
             Control(q[o][j]), Control(q[p][k]), q[o][j].id = q[p][k].id
      PROVE  o = p /\ j = k
  <2> DEFINE jj == IF o = n THEN j + 1 ELSE j
             kk == IF p = n THEN k + 1 ELSE k
  <2>1. jj \in DOMAIN queue[o] /\ q[o][j] = queue[o][jj] /\ kk \in DOMAIN queue[p] /\ q[p][k] = queue[p][kk]
    BY <1>3
  <2>2. o = p /\ jj = kk
    <3> HIDE DEF jj, kk
    <3> QED
      BY <1>5, <2>1 DEF PlacedOnce
  <2> QED
    BY <1>3, <2>2
<1>6. \A o \in Nodes : \A j \in DOMAIN q[o] : Control(q[o][j]) => q[o][j].id \notin d2
  BY <1>2, <1>3, <1>4 DEF PlacedOnce
<1>7. \A m \in out \cup in : Control(m) =>
        m.id \notin d2 /\ \A o \in Nodes : \A j \in DOMAIN q[o] : Control(q[o][j]) => m.id # q[o][j].id
  BY <1>2, <1>3, <1>4 DEF PlacedOnce
<1>8. PlacedOnce(out, in, q, d2)
  BY <1>5, <1>6, <1>7 DEF PlacedOnce
<1> QED
  BY <1>8 DEF q, d2

LEMMA OnceKeeps ==
  ControlsOnce /\ TypeOK /\ OnceInv /\ FreshInv /\ [Next]_vars => OnceInv'
<1> SUFFICES ASSUME ControlsOnce, TypeOK, OnceInv, FreshInv, [Next]_vars PROVE OnceInv'
  OBVIOUS
<1>t. /\ rx_queue \in [Nodes -> Seq(Message)] /\ outbox \subseteq Message /\ inbox \subseteq Message
      /\ \A m \in Message : m.to \in Nodes
  <2>1. \A m \in Message : m.to \in Nodes
    BY DEF Message
  <2> QED
    BY <2>1 DEF TypeOK
<1>o. PlacedOnce(outbox, inbox, rx_queue, executed)
  BY DEF OnceInv
<1> USE DEF ownerVars, rxVars
<1>1. CASE /\ \A m \in outbox' : Control(m) => m \in outbox
           /\ inbox' \subseteq inbox /\ rx_queue' = rx_queue /\ executed' = executed
  BY <1>1, <1>o, PlacesShrink DEF OnceInv
<1>2. ASSUME NEW n \in Nodes, Owner(n) PROVE OnceInv'
  BY <1>1, <1>2 DEF Owner, StartIPC, StartSubscribe, StartFails, StopClient, StopRx, JoinRx
<1>3. ASSUME NEW n \in Nodes, Connect(n) \/ Disconnect(n) PROVE OnceInv'
  BY <1>1, <1>3 DEF Connect, Disconnect
<1>4. ASSUME NEW n \in Nodes, SendStatus(n) PROVE OnceInv'
  BY <1>1, <1>4 DEF SendStatus, Control
<1>5. ASSUME NEW n \in Nodes, RxWait(n) \/ RxEmpty(n) \/ RxStatusDone(n) PROVE OnceInv'
  BY <1>1, <1>5 DEF RxWait, RxEmpty, RxStatusDone
<1>6. ASSUME NEW n \in Nodes, RxReply(n) PROVE OnceInv'
  BY <1>1, <1>6 DEF RxReply, Ack, Control
<1>7. ASSUME NEW n \in Nodes, RxPop(n) PROVE OnceInv'
  <2>1. /\ rx_queue[n] # << >> /\ outbox' = outbox /\ inbox' = inbox
        /\ rx_queue' = [rx_queue EXCEPT ![n] = Tail(@)]
        /\ executed' = IF Control(Head(rx_queue[n])) THEN executed \cup {Head(rx_queue[n]).id} ELSE executed
    BY <1>7 DEF RxPop, IsEmpty, Popped, Control
  <2> QED
    BY <1>o, <1>t, <2>1, PlacedPop DEF OnceInv
<1>8. ASSUME NEW c \in Callers, (\E to \in Nodes : SendPrepare(c, to)) \/ SendReturns(c) \/ SendTimesOut(c)
      PROVE  OnceInv'
  BY <1>1, <1>8 DEF SendPrepare, SendReturns, SendTimesOut
<1>9. ASSUME NEW c \in Callers, SendPublish(c) PROVE OnceInv'
  <2> DEFINE m == [kind |-> "CONTROL", from |-> Home(c), to |-> call[c].to, id |-> call[c].id, resent |-> FALSE]
  <2>1. /\ outbox' = outbox \cup {m} \/ outbox' = outbox
        /\ inbox' = inbox /\ rx_queue' = rx_queue /\ executed' = executed
    BY <1>9 DEF SendPublish
  <2>2. m.id \notin executed /\ \A w \in Live : w.id # m.id
    BY <1>9 DEF SendPublish, FreshInv
  <2> HIDE DEF m
  <2>3. \A n \in Nodes : \A j \in DOMAIN rx_queue[n] : rx_queue[n][j] \in Message
    BY <1>t, ElementOfSeq, LenProperties
  <2>4. /\ \A w \in outbox \cup inbox : w.id # m.id
        /\ \A n \in Nodes : \A j \in DOMAIN rx_queue[n] : rx_queue[n][j].id # m.id
    BY <2>2, <2>3, WhereIs DEF Live
  <2>5. PlacedOnce(outbox \cup {m}, inbox, rx_queue, executed)
    BY <1>o, <2>2, <2>4, PlacedNew
  <2> QED
    BY <1>o, <2>1, <2>5 DEF OnceInv
<1>10. ASSUME NEW m \in outbox, BrokerForwards(m) PROVE OnceInv'
  <2>1. PICK kept \in Kept(m) : outbox' = (outbox \ {m}) \cup kept
    BY <1>10 DEF BrokerForwards
  <2>2. /\ \A w \in kept : w.kind = m.kind /\ Qos(m.kind) = 1
        /\ inbox' \in {inbox, inbox \cup {m}} /\ rx_queue' = rx_queue /\ executed' = executed
    BY <1>10, <2>1 DEF BrokerForwards, Kept
  <2>3. \A w \in kept : ~Control(w)
    BY <2>2 DEF ControlsOnce, Control
  <2>4. PlacedOnce(outbox \ {m}, inbox \cup {m}, rx_queue, executed)
    BY <1>o, PlacedOn
  <2>5. PlacedOnce(outbox', inbox', rx_queue, executed)
    BY <2>1, <2>2, <2>3, <2>4, PlacesShrink
  <2> QED
    BY <2>2, <2>5 DEF OnceInv
<1>11. ASSUME NEW m \in inbox, OnRecvAck(m) PROVE OnceInv'
  BY <1>1, <1>11 DEF OnRecvAck
<1>12. ASSUME NEW m \in inbox, OnRecvOther(m) PROVE OnceInv'
  BY <1>12, <1>o, <1>t, PlacedQueue DEF OnRecvOther, OnceInv
<1>13. CASE UNCHANGED vars
  BY <1>1, <1>13 DEF vars
<1> QED
  BY <1>2, <1>3, <1>4, <1>5, <1>6, <1>7, <1>8, <1>9, <1>10, <1>11, <1>12, <1>13 DEF Next, Rx, Send

LEMMA IInvKeeps == ControlsOnce /\ IInv /\ [Next]_vars => IInv'
BY TypeKeeps, MessageKeeps, CallKeeps, OnceKeeps, FreshKeeps DEF IInv

(* A control that is not sent at QoS 1 is handed to onRecvControl at most
   once, whatever is lost, late or restarted (comex_liteipc.cpp:268-314). *)
THEOREM Once ==
  ASSUME ControlsOnce
  PROVE  Spec => ExecutedOnce
<1>1. Init => IInv
  BY InitHolds
<1>2. IInv /\ [Next]_vars => IInv'
  BY ControlsOnce, IInvKeeps
<1>3. IInv /\ [Next]_vars =>
        [\A n \in Nodes : rx_pc[n] = "pop" /\ rx_pc'[n] = "serving" /\ rx_msg'[n].kind = "CONTROL"
                            => rx_msg'[n].id \notin executed]_vars
  <2> SUFFICES ASSUME IInv, [Next]_vars, NEW n \in Nodes,
                      rx_pc[n] = "pop", rx_pc'[n] = "serving", rx_msg'[n].kind = "CONTROL"
               PROVE  rx_msg'[n].id \notin executed
    OBVIOUS
  <2>1. RxPop(n) /\ rx_msg'[n] = Head(rx_queue[n])
    BY Serves DEF IInv, Serving
  <2>2. rx_queue[n] \in Seq(Message) /\ rx_queue[n] # << >>
    BY <2>1 DEF RxPop, IsEmpty, IInv, TypeOK
  <2>3. 1 \in DOMAIN rx_queue[n] /\ rx_msg'[n] = rx_queue[n][1]
    BY <2>1, <2>2, HeadTailProperties
  <2> QED
    BY <2>3 DEF IInv, OnceInv, PlacedOnce, Control
<1> QED
  BY <1>1, <1>2, <1>3, PTL DEF Spec, ExecutedOnce

-----------------------------------------------------------------------------
(* The slots of the sync adapters. *)

(* What a step does to the slots and the calls: a call begins or ends, an ACK
   comes, or nothing. *)
Begins(c, to) == /\ call'[c] = [pc |-> "prepared", id |-> <<Home(c), numbered[Home(c)]>>, to |-> to, result |-> Empty]
                 /\ slots' = With(slots, CallSlot(c)', Empty)
                 /\ \A d \in Callers \ {c} : call'[d] = call[d]
Ends(c)       == /\ Open(c) /\ call'[c].pc = "idle" /\ call'[c].id = call[c].id
                 /\ slots' = Without(slots, CallSlot(c))
                 /\ \A d \in Callers \ {c} : call'[d] = call[d]
Rests         == /\ slots' = slots
                 /\ \A c \in Callers : call'[c].id = call[c].id /\ (call'[c].pc = "idle" <=> call[c].pc = "idle")
Acked(m)      == /\ IsAck(m) /\ m \in inbox /\ call' = call
                 /\ LET s == Slot(m.to, m.id[2])
                    IN  slots' = IF s \in DOMAIN slots THEN With(slots, s, m.id) ELSE slots

LEMMA SlotSteps ==
  TypeOK /\ [Next]_vars =>
    \/ Rests
    \/ \E c \in Callers, to \in Nodes : ~Open(c) /\ Begins(c, to)
    \/ \E c \in Callers : Ends(c)
    \/ \E m \in inbox : Acked(m)
<1> SUFFICES ASSUME TypeOK, [Next]_vars
             PROVE  \/ Rests
                    \/ \E c \in Callers, to \in Nodes : ~Open(c) /\ Begins(c, to)
                    \/ \E c \in Callers : Ends(c)
                    \/ \E m \in inbox : Acked(m)
  OBVIOUS
<1>c. call \in [Callers -> CallRecord]
  BY DEF TypeOK, CallRecord
<1>1. UNCHANGED <<slots, call>> => Rests
  BY DEF Rests
<1>2. ASSUME NEW c \in Callers, NEW to \in Nodes, SendPrepare(c, to) PROVE ~Open(c) /\ Begins(c, to)
  <2>1. /\ call'[c] = [pc |-> "prepared", id |-> <<Home(c), numbered[Home(c)]>>, to |-> to, result |-> Empty]
        /\ \A d \in Callers \ {c} : call'[d] = call[d]
    BY <1>2, <1>c DEF SendPrepare
  <2>2. CallSlot(c)' = Slot(Home(c), numbered[Home(c)])
    BY <2>1 DEF CallSlot
  <2> QED
    BY <1>2, <2>1, <2>2 DEF SendPrepare, Prepared, Open, Begins
<1>3. ASSUME NEW c \in Callers, SendPublish(c) PROVE Rests \/ Ends(c)
  <2>1. \/ call' = [call EXCEPT ![c].pc = "waiting"] /\ slots' = slots
        \/ call' = [call EXCEPT ![c].pc = "idle"] /\ slots' = Cleared(c)
    BY <1>3 DEF SendPublish
  <2>2. CASE call' = [call EXCEPT ![c].pc = "waiting"] /\ slots' = slots
    <3>1. /\ call'[c].pc = "waiting" /\ call'[c].id = call[c].id
          /\ \A d \in Callers \ {c} : call'[d] = call[d]
      BY <1>c, <2>2 DEF CallRecord
    <3> QED
      BY <1>3, <2>2, <3>1 DEF SendPublish, Rests
  <2>3. CASE call' = [call EXCEPT ![c].pc = "idle"] /\ slots' = Cleared(c)
    <3>1. /\ call'[c].pc = "idle" /\ call'[c].id = call[c].id
          /\ \A d \in Callers \ {c} : call'[d] = call[d]
      BY <1>c, <2>3 DEF CallRecord
    <3> QED
      BY <1>3, <2>3, <3>1 DEF SendPublish, Ends, Open, Cleared
  <2> QED
    BY <2>1, <2>2, <2>3
<1>4. ASSUME NEW c \in Callers, SendReturns(c) PROVE Ends(c)
  <2>1. /\ call'[c].pc = "idle" /\ call'[c].id = call[c].id
        /\ \A d \in Callers \ {c} : call'[d] = call[d]
    BY <1>4, <1>c DEF SendReturns
  <2> QED
    BY <1>4, <2>1 DEF SendReturns, Ends, Open, Cleared
<1>5. ASSUME NEW c \in Callers, SendTimesOut(c) PROVE Ends(c)
  <2>1. call' = [call EXCEPT ![c].pc = "idle"]
    BY <1>5 DEF SendTimesOut
  <2>2. /\ call'[c].pc = "idle" /\ call'[c].id = call[c].id
        /\ \A d \in Callers \ {c} : call'[d] = call[d]
    BY <1>c, <2>1 DEF CallRecord
  <2> QED
    BY <1>5, <2>2 DEF SendTimesOut, Ends, Open, Cleared
<1>6. ASSUME NEW m \in inbox, OnRecvAck(m) PROVE Acked(m)
  BY <1>6 DEF OnRecvAck, Acked
<1> USE DEF ownerVars, rxVars
<1>7. ASSUME NEW n \in Nodes, Owner(n) \/ Connect(n) \/ Disconnect(n) \/ SendStatus(n) \/ Rx(n)
      PROVE  UNCHANGED <<slots, call>>
  BY <1>7 DEF Owner, StartIPC, StartSubscribe, StartFails, StopClient, StopRx, JoinRx, Connect, Disconnect,
     SendStatus, Rx, RxWait, RxEmpty, RxPop, RxReply, RxStatusDone
<1>8. ASSUME NEW m \in outbox, BrokerForwards(m) PROVE UNCHANGED <<slots, call>>
  BY <1>8 DEF BrokerForwards
<1>9. ASSUME NEW m \in inbox, OnRecvOther(m) PROVE UNCHANGED <<slots, call>>
  BY <1>9 DEF OnRecvOther
<1>10. UNCHANGED vars => UNCHANGED <<slots, call>>
  BY DEF vars
<1> QED
  BY <1>1, <1>2, <1>3, <1>4, <1>5, <1>6, <1>7, <1>8, <1>9, <1>10 DEF Next, Send

(* Two open calls have two slots, and an ACK that hits the slot of a call is
   the ACK of that call. *)
LEMMA OwnSlots ==
  ASSUME OneObject, TypeOK, MessageInv, CallInv, MagicsApart
  PROVE  /\ \A c, d \in Callers : Open(c) /\ Open(d) /\ CallSlot(c) = CallSlot(d) => c = d
         /\ \A c \in Callers, m \in inbox :
              Open(c) /\ IsAck(m) /\ Slot(m.to, m.id[2]) = CallSlot(c) => m.id = call[c].id /\ m.id \in executed
<1>1. ASSUME NEW c \in Callers, NEW d \in Callers, Open(c), Open(d), CallSlot(c) = CallSlot(d) PROVE c = d
  <2>1. Home(c) = Home(d) /\ Magic(call[c].id[2]) = Magic(call[d].id[2])
    BY <1>1, Homes DEF CallSlot, Slot, OneObject
  <2> QED
    BY <1>1, <2>1 DEF MagicsApart
<1>2. ASSUME NEW c \in Callers, NEW m \in inbox, Open(c), IsAck(m), Slot(m.to, m.id[2]) = CallSlot(c)
      PROVE  m.id = call[c].id /\ m.id \in executed
  <2>1. m \in Live
    BY WhereIs DEF Live
  <2>2. m.to \in Nodes /\ m.id \in executed
    BY <1>2, <2>1 DEF MessageInv, IsAck, Message
  <2>3. m.to = Home(c) /\ Magic(m.id[2]) = Magic(call[c].id[2])
    BY <1>2, <2>2, Homes DEF CallSlot, Slot, OneObject
  <2> QED
    BY <1>2, <2>2, <2>3 DEF MagicsApart
<1> QED
  BY <1>1, <1>2

LEMMA SlotKeeps ==
  ASSUME OneObject, TypeOK, TypeOK', MessageInv, CallInv, MessageInv', CallInv', SlotInv,
         MagicsApart, MagicsApart', [Next]_vars
  PROVE  SlotInv'
<1>o. \A c, d \in Callers : Open(c) /\ Open(d) /\ CallSlot(c) = CallSlot(d) => c = d
  BY OwnSlots
<1>x. executed \subseteq executed'
  BY Grows
<1>s. /\ \A c \in Callers : Open(c) => CallSlot(c) \in DOMAIN slots
      /\ \A s \in DOMAIN slots : \E c \in Callers : Open(c) /\ CallSlot(c) = s
      /\ \A c \in Callers : Open(c) /\ CallSlot(c) \in DOMAIN slots /\ slots[CallSlot(c)] # Empty
           => slots[CallSlot(c)] = call[c].id /\ call[c].id \in executed
  BY DEF SlotInv, Posted
<1> DEFINE SC(c) == Slot(Home(c), call'[c].id[2])
<1>g. SUFFICES /\ \A c \in Callers : call'[c].pc # "idle" => SC(c) \in DOMAIN slots'
               /\ \A s \in DOMAIN slots' : \E c \in Callers : call'[c].pc # "idle" /\ SC(c) = s
               /\ \A c \in Callers : call'[c].pc # "idle" /\ slots'[SC(c)] # Empty
                    => slots'[SC(c)] = call'[c].id /\ call'[c].id \in executed'
  BY DEF SlotInv, Posted, Open, CallSlot
<1>k. \A c \in Callers : call'[c].id = call[c].id => SC(c) = CallSlot(c)
  BY DEF CallSlot
<1>1. CASE Rests
  BY <1>1, <1>k, <1>s, <1>x DEF Rests, Open
<1>2. ASSUME NEW c \in Callers, NEW to \in Nodes, ~Open(c), Begins(c, to)
      PROVE  /\ \A d \in Callers : call'[d].pc # "idle" => SC(d) \in DOMAIN slots'
             /\ \A s \in DOMAIN slots' : \E d \in Callers : call'[d].pc # "idle" /\ SC(d) = s
             /\ \A d \in Callers : call'[d].pc # "idle" /\ slots'[SC(d)] # Empty
                    => slots'[SC(d)] = call'[d].id /\ call'[d].id \in executed'
  <2>1. /\ call'[c].pc = "prepared" /\ slots' = With(slots, SC(c), Empty)
        /\ \A d \in Callers \ {c} : call'[d] = call[d]
    BY <1>2 DEF Begins, CallSlot
  <2>2. /\ DOMAIN slots' = DOMAIN slots \cup {SC(c)} /\ slots'[SC(c)] = Empty
        /\ \A s \in DOMAIN slots \ {SC(c)} : slots'[s] = slots[s]
    <3> HIDE DEF SC
    <3> QED
      BY <2>1 DEF With
  <2>3. \A d \in Callers \ {c} : call'[d].pc # "idle" => Open(d) /\ SC(d) = CallSlot(d)
    BY <1>k, <2>1 DEF Open
  <2>4. \A d \in Callers \ {c} : Open(d) => call'[d].pc # "idle" /\ SC(d) = CallSlot(d)
    BY <1>k, <2>1 DEF Open
  <2> HIDE DEF SC
  <2>5. ASSUME NEW d \in Callers, call'[d].pc # "idle" PROVE SC(d) \in DOMAIN slots'
    BY <1>s, <2>2, <2>3, <2>5
  <2>6. ASSUME NEW s \in DOMAIN slots' PROVE \E d \in Callers : call'[d].pc # "idle" /\ SC(d) = s
    BY <1>2, <1>s, <2>1, <2>2, <2>4
  <2>7. ASSUME NEW d \in Callers, call'[d].pc # "idle", slots'[SC(d)] # Empty
        PROVE  slots'[SC(d)] = call'[d].id /\ call'[d].id \in executed'
    <3>1. d # c /\ SC(d) # SC(c)
      BY <2>2, <2>7
    <3>2. Open(d) /\ SC(d) = CallSlot(d) /\ call'[d] = call[d]
      BY <2>1, <2>3, <2>7, <3>1
    <3> QED
      BY <1>s, <1>x, <2>2, <2>7, <3>1, <3>2
  <2> QED
    BY <2>5, <2>6, <2>7
<1>3. ASSUME NEW c \in Callers, Ends(c)
      PROVE  /\ \A d \in Callers : call'[d].pc # "idle" => SC(d) \in DOMAIN slots'
             /\ \A s \in DOMAIN slots' : \E d \in Callers : call'[d].pc # "idle" /\ SC(d) = s
             /\ \A d \in Callers : call'[d].pc # "idle" /\ slots'[SC(d)] # Empty
                    => slots'[SC(d)] = call'[d].id /\ call'[d].id \in executed'
  <2>1. /\ Open(c) /\ call'[c].pc = "idle" /\ slots' = Without(slots, CallSlot(c))
        /\ \A d \in Callers \ {c} : call'[d] = call[d]
    BY <1>3 DEF Ends
  <2>2. /\ DOMAIN slots' = DOMAIN slots \ {CallSlot(c)}
        /\ \A s \in DOMAIN slots \ {CallSlot(c)} : slots'[s] = slots[s]
    BY <2>1 DEF Without
  <2>3. \A d \in Callers : call'[d].pc # "idle" =>
          d # c /\ Open(d) /\ SC(d) = CallSlot(d) /\ call'[d] = call[d] /\ CallSlot(d) # CallSlot(c)
    BY <1>k, <1>o, <2>1 DEF Open
  <2>4. \A d \in Callers \ {c} : Open(d) => call'[d].pc # "idle" /\ SC(d) = CallSlot(d)
    BY <1>k, <2>1 DEF Open
  <2> HIDE DEF SC
  <2>5. ASSUME NEW s \in DOMAIN slots' PROVE \E d \in Callers : call'[d].pc # "idle" /\ SC(d) = s
    BY <1>s, <2>2, <2>4
  <2>6. ASSUME NEW d \in Callers, call'[d].pc # "idle"
        PROVE  /\ SC(d) \in DOMAIN slots'
               /\ slots'[SC(d)] # Empty => slots'[SC(d)] = call'[d].id /\ call'[d].id \in executed'
    BY <1>s, <1>x, <2>2, <2>3, <2>6
  <2> QED
    BY <2>5, <2>6
<1>4. ASSUME NEW m \in inbox, Acked(m)
      PROVE  /\ \A d \in Callers : call'[d].pc # "idle" => SC(d) \in DOMAIN slots'
             /\ \A s \in DOMAIN slots' : \E d \in Callers : call'[d].pc # "idle" /\ SC(d) = s
             /\ \A d \in Callers : call'[d].pc # "idle" /\ slots'[SC(d)] # Empty
                    => slots'[SC(d)] = call'[d].id /\ call'[d].id \in executed'
  <2> DEFINE at == Slot(m.to, m.id[2])
  <2>1. IsAck(m) /\ call' = call /\ slots' = IF at \in DOMAIN slots THEN With(slots, at, m.id) ELSE slots
    BY <1>4 DEF Acked
  <2>2. /\ DOMAIN slots' = DOMAIN slots
        /\ \A s \in DOMAIN slots : IF s = at THEN slots'[s] = m.id ELSE slots'[s] = slots[s]
    <3> HIDE DEF at
    <3> QED
      BY <2>1 DEF With
  <2>3. \A d \in Callers : SC(d) = CallSlot(d) /\ (Open(d) <=> call'[d].pc # "idle")
    BY <1>k, <2>1 DEF Open
  <2>4. \A d \in Callers : Open(d) /\ at = CallSlot(d) => m.id = call[d].id /\ m.id \in executed
    BY <2>1, OwnSlots
  <2> HIDE DEF SC, at
  <2>5. ASSUME NEW d \in Callers, call'[d].pc # "idle", slots'[SC(d)] # Empty
        PROVE  slots'[SC(d)] = call'[d].id /\ call'[d].id \in executed'
    <3>1. CASE CallSlot(d) = at
      BY <1>s, <1>x, <2>1, <2>2, <2>3, <2>4, <2>5, <3>1
    <3>2. CASE CallSlot(d) # at
      BY <1>s, <1>x, <2>1, <2>2, <2>3, <2>5, <3>2
    <3> QED
      BY <3>1, <3>2
  <2> QED
    BY <1>s, <2>2, <2>3, <2>5
<1> QED
  BY <1>1, <1>2, <1>3, <1>4, SlotSteps

(* A queue is read in at one end and out at the other. *)
LEMMA HeadTail ==
  ASSUME NEW q \in Seq(Message), q # << >>
  PROVE  /\ Head(q) \in Message /\ 1 \in DOMAIN q /\ Head(q) = q[1]
         /\ \A j \in DOMAIN q : q[j] = Head(q) \/ (j - 1 \in DOMAIN Tail(q) /\ q[j] = Tail(q)[j - 1])
         /\ \A j \in DOMAIN Tail(q) : j \in Nat \ {0} /\ j + 1 \in DOMAIN q /\ Tail(q)[j] = q[j + 1]
<1>1. /\ Len(q) \in Nat /\ DOMAIN q = 1..Len(q) /\ Head(q) \in Message /\ Head(q) = q[1] /\ Len(q) > 0
      /\ DOMAIN Tail(q) = 1..(Len(q) - 1) /\ \A i \in 1..(Len(q) - 1) : Tail(q)[i] = q[i + 1]
  BY HeadTailProperties, LenProperties, EmptySeq
<1>2. ASSUME NEW j \in DOMAIN q, j # 1 PROVE j - 1 \in 1..(Len(q) - 1) /\ q[j] = Tail(q)[j - 1]
  BY <1>1, <1>2
<1>3. \A j \in 1..(Len(q) - 1) : j \in Nat \ {0} /\ j + 1 \in DOMAIN q
  BY <1>1
<1>4. 1 \in DOMAIN q
  BY <1>1
<1> QED
  BY <1>1, <1>2, <1>3, <1>4

LEMMA Appended ==
  ASSUME NEW q \in Seq(Message), NEW m \in Message
  PROVE  /\ \A j \in DOMAIN q : j \in DOMAIN Append(q, m) /\ Append(q, m)[j] = q[j]
         /\ \E j \in DOMAIN Append(q, m) : Append(q, m)[j] = m
<1>1. /\ Len(q) \in Nat /\ DOMAIN q = 1..Len(q) /\ DOMAIN Append(q, m) = 1..(Len(q) + 1)
      /\ Append(q, m)[Len(q) + 1] = m /\ \A j \in 1..Len(q) : Append(q, m)[j] = q[j]
  BY AppendProperties, LenProperties
<1>2. Len(q) + 1 \in DOMAIN Append(q, m)
  BY <1>1
<1> QED
  BY <1>1, <1>2

(* No message disappears: it moves on, is answered, is posted to a slot or is
   lost on a connection. *)
LEMMA Stays ==
  TypeOK /\ TypeOK' /\ MessageInv /\ [Next]_vars =>
    /\ lost \subseteq lost'
    /\ \A m \in Live : \/ \E w \in Live' : w.id = m.id
                       \/ m.id \in lost'
                       \/ m.kind = "STATUS"
                       \/ m \in inbox /\ Acked(m)
<1> DEFINE Found(m) == \/ \E w \in Live' : w.id = m.id
                       \/ m.id \in lost'
                       \/ m.kind = "STATUS"
                       \/ m \in inbox /\ Acked(m)
           Goal == lost \subseteq lost' /\ \A m \in Live : Found(m)
<1> SUFFICES ASSUME TypeOK, TypeOK', MessageInv, [Next]_vars PROVE Goal
  OBVIOUS
<1>t. /\ rx_queue \in [Nodes -> Seq(Message)] /\ rx_queue' \in [Nodes -> Seq(Message)]
      /\ rx_pc \in [Nodes -> {"off", "wait", "pop", "serving"}]
      /\ rx_msg \in [Nodes -> Message \cup {NoMessage}]
      /\ outbox \subseteq Message /\ inbox \subseteq Message
  BY DEF TypeOK
<1>a. \A m \in Live :
        \/ m \in outbox \/ m \in inbox
        \/ \E n \in Nodes : \E j \in DOMAIN rx_queue[n] : m = rx_queue[n][j]
        \/ m \in Message /\ \E n \in Nodes : rx_pc[n] = "serving" /\ m = rx_msg[n]
  BY WhereIs DEF Live
<1>b. /\ \A w \in outbox' \cup inbox' : w \in Live'
      /\ \A n \in Nodes : \A j \in DOMAIN rx_queue'[n] : rx_queue'[n][j] \in Live'
      /\ \A w \in Message, n \in Nodes : rx_pc'[n] = "serving" /\ w = rx_msg'[n] => w \in Live'
  <2>1. \A n \in Nodes : \A j \in DOMAIN rx_queue'[n] : rx_queue'[n][j] \in Message
    BY <1>t, ElementOfSeq, LenProperties
  <2>2. Live' = MessagesIn(outbox', inbox', rx_queue', rx_pc', rx_msg')
    BY DEF Live
  <2> QED
    BY <2>1, <2>2, WhereIs
<1>f. \A m \in Live' : Found(m)
  OBVIOUS
<1> HIDE DEF Found
<1> USE DEF ownerVars, rxVars
<1>1. ASSUME UNCHANGED <<rx_queue, rx_pc, rx_msg>>, lost \subseteq lost',
             \A m \in outbox \cup inbox : Found(m)
      PROVE  Goal
  BY <1>1, <1>a, <1>b, <1>f
<1>2. ASSUME outbox \subseteq outbox', inbox \subseteq inbox', rx_queue' = rx_queue, lost \subseteq lost',
             \A n \in Nodes, m \in Message : rx_pc[n] = "serving" /\ m = rx_msg[n] => Found(m)
      PROVE  Goal
  BY <1>2, <1>a, <1>b, <1>f
<1>3. CASE UNCHANGED <<outbox, inbox, rx_queue, rx_pc, rx_msg, lost>>
  BY <1>1, <1>3, <1>b, <1>f
<1>4. ASSUME NEW n \in Nodes, Owner(n) PROVE Goal
  <2>1. CASE StartIPC(n)
    <3>1. \A o \in Nodes : rx_pc[o] = "serving" => rx_pc'[o] = "serving" /\ rx_msg'[o] = rx_msg[o]
      <4>1. rx_pc[n] = "off"
        BY <2>1 DEF StartIPC, MessageInv
      <4> QED
        BY <1>t, <2>1, <4>1 DEF StartIPC
    <3> QED
      BY <1>2, <1>b, <1>f, <2>1, <3>1 DEF StartIPC
  <2>2. CASE StartSubscribe(n) \/ StartFails(n) \/ StopRx(n) \/ JoinRx(n)
    BY <1>3, <2>2 DEF StartSubscribe, StartFails, StopRx, JoinRx
  <2>3. CASE StopClient(n)
    <3>1. \A m \in outbox \cup inbox : m \in outbox' \cup inbox' \/ m.id \in lost'
      BY <2>3 DEF StopClient
    <3>2. lost \subseteq lost' /\ UNCHANGED <<rx_queue, rx_pc, rx_msg>>
      BY <2>3 DEF StopClient
    <3>3. \A m \in outbox \cup inbox : Found(m)
      BY <1>b, <3>1 DEF Found
    <3> QED
      BY <1>1, <3>2, <3>3
  <2> QED
    BY <1>4, <2>1, <2>2, <2>3 DEF Owner
<1>5. ASSUME NEW n \in Nodes, Connect(n) PROVE Goal
  BY <1>3, <1>5 DEF Connect
<1>6. ASSUME NEW n \in Nodes, Disconnect(n) PROVE Goal
  <2>1. \E gone : outbox' = outbox \ gone /\ inbox' = inbox \ gone /\ lost' = lost \cup {m.id : m \in gone}
    BY <1>6 DEF Disconnect
  <2>2. \A m \in outbox \cup inbox : m \in outbox' \cup inbox' \/ m.id \in lost'
    BY <2>1
  <2>3. \A m \in outbox \cup inbox : Found(m)
    BY <1>b, <2>2 DEF Found
  <2> QED
    BY <1>1, <1>6, <2>1, <2>3 DEF Disconnect
<1>7. ASSUME NEW n \in Nodes, SendStatus(n) PROVE Goal
  BY <1>1, <1>7, <1>b, <1>f DEF SendStatus
<1>8. ASSUME NEW n \in Nodes, RxWait(n) PROVE Goal
  <2>1. \A o \in Nodes : rx_pc[o] = "serving" => rx_pc'[o] = "serving" /\ rx_msg'[o] = rx_msg[o]
    BY <1>8, <1>t DEF RxWait
  <2> QED
    BY <1>2, <1>8, <1>b, <1>f, <2>1 DEF RxWait
<1>9. ASSUME NEW n \in Nodes, RxEmpty(n) PROVE Goal
  <2>1. \A o \in Nodes : rx_pc[o] = "serving" => rx_pc'[o] = "serving" /\ rx_msg'[o] = rx_msg[o]
    BY <1>9, <1>t DEF RxEmpty
  <2> QED
    BY <1>2, <1>9, <1>b, <1>f, <2>1 DEF RxEmpty
<1>10. ASSUME NEW n \in Nodes, RxPop(n) PROVE Goal
  <2>1. rx_queue[n] \in Seq(Message) /\ rx_queue[n] # << >>
    BY <1>10, <1>t DEF RxPop, IsEmpty
  <2>2. /\ \A o \in Nodes : rx_queue'[o] = IF o = n THEN Tail(rx_queue[n]) ELSE rx_queue[o]
        /\ \A o \in Nodes \ {n} : rx_pc'[o] = rx_pc[o] /\ rx_msg'[o] = rx_msg[o]
        /\ rx_pc[n] # "serving" /\ rx_pc'[n] = "serving" /\ rx_msg'[n] = Head(rx_queue[n])
        /\ outbox' = outbox /\ inbox' = inbox /\ lost' = lost
    BY <1>10, <1>t DEF RxPop, Popped
  <2>3. /\ \A j \in DOMAIN rx_queue[n] :
             \/ rx_queue[n][j] = Head(rx_queue[n])
             \/ j - 1 \in DOMAIN Tail(rx_queue[n]) /\ rx_queue[n][j] = Tail(rx_queue[n])[j - 1]
        /\ Head(rx_queue[n]) \in Message
    BY <2>1, HeadTail
  <2>4. ASSUME NEW o \in Nodes, NEW j \in DOMAIN rx_queue[o] PROVE rx_queue[o][j] \in Live'
    <3>1. CASE o # n
      BY <1>b, <2>2, <3>1
    <3>2. CASE o = n
      <4>1. CASE rx_queue[n][j] = Head(rx_queue[n])
        BY <1>b, <2>2, <2>3, <3>2, <4>1
      <4>2. CASE j - 1 \in DOMAIN Tail(rx_queue[n]) /\ rx_queue[n][j] = Tail(rx_queue[n])[j - 1]
        <5>1. j - 1 \in DOMAIN rx_queue'[n] /\ rx_queue'[n][j - 1] = rx_queue[n][j]
          BY <2>2, <4>2
        <5> QED
          BY <1>b, <3>2, <5>1
      <4> QED
        BY <2>3, <3>2, <4>1, <4>2
    <3> QED
      BY <3>1, <3>2
  <2>5. ASSUME NEW m \in Live PROVE m \in Live'
    <3>1. CASE m \in outbox \cup inbox
      BY <1>b, <2>2, <3>1
    <3>2. CASE m \in Message /\ \E o \in Nodes : rx_pc[o] = "serving" /\ m = rx_msg[o]
      BY <1>b, <2>2, <3>2
    <3> QED
      BY <1>a, <2>4, <3>1, <3>2
  <2> QED
    BY <1>f, <2>2, <2>5
<1>11. ASSUME NEW n \in Nodes, RxReply(n) PROVE Goal
  <2>1. \/ outbox' = outbox \cup {Ack(n, rx_msg[n])} /\ lost' = lost
        \/ outbox' = outbox /\ lost' = lost \cup {rx_msg[n].id}
    BY <1>11 DEF RxReply
  <2>2. /\ \A o \in Nodes \ {n} : rx_pc'[o] = rx_pc[o] /\ rx_msg'[o] = rx_msg[o]
        /\ inbox' = inbox /\ rx_queue' = rx_queue
    BY <1>11, <1>t DEF RxReply
  <2>3. Found(rx_msg[n])
    <3>1. CASE Ack(n, rx_msg[n]) \in outbox'
      <4>1. Ack(n, rx_msg[n]) \in Live' /\ Ack(n, rx_msg[n]).id = rx_msg[n].id
        BY <1>b, <3>1 DEF Ack
      <4> QED
        BY <4>1 DEF Found
    <3>2. CASE rx_msg[n].id \in lost'
      BY <3>2 DEF Found
    <3> QED
      BY <2>1, <3>1, <3>2
  <2>4. \A o \in Nodes, m \in Message : rx_pc[o] = "serving" /\ m = rx_msg[o] => Found(m)
    BY <1>b, <1>f, <2>2, <2>3
  <2> QED
    BY <1>2, <2>1, <2>2, <2>4
<1>12. ASSUME NEW n \in Nodes, RxStatusDone(n) PROVE Goal
  <2>1. /\ \A o \in Nodes \ {n} : rx_pc'[o] = rx_pc[o] /\ rx_msg'[o] = rx_msg[o]
        /\ rx_msg[n].kind = "STATUS"
    BY <1>12, <1>t DEF RxStatusDone
  <2>2. Found(rx_msg[n])
    BY <2>1 DEF Found
  <2>3. \A o \in Nodes, m \in Message : rx_pc[o] = "serving" /\ m = rx_msg[o] => Found(m)
    BY <1>b, <1>f, <2>1, <2>2
  <2> QED
    BY <1>2, <1>12, <2>3 DEF RxStatusDone
<1>13. ASSUME NEW c \in Callers, (\E to \in Nodes : SendPrepare(c, to)) \/ SendReturns(c) \/ SendTimesOut(c) PROVE Goal
  BY <1>3, <1>13 DEF SendPrepare, SendReturns, SendTimesOut
<1>14. ASSUME NEW c \in Callers, SendPublish(c) PROVE Goal
  <2>1. outbox \subseteq outbox'
    BY <1>14 DEF SendPublish
  <2> QED
    BY <1>1, <1>14, <1>b, <1>f, <2>1 DEF SendPublish
<1>15. ASSUME NEW m \in outbox, BrokerForwards(m) PROVE Goal
  <2>1. /\ inbox \subseteq inbox' /\ lost \subseteq lost' /\ (m \in inbox' \/ m.id \in lost')
        /\ UNCHANGED <<rx_queue, rx_pc, rx_msg>>
    BY <1>15 DEF BrokerForwards
  <2>2. \A w \in outbox : w = m \/ w \in outbox'
    BY <1>15 DEF BrokerForwards
  <2>3. Found(m)
    BY <1>b, <1>f, <2>1 DEF Found
  <2> QED
    BY <1>1, <1>b, <1>f, <2>1, <2>2, <2>3
<1>16. ASSUME NEW m \in inbox, OnRecvAck(m) PROVE Goal
  <2>1. Acked(m)
    BY <1>16 DEF OnRecvAck, Acked
  <2>2. Found(m)
    BY <2>1 DEF Found
  <2>3. /\ outbox' = outbox /\ inbox' = inbox \ {m} /\ lost' = lost
        /\ UNCHANGED <<rx_queue, rx_pc, rx_msg>>
    BY <1>16 DEF OnRecvAck
  <2> QED
    BY <1>1, <1>b, <1>f, <2>2, <2>3
<1>17. ASSUME NEW m \in inbox, OnRecvOther(m) PROVE Goal
  <2>1. m \in Message /\ m.to \in Nodes
    BY <1>t DEF Message
  <2>2. /\ \A o \in Nodes : rx_queue'[o] = IF o = m.to THEN Append(rx_queue[o], m) ELSE rx_queue[o]
        /\ outbox' = outbox /\ inbox' = inbox \ {m} /\ lost' = lost /\ UNCHANGED <<rx_pc, rx_msg>>
    BY <1>17, <1>t, <2>1 DEF OnRecvOther
  <2>3. \A o \in Nodes : /\ \A j \in DOMAIN rx_queue[o] :
                              j \in DOMAIN Append(rx_queue[o], m) /\ Append(rx_queue[o], m)[j] = rx_queue[o][j]
                         /\ \E j \in DOMAIN Append(rx_queue[o], m) : Append(rx_queue[o], m)[j] = m
    <3> SUFFICES ASSUME NEW o \in Nodes
                 PROVE  /\ \A j \in DOMAIN rx_queue[o] :
                              j \in DOMAIN Append(rx_queue[o], m) /\ Append(rx_queue[o], m)[j] = rx_queue[o][j]
                        /\ \E j \in DOMAIN Append(rx_queue[o], m) : Append(rx_queue[o], m)[j] = m
      OBVIOUS
    <3>1. rx_queue[o] \in Seq(Message)
      BY <1>t
    <3> QED
      BY <2>1, <3>1, Appended
  <2>4. m \in Live'
    <3>1. rx_queue'[m.to] = Append(rx_queue[m.to], m)
      BY <2>1, <2>2
    <3>2. PICK j \in DOMAIN rx_queue'[m.to] : rx_queue'[m.to][j] = m
      BY <2>1, <2>3, <3>1
    <3> QED
      BY <1>b, <2>1, <3>2
  <2>5. ASSUME NEW o \in Nodes, NEW j \in DOMAIN rx_queue[o] PROVE rx_queue[o][j] \in Live'
    <3>1. j \in DOMAIN rx_queue'[o] /\ rx_queue'[o][j] = rx_queue[o][j]
      BY <2>2, <2>3
    <3> QED
      BY <1>b, <3>1
  <2>6. ASSUME NEW w \in Live PROVE w \in Live'
    <3>1. CASE w \in outbox \cup inbox
      BY <1>b, <2>2, <2>4, <3>1
    <3>2. CASE w \in Message /\ \E o \in Nodes : rx_pc[o] = "serving" /\ w = rx_msg[o]
      BY <1>b, <2>2, <3>2
    <3> QED
      BY <1>a, <2>5, <3>1, <3>2
  <2> QED
    BY <1>f, <2>2, <2>6
<1>18. CASE UNCHANGED vars
  BY <1>3, <1>18 DEF vars
<1> QED
  BY <1>4, <1>5, <1>6, <1>7, <1>8, <1>9, <1>10, <1>11, <1>12, <1>13, <1>14, <1>15, <1>16, <1>17, <1>18 DEF Next, Rx, Send

(* A caller that begins to wait has just published its control. *)
LEMMA Waits ==
  TypeOK /\ [Next]_vars =>
    \A c \in Callers : call'[c].pc = "waiting" =>
      /\ call'[c].id = call[c].id
      /\ call[c].pc = "waiting" \/ \E w \in outbox' : w.id = call[c].id
<1> SUFFICES ASSUME TypeOK, [Next]_vars, NEW c \in Callers, call'[c].pc = "waiting"
             PROVE  /\ call'[c].id = call[c].id
                    /\ call[c].pc = "waiting" \/ \E w \in outbox' : w.id = call[c].id
  OBVIOUS
<1>c. call \in [Callers -> CallRecord]
  BY DEF TypeOK, CallRecord
<1>1. CASE call'[c] = call[c]
  BY <1>1
<1>2. ASSUME NEW d \in Callers, NEW to \in Nodes, SendPrepare(d, to) PROVE call'[c] = call[c]
  <2>1. d # c
    BY <1>2, <1>c DEF SendPrepare
  <2> QED
    BY <1>2, <1>c, <2>1 DEF SendPrepare
<1>3. ASSUME NEW d \in Callers, Send(d), d # c PROVE call'[c] = call[c]
  BY <1>3, <1>c DEF Send, SendPublish, SendReturns, SendTimesOut
<1>4. CASE SendPublish(c)
  <2> DEFINE m == [kind |-> "CONTROL", from |-> Home(c), to |-> call[c].to, id |-> call[c].id, resent |-> FALSE]
  <2>1. \/ call' = [call EXCEPT ![c].pc = "waiting"] /\ outbox' = outbox \cup {m}
        \/ call' = [call EXCEPT ![c].pc = "idle"]
    BY <1>4 DEF SendPublish
  <2>2. call' = [call EXCEPT ![c].pc = "waiting"] /\ m \in outbox' /\ m.id = call[c].id
    BY <1>c, <2>1 DEF CallRecord
  <2>3. call'[c].id = call[c].id
    BY <1>c, <2>2 DEF CallRecord
  <2> QED
    BY <2>2, <2>3
<1>5. ~SendReturns(c) /\ ~SendTimesOut(c)
  BY <1>c DEF SendReturns, SendTimesOut, CallRecord
<1>6. ASSUME NEW n \in Nodes, Owner(n) \/ Connect(n) \/ Disconnect(n) \/ SendStatus(n) \/ Rx(n) PROVE call' = call
  BY <1>6 DEF Owner, StartIPC, StartSubscribe, StartFails, StopClient, StopRx, JoinRx, Connect, Disconnect,
     SendStatus, Rx, RxWait, RxEmpty, RxPop, RxReply, RxStatusDone
<1>7. ASSUME NEW m \in outbox, BrokerForwards(m) PROVE call' = call
  BY <1>7 DEF BrokerForwards
<1>8. ASSUME NEW m \in inbox, OnRecvAck(m) \/ OnRecvOther(m) PROVE call' = call
  BY <1>8 DEF OnRecvAck, OnRecvOther
<1>9. UNCHANGED vars => call' = call
  BY DEF vars
<1> QED
  BY <1>1, <1>2, <1>3, <1>4, <1>5, <1>6, <1>7, <1>8, <1>9 DEF Next, Send

LEMMA WaitKeeps ==
  ASSUME OneObject, TypeOK, TypeOK', MessageInv, CallInv, SlotInv, WaitInv, MagicsApart, MagicsApart', [Next]_vars
  PROVE  WaitInv'
<1> SUFFICES ASSUME NEW c \in Callers, call'[c].pc = "waiting", ~(Posted(c)')
             PROVE  (\E w \in Live' : w.id = call'[c].id) \/ call'[c].id \in lost'
  BY DEF WaitInv
<1>w. /\ call'[c].id = call[c].id
      /\ call[c].pc = "waiting" \/ \E w \in outbox' : w.id = call[c].id
  BY Waits
<1>p. /\ CallSlot(c)' = CallSlot(c)
      /\ ~(CallSlot(c) \in DOMAIN slots' /\ slots'[CallSlot(c)] # Empty)
  BY <1>w DEF CallSlot, Posted
<1>o. \A d \in Callers : Open(c) /\ Open(d) /\ CallSlot(c) = CallSlot(d) => c = d
  BY OwnSlots
<1>m. \A m \in inbox : m.id \in Ids /\ m.id # Empty /\ m.to \in Nodes
  <2>1. Empty \notin Ids
    BY DEF Ids, Empty
  <2>2. \A m \in Message : m.id \in Ids /\ m.to \in Nodes
    BY DEF Message
  <2>3. inbox \subseteq Message
    BY DEF TypeOK
  <2> QED
    BY <2>1, <2>2, <2>3
<1>1. CASE \E w \in outbox' : w.id = call[c].id
  <2>1. outbox' \subseteq Live'
    BY WhereIs DEF Live
  <2> QED
    BY <1>1, <1>w, <2>1
<1>2. CASE call[c].pc = "waiting"
  <2>o. Open(c) /\ CallSlot(c) \in DOMAIN slots
    BY <1>2 DEF Open, SlotInv
  <2>1. ASSUME Posted(c) PROVE FALSE
    <3>1. CallSlot(c) \in DOMAIN slots /\ slots[CallSlot(c)] # Empty
      BY <2>1 DEF Posted
    <3>2. CASE Rests
      BY <1>p, <3>1, <3>2 DEF Rests
    <3>3. ASSUME NEW d \in Callers, NEW to \in Nodes, ~Open(d), Begins(d, to) PROVE FALSE
      <4>1. d # c /\ call'[d].pc # "idle" /\ slots' = With(slots, Slot(Home(d), call'[d].id[2]), Empty)
        BY <2>o, <3>3 DEF Begins, CallSlot
      <4>2. CallSlot(c) # Slot(Home(d), call'[d].id[2])
        <5>1. SUFFICES ASSUME Process(Home(c)) = Process(Home(d)), Magic(call'[c].id[2]) = Magic(call'[d].id[2])
                       PROVE  FALSE
          BY <1>w DEF CallSlot, Slot
        <5>2. Home(c) = Home(d)
          BY <5>1, Homes DEF OneObject
        <5> QED
          BY <4>1, <5>1, <5>2 DEF MagicsApart, Open
      <4> DEFINE s == Slot(Home(d), call'[d].id[2])
      <4>3. CallSlot(c) \in DOMAIN slots' /\ slots'[CallSlot(c)] = slots[CallSlot(c)]
        <5>1. slots' = With(slots, s, Empty) /\ CallSlot(c) # s
          BY <4>1, <4>2
        <5> HIDE DEF s
        <5> QED
          BY <3>1, <5>1 DEF With
      <4> QED
        BY <1>p, <3>1, <4>3
    <3>4. ASSUME NEW d \in Callers, Ends(d) PROVE FALSE
      <4>1. d # c /\ Open(d) /\ slots' = Without(slots, CallSlot(d))
        BY <3>4 DEF Ends
      <4>2. CallSlot(c) # CallSlot(d)
        BY <1>o, <2>o, <4>1
      <4>3. CallSlot(c) \in DOMAIN slots' /\ slots'[CallSlot(c)] = slots[CallSlot(c)]
        BY <3>1, <4>1, <4>2 DEF Without
      <4> QED
        BY <1>p, <3>1, <4>3
    <3>5. ASSUME NEW m \in inbox, Acked(m) PROVE FALSE
      <4> DEFINE s == Slot(m.to, m.id[2])
      <4>1. slots' = IF s \in DOMAIN slots THEN With(slots, s, m.id) ELSE slots
        BY <3>5 DEF Acked
      <4> HIDE DEF s
      <4>2. CallSlot(c) \in DOMAIN slots' /\ slots'[CallSlot(c)] \in {m.id, slots[CallSlot(c)]}
        BY <3>1, <4>1 DEF With
      <4> QED
        BY <1>m, <1>p, <3>1, <4>2
    <3> QED
      BY <3>2, <3>3, <3>4, <3>5, SlotSteps
  <2>2. (\E m \in Live : m.id = call[c].id) \/ call[c].id \in lost
    BY <1>2, <2>1 DEF WaitInv
  <2>3. ASSUME NEW m \in inbox, Acked(m), m.id = call[c].id PROVE FALSE
    <3>1. m \in Live /\ IsAck(m) /\ m.id[1] = m.to
      BY <2>3, WhereIs DEF Live, Acked, MessageInv, IsAck
    <3>2. Slot(m.to, m.id[2]) = CallSlot(c)
      BY <2>3, <2>o, <3>1 DEF CallInv, CallSlot
    <3>3. slots' = With(slots, CallSlot(c), m.id)
      BY <2>3, <2>o, <3>2 DEF Acked
    <3>4. CallSlot(c) \in DOMAIN slots' /\ slots'[CallSlot(c)] = m.id
      BY <3>3 DEF With
    <3> QED
      BY <1>m, <1>p, <3>4
  <2>4. \A m \in Live : m.id = call[c].id => m.kind # "STATUS"
    BY <2>o DEF CallInv
  <2> QED
    BY <1>w, <2>2, <2>3, <2>4, Stays
<1> QED
  BY <1>1, <1>2, <1>w

(* A slot serves the call it was prepared for, all of it and no longer
   (comex_liteipc.cpp:155-209), in every run in which two live numbers of a
   process never have the same magic. *)
THEOREM SlotsServe ==
  ASSUME OneObject
  PROVE  Spec /\ []MagicsApart => []SlotServesCall
<1> DEFINE Inv == TypeOK /\ MessageInv /\ CallInv /\ SInv
<1>1. Init => Inv
  BY InitHolds DEF IInv
<1>2. Inv /\ MagicsApart /\ MagicsApart' /\ [Next]_vars => Inv'
  <2> SUFFICES ASSUME Inv, MagicsApart, MagicsApart', [Next]_vars PROVE Inv'
    OBVIOUS
  <2>1. TypeOK' /\ MessageInv' /\ CallInv'
    BY TypeKeeps, MessageKeeps, CallKeeps
  <2>2. SlotInv'
    BY OneObject, <2>1, SlotKeeps DEF SInv
  <2>3. WaitInv'
    BY OneObject, <2>1, WaitKeeps DEF SInv
  <2> QED
    BY <2>1, <2>2, <2>3 DEF SInv
<1>3. Inv => SlotServesCall
  <2> SUFFICES ASSUME Inv PROVE SlotServesCall
    OBVIOUS
  <2>1. \A s \in DOMAIN slots : \E c \in Callers : call[c].pc # "idle" /\ CallSlot(c) = s
    BY DEF SInv, SlotInv, Open
  <2>2. ASSUME NEW m \in Live PROVE UnderWay(m.id)
    <3>1. \/ m \in outbox \/ m \in inbox
          \/ \E n \in Nodes : \E j \in DOMAIN rx_queue[n] : m = rx_queue[n][j]
          \/ \E n \in Nodes : rx_pc[n] = "serving" /\ m = rx_msg[n]
      BY WhereIs DEF Live
    <3> QED
      BY <3>1 DEF UnderWay
  <2>3. ASSUME NEW c \in Callers, call[c].pc = "waiting", ~Posted(c)
        PROVE  UnderWay(call[c].id) \/ call[c].id \in lost
    BY <2>2, <2>3 DEF SInv, WaitInv
  <2> QED
    BY <2>1, <2>3 DEF SlotServesCall
<1> QED
  BY <1>1, <1>2, <1>3, PTL DEF Spec

(* While a node has numbered no more messages than there are magics, they are
   all apart. *)
THEOREM NoMagicTwice ==
  ASSUME MaxMessages <= MagicMod
  PROVE  Spec => []MagicsApart
<1> DEFINE Inv == TypeOK /\ MessageInv /\ CallInv
<1>1. Init => Inv
  BY InitHolds DEF IInv
<1>2. Inv /\ [Next]_vars => Inv'
  BY TypeKeeps, MessageKeeps, CallKeeps
<1>3. Inv => MagicsApart
  <2> SUFFICES ASSUME Inv PROVE MagicsApart
    OBVIOUS
  <2>1. ASSUME NEW i \in Ids, Numbered(i) PROVE Magic(i[2]) = i[2]
    <3>1. i[2] \in Nat /\ i[2] < MagicMod /\ MagicMod \in Nat \ {0}
      <4>1. i[1] \in Nodes /\ i[2] \in 0..MaxMessages
        BY DEF Ids
      <4>2. numbered[i[1]] \in 0..MaxMessages
        BY <4>1 DEF TypeOK
      <4> QED
        BY <2>1, <4>1, <4>2, LiteIpcAssumption DEF Numbered
    <3> DEFINE k == i[2]
    <3> HIDE DEF k
    <3>2. \A k2 \in Nat : k2 < MagicMod => k2 % MagicMod = k2
      BY <3>1
    <3> QED
      BY <3>1, <3>2 DEF Magic
  <2>2. \A c \in Callers : Open(c) => call[c].id \in Ids /\ Numbered(call[c].id) /\ call[c].id[1] = Home(c)
    BY DEF CallInv
  <2>3. \A m \in inbox : m \in Live
    BY WhereIs DEF Live
  <2>4. \A m \in inbox : IsAck(m) => m.id \in Ids /\ Numbered(m.id) /\ m.id[1] = m.to
    BY <2>3 DEF MessageInv, IsAck, Message
  <2>5. \A i, j \in Ids : i[1] = j[1] /\ i[2] = j[2] => i = j
    BY DEF Ids
  <2>6. ASSUME NEW c \in Callers, NEW d \in Callers, c # d, Open(c), Open(d), Home(c) = Home(d),
               Magic(call[c].id[2]) = Magic(call[d].id[2])
        PROVE  FALSE
    <3>1. call[c].id = call[d].id
      BY <2>1, <2>2, <2>5, <2>6
    <3> QED
      BY <2>6, <3>1 DEF CallInv
  <2>7. ASSUME NEW c \in Callers, NEW m \in inbox, Open(c), IsAck(m), m.to = Home(c),
               Magic(m.id[2]) = Magic(call[c].id[2])
        PROVE  m.id = call[c].id
    BY <2>1, <2>2, <2>4, <2>5, <2>7
  <2> QED
    BY <2>6, <2>7 DEF MagicsApart
<1> QED
  BY <1>1, <1>2, <1>3, PTL DEF Spec

-----------------------------------------------------------------------------
(* LiteIpc implements RemoteCall: a call asks once, its control is executed at
   most once, and it returns with its own reply or gives up
   (comex_liteipc.cpp:155-209). *)
Asked   == {i \in Ids : i[2] < numbered[i[1]]}
OpenIds == [c \in Callers |-> IF call[c].pc = "idle" THEN Empty ELSE call[c].id]
Results == [c \in Callers |-> call[c].result]

LEMMA RefinedInit == Init => Call!Init
<1> SUFFICES ASSUME Init PROVE Call!Init
  OBVIOUS
<1>1. {i \in Ids : i[2] < numbered[i[1]]} = {}
  BY LiteIpcAssumption DEF Init, Ids
<1>2. \A c \in Callers : call[c].pc = "idle" /\ call[c].result = Empty
  BY DEF Init, Idle
<1> QED
  BY <1>1, <1>2 DEF Init, Call!Init

(* What the calls and the numbers of LiteIpc are to RemoteCall. *)
LEMMA OpenChange ==
  ASSUME NEW c \in Callers, \A d \in Callers \ {c} : call'[d] = call[d]
  PROVE  /\ OpenIds' = [OpenIds EXCEPT ![c] = IF call'[c].pc = "idle" THEN Empty ELSE call'[c].id]
         /\ Results' = [Results EXCEPT ![c] = call'[c].result]
         /\ OpenIds[c] = IF call[c].pc = "idle" THEN Empty ELSE call[c].id
         /\ call'[c].result = call[c].result => Results' = Results
BY DEF OpenIds, Results

LEMMA AskedChange ==
  ASSUME TypeOK, NEW n \in Nodes, numbered[n] < MaxMessages, numbered' = [numbered EXCEPT ![n] = numbered[n] + 1]
  PROVE  <<n, numbered[n]>> \in Ids \ Asked /\ Asked' = Asked \cup {<<n, numbered[n]>>}
<1> DEFINE k == numbered[n]
<1>0. \A o \in Nodes : numbered[o] \in 0..MaxMessages
  BY DEF TypeOK
<1>1. k \in 0..MaxMessages /\ MaxMessages \in Nat /\ <<n, k>> \in Ids
  BY LiteIpcAssumption DEF TypeOK, Ids
<1>2. \A o \in Nodes : numbered'[o] = IF o = n THEN k + 1 ELSE numbered[o]
  BY DEF TypeOK
<1>3. \A i \in Ids : i[1] \in Nodes /\ i[2] \in 0..MaxMessages /\ i = <<i[1], i[2]>>
  BY DEF Ids
<1> HIDE DEF k
<1>4. ASSUME NEW i \in Ids PROVE i[2] < numbered'[i[1]] <=> i[2] < numbered[i[1]] \/ i = <<n, k>>
  <2>1. i[1] \in Nodes /\ i[2] \in Nat /\ i = <<i[1], i[2]>> /\ k \in Nat
    BY <1>1, <1>3
  <2>2. CASE i[1] = n
    <3>1. numbered'[i[1]] = k + 1 /\ numbered[i[1]] = k
      BY <1>2, <2>2 DEF k
    <3> QED
      BY <2>1, <2>2, <3>1
  <2>3. CASE i[1] # n
    BY <1>2, <2>1, <2>3
  <2> QED
    BY <2>2, <2>3
<1>5. <<n, k>> \in Ids \ Asked
  BY <1>1 DEF Asked, k
<1>6. Asked' = Asked \cup {<<n, k>>}
  BY <1>1, <1>4 DEF Asked
<1> QED
  BY <1>5, <1>6 DEF k

LEMMA RefinedNext ==
  ASSUME IInv, SInv, [Next]_vars
  PROVE  [Call!Next]_(Call!vars)
<1> DEFINE Stutter == Asked' = Asked /\ executed' = executed /\ OpenIds' = OpenIds /\ Results' = Results
<1>t. TypeOK
  BY DEF IInv
<1>c. call \in [Callers -> CallRecord]
  BY <1>t DEF TypeOK, CallRecord
<1>i. Empty \notin Ids
  BY DEF Ids, Empty
<1>s. Stutter => UNCHANGED Call!vars
  BY DEF Call!vars, Asked, OpenIds, Results
<1>1. ASSUME NEW c \in Callers, NEW i \in Ids,
             OpenIds[c] = Empty, i \in Ids \ Asked, Asked' = Asked \cup {i}, executed' = executed,
             OpenIds' = [OpenIds EXCEPT ![c] = i], Results' = [Results EXCEPT ![c] = Empty]
      PROVE  Call!Next
  <2>1. Call!Ask(c, i)
    BY <1>1 DEF Call!Ask, Asked, OpenIds, Results
  <2> QED
    BY <2>1 DEF Call!Next
<1>2. ASSUME NEW i \in Ids, i \in Ids \ Asked, Asked' = Asked \cup {i}, executed' = executed,
             OpenIds' = OpenIds, Results' = Results
      PROVE  Call!Next
  <2>1. Call!Tell(i)
    BY <1>2 DEF Call!Tell, Asked, OpenIds, Results
  <2> QED
    BY <2>1 DEF Call!Next
<1>3. ASSUME NEW i \in Ids, i \in Asked \ executed, executed' = executed \cup {i},
             Asked' = Asked, OpenIds' = OpenIds, Results' = Results
      PROVE  Call!Next
  <2>1. Call!Execute(i)
    BY <1>3 DEF Call!Execute, Asked, OpenIds, Results
  <2> QED
    BY <2>1 DEF Call!Next
<1>4. ASSUME NEW c \in Callers, OpenIds[c] \in executed, Results' = [Results EXCEPT ![c] = OpenIds[c]],
             OpenIds' = [OpenIds EXCEPT ![c] = Empty], Asked' = Asked, executed' = executed
      PROVE  Call!Next
  <2>1. Call!Return(c)
    BY <1>4 DEF Call!Return, Asked, OpenIds, Results
  <2> QED
    BY <2>1 DEF Call!Next
<1>5. ASSUME NEW c \in Callers, OpenIds[c] # Empty, Results' = Results,
             OpenIds' = [OpenIds EXCEPT ![c] = Empty], Asked' = Asked, executed' = executed
      PROVE  Call!Next
  <2>1. Call!GiveUp(c)
    BY <1>5 DEF Call!GiveUp, Asked, OpenIds, Results
  <2> QED
    BY <2>1 DEF Call!Next
<1>6. UNCHANGED numbered => Asked' = Asked
  BY DEF Asked
<1>7. UNCHANGED call => OpenIds' = OpenIds /\ Results' = Results
  BY DEF OpenIds, Results
<1>8. ASSUME NEW c \in Callers, Open(c), UNCHANGED <<numbered, executed>>, call' = [call EXCEPT ![c].pc = "idle"]
      PROVE  Call!Next
  <2>1. /\ call'[c].pc = "idle" /\ call'[c].result = call[c].result
        /\ \A d \in Callers \ {c} : call'[d] = call[d]
    BY <1>8, <1>c DEF CallRecord
  <2>2. call[c].id \in Ids
    BY <1>8 DEF IInv, CallInv
  <2>3. /\ OpenIds' = [OpenIds EXCEPT ![c] = Empty] /\ Results' = Results
        /\ OpenIds[c] = call[c].id
    BY <1>8, <2>1, OpenChange DEF Open
  <2> QED
    BY <1>5, <1>6, <1>8, <1>i, <2>2, <2>3
<1> USE DEF ownerVars, rxVars
<1>9. ASSUME NEW n \in Nodes, Owner(n) \/ Connect(n) \/ Disconnect(n) PROVE Stutter
  BY <1>6, <1>7, <1>9 DEF Owner, StartIPC, StartSubscribe, StartFails, StopClient, StopRx, JoinRx, Connect, Disconnect
<1>10. ASSUME NEW n \in Nodes, SendStatus(n) PROVE Call!Next
  <2>1. /\ numbered[n] < MaxMessages /\ numbered' = [numbered EXCEPT ![n] = numbered[n] + 1]
        /\ call' = call /\ executed' = executed
    BY <1>10 DEF SendStatus
  <2>2. <<n, numbered[n]>> \in Ids \ Asked /\ Asked' = Asked \cup {<<n, numbered[n]>>}
    BY <1>t, <2>1, AskedChange
  <2> QED
    BY <1>2, <1>7, <2>1, <2>2
<1>11. ASSUME NEW n \in Nodes, RxWait(n) \/ RxEmpty(n) \/ RxReply(n) \/ RxStatusDone(n) PROVE Stutter
  BY <1>6, <1>7, <1>11 DEF RxWait, RxEmpty, RxReply, RxStatusDone
<1>12. ASSUME NEW n \in Nodes, RxPop(n) PROVE Call!Next \/ Stutter
  <2>1. /\ Head(rx_queue[n]) \in Live /\ rx_msg'[n] = Head(rx_queue[n])
        /\ executed' = executed \cup (IF Control(rx_msg'[n]) THEN {rx_msg'[n].id} ELSE {})
    BY <1>12, <1>t, Serves
  <2>2. Asked' = Asked /\ OpenIds' = OpenIds /\ Results' = Results
    BY <1>6, <1>7, <1>12 DEF RxPop
  <2> DEFINE i == Head(rx_queue[n]).id
  <2>3. i \in Ids /\ i \in Asked
    BY <2>1 DEF IInv, MessageInv, Message, Numbered, Asked
  <2>4. CASE Control(Head(rx_queue[n]))
    <3>1. rx_queue[n] \in Seq(Message) /\ rx_queue[n] # << >>
      BY <1>12, <1>t DEF RxPop, IsEmpty, TypeOK
    <3>2. 1 \in DOMAIN rx_queue[n] /\ Head(rx_queue[n]) = rx_queue[n][1]
      BY <3>1, HeadTail
    <3>3. i \notin executed
      BY <2>4, <3>2 DEF IInv, OnceInv, PlacedOnce
    <3> QED
      BY <1>3, <2>1, <2>2, <2>3, <2>4, <3>3
  <2>5. CASE ~Control(Head(rx_queue[n]))
    BY <2>1, <2>2, <2>5
  <2> QED
    BY <2>4, <2>5
<1>13. ASSUME NEW c \in Callers, NEW to \in Nodes, SendPrepare(c, to) PROVE Call!Next
  <2> DEFINE n == Home(c)
             i == <<n, numbered[n]>>
  <2>1. /\ numbered[n] < MaxMessages /\ numbered' = [numbered EXCEPT ![n] = numbered[n] + 1]
        /\ call[c].pc = "idle" /\ executed' = executed
        /\ call' = [call EXCEPT ![c] = [pc |-> "prepared", id |-> i, to |-> to, result |-> Empty]]
    BY <1>13 DEF SendPrepare
  <2>2. i \in Ids \ Asked /\ Asked' = Asked \cup {i}
    BY <1>t, <2>1, AskedChange, Homes
  <2> HIDE DEF n, i
  <2>3. /\ call'[c] = [pc |-> "prepared", id |-> i, to |-> to, result |-> Empty]
        /\ \A d \in Callers \ {c} : call'[d] = call[d]
    BY <1>c, <2>1
  <2>4. call'[c].pc = "prepared" /\ call'[c].id = i /\ call'[c].result = Empty
    BY <2>3
  <2>5. /\ OpenIds' = [OpenIds EXCEPT ![c] = i] /\ Results' = [Results EXCEPT ![c] = Empty]
        /\ OpenIds[c] = Empty
    BY <2>1, <2>3, <2>4, OpenChange
  <2> QED
    BY <1>1, <2>1, <2>2, <2>5
<1>14. ASSUME NEW c \in Callers, SendPublish(c) PROVE Call!Next \/ Stutter
  <2>1. /\ UNCHANGED <<numbered, executed>> /\ call[c].pc = "prepared"
        /\ call' = [call EXCEPT ![c].pc = "waiting"] \/ call' = [call EXCEPT ![c].pc = "idle"]
    BY <1>14 DEF SendPublish
  <2>2. CASE call' = [call EXCEPT ![c].pc = "idle"]
    BY <1>8, <2>1, <2>2 DEF Open
  <2>3. CASE call' = [call EXCEPT ![c].pc = "waiting"]
    <3>1. \A d \in Callers : /\ call'[d].id = call[d].id /\ call'[d].result = call[d].result
                             /\ call'[d].pc = "idle" <=> call[d].pc = "idle"
      BY <1>c, <2>1, <2>3 DEF CallRecord
    <3>2. OpenIds' = OpenIds /\ Results' = Results
      BY <3>1 DEF OpenIds, Results
    <3> QED
      BY <1>6, <2>1, <3>2
  <2> QED
    BY <2>1, <2>2, <2>3
<1>15. ASSUME NEW c \in Callers, SendReturns(c) PROVE Call!Next
  <2>1. /\ UNCHANGED <<numbered, executed>> /\ call[c].pc = "waiting" /\ Posted(c)
        /\ call' = [call EXCEPT ![c] = [pc |-> "idle", id |-> call[c].id, to |-> call[c].to, result |-> slots[CallSlot(c)]]]
    BY <1>15 DEF SendReturns
  <2>2. Open(c) /\ slots[CallSlot(c)] = call[c].id /\ call[c].id \in executed
    BY <2>1 DEF SInv, SlotInv, Open
  <2>3. /\ call'[c] = [pc |-> "idle", id |-> call[c].id, to |-> call[c].to, result |-> call[c].id]
        /\ \A d \in Callers \ {c} : call'[d] = call[d]
    BY <1>c, <2>1, <2>2
  <2>4. call'[c].pc = "idle" /\ call'[c].result = call[c].id
    BY <2>3
  <2>5. /\ OpenIds' = [OpenIds EXCEPT ![c] = Empty] /\ Results' = [Results EXCEPT ![c] = OpenIds[c]]
        /\ OpenIds[c] = call[c].id
    BY <2>2, <2>3, <2>4, OpenChange DEF Open
  <2> QED
    BY <1>4, <1>6, <2>1, <2>2, <2>5
<1>16. ASSUME NEW c \in Callers, SendTimesOut(c) PROVE Call!Next
  BY <1>8, <1>16 DEF SendTimesOut, Open
<1>17. ASSUME NEW m \in outbox, BrokerForwards(m) PROVE Stutter
  BY <1>6, <1>7, <1>17 DEF BrokerForwards
<1>18. ASSUME NEW m \in inbox, OnRecvAck(m) \/ OnRecvOther(m) PROVE Stutter
  BY <1>6, <1>7, <1>18 DEF OnRecvAck, OnRecvOther
<1>19. UNCHANGED vars => Stutter
  BY <1>6, <1>7 DEF vars
<1> HIDE DEF Stutter
<1> QED
  BY <1>s, <1>9, <1>10, <1>11, <1>12, <1>13, <1>14, <1>15, <1>16, <1>17, <1>18, <1>19 DEF Next, Rx, Send

(* LiteIpc implements RemoteCall, with one object in a process, controls not at
   QoS 1 and live numbers whose magics differ. *)
THEOREM Implements ==
  ASSUME OneObject, ControlsOnce
  PROVE  Spec /\ []MagicsApart => ImplementsRemoteCall
<1>1. Init => IInv /\ SInv /\ Call!Init
  BY InitHolds, RefinedInit
<1>2. IInv /\ SInv /\ MagicsApart /\ MagicsApart' /\ [Next]_vars => IInv' /\ SInv'
  <2> SUFFICES ASSUME IInv, SInv, MagicsApart, MagicsApart', [Next]_vars PROVE IInv' /\ SInv'
    OBVIOUS
  <2>1. IInv'
    BY ControlsOnce, IInvKeeps
  <2>2. SlotInv'
    BY OneObject, <2>1, SlotKeeps DEF IInv, SInv
  <2>3. WaitInv'
    BY OneObject, <2>1, WaitKeeps DEF IInv, SInv
  <2> QED
    BY <2>1, <2>2, <2>3 DEF SInv
<1>3. IInv /\ SInv /\ [Next]_vars => [Call!Next]_(Call!vars)
  BY RefinedNext
<1> QED
  BY <1>1, <1>2, <1>3, PTL DEF Spec, ImplementsRemoteCall, Call!Spec

(* Together: until the magics of a node have come round once, the slots and
   the calls of its programs are as promised without any further condition on
   the run. *)
THEOREM UntilTheyComeRound ==
  ASSUME OneObject, ControlsOnce, MaxMessages <= MagicMod
  PROVE  Spec => []SlotServesCall /\ ImplementsRemoteCall
<1>1. Spec => []MagicsApart
  BY NoMagicTwice
<1>2. Spec /\ []MagicsApart => []SlotServesCall
  BY OneObject, SlotsServe
<1>3. Spec /\ []MagicsApart => ImplementsRemoteCall
  BY OneObject, ControlsOnce, Implements
<1> QED
  BY <1>1, <1>2, <1>3, PTL

=============================================================================
