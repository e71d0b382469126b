------------------------------ MODULE LiteIpc ------------------------------
(***************************************************************************)
(* LiteIPC (comex_liteipc.cpp): request and reply over an MQTT broker.     *)
(* Each node subscribes to its topic "/addr/IN".  sendControl publishes a  *)
(* CONTROL to the topic of another node and waits; that node's rx thread   *)
(* calls onRecvControl and publishes the ACK, which carries the same magic *)
(* and wakes the waiter through the sync adapter of the process.           *)
(* sendStatus and sendEvent publish to whoever listens.                    *)
(*                                                                         *)
(* The connection is that of MqttClient, seen from above: it comes and     *)
(* goes, and each time it comes the topics of the map are subscribed.      *)
(* Received messages reach onRecv on the threads of a pool, in any order.  *)
(***************************************************************************)
EXTENDS Integers, Sequences, FiniteSets

CONSTANTS Nodes,
          Process(_),   \* the process a node's object lives in
          Qos(_),       \* setQOS: the quality of service of a kind of message
          Listeners,    \* nodes that listen to the statuses of every node
          Callers,      \* threads that call sendControl: <<"rx", n>>, <<"app", n>>...
          Stopping,     \* nodes whose owner calls stopIPC
          Breaking,     \* nodes whose connection breaks
          MagicMod,     \* number of magics, 2^32 in the code
          MaxMessages   \* bound: messages a node numbers

ASSUME LiteIpcAssumption ==
  /\ MagicMod \in Nat \ {0} /\ MaxMessages \in Nat
  /\ Listeners \subseteq Nodes /\ Stopping \cup Breaking \subseteq Nodes
  /\ \A c \in Callers : c[2] \in Nodes

VARIABLES
  numbered,            \* messages the node has numbered; magic is this mod MagicMod
  slots,               \* the sync adapters: <<process, magic>> -> what was posted
  call,                \* the sendControl calls in progress
  outbox, inbox,       \* messages in the sender's library; in the receiver's, for onRecv
  rx_queue, rx_running,
  rx_pc, rx_msg,       \* the rx thread; the message it handles
  link, in_map,        \* the connection; the nodes whose topic is in sub_topics
  owner_pc,            \* startIPC and stopIPC
  executed, lost       \* history: controls handed to onRecvControl; messages dropped

ownerVars == <<rx_running, link, in_map, owner_pc>>
rxVars    == <<rx_queue, rx_pc, rx_msg>>
vars      == <<numbered, slots, call, outbox, inbox, rxVars, ownerVars, executed, lost>>

(* sendControl runs on the application's thread, or in a handler on the rx
   thread of a node. *)
Home(c) == c[2]
HandlerIdle(n) == \A c \in Callers : c = <<"rx", n>> => call[c].pc = "idle"

(* A message is known by its sender and the number it gave it; an ACK by those
   of its request.  The programs only see the magic. *)
Ids      == Nodes \X (0..MaxMessages)
Message  == [kind : {"CONTROL", "STATUS", "ACK"}, from : Nodes, to : Nodes, id : Ids, resent : BOOLEAN]

(* (Mutated form: the magic does not advance.) *)
MagicFixed(k) == 0
Magic(k)      == k % MagicMod

NoMessage == [kind |-> "none"]
Empty     == << >>
Idle      == [pc |-> "idle", id |-> Empty, to |-> Empty, result |-> Empty]

Slot(n, k) == <<Process(n), Magic(k)>>
With(f, k, v) == [x \in DOMAIN f \cup {k} |-> IF x = k THEN v ELSE f[x]]
Without(f, k) == [x \in DOMAIN f \ {k} |-> f[x]]

Init ==
  /\ numbered = [n \in Nodes |-> 0]
  /\ slots = [s \in {} |-> Empty]
  /\ call = [c \in Callers |-> Idle]
  /\ outbox = {} /\ inbox = {}
  /\ rx_queue = [n \in Nodes |-> << >>]
  /\ rx_running = [n \in Nodes |-> FALSE]
  /\ rx_pc = [n \in Nodes |-> "off"]
  /\ rx_msg = [n \in Nodes |-> NoMessage]
  /\ link = [n \in Nodes |-> "off"]
  /\ in_map = {}
  /\ owner_pc = [n \in Nodes |-> "stopped"]
  /\ executed = {} /\ lost = {}

-----------------------------------------------------------------------------
(* startIPC and stopIPC.  startIPC first calls stopIPC, which is a step of its
   own here. *)

StartIPC(n) ==
  /\ owner_pc[n] = "stopped"
  /\ rx_running' = [rx_running EXCEPT ![n] = TRUE]
  /\ rx_pc' = [rx_pc EXCEPT ![n] = "wait"]
  /\ link' = [link EXCEPT ![n] = "connecting"]
  /\ owner_pc' = [owner_pc EXCEPT ![n] = "starting"]
  /\ UNCHANGED <<numbered, slots, call, outbox, inbox, rx_queue, rx_msg, in_map, executed, lost>>

(* startClient(true) came back with a connection: subscribe "/addr/IN". *)
StartSubscribe(n) ==
  /\ owner_pc[n] = "starting"
  /\ link[n] = "up"
  /\ in_map' = in_map \cup {n}
  /\ owner_pc' = [owner_pc EXCEPT ![n] = "running"]
  /\ UNCHANGED <<numbered, slots, call, outbox, inbox, rxVars, rx_running, link, executed, lost>>

(* startClient(true) came back without: startIPC returns false, and the client
   and the rx thread go on without the topic in the map. *)
StartFails(n) ==
  /\ owner_pc[n] = "starting"
  /\ link[n] # "up"
  /\ owner_pc' = [owner_pc EXCEPT ![n] = "running"]
  /\ UNCHANGED <<numbered, slots, call, outbox, inbox, rxVars, rx_running, link, in_map, executed, lost>>

(* stopIPC, first stopClient: what the library and the pool hold is gone. *)
StopClient(n) ==
  LET gone == {m \in outbox : m.from = n} \cup {m \in inbox : m.to = n}
  IN  /\ owner_pc[n] = "running"
      /\ n \in Stopping
      /\ owner_pc' = [owner_pc EXCEPT ![n] = "stopping"]
      /\ link' = [link EXCEPT ![n] = "off"]
      /\ outbox' = outbox \ gone
      /\ inbox' = inbox \ gone
      /\ lost' = lost \cup {m.id : m \in gone}
      /\ UNCHANGED <<numbered, slots, call, rxVars, rx_running, in_map, executed>>

(* Then the rx thread is told and joined; rx_queue keeps what is in it. *)
StopRx(n) ==
  /\ owner_pc[n] = "stopping"
  /\ rx_running' = [rx_running EXCEPT ![n] = FALSE]
  /\ owner_pc' = [owner_pc EXCEPT ![n] = "joining"]
  /\ UNCHANGED <<numbered, slots, call, outbox, inbox, rxVars, link, in_map, executed, lost>>

JoinRx(n) ==
  /\ owner_pc[n] = "joining"
  /\ rx_pc[n] = "off"
  /\ owner_pc' = [owner_pc EXCEPT ![n] = "stopped"]
  /\ UNCHANGED <<numbered, slots, call, outbox, inbox, rxVars, rx_running, link, in_map, executed, lost>>

-----------------------------------------------------------------------------
(* The broker and the connections. *)

Connect(n) ==
  /\ link[n] = "connecting"
  /\ link' = [link EXCEPT ![n] = "up"]
  /\ UNCHANGED <<numbered, slots, call, outbox, inbox, rxVars, rx_running, in_map, owner_pc, executed, lost>>

(* A clean session ends with its connection: some messages go with it. *)
Disconnect(n) ==
  /\ n \in Breaking
  /\ link[n] = "up"
  /\ link' = [link EXCEPT ![n] = "connecting"]
  /\ \E gone \in SUBSET ({m \in outbox : m.from = n} \cup {m \in inbox : m.to = n}) :
       /\ outbox' = outbox \ gone
       /\ inbox' = inbox \ gone
       /\ lost' = lost \cup {m.id : m \in gone}
  /\ UNCHANGED <<numbered, slots, call, rxVars, rx_running, in_map, owner_pc, executed>>

Subscribed(m) == link[m.to] = "up" /\ m.to \in (IF m.kind = "STATUS" THEN Listeners ELSE in_map)

(* At QoS 1 the sender's library keeps the message until the PUBACK: when that
   is lost with the connection it sends the message again (bound: once). *)
Kept(m) ==
  IF Qos(m.kind) = 1 /\ m.from \in Breaking /\ ~m.resent
  THEN {{}, {[kind |-> m.kind, from |-> m.from, to |-> m.to, id |-> m.id, resent |-> TRUE]}}
  ELSE {{}}

BrokerForwards(m) ==
  /\ m \in outbox
  /\ link[m.from] = "up"
  /\ \E kept \in Kept(m) : outbox' = (outbox \ {m}) \cup kept
  /\ IF Subscribed(m)
     THEN inbox' = inbox \cup {m} /\ lost' = lost
     ELSE inbox' = inbox /\ lost' = lost \cup {m.id}
  /\ UNCHANGED <<numbered, slots, call, rxVars, ownerVars, executed>>

-----------------------------------------------------------------------------
(* sendControl: number the message and prepare the slot of its magic... *)

(* (Mutated form: the slot is not prepared before publishing.) *)
Unprepared(n, k) == slots
Prepared(n, k)   == With(slots, Slot(n, k), Empty)

MayCall(c) == c[1] = "rx" => rx_pc[Home(c)] = "serving"

SendPrepare(c, to) ==
  LET n == Home(c)
      k == numbered[n]
  IN  /\ call[c].pc = "idle"
      /\ MayCall(c)
      /\ k < MaxMessages
      /\ numbered' = [numbered EXCEPT ![n] = k + 1]
      /\ slots' = Prepared(n, k)
      /\ call' = [call EXCEPT ![c] = [pc |-> "prepared", id |-> <<n, k>>, to |-> to, result |-> Empty]]
      /\ UNCHANGED <<outbox, inbox, rxVars, ownerVars, executed, lost>>

CallSlot(c) == Slot(Home(c), call[c].id[2])

(* (Mutated form: a way out of sendControl forgets its slot.) *)
Uncleared(c) == slots
Cleared(c)   == Without(slots, CallSlot(c))

(* The library takes a message when there is a client, and at QoS 0 only when
   it is connected. *)
Takes(n, kind) == IF Qos(kind) = 0 THEN link[n] = "up" ELSE link[n] # "off"

(* ...publish, or cancel when that failed... *)
SendPublish(c) ==
  /\ call[c].pc = "prepared"
  /\ IF Takes(Home(c), "CONTROL")
     THEN /\ outbox' = outbox \cup {[kind |-> "CONTROL", from |-> Home(c), to |-> call[c].to, id |-> call[c].id,
                                   resent |-> FALSE]}
          /\ call' = [call EXCEPT ![c].pc = "waiting"]
          /\ slots' = slots
     ELSE /\ outbox' = outbox
          /\ call' = [call EXCEPT ![c].pc = "idle"]
          /\ slots' = Cleared(c)
  /\ UNCHANGED <<numbered, inbox, rxVars, ownerVars, executed, lost>>

(* ...and wait: the slot is posted, or the time is over. *)
Posted(c)   == CallSlot(c) \in DOMAIN slots /\ slots[CallSlot(c)] # Empty
(* (Mutated form: syncWait waits without a limit.) *)
NeverOver(c) == FALSE
TimeOver(c)  == ~Posted(c)

SendReturns(c) ==
  /\ call[c].pc = "waiting"
  /\ Posted(c)
  /\ call' = [call EXCEPT ![c] = [pc |-> "idle", id |-> @.id, to |-> @.to, result |-> slots[CallSlot(c)]]]
  /\ slots' = Cleared(c)
  /\ UNCHANGED <<numbered, outbox, inbox, rxVars, ownerVars, executed, lost>>

SendTimesOut(c) ==
  /\ call[c].pc = "waiting"
  /\ TimeOver(c)
  /\ call' = [call EXCEPT ![c].pc = "idle"]
  /\ slots' = Cleared(c)
  /\ UNCHANGED <<numbered, outbox, inbox, rxVars, ownerVars, executed, lost>>

(* sendStatus and sendEvent: publish and forget. *)
SendStatus(n) ==
  LET k == numbered[n]
  IN  /\ k < MaxMessages
      /\ Listeners # {}
      /\ Takes(n, "STATUS")
      /\ numbered' = [numbered EXCEPT ![n] = k + 1]
      /\ outbox' = outbox \cup {[kind |-> "STATUS", from |-> n, to |-> l, id |-> <<n, k>>, resent |-> FALSE] : l \in Listeners}
      /\ UNCHANGED <<slots, call, inbox, rxVars, ownerVars, executed, lost>>

-----------------------------------------------------------------------------
(* onRecv, on a thread of the pool: an ACK is posted to the slot of its magic,
   if that is still there; everything else goes to the rx thread. *)

(* (Mutated form: the flag is tested for CONTROL, which both have.) *)
HasControlFlag(m) == m.kind # "STATUS"
IsAck(m)          == m.kind = "ACK"

OnRecvAck(m) ==
  /\ m \in inbox
  /\ IsAck(m)
  /\ inbox' = inbox \ {m}
  /\ LET s == Slot(m.to, m.id[2])
     IN  slots' = IF s \in DOMAIN slots THEN With(slots, s, m.id) ELSE slots
  /\ UNCHANGED <<numbered, call, outbox, rxVars, ownerVars, executed, lost>>

OnRecvOther(m) ==
  /\ m \in inbox
  /\ ~IsAck(m)
  /\ inbox' = inbox \ {m}
  /\ rx_queue' = [rx_queue EXCEPT ![m.to] = Append(@, m)]
  /\ UNCHANGED <<numbered, slots, call, outbox, rx_pc, rx_msg, ownerVars, executed, lost>>

-----------------------------------------------------------------------------
(* ThreadRx.  rx_pc: "wait" on the condition, for at most one second; "pop"
   about to look into rx_queue; "serving" in onRecvControl, onRecvStatus or
   onRecvEvent; "off". *)

(* (Mutated form: the inner loop does not test thread_rx_running.) *)
NextTurnAlways(n) == "pop"
NextTurn(n)       == IF rx_running[n] THEN "pop" ELSE "off"

(* (Mutated form: the last message stays.) *)
AlmostEmpty(q) == Len(q) <= 1
IsEmpty(q)     == q = << >>

(* (Mutated form: the message is read and stays.) *)
Peeked(q) == q
Popped(q) == Tail(q)

(* (Mutated form: the reply lacks the magic of the request.) *)
UnnumberedAck(n, m) == [kind |-> "ACK", from |-> n, to |-> m.from, id |-> Empty, resent |-> FALSE]
Ack(n, m)           == [kind |-> "ACK", from |-> n, to |-> m.from, id |-> m.id, resent |-> FALSE]

RxWait(n) ==
  /\ rx_pc[n] = "wait"
  /\ rx_pc' = [rx_pc EXCEPT ![n] = NextTurn(n)]
  /\ UNCHANGED <<numbered, slots, call, outbox, inbox, rx_queue, rx_msg, ownerVars, executed, lost>>

RxEmpty(n) ==
  /\ rx_pc[n] = "pop"
  /\ IsEmpty(rx_queue[n])
  /\ rx_pc' = [rx_pc EXCEPT ![n] = "wait"]
  /\ UNCHANGED <<numbered, slots, call, outbox, inbox, rx_queue, rx_msg, ownerVars, executed, lost>>

RxPop(n) ==
  LET m == Head(rx_queue[n])
  IN  /\ rx_pc[n] = "pop"
      /\ ~IsEmpty(rx_queue[n])
      /\ rx_queue' = [rx_queue EXCEPT ![n] = Popped(@)]
      /\ rx_msg' = [rx_msg EXCEPT ![n] = m]
      /\ rx_pc' = [rx_pc EXCEPT ![n] = "serving"]
      /\ executed' = IF m.kind = "CONTROL" THEN executed \cup {m.id} ELSE executed
      /\ UNCHANGED <<numbered, slots, call, outbox, inbox, ownerVars, lost>>

(* onRecvControl has returned: publish the ACK to the sender's topic.  After
   stopClient there is no client to publish with. *)
RxReply(n) ==
  LET m == rx_msg[n]
  IN  /\ rx_pc[n] = "serving"
      /\ m.kind = "CONTROL"
      /\ HandlerIdle(n)
      /\ IF Takes(n, "ACK")
         THEN /\ outbox' = outbox \cup {Ack(n, m)}
              /\ lost' = lost
         ELSE outbox' = outbox /\ lost' = lost \cup {m.id}
      /\ rx_msg' = [rx_msg EXCEPT ![n] = NoMessage]
      /\ rx_pc' = [rx_pc EXCEPT ![n] = NextTurn(n)]
      /\ UNCHANGED <<numbered, slots, call, inbox, rx_queue, ownerVars, executed>>

RxStatusDone(n) ==
  /\ rx_pc[n] = "serving"
  /\ rx_msg[n].kind = "STATUS"
  /\ HandlerIdle(n)
  /\ rx_msg' = [rx_msg EXCEPT ![n] = NoMessage]
  /\ rx_pc' = [rx_pc EXCEPT ![n] = NextTurn(n)]
  /\ UNCHANGED <<numbered, slots, call, outbox, inbox, rx_queue, ownerVars, executed, lost>>

-----------------------------------------------------------------------------
Owner(n) == StartIPC(n) \/ StartSubscribe(n) \/ StartFails(n) \/ StopClient(n) \/ StopRx(n) \/ JoinRx(n)

Rx(n) == RxWait(n) \/ RxEmpty(n) \/ RxPop(n) \/ RxReply(n) \/ RxStatusDone(n)

Send(c) == SendPublish(c) \/ SendReturns(c) \/ SendTimesOut(c)

Next ==
  \/ \E n \in Nodes : Owner(n) \/ Connect(n) \/ Disconnect(n) \/ SendStatus(n) \/ Rx(n)
  \/ \E c \in Callers : (\E to \in Nodes : SendPrepare(c, to)) \/ Send(c)
  \/ \E m \in outbox : BrokerForwards(m)
  \/ \E m \in inbox : OnRecvAck(m) \/ OnRecvOther(m)

Spec == Init /\ [][Next]_vars

(* Threads run, the waits of sendControl and stopIPC's join are bounded.  No
   fairness for the broker: a message may stay under way for ever. *)
Fairness ==
  /\ \A n \in Nodes : WF_vars(StopRx(n)) /\ WF_vars(JoinRx(n)) /\ WF_vars(Rx(n))
  /\ \A c \in Callers : WF_vars(Send(c))

FairSpec == Spec /\ Fairness

-----------------------------------------------------------------------------
TypeOK ==
  /\ numbered \in [Nodes -> 0..MaxMessages]
  /\ DOMAIN slots \subseteq {Slot(n, k) : n \in Nodes, k \in 0..MaxMessages}
  /\ \A s \in DOMAIN slots : slots[s] \in Ids \cup {Empty}
  /\ call \in [Callers -> [pc : {"idle", "prepared", "waiting"}, id : Ids \cup {Empty},
                           to : Nodes \cup {Empty}, result : Ids \cup {Empty}]]
  /\ outbox \subseteq Message /\ inbox \subseteq Message
  /\ rx_queue \in [Nodes -> Seq(Message)]
  /\ rx_running \in [Nodes -> BOOLEAN]
  /\ rx_pc \in [Nodes -> {"off", "wait", "pop", "serving"}]
  /\ rx_msg \in [Nodes -> Message \cup {NoMessage}]
  /\ link \in [Nodes -> {"off", "connecting", "up"}]
  /\ in_map \subseteq Nodes
  /\ owner_pc \in [Nodes -> {"stopped", "starting", "running", "stopping", "joining"}]
  /\ executed \subseteq Ids /\ lost \subseteq Ids

(* A slot of the process-wide adapter serves the call it was prepared for, all
   of it and no longer: as long as a caller waits and its slot is empty, its
   request or its reply is on the way, or was lost on a connection, so no reply
   falls between publish and wait; and no way out of sendControl leaves one. *)
UnderWay(i) ==
  \/ \E m \in outbox \cup inbox : m.id = i
  \/ \E n \in Nodes : (\E j \in DOMAIN rx_queue[n] : rx_queue[n][j].id = i) \/ (rx_pc[n] = "serving" /\ rx_msg[n].id = i)

SlotServesCall ==
  /\ \A c \in Callers :
       call[c].pc = "waiting" /\ ~Posted(c) => UnderWay(call[c].id) \/ call[c].id \in lost
  /\ \A s \in DOMAIN slots : \E c \in Callers : call[c].pc # "idle" /\ CallSlot(c) = s

(* A control is handed to onRecvControl at most once, also across reconnections
   and restarts of its receiver. *)
ExecutedOnce ==
  [][\A n \in Nodes :
       rx_pc[n] = "pop" /\ rx_pc'[n] = "serving" /\ rx_msg'[n].kind = "CONTROL" => rx_msg'[n].id \notin executed]_vars

(* sendControl returns, even when two nodes call each other from inside their
   onRecvControl and neither rx thread is free to reply. *)
EveryCallReturns == \A c \in Callers : call[c].pc # "idle" ~> call[c].pc = "idle"

(* And the rx thread goes on: a received message is served unless the node is
   stopped first, for the wait has a limit whether a notification is lost or not;
   and stopIPC, which joins the thread, returns, also while it is in a call of
   its own. *)
RxGoesOn ==
  \A n \in Nodes :
    /\ rx_queue[n] # << >> /\ rx_running[n] ~> rx_pc[n] = "serving" \/ ~rx_running[n]
    /\ owner_pc[n] = "stopping" ~> owner_pc[n] = "stopped"

(* Nobody waits for ever: both of these (comex_liteipc.cpp:109-117, 179-209,
   259-317). *)
NodesGoOn == EveryCallReturns /\ RxGoesOn

(* LiteIpc implements RemoteCall: a call asks once and returns once, with the
   reply to its own request or with nothing, whatever is late, lost or sent
   twice, as long as a process has one object and a magic does not come round
   while its request lives (comex_liteipc.cpp:155-209). *)
Call == INSTANCE RemoteCall WITH
  Requests <- Ids,
  None     <- Empty,
  asked    <- {i \in Ids : i[2] < numbered[i[1]]},
  open     <- [c \in Callers |-> IF call[c].pc = "idle" THEN Empty ELSE call[c].id],
  result   <- [c \in Callers |-> call[c].result]

ImplementsRemoteCall == Call!Spec

=============================================================================
