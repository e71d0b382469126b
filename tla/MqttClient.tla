----------------------------- MODULE MqttClient -----------------------------
(***************************************************************************)
(* MqttClient (comex_mqtt.cpp): a client of an MQTT broker that reconnects *)
(* by itself and then subscribes again to every topic of its map           *)
(* "sub_topics".                                                           *)
(*                                                                         *)
(* The owner starts and stops it.  Callers subscribe and unsubscribe, also *)
(* before the first start.  libmosquitto's loop thread (net) owns the      *)
(* connection and calls MqttConnectCallback and MqttDisconnectCallback.    *)
(* libmosquitto and the broker are external: packets go out in FIFO order, *)
(* those not yet taken are lost with the connection, and the broker        *)
(* forgets the subscriptions of a clean session when it ends.              *)
(***************************************************************************)
EXTENDS Integers, Sequences, FiniteSets

CONSTANTS Topics, Callers,
          TopicsOf,       \* the topics each caller subscribes and unsubscribes
          Matches(_, _),  \* mosquitto_topic_matches_sub(subscription, topic)
          MaxStarts,      \* bound: calls of startClient
          MaxConnects,    \* bound: connection attempts of the loop thread
          MaxPackets      \* bound: packets under way when a call starts

ASSUME MqttClientAssumption ==
  /\ TopicsOf \in [Callers -> SUBSET Topics]
  /\ \A s, t \in Topics : Matches(s, t) \in BOOLEAN
  /\ MaxStarts \in Nat /\ MaxConnects \in Nat /\ MaxPackets \in Nat

VARIABLES
  mosq,              \* the library handle exists
  closing,           \* mosquitto_disconnect was called on it
  connection_ready, sub_topics, sem_mqtt_conn,
  owner_pc, waiting, \* where startClient / stopClient is; its argument "wait"
  net_pc, link,      \* the loop thread; what the library knows of its socket
  call,              \* per caller: the step it is at, its topic, and whether its
                     \* packet was handed to the connection that still stands
  out, broker_subs,  \* packets under way; the subscriptions the broker holds
  starts, connects,  \* counters for the bounds
  raced,             \* history: topics whose call was overtaken, see NetResubscribe
  wanted             \* history: topics whose last call was a subscribe, whatever it
                     \* returned

clientVars  == <<mosq, closing>>
ownerVars   == <<owner_pc, waiting, starts>>
netVars     == <<net_pc, link, connects>>
brokerVars  == <<out, broker_subs>>
historyVars == <<raced, wanted>>

vars == <<clientVars, connection_ready, sub_topics, sem_mqtt_conn, ownerVars, netVars,
          call, brokerVars, historyVars>>

Packet == [op : {"SUBSCRIBE", "UNSUBSCRIBE"}, topic : Topics]
NoTopic == "none"
Idle == [pc |-> "idle", topic |-> NoTopic, sent |-> FALSE]

Init ==
  /\ mosq = FALSE /\ closing = FALSE
  /\ connection_ready = FALSE
  /\ sub_topics = {}
  /\ sem_mqtt_conn = 0
  /\ owner_pc = "idle" /\ waiting = FALSE
  /\ net_pc = "off" /\ link = "down"
  /\ call = [c \in Callers |-> Idle]
  /\ out = << >> /\ broker_subs = {}
  /\ starts = 0 /\ connects = 0
  /\ raced = {} /\ wanted = {}

-----------------------------------------------------------------------------
(* The owner.  It does not start or stop the client while a call is running:
   mosq is used by the calls and destroyed by closeClient without a lock. *)

NobodyCalls == \A c \in Callers : call[c] = Idle

(* startClient begins with stopClient: closeClient if there is a handle. *)
StartClient(wait) ==
  /\ owner_pc = "idle"
  /\ NobodyCalls
  /\ starts < MaxStarts
  /\ starts' = starts + 1
  /\ waiting' = wait
  /\ closing' = mosq
  /\ owner_pc' = IF mosq THEN "joinStart" ELSE "open"
  /\ UNCHANGED <<mosq, connection_ready, sub_topics, sem_mqtt_conn, netVars, call, brokerVars,
                 historyVars>>

StopClient ==
  /\ owner_pc = "idle"
  /\ NobodyCalls
  /\ mosq
  /\ closing' = TRUE
  /\ owner_pc' = "joinStop"
  /\ UNCHANGED <<mosq, connection_ready, sub_topics, sem_mqtt_conn, waiting, starts, netVars, call,
                 brokerVars, historyVars>>

(* mosquitto_loop_stop has joined the loop thread. *)
LoopJoined == net_pc = "off"

(* Then destroy it; mosq = NULL. *)
CloseClient ==
  /\ owner_pc \in {"joinStart", "joinStop"}
  /\ LoopJoined
  /\ mosq' = FALSE
  /\ closing' = FALSE
  /\ owner_pc' = IF owner_pc = "joinStart" THEN "open" ELSE "idle"
  /\ UNCHANGED <<connection_ready, sub_topics, sem_mqtt_conn, waiting, starts, netVars, call,
                 brokerVars, historyVars>>

(* openClient: a new handle whose loop thread connects; or an option is
   refused, the handle is closed again and startClient returns false. *)
OpenClient ==
  /\ owner_pc = "open"
  /\ \/ /\ mosq' = TRUE
        /\ net_pc' = "loop"
        /\ owner_pc' = IF waiting THEN "wait" ELSE "idle"
     \/ /\ owner_pc' = "idle"
        /\ UNCHANGED <<mosq, net_pc>>
  /\ UNCHANGED <<closing, connection_ready, sub_topics, sem_mqtt_conn, waiting, starts, link,
                 connects, call, brokerVars, historyVars>>

(* sem_mqtt_conn.wait(timeout_ms).  (Mutated forms: it does not wait; it waits
   without a limit.) *)
PostedUnawaited == TRUE
Posted          == sem_mqtt_conn > 0
TimesOutNever   == FALSE
TimesOut        == sem_mqtt_conn = 0

(* The wait is posted... *)
WaitPosted ==
  /\ owner_pc = "wait"
  /\ Posted
  /\ sem_mqtt_conn' = sem_mqtt_conn - 1
  /\ owner_pc' = "posted"
  /\ UNCHANGED <<clientVars, connection_ready, sub_topics, waiting, starts, netVars, call,
                 brokerVars, historyVars>>

(* ...or times out; either way connection_ready decides what startClient returns. *)
WaitTimedOut ==
  /\ owner_pc = "wait"
  /\ TimesOut
  /\ owner_pc' = "timedOut"
  /\ UNCHANGED <<clientVars, connection_ready, sub_topics, sem_mqtt_conn, waiting, starts, netVars,
                 call, brokerVars, historyVars>>

StartReturns ==
  /\ owner_pc \in {"posted", "timedOut"}
  /\ owner_pc' = "idle"
  /\ waiting' = FALSE
  /\ UNCHANGED <<clientVars, connection_ready, sub_topics, sem_mqtt_conn, starts, netVars, call,
                 brokerVars, historyVars>>

-----------------------------------------------------------------------------
(* The callers. *)

MayCall ==
  owner_pc \in {"idle", "wait", "posted", "timedOut"} /\ Len(out) < MaxPackets

HasSocket == mosq /\ link # "down"

(* mosquitto_subscribe and mosquitto_unsubscribe: queue a packet, or fail when
   there is no handle (INVAL) or no socket (NO_CONN). *)
Send(op, t) ==
  out' = IF HasSocket THEN Append(out, [op |-> op, topic |-> t]) ELSE out

(* Another call stands between its packet and its update of the map. *)
Pending(c, t) == call[c].topic = t /\ call[c].pc \in {"store", "erase"}
Overlaps(c, t) == \E d \in Callers \ {c} : Pending(d, t)

NoteOverlap(c, t) == raced' = IF Overlaps(c, t) THEN raced \cup {t} ELSE raced

(* subscribe returns false at once when a subscription of the map covers the
   topic; the lock is released before the packet is sent. *)
Covered(t) == \E s \in sub_topics : Matches(s, t)

SubscribeCheck(c, t) ==
  /\ MayCall
  /\ call[c] = Idle
  /\ ~Covered(t)
  /\ call' = [call EXCEPT ![c] = [pc |-> "send", topic |-> t, sent |-> FALSE]]
  /\ UNCHANGED <<clientVars, connection_ready, sub_topics, sem_mqtt_conn, ownerVars, netVars,
                 brokerVars, historyVars>>

SubscribeSend(c) ==
  LET t == call[c].topic
  IN  /\ call[c].pc = "send"
      /\ Send("SUBSCRIBE", t)
      /\ NoteOverlap(c, t)
      /\ call' = [call EXCEPT ![c] = [pc |-> "store", topic |-> t, sent |-> HasSocket]]
      /\ UNCHANGED <<clientVars, connection_ready, sub_topics, sem_mqtt_conn, ownerVars, netVars,
                     broker_subs, wanted>>

(* sub_topics[topic] = qos whatever the library said.  (Mutated form: only if
   it accepted the packet.) *)
StoredIfSent(c) == IF call[c].sent THEN {call[c].topic} ELSE {}
Stored(c)       == {call[c].topic}

SubscribeStore(c) ==
  /\ call[c].pc = "store"
  /\ sub_topics' = sub_topics \cup Stored(c)
  /\ wanted' = wanted \cup {call[c].topic}
  /\ call' = [call EXCEPT ![c] = Idle]
  /\ UNCHANGED <<clientVars, connection_ready, sem_mqtt_conn, ownerVars, netVars, brokerVars, raced>>

UnsubscribeSend(c, t) ==
  /\ MayCall
  /\ call[c] = Idle
  /\ Send("UNSUBSCRIBE", t)
  /\ NoteOverlap(c, t)
  /\ call' = [call EXCEPT ![c] = [pc |-> "erase", topic |-> t, sent |-> HasSocket]]
  /\ UNCHANGED <<clientVars, connection_ready, sub_topics, sem_mqtt_conn, ownerVars, netVars,
                 broker_subs, wanted>>

(* The topic leaves the map.  (Mutated form: it is forgotten there.) *)
ErasedNothing(c) == {}
Erased(c)        == {call[c].topic}

UnsubscribeErase(c) ==
  /\ call[c].pc = "erase"
  /\ sub_topics' = sub_topics \ Erased(c)
  /\ wanted' = wanted \ {call[c].topic}
  /\ call' = [call EXCEPT ![c] = Idle]
  /\ UNCHANGED <<clientVars, connection_ready, sem_mqtt_conn, ownerVars, netVars, brokerVars, raced>>

-----------------------------------------------------------------------------
(* libmosquitto's loop thread and the broker.  net_pc:
     "off"      there is no loop thread
     "loop"     in the library
     "connack"  in MqttConnectCallback, connection_ready is set
     "resub"    there too, sem_mqtt_conn is posted and the client is ready
     "lost"     the socket is closed, MqttDisconnectCallback not yet run *)

NetConnect ==
  /\ net_pc = "loop"
  /\ link = "down"
  /\ ~closing
  /\ connects < MaxConnects
  /\ connects' = connects + 1
  /\ link' = "opening"
  /\ raced' = {}
  /\ UNCHANGED <<clientVars, connection_ready, sub_topics, sem_mqtt_conn, ownerVars, net_pc, call,
                 brokerVars, wanted>>

(* The packets and subscriptions that go with the socket. *)
SocketGone ==
  /\ link' = "down"
  /\ out' = << >>
  /\ broker_subs' = {}
  /\ call' = [c \in Callers |-> [pc |-> call[c].pc, topic |-> call[c].topic, sent |-> FALSE]]

(* MqttConnectCallback: connection_ready = (result == 0). *)
Ready(accepted) == accepted

NetConnack(accepted) ==
  /\ net_pc = "loop"
  /\ link = "opening"
  /\ connection_ready' = Ready(accepted)
  /\ net_pc' = "connack"
  /\ IF accepted
     THEN link' = "up" /\ UNCHANGED <<out, broker_subs, call>>
     ELSE SocketGone
  /\ UNCHANGED <<clientVars, sub_topics, sem_mqtt_conn, ownerVars, connects, historyVars>>

NetPost ==
  /\ net_pc = "connack"
  /\ sem_mqtt_conn' = sem_mqtt_conn + 1
  /\ net_pc' = IF connection_ready THEN "resub" ELSE "loop"
  /\ UNCHANGED <<clientVars, connection_ready, sub_topics, ownerVars, link, connects, call,
                 brokerVars, historyVars>>

(* Subscribe to every topic of the map under its lock.  A call under way is
   overtaken when its packet is not on this connection (a subscribe), or is in
   front of the new ones (an unsubscribe): the map and the broker then differ
   until the next connection.  (Mutated form: nothing is subscribed again.) *)
ResubscribesNone(order) == << >>
Resubscribes(order)     == [i \in DOMAIN order |-> [op |-> "SUBSCRIBE", topic |-> order[i]]]

Overtaken == {t \in Topics : \E c \in Callers : Pending(c, t) /\ ~(call[c].pc = "store" /\ call[c].sent)}

Orders(S) == {q \in [1..Cardinality(S) -> S] : \A s \in S : \E i \in DOMAIN q : q[i] = s}

NetResubscribe ==
  /\ net_pc = "resub"
  /\ \E order \in Orders(sub_topics) : out' = out \o Resubscribes(order)
  /\ net_pc' = "loop"
  /\ raced' = raced \cup Overtaken
  /\ UNCHANGED <<clientVars, connection_ready, sub_topics, sem_mqtt_conn, ownerVars, link, connects,
                 call, broker_subs, wanted>>

(* The connection breaks, or mosquitto_disconnect ends it. *)
NetLost ==
  /\ net_pc = "loop"
  /\ link # "down"
  /\ SocketGone
  /\ net_pc' = "lost"
  /\ UNCHANGED <<clientVars, connection_ready, sub_topics, sem_mqtt_conn, ownerVars, connects,
                 historyVars>>

(* MqttDisconnectCallback.  (Mutated form: it does not reset the flag.) *)
AfterDisconnectKept == connection_ready
AfterDisconnect     == FALSE

NetDisconnected ==
  /\ net_pc = "lost"
  /\ connection_ready' = AfterDisconnect
  /\ net_pc' = "loop"
  /\ UNCHANGED <<clientVars, sub_topics, sem_mqtt_conn, ownerVars, link, connects, call, brokerVars,
                 historyVars>>

NetQuit ==
  /\ net_pc = "loop"
  /\ link = "down"
  /\ closing
  /\ net_pc' = "off"
  /\ UNCHANGED <<clientVars, connection_ready, sub_topics, sem_mqtt_conn, ownerVars, link, connects,
                 call, brokerVars, historyVars>>

BrokerTakes ==
  /\ out # << >>
  /\ out' = Tail(out)
  /\ broker_subs' = IF Head(out).op = "SUBSCRIBE"
                    THEN broker_subs \cup {Head(out).topic}
                    ELSE broker_subs \ {Head(out).topic}
  /\ UNCHANGED <<clientVars, connection_ready, sub_topics, sem_mqtt_conn, ownerVars, netVars, call,
                 historyVars>>

-----------------------------------------------------------------------------
Owner ==
  \/ \E wait \in BOOLEAN : StartClient(wait)
  \/ StopClient
  \/ CloseClient
  \/ OpenClient
  \/ WaitPosted
  \/ WaitTimedOut
  \/ StartReturns

CallSteps(c) == SubscribeSend(c) \/ SubscribeStore(c) \/ UnsubscribeErase(c)

Caller(c) ==
  \/ \E t \in TopicsOf[c] : SubscribeCheck(c, t) \/ UnsubscribeSend(c, t)
  \/ CallSteps(c)

Callback == NetPost \/ NetResubscribe \/ NetDisconnected

Net ==
  \/ NetConnect
  \/ \E accepted \in BOOLEAN : NetConnack(accepted)
  \/ Callback
  \/ NetLost
  \/ NetQuit

Next == Owner \/ (\E c \in Callers : Caller(c)) \/ Net \/ BrokerTakes

Spec == Init /\ [][Next]_vars

(* Calls and callbacks run to their end, the wait of startClient is bounded,
   the broker takes what it was sent, and mosquitto_disconnect is obeyed.
   No fairness makes the broker accept, or the owner or a caller call. *)
Fairness ==
  /\ WF_vars(CloseClient) /\ WF_vars(OpenClient)
  /\ WF_vars(WaitPosted \/ WaitTimedOut) /\ WF_vars(StartReturns)
  /\ \A c \in Callers : WF_vars(CallSteps(c))
  /\ WF_vars(Callback)
  /\ WF_vars(closing /\ (NetLost \/ NetQuit))
  /\ WF_vars(BrokerTakes)

FairSpec == Spec /\ Fairness

-----------------------------------------------------------------------------
TypeOK ==
  /\ mosq \in BOOLEAN /\ closing \in BOOLEAN
  /\ connection_ready \in BOOLEAN
  /\ sub_topics \subseteq Topics
  /\ sem_mqtt_conn \in Nat
  /\ owner_pc \in {"idle", "joinStart", "joinStop", "open", "wait", "posted", "timedOut"}
  /\ waiting \in BOOLEAN
  /\ net_pc \in {"off", "loop", "connack", "resub", "lost"}
  /\ link \in {"down", "opening", "up"}
  /\ call \in [Callers -> [pc : {"idle", "send", "store", "erase"}, topic : Topics \cup {NoTopic},
                           sent : BOOLEAN]]
  /\ out \in Seq(Packet)
  /\ broker_subs \subseteq Topics
  /\ starts \in 0..MaxStarts /\ connects \in 0..MaxConnects
  /\ raced \subseteq Topics
  /\ wanted \subseteq Topics

(* Once the packets are delivered, the broker holds exactly the topics of the
   map: nothing the application asked for stays silent and nothing it gave up
   keeps coming, except for the topics of calls overtaken by the connect
   callback or by a call on the same topic. *)
Quiet(t) == \A c \in Callers : ~Pending(c, t)

MapMatchesBroker ==
  link = "up" /\ net_pc = "loop" /\ out = << >> =>
    \A t \in Topics : Quiet(t) /\ t \notin raced => (t \in sub_topics <=> t \in broker_subs)

(* isConnected tells the truth whenever no callback is due, and without a handle
   no packet, no subscription and no loop thread is left, also when the client
   was stopped in the middle of a callback or its start failed half way. *)
ReadyMeansConnected ==
  /\ net_pc \in {"off", "loop"} => (connection_ready <=> link = "up")
  /\ ~mosq => net_pc = "off" /\ link = "down" /\ out = << >> /\ broker_subs = {}

(* A topic the application subscribed reaches the broker on every connection
   that stands long enough, also when the call found no connection, before the
   first start or during a reconnect, and returned false. *)
TopicReachesBroker ==
  \A t \in Topics :
    t \in wanted /\ link = "up" ~> t \in broker_subs \/ t \notin wanted \/ link # "up" \/ t \in raced

(* stopClient and startClient return: the loop thread obeys the disconnect
   from wherever it is. *)
OwnerReturns == owner_pc # "idle" ~> owner_pc = "idle"

=============================================================================
