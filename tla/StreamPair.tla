----------------------------- MODULE StreamPair -----------------------------
(***************************************************************************)
(* A client and a server of comex_socket.cpp, each in a process of its own *)
(* as in comex_socket_test.cpp, over the connections of StreamNet.         *)
(***************************************************************************)
EXTENDS StreamClient, StreamServer, Functions

vars == <<kind, listening, net, clientVars, serverVars>>

Init == NetInit /\ ClientInit /\ ServerInit

ByClient(A) == A /\ UNCHANGED serverVars
ByServer(A) == A /\ UNCHANGED clientVars

(* After a misuse the model goes no further. *)
Sound == ~misuse /\ ~smisuse

Next ==
  /\ Sound
  /\ \/ ByClient(ClientNext)
     \/ ByServer(ServerNext)
     \/ \E c \in Conn : NetBreaks(c) /\ UNCHANGED <<clientVars, serverVars>>

Spec == Init /\ [][Next]_vars

(* A loop that has something to run runs something, a thread of the pool takes
   what is queued and every onRecv returns.  Which callback comes first is open;
   nothing makes an owner or a sender act, and no connection has to break. *)
Fairness ==
  /\ WF_vars(Sound /\ ByClient(ClientLoop)) /\ WF_vars(Sound /\ ByClient(Joined))
  /\ WF_vars(Sound /\ ByServer(ServerLoop)) /\ WF_vars(Sound /\ ByServer(ServerJoined))
  /\ WF_vars(Sound /\ ByServer(Pool))

FairSpec == Spec /\ Fairness

-----------------------------------------------------------------------------
(* Properties. *)

(* The types of both processes and of the connections between them. *)
TypeOK == NetTypeOK /\ ClientTypeOK /\ ServerTypeOK

Increasing(s) == \A i, j \in DOMAIN s : i < j => s[i] < s[j]
Before(s, t)  == \A x \in Range(s), y \in Range(t) : x < y
Carried(c)    == read[c] \o net[c].up

(* Over all connections together, the server reads what the client's sendData
   was given in the order of those calls and nothing twice: what a lost
   connection swallowed is not sent again on the next one, and what waited for
   a connection goes before what came later. *)
SentInOrder ==
  /\ \A c \in Conn : Increasing(Carried(c) \o writes)
  /\ \A c, d \in Conn : c < d => Before(Carried(c), Carried(d))

(* onRecv may be through with later data before earlier data of the same
   connection, but only while a thread of the pool is busy with the earlier
   one, and no more than PoolSize - 1 threads are.  Nothing read is lost. *)
Behind(w) == \E x \in Range(handled[w.conn]), y \in Range(w.data) : y < x
Held(c)   == UNION {Range(w.data) : w \in {v \in running \cup Range(swork) : v.conn = c}}

OvertakenOnlyInPool ==
  /\ \A w \in Range(swork) : ~Behind(w)
  /\ \A c \in Conn : Cardinality({w \in running : w.conn = c /\ Behind(w)}) < PoolSize
  /\ \A c \in Conn : Range(read[c]) = Range(handled[c]) \cup Held(c)

(* From sendData to onRecv: both of these. *)
InOrder == SentInOrder /\ OvertakenOnlyInPool

(* onConnectionChanged(true) never comes a second time without a call with
   FALSE between, through any number of failed and lost connections, but for
   one that a stop ended: that is never reported, and a later start connects
   again. *)
ConnectedOnceEach == ups <= cstarts

(* When stopClient or stopServer has returned, nothing will call the object
   again, which its destructor destroys next: no timer, no callback of a
   handle, no onRecv that waits or runs in the pool. *)
QuietAfterStop ==
  /\ ~misuse /\ cowner = "stopped" => timers = 0 /\ ~Active
  /\ ~smisuse /\ sowner = "stopped" => swork = << >> /\ running = {}

(* What the callbacks of an object may do, over its whole life: both of these. *)
CallbacksInOrder == ConnectedOnceEach /\ QuietAfterStop

(* A lost or refused connection is tried again, unless the client is being
   stopped, a connect() fails at once, or the bound on attempts is reached. *)
Retries ==
  handle = "closed" /\ cowner = "started" ~>
    handle = "connecting" \/ cowner # "started" \/ gaveUp \/ walked \/ ~Sound
    \/ attempts = MaxConnections

(* stopClient returns, whatever the connection was doing; stopServer returns,
   whatever its clients were doing; except after a misuse of the handles. *)
StopsReturn ==
  /\ cowner = "joining" ~> (cowner = "stopped" \/ ~Sound)
  /\ sowner = "joining" ~> (sowner = "stopped" \/ ~Sound)
=============================================================================
