----------------------------- MODULE StreamNet -----------------------------
(***************************************************************************)
(* What lies between the clients and the servers of comex_socket.cpp: the  *)
(* connections of the kernel, external to the library.  A connection has   *)
(* a client end, a server end and two FIFO channels.  A chunk is a piece   *)
(* of data that is never split; a read takes any number of chunks at once. *)
(***************************************************************************)
EXTENDS Integers, Sequences, FiniteSets

CONSTANTS MaxConnections,  \* bound: attempts to connect
          MaxSends,        \* bound: sendData calls of the client
          MaxReplies       \* bound: sendData calls of the server

ASSUME StreamNetAssumption ==
  MaxConnections \in Nat /\ MaxSends \in Nat /\ MaxReplies \in Nat

VARIABLES
  kind,       \* ComexTcpClient / ComexTcpServer, or the classes for a local pipe
  listening,  \* the server's handle: "none", "listening", "closing", "closed"
  net         \* the connections

Conn   == 1..MaxConnections
Chunk  == 1..MaxSends
Reply  == 1..MaxReplies

NoConnection == [client |-> "none", server |-> "none", broken |-> FALSE,
                 up |-> << >>, down |-> << >>]

Connection ==
  [client : {"none", "connecting", "open", "closed"}, server : {"none", "open", "closed"},
   broken : BOOLEAN, up : Seq(Chunk), down : Seq(Reply)]

NetInit ==
  /\ kind \in {"tcp", "pipe"}
  /\ listening = "none"
  /\ net = [c \in Conn |-> NoConnection]

NetTypeOK ==
  /\ kind \in {"tcp", "pipe"}
  /\ listening \in {"none", "listening", "closing", "closed"}
  /\ net \in [Conn -> Connection]

ClientEnd(c, s) == [net EXCEPT ![c].client = s]
ServerEnd(c, s) == [net EXCEPT ![c].server = s]
Refused(c)      == [net EXCEPT ![c].client = "closed", ![c].broken = TRUE]

(* The backlog dies with the listening socket. *)
WithoutBacklog ==
  [c \in Conn |-> IF net[c].client \in {"open", "closed"} /\ net[c].server = "none"
                  THEN [net[c] EXCEPT !.broken = TRUE, !.up = << >>] ELSE net[c]]

(* What was written goes out, unless nobody can receive it. *)
Upward(c, data) ==
  [net EXCEPT ![c].up = IF net[c].broken \/ net[c].server = "closed" THEN @ ELSE @ \o data]
Downward(c, data) ==
  [net EXCEPT ![c].down = IF net[c].broken \/ net[c].client = "closed" THEN @ ELSE @ \o data]

(* An end sees the other one gone: an error, or the end of the data. *)
ClientSeesEnd(c) == net[c].broken \/ (net[c].server = "closed" /\ net[c].down = << >>)
ServerSeesEnd(c) == net[c].broken \/ (net[c].client = "closed" /\ net[c].up = << >>)

(* A TCP connection is reset; what is under way is lost. *)
NetBreaks(c) ==
  /\ kind = "tcp"
  /\ net[c].client \in {"open", "closed"} /\ net[c].server # "closed"
  /\ ~net[c].broken
  /\ net' = [net EXCEPT ![c] = [client |-> @.client, server |-> @.server, broken |-> TRUE,
                                 up |-> << >>, down |-> << >>]]
  /\ UNCHANGED <<kind, listening>>
=============================================================================
