----------------------------- MODULE MCLiteIpc -----------------------------
(* LiteIpc with every node in a process of its own. *)
EXTENDS LiteIpc, TLC

CONSTANTS a, b

MCProcess(n) == n

(* Controls at the default QoS 2, replies of a node that chose QoS 1. *)
MCQos(kind) == IF kind = "CONTROL" THEN 2 ELSE 1

(* Two threads of node a call. *)
MCClient == {"app", "app2"} \X {a}
(* Node a calls itself, and its handlers do too: the rx thread then waits for
   an ACK that only the rx thread can send. *)
MCSelf   == {"app", "rx"} \X {a}
=============================================================================
