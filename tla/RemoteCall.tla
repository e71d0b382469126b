---------------------------- MODULE RemoteCall ----------------------------
(***************************************************************************)
(* What sendControl promises its callers, whatever the network does: the   *)
(* other side runs a request at most once and only if somebody made it;    *)
(* the caller either gets the reply to its own request, made by a run of   *)
(* it, or nothing.  LiteIpc implements it when controls go at QoS 0 or 2   *)
(* and no two requests alive in a process have the same magic.             *)
(***************************************************************************)
CONSTANTS Callers, Requests, None

VARIABLES asked,     \* requests made
          executed,  \* requests run
          open,      \* the request a caller waits for, or None
          result     \* the reply its last call returned, or None

vars == <<asked, executed, open, result>>

Init ==
  /\ asked = {} /\ executed = {}
  /\ open = [c \in Callers |-> None]
  /\ result = [c \in Callers |-> None]

Ask(c, i) ==
  /\ open[c] = None
  /\ i \in Requests \ asked
  /\ asked' = asked \cup {i}
  /\ open' = [open EXCEPT ![c] = i]
  /\ result' = [result EXCEPT ![c] = None]
  /\ UNCHANGED executed

(* A status or an event takes a number and expects no reply. *)
Tell(i) ==
  /\ i \in Requests \ asked
  /\ asked' = asked \cup {i}
  /\ UNCHANGED <<executed, open, result>>

Execute(i) ==
  /\ i \in asked \ executed
  /\ executed' = executed \cup {i}
  /\ UNCHANGED <<asked, open, result>>

Return(c) ==
  /\ open[c] \in executed
  /\ result' = [result EXCEPT ![c] = open[c]]
  /\ open' = [open EXCEPT ![c] = None]
  /\ UNCHANGED <<asked, executed>>

GiveUp(c) ==
  /\ open[c] # None
  /\ open' = [open EXCEPT ![c] = None]
  /\ UNCHANGED <<asked, executed, result>>

Next ==
  \/ \E c \in Callers : (\E i \in Requests : Ask(c, i)) \/ Return(c) \/ GiveUp(c)
  \/ \E i \in Requests : Tell(i) \/ Execute(i)

Spec == Init /\ [][Next]_vars
=============================================================================
