------------------------- MODULE MCSessionManager -------------------------
(* SessionManager on a small machine.  The sessions are alike: of two that
   open while the manager runs, or before it starts, s1 is the first. *)
EXTENDS SessionManager

CONSTANTS s1, s2

MCInit == Init /\ (s1 \in unborn => s2 \in unborn)
MCNext == Next /\ (s1 \in unborn' => s2 \in unborn')

MCSpec == MCInit /\ [][MCNext]_vars /\ Fairness
=============================================================================
