--------------------------- MODULE MCMqttClient ---------------------------
(* MqttClient with two callers and two topics, one of which covers the other. *)
EXTENDS MqttClient

CONSTANTS t1, t2, c1, c2

MCTopicsOf == [c \in Callers |-> IF c = c1 THEN {t1, t2} ELSE {t1}]

MCMatches(s, t) == s = t \/ s = t2
=============================================================================
