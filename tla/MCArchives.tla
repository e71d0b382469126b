------------------------------ MODULE MCArchives ------------------------------
(* Archives over two sources, two zip objects, a plain and a compressed tar. *)
EXTENDS Archives

CONSTANTS f1, f2

MCNameOf == [f \in Sources |-> IF f = f1 THEN "d/1" ELSE "d/2"]
MCSuffix == [p \in TarPaths |-> IF p = "a.tar.gz" THEN "gz" ELSE "none"]
MCStem   == [p \in TarPaths |-> IF p = "a.tar.gz" THEN "a.tar" ELSE p]
=============================================================================
