------------------------------ MODULE MCPacking ------------------------------
(* Bytes that are packed, may be cut or damaged, and are unpacked: an
   application uses an archive or the two functions for zlib.  A path is asked
   for with and without "./" in front, and texts end around one and two lengths
   of the buffer. *)
EXTENDS ArchiveStream, Inflate, TLC

CONSTANTS f1, f2

MCPathsOf  == f1 :> {"x", "./x"} @@ f2 :> {"x", "y"}
MCPathOf   == f1 :> "x" @@ f2 :> "y"
MCStripped == [n \in Paths |-> IF n = "./x" THEN "x" ELSE n]
MCTexts    == {[i \in 1..n |-> i] : n \in 0..5}

VARIABLE use \* which of the two this run is about

MCInit ==
  /\ StreamInit /\ InflateInit
  /\ \/ use = "archive"
     \/ use = "zlib" /\ format = "tar" /\ writer = "ready" /\ \A f \in Files : src[f].blocks = 0

MCNext ==
  /\ UNCHANGED use
  /\ \/ use = "archive" /\ StreamNext /\ UNCHANGED inflateVars
     \/ use = "zlib" /\ InflateNext /\ UNCHANGED streamVars

MCSpec == MCInit /\ [][MCNext]_<<use, streamVars, inflateVars>> /\ Fairness
=============================================================================
