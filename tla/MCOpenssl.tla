------------------------------ MODULE MCOpenssl ------------------------------
(* A digest object, and an AES object with keys of a good and of a bad size. *)
EXTENDS Openssl

CONSTANTS fileA, fileB \* the files

MCFileSymmetry == Permutations({fileA, fileB})
MCKeys == {[id |-> 1, size |-> 16], [id |-> 2, size |-> 16], [id |-> 3, size |-> 8]}
MCFirstTexts == {<< >>, <<"x", "y">>}
=============================================================================
