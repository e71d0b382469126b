------------------------------ MODULE MCFileShare ------------------------------
(* FileShare over a directory with two entries. *)
EXTENDS FileShare

MCPaths == {<<"d">>, <<"d", "e">>, <<"d", "f">>}
=============================================================================
