---------------------------- MODULE ArchiveFiles ----------------------------
(***************************************************************************)
(* The directory that the archive classes of comex_archive.cpp read from   *)
(* and extract to, and the rest of the application, which changes it.  A   *)
(* content is a number; 0 is a file that is not there, 1 an empty one.     *)
(***************************************************************************)
EXTENDS Integers, SequencesExt

CONSTANTS Sources, MaxContent

ASSUME FilesAssumption == MaxContent \in Nat /\ MaxContent > 1 /\ IsFiniteSet(Sources)

VARIABLE files

Missing  == 0
Empty    == 1
Contents == 0..MaxContent

FilesTypeOK == files \in [Sources -> Contents]

FilesInit == files \in [Sources -> {Missing, MaxContent}]

(* com_dir_list, which the classes walk in the order of the names. *)
Listed == {f \in Sources : files[f] # Missing}

(* The application writes a source or removes it. *)
SourceChanges(f, c) == c # files[f] /\ c # Empty /\ files' = [files EXCEPT ![f] = c]
=============================================================================
