------------------------------- MODULE Archives -------------------------------
(***************************************************************************)
(* Zip and tar objects of one application over one directory: what one     *)
(* extracts are the sources of the other, also those an open zip archive   *)
(* refers to, and the application changes them in between.                 *)
(***************************************************************************)
EXTENDS ArchiveZip, ArchiveTar

CONSTANT MaxSteps \* bound on the operations of a run

ASSUME ArchivesAssumption == MaxSteps \in Nat

VARIABLE steps

vars == <<files, zipVars, tarVars, steps>>

ZipFiles == {<< >>} \cup {[i \in DOMAIN s |-> [name |-> s[i], content |-> MaxContent]] :
                            s \in {<<n>> : n \in Names} \cup {t \in Names \X Names : t[1] # t[2]}}
TarFiles(p) ==
  {NoFile, [format |-> IF Suffix[p] = "none" THEN "raw" ELSE Suffix[p],
            blocks |-> Append(SetToSeq({[from |-> {f}, content |-> MaxContent] : f \in Sources}), Eof)]}

(* Archives of earlier runs may be there. *)
Init ==
  /\ FilesInit /\ ZipInit /\ TarInit
  /\ zdisk \in ZipFiles
  /\ \E p \in TarPaths : \E t \in TarFiles(p) : tdisk = [[q \in TarPaths |-> NoFile] EXCEPT ![p] = t]
  /\ steps = 0

Next ==
  /\ steps < MaxSteps /\ steps' = steps + 1
  /\ \/ ZipStep /\ UNCHANGED tarVars
     \/ TarStep /\ UNCHANGED zipVars
     \/ (\E f \in Sources, c \in Contents : SourceChanges(f, c)) /\ UNCHANGED <<zipVars, tarVars>>

Spec == Init /\ [][Next]_vars

-----------------------------------------------------------------------------
(* The variables have their types. *)
TypeOK == FilesTypeOK /\ ZipTypeOK /\ TarTypeOK /\ steps \in 0..MaxSteps

(* ArchiveZip is the map it promises to be: entries replaced in place, deleted
   ones that keep their index, the walk of removeDirectoy and the sources read
   late leave a name with one content or none (comex_archive.cpp:58-418). *)
ZipIsMap == Abstract!Spec

(* Closing a tar archive leaves in it what was added since the open, in that
   order and nothing from before, as long as a file was added by name and the
   compression is that of the name.  And an operation touches no archive but
   the plain file behind the archive that is opened or closed, the file that is
   open, and the archive that a writer closes: reading one leaves it as it is,
   unless it is a plain file that is taken for a compressed one
   (comex_archive.cpp:441-656). *)
AddedIsIn ==
  tctx.open /\ ~tctx'.open /\ proper /\ ~tar.reading /\ tar.added /\ tctx.path = tar.stem
    => Readable(tdisk'[tar.file].blocks) = added

OthersKept ==
  \A p \in TarPaths : tdisk'[p] # tdisk[p] =>
    \/ p \in {Stem[f] : f \in {tar.file, tar'.file} \ {""}} \cup {tctx.path}
    \/ p = tar.file /\ ~tar.reading

TarHoldsAdded == [][AddedIsIn /\ OthersKept]_vars
=============================================================================
