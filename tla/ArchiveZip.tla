------------------------------ MODULE ArchiveZip ------------------------------
(***************************************************************************)
(* ArchiveZip (comex_archive.cpp:58-418) over libzip: objects that open    *)
(* the same archive file, change it and close it.                          *)
(*                                                                         *)
(* libzip keeps a list of entries.  A deleted entry keeps its place until  *)
(* the archive is closed; an added one refers to its source, which is read *)
(* at the close; an entry of the name of another one takes its place.      *)
(***************************************************************************)
EXTENDS ArchiveFiles

CONSTANTS Zips, Names, NameOf, Groups,
          MaxEntries \* bound on the entries of an open archive

ASSUME ZipAssumption ==
  /\ NameOf \in [Sources -> Names] /\ \A f, g \in Sources : NameOf[f] = NameOf[g] => f = g
  /\ Groups \subseteq SUBSET Names /\ MaxEntries \in Nat

VARIABLES zdisk, \* the archive file: its entries in order; libzip removes an empty one
          zctx   \* each object: ctx is set, and the entries behind it

zipVars == <<zdisk, zctx>>

NoZip    == [open |-> FALSE, ents |-> << >>]
Kept(c)  == <<"kept", c>>
From(f)  == <<"from", f>>
Entry(n, s) == [name |-> n, source |-> s, live |-> TRUE]

Live(es, n) == {i \in DOMAIN es : es[i].live /\ es[i].name = n}
Content(s)  == IF s[1] = "kept" THEN s[2] ELSE files[s[2]]

ZipInit == zctx = [z \in Zips |-> NoZip]

(* open looks neither at append nor at a context that is there already. *)
ZipOpen(z, create) ==
  /\ zdisk # << >> \/ create
  /\ zctx' = [zctx EXCEPT ![z] =
                [open |-> TRUE, ents |-> [i \in DOMAIN zdisk |-> Entry(zdisk[i].name, Kept(zdisk[i].content))]]]
  /\ UNCHANGED <<zdisk, files>>

Change(z, es) ==
  /\ zctx[z].open /\ Len(es) <= MaxEntries
  /\ zctx' = [zctx EXCEPT ![z].ents = es]
  /\ UNCHANGED <<zdisk, files>>

(* Mutated form: without ZIP_FL_OVERWRITE, which replaces a live entry. *)
AddedTwice(es, n, f) == Append(es, Entry(n, From(f)))
(* zip_file_add with ZIP_FL_OVERWRITE. *)
Added(es, n, f) ==
  IF Live(es, n) = {} THEN Append(es, Entry(n, From(f)))
  ELSE [i \in DOMAIN es |-> IF i \in Live(es, n) THEN Entry(n, From(f)) ELSE es[i]]

(* addFile, addToFile *)
ZipAdd(z, n, f) == Change(z, Added(zctx[z].ents, n, f))

(* addDirectory: what is there under the name of a file is replaced, the other
   files come behind. *)
Adding(es, fs) ==
  LET new == {f \in fs : Live(es, NameOf[f]) = {}}
      old == [i \in DOMAIN es |->
                IF \E f \in fs : i \in Live(es, NameOf[f])
                THEN Entry(es[i].name, From(CHOOSE f \in fs : NameOf[f] = es[i].name)) ELSE es[i]]
  IN  old \o [k \in 1..Cardinality(new) |-> Entry(NameOf[SetToSeq(new)[k]], From(SetToSeq(new)[k]))]

ZipAddDirectory(z) == Change(z, Adding(zctx[z].ents, Listed))

Dead(es, S) == [i \in DOMAIN es |-> [es[i] EXCEPT !.live = @ /\ i \notin S]]

(* removeFile takes index 0 for a failure: the first entry stays. *)
ZipRemoveFile(z, n) ==
  \E i \in Live(zctx[z].ents, n) : i > 1 /\ Change(z, Dead(zctx[z].ents, {i}))

Matching(es, G) == {i \in DOMAIN es : es[i].name \in G}

(* removeDirectoy stops at the first entry that is deleted already. *)
Walked(es) == {i \in DOMAIN es : \A j \in 1..i : es[j].live}
ZipRemoveDirectory(z, G) ==
  Change(z, Dead(zctx[z].ents, Walked(zctx[z].ents) \cap Matching(zctx[z].ents, G)))

ZipClear(z) == Change(z, Dead(zctx[z].ents, DOMAIN zctx[z].ents))

(* The entries that are alive, in their order. *)
Place(es, i) == Cardinality({j \in 1..i : es[j].live})
Surviving(es) ==
  LET live == {i \in DOMAIN es : es[i].live}
  IN  [k \in 1..Cardinality(live) |-> es[CHOOSE i \in live : Place(es, i) = k]]

(* Mutated form: a source that is missing is skipped over. *)
CompleteAlways(es) == TRUE
Complete(es) == \A i \in DOMAIN es : Content(es[i].source) # Missing

Changed(es) == \E i \in DOMAIN es : ~es[i].live \/ es[i].source[1] = "from"

(* zip_close leaves the file alone if the object changed nothing.  Otherwise it
   reads the sources; if one is missing it fails, nobody looks at its result,
   and the file stays as it was. *)
ZipClose(z, save) ==
  LET es == Surviving(zctx[z].ents) IN
  /\ zctx[z].open
  /\ zctx' = [zctx EXCEPT ![z] = NoZip]
  /\ zdisk' = IF save /\ Changed(zctx[z].ents) /\ Complete(es)
              THEN [i \in DOMAIN es |-> [name |-> es[i].name, content |-> Content(es[i].source)]]
              ELSE zdisk
  /\ UNCHANGED files

(* readTo empties its target before it opens the entry, which libzip refuses
   for an entry that is not there or was added since the open. *)
Extracted(es, n) ==
  IF \E i \in Live(es, n) : es[i].source[1] = "kept"
  THEN es[CHOOSE i \in Live(es, n) : TRUE].source[2] ELSE Empty

ZipReadTo(z, n, f) ==
  /\ zctx[z].open
  /\ files' = [files EXCEPT ![f] = Extracted(zctx[z].ents, n)]
  /\ UNCHANGED zipVars

(* extractTo: readTo for each entry. *)
ZipExtractTo(z) ==
  /\ zctx[z].open
  /\ files' = [f \in Sources |-> IF Live(zctx[z].ents, NameOf[f]) # {}
                                 THEN Extracted(zctx[z].ents, NameOf[f]) ELSE files[f]]
  /\ UNCHANGED zipVars

ZipStep ==
  \E z \in Zips :
    \/ \E b \in BOOLEAN : ZipOpen(z, b) \/ ZipClose(z, b)
    \/ \E n \in Names, f \in Sources : ZipAdd(z, n, f) \/ ZipReadTo(z, n, f)
    \/ \E n \in Names : ZipRemoveFile(z, n)
    \/ \E G \in Groups : ZipRemoveDirectory(z, G)
    \/ ZipAddDirectory(z) \/ ZipClear(z) \/ ZipExtractTo(z)

-----------------------------------------------------------------------------
Saved == [name : Names, content : Contents \ {Missing}]
Staged == [name : Names, source : ({"kept"} \X Contents) \cup ({"from"} \X Sources), live : BOOLEAN]

ZipTypeOK ==
  /\ zdisk \in Seq(Saved)
  /\ zctx \in [Zips -> [open : BOOLEAN, ents : Seq(Staged)]]

(* The archive and the copies as maps. *)
SavedMap == [n \in {zdisk[i].name : i \in DOMAIN zdisk} |->
               zdisk[CHOOSE i \in DOMAIN zdisk : zdisk[i].name = n].content]
CopyMap(es) == [n \in {es[i].name : i \in {j \in DOMAIN es : es[j].live}} |->
                  es[CHOOSE i \in Live(es, n) : TRUE].source]

Abstract == INSTANCE StagedArchive WITH
              saved <- SavedMap,
              staged <- [z \in Zips |-> [open |-> zctx[z].open, map |-> CopyMap(zctx[z].ents)]]
=============================================================================
