---------------------------- MODULE StagedArchive ----------------------------
(***************************************************************************)
(* What ArchiveZip promises: an archive is a map from names to contents.   *)
(* An object that opens it works on a copy; what it adds is a reference to *)
(* a source, whose content counts when the object is closed.  Closing      *)
(* replaces the whole archive or, if a source cannot be read then or       *)
(* nothing was changed, leaves it alone.  Of two objects that made changes *)
(* the last one to close wins.                                             *)
(***************************************************************************)
CONSTANTS Zips,     \* the objects
          Names,    \* names of entries
          Sources,  \* files and buffers that entries are added from
          NameOf,   \* the name that addDirectory gives a source
          Groups,   \* sets of names that removeDirectoy can mean
          Missing   \* the content of a source that cannot be read

VARIABLES saved,    \* the archive, a function of its names
          staged,   \* each object: open or not, and its copy
          files     \* the sources

Nothing == [n \in {} |-> Missing]
Closed  == [open |-> FALSE, map |-> Nothing]

(* An entry that was there at the open, with its content; one added since. *)
Kept(c) == <<"kept", c>>
From(f) == <<"from", f>>

Content(e)    == IF e[1] = "kept" THEN e[2] ELSE files[e[2]]
Readable(m)   == \A n \in DOMAIN m : Content(m[n]) # Missing
Without(m, S) == [n \in DOMAIN m \ S |-> m[n]]
With(m, fs)   == LET new == {NameOf[f] : f \in fs}
                 IN [n \in DOMAIN m \cup new |->
                       IF n \in new THEN From(CHOOSE f \in fs : NameOf[f] = n) ELSE m[n]]

Init == DOMAIN saved \subseteq Names /\ staged = [z \in Zips |-> Closed]

Open(z) ==
  /\ staged' = [staged EXCEPT ![z] = [open |-> TRUE, map |-> [n \in DOMAIN saved |-> Kept(saved[n])]]]
  /\ UNCHANGED saved

Stage(z, m) == staged[z].open /\ staged' = [staged EXCEPT ![z].map = m] /\ UNCHANGED saved

Put(z, n, f) == Stage(z, [x \in DOMAIN staged[z].map \cup {n} |->
                            IF x = n THEN From(f) ELSE staged[z].map[x]])
PutAll(z)    == Stage(z, With(staged[z].map, {f \in Sources : files[f] # Missing}))

(* One entry, or some of a group, or all. *)
Drop(z, S) == Stage(z, Without(staged[z].map, S))
Droppable  == {{n} : n \in Names} \cup {Names} \cup (UNION {SUBSET G : G \in Groups})

Save(z) ==
  /\ staged[z].open
  /\ staged' = [staged EXCEPT ![z] = Closed]
  /\ IF Readable(staged[z].map)
     THEN saved' = [n \in DOMAIN staged[z].map |-> Content(staged[z].map[n])]
     ELSE UNCHANGED saved

Discard(z) == staged[z].open /\ staged' = [staged EXCEPT ![z] = Closed] /\ UNCHANGED saved

Next ==
  \E z \in Zips :
    \/ Open(z) \/ PutAll(z) \/ Save(z) \/ Discard(z)
    \/ \E S \in Droppable : Drop(z, S)
    \/ \E n \in Names, f \in Sources : Put(z, n, f)

(* What happens to the sources alone touches neither archive nor copies. *)
Spec == Init /\ [][Next]_<<saved, staged>>
=============================================================================
