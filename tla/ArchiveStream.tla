---------------------------- MODULE ArchiveStream ----------------------------
(***************************************************************************)
(* ArchiveWriter and ArchiveReader (comex_archive.cpp:709-1243) over       *)
(* libarchive: one object writes an archive from beginning to end, and     *)
(* every call of the other reads it again from the beginning.              *)
(*                                                                         *)
(* addFile asks for the size of a file, writes it into the header and then *)
(* reads the file block by block, while the application changes it.  The   *)
(* archive may be cut: the writing process dies, or the file is damaged.   *)
(* libarchive is external: it takes no more data than the header announces *)
(* and fills up a tar entry that is too short.                             *)
(***************************************************************************)
EXTENDS Integers, SequencesExt

CONSTANTS Files,    \* files that are added
          Paths,    \* paths that are asked for
          PathsOf,  \* the paths that addFile is given with each file
          PathOf,   \* the path that addDirectory gives a file
          Stripped, \* the path without "./" in front
          MaxSize, MaxVersions, MaxStored \* bounds

ASSUME StreamAssumption ==
  /\ PathOf \in [Files -> Paths] /\ PathsOf \in [Files -> SUBSET Paths] /\ Stripped \in [Paths -> Paths]
  /\ MaxSize \in Nat /\ MaxVersions \in Nat \ {0} /\ MaxStored \in Nat

VARIABLES
  format,  \* "tar" (with any filter) or "zip"
  src,     \* the files: there or not, version, blocks
  writer,  \* ctx: "none", "ready" or "broken"
  arch,    \* the archive: its entries, and whether it ends as it should
  add,     \* the addFile in progress: where it is, and what it has written
  todo,    \* the files addDirectory has yet to add
  stored   \* history: the entries that were written, with what addFile returned

streamVars == <<format, src, writer, arch, add, todo, stored>>

BlocksOf(f) == [i \in 1..src[f].blocks |-> <<f, src[f].version, i>>]
Filler      == <<"nul">>
Idle        == [pc |-> "idle"]

(* The constructor: the suffix may not be known and the file not be opened; ctx
   is set all the same. *)
StreamInit ==
  /\ format \in {"tar", "zip"}
  /\ src \in [Files -> {[there |-> TRUE, version |-> 1, blocks |-> n] : n \in 0..MaxSize}]
  /\ writer \in {"ready", "broken"}
  /\ arch = [entries |-> << >>, whole |-> FALSE]
  /\ add = Idle /\ todo = {} /\ stored = << >>

(* The application writes a file anew, in place, or removes it; who has it open
   reads on.  After the writer is closed this makes no difference. *)
Newer(v) == \A f \in Files : src[f].version < v

FileChanges(f) ==
  /\ writer # "none"
  /\ \E v \in 1..MaxVersions : Newer(v) /\
       \/ \E n \in 0..MaxSize : src' = [src EXCEPT ![f] = [there |-> TRUE, version |-> v, blocks |-> n]]
       \/ src[f].there /\ src' = [src EXCEPT ![f] = [there |-> FALSE, version |-> v, blocks |-> @.blocks]]
  /\ add' = IF add.pc # "idle" /\ add.file = f THEN [add EXCEPT !.calm = FALSE] ELSE add
  /\ UNCHANGED <<format, writer, arch, todo, stored>>

-----------------------------------------------------------------------------
(* The writer. *)

Quiet == add.pc = "idle" /\ todo = {}

(* addFile up to the size that it asks for; what is not there returns FALSE. *)
Begun(n, f) ==
  IF src[f].there
  THEN [pc |-> "open", name |-> n, file |-> f, size |-> src[f].blocks, data |-> << >>,
        at |-> 0, written |-> 0, calm |-> TRUE]
  ELSE Idle

AddFile(n, f) ==
  /\ Quiet /\ writer # "none" /\ Len(stored) < MaxStored
  /\ add' = Begun(n, f)
  /\ UNCHANGED <<format, src, writer, arch, todo, stored>>

(* addDirectory lists the files once, adds one after the other whatever addFile
   returns, and returns TRUE. *)
AddDirectory ==
  /\ Quiet /\ writer # "none"
  /\ todo' = {f \in Files : src[f].there}
  /\ Len(stored) + Cardinality(todo') <= MaxStored
  /\ UNCHANGED <<format, src, writer, arch, add, stored>>

AddNext(f) ==
  /\ add.pc = "idle" /\ f \in todo
  /\ todo' = todo \ {f}
  /\ add' = Begun(PathOf[f], f)
  /\ UNCHANGED <<format, src, writer, arch, stored>>

(* What the library keeps of the entry: a tar entry is filled up. *)
Filled ==
  IF format = "tar" /\ writer = "ready"
  THEN add.data \o [i \in 1..(add.size - Len(add.data)) |-> Filler] ELSE add.data

Enters(told, calm) ==
  LET size == IF format = "tar" THEN add.size ELSE Len(Filled)
  IN  /\ arch' = [arch EXCEPT !.entries = Append(@, [name |-> add.name, size |-> size, data |-> Filled])]
      /\ stored' = Append(stored, [name |-> add.name, file |-> add.file, size |-> add.size,
                                   data |-> Filled, told |-> told, calm |-> calm])

(* It opens the file and writes the header.  The library may refuse it, break, or
   take it with a warning; addFile takes all that for a failure, and the entry of
   the last stays without data. *)
AddOpen ==
  /\ add.pc = "open"
  /\ \/ /\ src[add.file].there /\ writer = "ready"
        /\ add' = [add EXCEPT !.pc = "copy"]
        /\ UNCHANGED <<writer, arch, stored>>
     \/ /\ ~src[add.file].there
        /\ add' = Idle /\ UNCHANGED <<writer, arch, stored>>
     \/ /\ src[add.file].there
        /\ writer' \in {writer, "broken"} /\ add' = Idle
        /\ UNCHANGED <<arch, stored>>
     \/ /\ src[add.file].there /\ writer = "ready"
        /\ Enters(FALSE, FALSE)
        /\ add' = Idle /\ UNCHANGED writer
  /\ UNCHANGED <<format, src, todo>>

(* A block is read and written; the library takes what fits into the entry, and
   returns less than 0 when it cannot write. *)
AddCopy ==
  /\ add.pc = "copy" /\ add.at < src[add.file].blocks
  /\ \/ /\ writer = "ready" /\ UNCHANGED writer
        /\ add' = IF Len(add.data) < add.size
                  THEN [add EXCEPT !.at = @ + 1, !.written = @ + 1,
                                   !.data = Append(@, BlocksOf(add.file)[add.at + 1])]
                  ELSE [add EXCEPT !.at = @ + 1]
     \/ /\ writer' = "broken"
        /\ add' = [add EXCEPT !.at = @ + 1, !.written = @ - 1, !.calm = FALSE]
  /\ UNCHANGED <<format, src, arch, todo, stored>>

(* Mutated form: what was read counts, not what was written. *)
TellsRead == add.at = add.size

Tells == add.written = add.size

AddFinish ==
  /\ add.pc = "copy" /\ add.at >= src[add.file].blocks
  /\ Enters(Tells, add.calm)
  /\ add' = Idle
  /\ UNCHANGED <<format, src, writer, todo>>

(* close, also by the destructor. *)
CloseWriter ==
  /\ Quiet /\ writer # "none"
  /\ writer' = "none"
  /\ arch' = [arch EXCEPT !.whole = (writer = "ready")]
  /\ UNCHANGED <<format, src, add, todo, stored>>

(* The archive is cut within its k-th entry, also the one that is being written;
   a zip archive has lost its directory then, and the sizes may not be known. *)
Unfinished ==
  IF add.pc = "copy"
  THEN <<[name |-> add.name, file |-> add.file, size |-> add.size, data |-> add.data,
          told |-> FALSE, calm |-> FALSE]>>
  ELSE << >>

CutEntry(e, m, known) ==
  [name |-> e.name, size |-> IF known THEN e.size ELSE 0,
   data |-> SubSeq(e.data, 1, IF m < Len(e.data) THEN m ELSE Len(e.data))]

Cut(k, m, known) ==
  /\ writer # "none" \/ arch.whole
  /\ known \/ format = "zip"
  /\ stored' = stored \o Unfinished
  /\ k <= Len(stored')
  /\ arch' = [whole |-> FALSE,
              entries |-> [i \in 1..k |-> CutEntry(stored'[i], IF i = k THEN m ELSE MaxSize, known)]]
  /\ writer' = "none" /\ add' = Idle /\ todo' = {}
  /\ UNCHANGED <<format, src>>

-----------------------------------------------------------------------------
(* The reader: what a call gives, or leaves in the file that it writes, where
   "opens" are the entries whose file can be opened and "lost" the blocks that
   the disk does not take.  What follows the last entry that can be read looks
   like the end of the archive. *)

Named(n) == {i \in DOMAIN arch.entries : arch.entries[i].name = Stripped[n]}

(* Mutated form: the first entry of the path is taken even if it is empty. *)
WithDataFirst(n) == {i \in Named(n) : i = Min(Named(n)) /\ arch.entries[i].size > 0}

WithData(n) == {i \in Named(n) : arch.entries[i].size > 0}

IsFileExist(n) == Named(n) # {}
GetFileSize(n) == IF Named(n) = {} THEN 0 ELSE arch.entries[Min(Named(n))].size

Read(n) == IF WithData(n) = {} THEN << >> ELSE arch.entries[Min(WithData(n))].data

(* Which blocks of an entry, by their place in it, stand in the file that it is
   written to: com_file_write may lose some on a full disk, what it returns is
   ignored, and those behind follow without a gap. *)
Standing(data, lost) == [b \in DOMAIN data \ lost |-> data[b]]

(* readTo returns TRUE with the first entry for which the target could be opened,
   and goes on to the next entry of the path where it could not. *)
ReadTo(n, opens)         == WithData(n) \cap opens # {}
ReadFile(n, opens, lost) == Standing(arch.entries[Min(WithData(n) \cap opens)].data, lost)

(* extractTo: entries of one path overwrite each other on the disk; one whose
   file cannot be opened is passed over. *)
OnPath(n)                 == {i \in DOMAIN arch.entries : Stripped[arch.entries[i].name] = n /\ arch.entries[i].size > 0}
ExtractTo(n, opens)       == OnPath(n) \cap opens # {}
ExtractFile(n, opens, lost) == Standing(arch.entries[Max(OnPath(n) \cap opens)].data, lost)

-----------------------------------------------------------------------------
StreamNext ==
  \/ \E f \in Files : FileChanges(f) \/ AddNext(f) \/ \E n \in PathsOf[f] : AddFile(n, f)
  \/ AddDirectory \/ AddOpen \/ AddCopy \/ AddFinish \/ CloseWriter
  \/ \E k \in 0..MaxStored, m \in 0..MaxSize, known \in BOOLEAN : Cut(k, m, known)

StreamSpec == StreamInit /\ [][StreamNext]_streamVars

-----------------------------------------------------------------------------
(* The variables have their types; no entry holds more than its header says. *)
Series == Seq({Filler} \cup (Files \X (1..MaxVersions) \X (1..MaxSize)))

StreamTypeOK ==
  /\ format \in {"tar", "zip"} /\ writer \in {"none", "ready", "broken"}
  /\ src \in [Files -> [there : BOOLEAN, version : 1..MaxVersions, blocks : 0..MaxSize]]
  /\ todo \subseteq Files
  /\ add.pc # "idle" => add.data \in Series /\ Len(add.data) <= add.size /\ add.written <= add.at
  /\ \A i \in DOMAIN stored : stored[i].data \in Series /\ Len(stored[i].data) <= stored[i].size
  /\ Len(arch.entries) <= Len(stored) /\ (arch.whole => Len(arch.entries) = Len(stored))

(* The variables have their types, no entry holds more than its header says, and
   addFile returns TRUE only if the entry has as many blocks as the file had when
   it was asked, each at its place and none made up; and it does so, with the
   blocks of that moment, when nothing failed and nobody wrote the file meanwhile
   (comex_archive.cpp:1154-1199). *)
Told(s) ==
  /\ s.told => /\ Len(s.data) = s.size
               /\ \A b \in DOMAIN s.data : s.data[b] # Filler /\ s.data[b][1] = s.file /\ s.data[b][3] = b
  /\ s.calm => s.told /\ \A b, c \in DOMAIN s.data : s.data[b][2] = s.data[c][2]

AddsWhatItTells == StreamTypeOK /\ \A i \in DOMAIN stored : Told(stored[i])

(* What read gives is what was written: all of the first entry of the path that
   has data, and of an archive that was cut nothing or a beginning of it.  And
   if readTo returns TRUE, or extractTo opened a file of that path, the file
   holds blocks of one entry of the path, each as it was written: of a whole
   archive of the first entry, or when extracting the last, that has data and
   for which the file could be opened, and all of it only if the disk took all,
   for both ignore what com_file_write tells (comex_archive.cpp:793-1037). *)
Stored(n) == {i \in DOMAIN stored : stored[i].name = Stripped[n]}
OnDisk(n) == {i \in DOMAIN stored : Stripped[stored[i].name] = n}
Full(S)   == {i \in S : stored[i].data # << >>}

Gives(value, S) ==
  \/ value = << >> /\ (arch.whole => S = {})
  \/ \E i \in S : IsPrefix(value, stored[i].data) /\ (arch.whole => value = stored[i].data)

Holds(value, lost, S) ==
  \E i \in S : /\ \A b \in DOMAIN value : b \in DOMAIN stored[i].data /\ value[b] = stored[i].data[b]
               /\ arch.whole /\ lost = {} => value = stored[i].data

First(S) == {i \in S : i = Min(S)}
Final(S) == {i \in S : i = Max(S)}

ReadsWhatWasWritten ==
  writer = "none" => \A n \in Paths :
    /\ Gives(Read(n), First(Full(Stored(n))))
    /\ IsFileExist(n) => Stored(n) # {}
    /\ arch.whole =>
         /\ IsFileExist(n) <=> Stored(n) # {}
         /\ IF Stored(n) = {} THEN GetFileSize(n) = 0
                              ELSE GetFileSize(n) = Len(stored[Min(Stored(n))].data)
    /\ \A opens \in SUBSET DOMAIN stored, lost \in SUBSET (1..MaxSize) :
         /\ ReadTo(n, opens) =>
              Holds(ReadFile(n, opens, lost), lost,
                     IF arch.whole THEN First(Full(Stored(n)) \cap opens) ELSE Stored(n) \cap opens)
         /\ ExtractTo(n, opens) =>
              Holds(ExtractFile(n, opens, lost), lost,
                     IF arch.whole THEN Final(Full(OnDisk(n)) \cap opens) ELSE OnDisk(n) \cap opens)
         /\ arch.whole => /\ ReadTo(n, opens) <=> Full(Stored(n)) \cap opens # {}
                          /\ ExtractTo(n, opens) <=> Full(OnDisk(n)) \cap opens # {}
=============================================================================
