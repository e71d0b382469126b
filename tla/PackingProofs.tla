--------------------------- MODULE PackingProofs ---------------------------
(***************************************************************************)
(* What holds of packing and unpacking, of comex_archive.cpp and           *)
(* comex_zlib.cpp:                                                         *)
(*   - addFile of ArchiveWriter tells what it has added and ArchiveReader  *)
(*     gives it back, for every set of files, every length and any number  *)
(*     of changes of them while they are read;                             *)
(*   - comex_zlib_decompress gives what was packed, for every text and     *)
(*     every length of its buffer;                                         *)
(*   - ArchiveZip implements StagedArchive, and ArchiveTar leaves in an    *)
(*     archive what was added, for every number of objects and of names.   *)
(***************************************************************************)
EXTENDS Archives, ArchiveStream, Inflate, FiniteSetTheorems, SequenceTheorems,
         WellFoundedInduction, TLAPS

(* ArchiveWriter *)

File    == [there : BOOLEAN, version : 1..MaxVersions, blocks : 0..MaxSize]
Unit    == {Filler} \cup (Files \X (1..MaxVersions) \X (1..MaxSize))
Copying  == [pc : {"open", "copy"}, name : Paths, file : Files, size : 0..MaxSize,
            data : Series, at : Nat, written : Int, calm : BOOLEAN]
Noting == [name : Paths, file : Files, size : 0..MaxSize, data : Series,
            told : BOOLEAN, calm : BOOLEAN]
Header   == [name : Paths, size : Nat, data : Series]

(* The b-th unit of a series is the b-th block of the file. *)
Placed(data, f) == \A b \in 1..Len(data) : data[b] \in {f} \X (1..MaxVersions) \X {b}

(* While addFile copies, what it has written are blocks at their places, as many
   as were written or, after an error, more; as long as nobody writes the file
   all are of one version, and of the size that was announced. *)
AddInv ==
  add # Idle =>
    /\ add.written <= add.at /\ add.written <= Len(add.data) /\ Len(add.data) <= add.size
    /\ Placed(add.data, add.file)
    /\ add.pc = "open" => add.data = << >> /\ add.at = 0 /\ add.written = 0
    /\ add.pc = "copy" /\ writer = "ready" =>
         /\ add.written = Len(add.data)
         /\ Len(add.data) < add.size => add.at = Len(add.data)
    /\ add.calm => /\ add.size = src[add.file].blocks
                   /\ \A b \in 1..Len(add.data) : add.data[b][2] = src[add.file].version
                   /\ add.pc = "copy" => writer = "ready"

(* What is in the archive and what is noted of it are equally long as long as
   the writer is there. *)
ArchInv ==
  /\ Len(arch.entries) <= Len(stored) /\ (arch.whole => Len(arch.entries) = Len(stored))
  /\ writer # "none" => Len(arch.entries) = Len(stored) /\ ~arch.whole
  /\ writer = "none" => add = Idle /\ todo = {}

Types ==
  /\ format \in {"tar", "zip"} /\ writer \in {"none", "ready", "broken"}
  /\ src \in [Files -> File] /\ todo \subseteq Files
  /\ add \in Copying \cup {Idle}
  /\ stored \in Seq(Noting) /\ arch \in [entries : Seq(Header), whole : BOOLEAN]

StoredInv == \A i \in 1..Len(stored) : Len(stored[i].data) <= stored[i].size /\ Told(stored[i])

WriterInv == Types /\ AddInv /\ ArchInv /\ StoredInv

-----------------------------------------------------------------------------
LEMMA SeriesType ==
  /\ Series = Seq(Unit) /\ << >> \in Series
  /\ \A s \in Series : Len(s) \in Nat /\ DOMAIN s = 1..Len(s)
  BY EmptySeq, LenProperties DEF Series, Unit

LEMMA AddType ==
  ASSUME Types
  PROVE  /\ Idle \notin Copying
         /\ add # Idle <=> add \in Copying
         /\ add # Idle <=> add.pc # "idle"
  BY DEF Types, Copying, Idle

(* A new entry of the archive, and what is noted of it. *)
LEMMA EntersKeeps ==
  ASSUME WriterInv, NEW told \in BOOLEAN, NEW calm \in BOOLEAN, Enters(told, calm),
         add \in Copying, writer # "none",
         Filled \in Series, Len(Filled) <= add.size,
         calm => told,
         told => Len(Filled) = add.size /\ Placed(Filled, add.file),
         calm => \A b, c \in 1..Len(Filled) : Filled[b][2] = Filled[c][2],
         add' = Idle, todo' = todo, writer' \in {"ready", "broken"},
         UNCHANGED <<format, src>>
  PROVE  WriterInv'
<1> DEFINE e == [name |-> add.name, size |-> IF format = "tar" THEN add.size ELSE Len(Filled), data |-> Filled]
           s == [name |-> add.name, file |-> add.file, size |-> add.size,
                 data |-> Filled, told |-> told, calm |-> calm]
<1>1. /\ arch' = [arch EXCEPT !.entries = Append(@, e)] /\ stored' = Append(stored, s)
  BY DEF Enters
<1> HIDE DEF e
<1>2. e \in Header /\ s \in Noting
  BY SeriesType, StreamAssumption DEF e, Header, Noting, Copying
<1>3. stored \in Seq(Noting) /\ arch \in [entries : Seq(Header), whole : BOOLEAN] /\ ArchInv /\ StoredInv
  BY DEF WriterInv, Types
<1>4. /\ stored' \in Seq(Noting) /\ Len(stored') = Len(stored) + 1 /\ Len(stored) \in Nat
      /\ \A i \in 1..Len(stored) : stored'[i] = stored[i]
      /\ stored'[Len(stored) + 1] = s
  BY <1>1, <1>2, <1>3, AppendProperties, LenProperties
<1>5. /\ arch' \in [entries : Seq(Header), whole : BOOLEAN] /\ arch'.whole = arch.whole
      /\ Len(arch'.entries) = Len(arch.entries) + 1
  <2>1. arch.entries \in Seq(Header) /\ arch.whole \in BOOLEAN
    BY <1>3
  <2>2. Append(arch.entries, e) \in Seq(Header) /\ Len(Append(arch.entries, e)) = Len(arch.entries) + 1
    BY <1>2, <2>1, AppendProperties
  <2>3. arch' = [entries |-> Append(arch.entries, e), whole |-> arch.whole]
    BY <1>1, <1>3
  <2> QED
    BY <2>1, <2>2, <2>3
<1>6. Types' /\ AddInv'
  BY <1>4, <1>5 DEF WriterInv, Types, AddInv
<1>7. ArchInv'
  BY <1>3, <1>4, <1>5 DEF ArchInv
<1>8. Told(s)
  <2>1. ASSUME told, NEW b \in 1..Len(Filled)
        PROVE  Filled[b] # Filler /\ Filled[b][1] = add.file /\ Filled[b][3] = b
    <3>1. PICK v \in 1..MaxVersions : Filled[b] = <<add.file, v, b>>
      BY <2>1 DEF Placed
    <3>2. Len(Filled[b]) = 3 /\ Len(Filler) = 1
      BY <3>1 DEF Filler
    <3> QED
      BY <3>1, <3>2
  <2>2. DOMAIN Filled = 1..Len(Filled)
    BY SeriesType
  <2> QED
    BY <2>1, <2>2 DEF Told
<1>9. StoredInv'
  <2> SUFFICES ASSUME NEW i \in 1..Len(stored')
               PROVE  Len(stored'[i].data) <= stored'[i].size /\ Told(stored'[i])
    BY DEF StoredInv
  <2>1. CASE i = Len(stored) + 1
    BY <2>1, <1>4, <1>8
  <2>2. CASE i \in 1..Len(stored)
    BY <2>2, <1>3, <1>4 DEF StoredInv
  <2> QED
    BY <2>1, <2>2, <1>4
<1> QED
  BY <1>6, <1>7, <1>9 DEF WriterInv

(* What the library keeps of the entry that is being written. *)
LEMMA FilledType ==
  ASSUME Types, add \in Copying, Len(add.data) <= add.size
  PROVE  /\ Filled \in Series /\ Len(Filled) <= add.size
         /\ Len(add.data) = add.size => Filled = add.data
<1> DEFINE n == add.size - Len(add.data)
           fill == [i \in 1..n |-> Filler]
<1>1. add.data \in Seq(Unit) /\ n \in Nat /\ Len(add.data) \in Nat /\ add.size \in Nat
  BY SeriesType, StreamAssumption, LenProperties DEF Copying
<1>2. fill \in Seq(Unit) /\ Len(fill) = n
  BY <1>1 DEF Unit
<1>3. /\ add.data \o fill \in Seq(Unit) /\ Len(add.data \o fill) = add.size
      /\ n = 0 => add.data \o fill = add.data
  <2>1. /\ add.data \o fill \in Seq(Unit) /\ Len(add.data \o fill) = Len(add.data) + n
        /\ \A i \in 1..Len(add.data) + n :
             (add.data \o fill)[i] = IF i <= Len(add.data) THEN add.data[i] ELSE fill[i - Len(add.data)]
    BY <1>1, <1>2, ConcatProperties
  <2>2. ASSUME n = 0
        PROVE  add.data \o fill = add.data
    <3>1. fill = << >>
      BY <1>2, <2>2, EmptySeq
    <3> QED
      BY <1>1, <3>1, ConcatEmptySeq
  <2> QED
    BY <1>1, <2>1, <2>2
<1>4. Filled = add.data \o fill \/ Filled = add.data
  BY DEF Filled
<1>5. Len(add.data) = add.size => n = 0
  BY <1>1
<1>6. Series = Seq(Unit)
  BY SeriesType
<1> DEFINE w == add.data \o fill
<1> HIDE DEF n, fill, w
<1>7. w \in Seq(Unit) /\ Len(w) = add.size /\ (n = 0 => w = add.data) /\ (Filled = w \/ Filled = add.data)
  BY <1>3, <1>4 DEF w
<1> QED
  BY <1>1, <1>5, <1>6, <1>7

(* addFile begins, or finds nothing to add. *)
LEMMA BeginKeeps ==
  ASSUME WriterInv, add = Idle, writer # "none", NEW f \in Files, NEW n \in Paths,
         add' = Begun(n, f), todo' \subseteq todo,
         UNCHANGED <<format, src, writer, arch, stored>>
  PROVE  WriterInv'
<1>1. src[f] \in File /\ MaxSize \in Nat
  BY StreamAssumption DEF WriterInv, Types
<1>2. CASE add' = Idle
  BY <1>2 DEF WriterInv, Types, AddInv, ArchInv, StoredInv
<1>3. CASE add' = [pc |-> "open", name |-> n, file |-> f, size |-> src[f].blocks, data |-> << >>,
                   at |-> 0, written |-> 0, calm |-> TRUE]
  <2>1. add' \in Copying
    BY <1>1, <1>3, SeriesType DEF Copying, File
  <2>2. AddInv'
    BY <1>1, <1>3, EmptySeq DEF AddInv, Placed, File
  <2> QED
    BY <2>1, <2>2 DEF WriterInv, Types, ArchInv, StoredInv
<1> QED
  BY <1>2, <1>3 DEF Begun

(* A file is written anew or removed: what is being read of it is no longer calm. *)
LEMMA SourceChangesKeeps ==
  ASSUME WriterInv, NEW f \in Files, FileChanges(f)
  PROVE  WriterInv'
<1>1. src' \in [Files -> File] /\ \A g \in Files \ {f} : src'[g] = src[g]
  <2>1. src \in [Files -> File]
    BY DEF WriterInv, Types
  <2>2. PICK v \in 1..MaxVersions :
          \/ \E n \in 0..MaxSize : src' = [src EXCEPT ![f] = [there |-> TRUE, version |-> v, blocks |-> n]]
          \/ src' = [src EXCEPT ![f] = [there |-> FALSE, version |-> v, blocks |-> src[f].blocks]]
    BY DEF FileChanges
  <2>3. CASE \E n \in 0..MaxSize : src' = [src EXCEPT ![f] = [there |-> TRUE, version |-> v, blocks |-> n]]
    BY <2>1, <2>3 DEF File
  <2>4. CASE src' = [src EXCEPT ![f] = [there |-> FALSE, version |-> v, blocks |-> src[f].blocks]]
    <3>1. src[f] \in File
      BY <2>1
    <3> QED
      BY <2>1, <2>4, <3>1 DEF File
  <2> QED
    BY <2>2, <2>3, <2>4
<1>2. CASE add = Idle
  <2>1. add' = Idle
    BY <1>2 DEF FileChanges, Idle
  <2> QED
    BY <1>1, <1>2, <2>1 DEF FileChanges, WriterInv, Types, AddInv, ArchInv, StoredInv
<1>3. CASE add \in Copying /\ add.file = f
  <2>1. add' = [add EXCEPT !.calm = FALSE]
    BY <1>3 DEF FileChanges, Copying
  <2>2. add' \in Copying /\ add'.calm = FALSE
    BY <1>3, <2>1 DEF Copying
  <2>3. /\ add # Idle /\ add' # Idle
        /\ add'.pc = add.pc /\ add'.file = add.file /\ add'.size = add.size /\ add'.data = add.data
        /\ add'.at = add.at /\ add'.written = add.written
    BY <1>3, <2>1 DEF Copying, Idle
  <2>4. AddInv'
    BY <2>2, <2>3 DEF FileChanges, WriterInv, AddInv, Placed
  <2> QED
    BY <1>1, <2>2, <2>3, <2>4 DEF FileChanges, WriterInv, Types, ArchInv, StoredInv
<1>4. CASE add \in Copying /\ add.file # f
  <2>1. add' = add
    BY <1>4 DEF FileChanges
  <2>2. src'[add.file] = src[add.file]
    BY <1>1, <1>4 DEF Copying
  <2>3. AddInv'
    BY <2>1, <2>2 DEF FileChanges, WriterInv, AddInv, Placed
  <2> QED
    BY <1>1, <2>1, <2>3 DEF FileChanges, WriterInv, Types, ArchInv, StoredInv
<1> QED
  BY <1>2, <1>3, <1>4 DEF WriterInv, Types

LEMMA AddOpenKeeps ==
  ASSUME WriterInv, AddOpen
  PROVE  WriterInv'
<1>1. add \in Copying /\ add.pc = "open" /\ writer # "none" /\ add # Idle
  BY AddType DEF AddOpen, WriterInv, ArchInv, Idle
<1>2. /\ add.data = << >> /\ add.at = 0 /\ add.written = 0 /\ Len(add.data) <= add.size
      /\ Len(add.data) = 0
  BY <1>1, EmptySeq DEF WriterInv, AddInv
<1>3. CASE writer = "ready" /\ add' = [add EXCEPT !.pc = "copy"] /\ UNCHANGED <<writer, arch, stored>>
  <2>1. add' \in Copying
    BY <1>1, <1>3 DEF Copying
  <2>2. AddInv'
    BY <1>1, <1>2, <1>3 DEF AddOpen, WriterInv, AddInv, Placed, Copying
  <2> QED
    BY <1>1, <1>3, <2>1, <2>2 DEF AddOpen, WriterInv, Types, ArchInv, StoredInv
<1>4. CASE writer' \in {writer, "broken"} /\ add' = Idle /\ UNCHANGED <<arch, stored>>
  BY <1>1, <1>4 DEF AddOpen, WriterInv, Types, AddInv, ArchInv, StoredInv
<1>5. CASE writer = "ready" /\ Enters(FALSE, FALSE) /\ add' = Idle /\ UNCHANGED writer
  <2>1. Filled \in Series /\ Len(Filled) <= add.size
    BY <1>1, <1>2, FilledType DEF WriterInv
  <2> QED
    BY <1>1, <1>5, <2>1, EntersKeeps DEF AddOpen
<1> QED
  BY <1>3, <1>4, <1>5 DEF AddOpen

(* A block is read and written, at its place as long as there is room. *)
LEMMA AddCopyKeeps ==
  ASSUME WriterInv, AddCopy
  PROVE  WriterInv'
<1> DEFINE b == <<add.file, src[add.file].version, add.at + 1>>
<1>1. add \in Copying /\ add.pc = "copy" /\ writer # "none" /\ add # Idle
  BY AddType DEF AddCopy, WriterInv, ArchInv, Idle
<1>2. /\ add.file \in Files /\ src[add.file] \in File /\ MaxSize \in Nat /\ add.at \in Nat
      /\ add.written \in Int /\ add.size \in Nat /\ add.data \in Seq(Unit) /\ Len(add.data) \in Nat
  BY <1>1, StreamAssumption, SeriesType DEF WriterInv, Types, Copying
<1>3. add.at + 1 \in 1..src[add.file].blocks /\ add.at + 1 \in 1..MaxSize
  BY <1>2 DEF AddCopy, File
<1>4. b \in Unit /\ BlocksOf(add.file)[add.at + 1] = b
  BY <1>2, <1>3 DEF BlocksOf, Unit, File
<1> HIDE DEF b
<1>5. CASE writer = "ready" /\ writer' = writer /\ Len(add.data) < add.size
  <2>1. /\ Append(add.data, b) \in Series /\ Len(Append(add.data, b)) = Len(add.data) + 1
        /\ \A i \in 1..Len(add.data) : Append(add.data, b)[i] = add.data[i]
        /\ Append(add.data, b)[Len(add.data) + 1] = b
    BY <1>2, <1>4, AppendProperties, SeriesType
  <2>2. add' = [add EXCEPT !.at = add.at + 1, !.written = add.written + 1, !.data = Append(add.data, b)]
    BY <1>4, <1>5 DEF AddCopy
  <2>3. /\ add' \in Copying /\ add' # Idle
        /\ add'.at = add.at + 1 /\ add'.written = add.written + 1 /\ add'.data = Append(add.data, b)
        /\ add'.pc = "copy" /\ add'.file = add.file /\ add'.size = add.size /\ add'.calm = add.calm
    <3> DEFINE a == [pc |-> "copy", name |-> add.name, file |-> add.file, size |-> add.size,
                     data |-> Append(add.data, b), at |-> add.at + 1, written |-> add.written + 1,
                     calm |-> add.calm]
    <3>1. add' = a
      BY <1>1, <2>2 DEF Copying
    <3>2. a \in Copying
      BY <1>1, <1>2, <2>1 DEF Copying
    <3> QED
      BY <3>1, <3>2 DEF Idle
  <2>4. add.written = Len(add.data) /\ add.at = Len(add.data)
    BY <1>1, <1>5 DEF WriterInv, AddInv
  <2>5. Placed(add'.data, add'.file)
    <3>1. Placed(add.data, add.file)
      BY <1>1 DEF WriterInv, AddInv
    <3>2. b \in {add.file} \X (1..MaxVersions) \X {Len(add.data) + 1}
      BY <1>2, <2>4 DEF b, File
    <3> QED
      BY <1>2, <2>1, <2>3, <3>1, <3>2 DEF Placed
  <2>6. ASSUME add.calm
        PROVE  \A i \in 1..Len(add'.data) : add'.data[i][2] = src[add.file].version
    <3>1. \A i \in 1..Len(add.data) : add.data[i][2] = src[add.file].version
      BY <1>1, <2>6 DEF WriterInv, AddInv
    <3>2. b[2] = src[add.file].version
      BY DEF b
    <3> QED
      BY <1>2, <2>1, <2>3, <3>1, <3>2
  <2>7. AddInv'
    <3>1. add.calm => add.size = src[add.file].blocks
      BY <1>1 DEF WriterInv, AddInv
    <3>2. /\ add'.written = Len(add'.data) /\ add'.at = Len(add'.data) /\ Len(add'.data) <= add'.size
          /\ add'.written <= add'.at
      BY <1>2, <1>5, <2>1, <2>3, <2>4
    <3> QED
      BY <1>5, <2>3, <2>5, <2>6, <3>1, <3>2 DEF AddInv, AddCopy
  <2> QED
    BY <1>1, <1>5, <2>3, <2>7 DEF AddCopy, WriterInv, Types, ArchInv, StoredInv
<1>6. CASE writer = "ready" /\ writer' = writer /\ ~(Len(add.data) < add.size) /\ add' = [add EXCEPT !.at = add.at + 1]
  <2>1. /\ add' \in Copying /\ add' # Idle
        /\ add'.at = add.at + 1 /\ add'.written = add.written /\ add'.data = add.data
        /\ add'.pc = "copy" /\ add'.file = add.file /\ add'.size = add.size /\ add'.calm = add.calm
    BY <1>1, <1>2, <1>6 DEF Copying, Idle
  <2>2. AddInv'
    BY <1>1, <1>2, <1>6, <2>1 DEF AddCopy, WriterInv, AddInv, Placed
  <2> QED
    BY <1>1, <1>6, <2>1, <2>2 DEF AddCopy, WriterInv, Types, ArchInv, StoredInv
<1>7. CASE writer' = "broken" /\ add' = [add EXCEPT !.at = add.at + 1, !.written = add.written - 1, !.calm = FALSE]
  <2>1. /\ add' \in Copying /\ add' # Idle
        /\ add'.at = add.at + 1 /\ add'.written = add.written - 1 /\ add'.data = add.data
        /\ add'.pc = "copy" /\ add'.file = add.file /\ add'.size = add.size /\ add'.calm = FALSE
    <3> DEFINE a == [pc |-> "copy", name |-> add.name, file |-> add.file, size |-> add.size,
                     data |-> add.data, at |-> add.at + 1, written |-> add.written - 1, calm |-> FALSE]
    <3>1. add' = a
      BY <1>1, <1>7 DEF Copying
    <3>2. a \in Copying
      BY <1>1, <1>2 DEF Copying
    <3> QED
      BY <3>1, <3>2 DEF Idle
  <2>2. AddInv'
    BY <1>1, <1>2, <1>7, <2>1 DEF AddCopy, WriterInv, AddInv, Placed
  <2> QED
    BY <1>1, <1>7, <2>1, <2>2 DEF AddCopy, WriterInv, Types, ArchInv, StoredInv
<1> QED
  BY <1>5, <1>6, <1>7 DEF AddCopy

(* addFile has read the file to its end.  That it wrote as much as it asked for
   means that every block of the entry is there. *)
LEMMA AddFinishKeeps ==
  ASSUME WriterInv, AddFinish
  PROVE  WriterInv'
<1>1. add \in Copying /\ add.pc = "copy" /\ writer \in {"ready", "broken"} /\ add # Idle
  BY AddType DEF AddFinish, WriterInv, Types, ArchInv, Idle
<1>2. /\ add.file \in Files /\ src[add.file] \in File /\ MaxSize \in Nat /\ add.at \in Nat
      /\ add.written \in Int /\ add.size \in Nat /\ Len(add.data) \in Nat
  BY <1>1, StreamAssumption, SeriesType DEF WriterInv, Types, Copying
<1>3. /\ add.written <= Len(add.data) /\ Len(add.data) <= add.size /\ Placed(add.data, add.file)
      /\ writer = "ready" => add.written = Len(add.data) /\ (Len(add.data) < add.size => add.at = Len(add.data))
      /\ add.calm => /\ add.size = src[add.file].blocks /\ writer = "ready"
                     /\ \A b \in 1..Len(add.data) : add.data[b][2] = src[add.file].version
  BY <1>1 DEF WriterInv, AddInv
<1>4. /\ Filled \in Series /\ Len(Filled) <= add.size
      /\ Len(add.data) = add.size => Filled = add.data
  BY <1>1, <1>3, FilledType DEF WriterInv
<1>5. Tells => Len(add.data) = add.size
  BY <1>2, <1>3 DEF Tells
<1>6. add.calm => Tells
  <2> SUFFICES ASSUME add.calm PROVE add.written = add.size
    BY DEF Tells
  <2>1. src[add.file].blocks \in Nat
    BY <1>2 DEF File
  <2> QED
    BY <1>2, <1>3, <2>1 DEF AddFinish
<1>7. Tells \in BOOLEAN /\ add.calm \in BOOLEAN
  BY <1>1 DEF Tells, Copying
<1>8. add.calm => \A b, c \in 1..Len(Filled) : Filled[b][2] = Filled[c][2]
  BY <1>3, <1>4, <1>5, <1>6
<1>9. Tells => Len(Filled) = add.size /\ Placed(Filled, add.file)
  BY <1>3, <1>4, <1>5
<1> DEFINE tells == Tells
<1> HIDE DEF tells
<1>10. /\ Enters(tells, add.calm) /\ tells \in BOOLEAN /\ (add.calm => tells)
       /\ tells => Len(Filled) = add.size /\ Placed(Filled, add.file)
       /\ add' = Idle /\ todo' = todo /\ writer' = writer /\ UNCHANGED <<format, src>>
  BY <1>6, <1>7, <1>9 DEF AddFinish, tells
<1> QED
  BY <1>1, <1>4, <1>7, <1>8, <1>10, EntersKeeps

(* The archive is cut: its entries are beginnings of what was stored, and what
   was being written is noted as not told. *)
LEMMA CutKeeps ==
  ASSUME WriterInv, NEW k \in 0..MaxStored, NEW m \in 0..MaxSize, NEW known \in BOOLEAN, Cut(k, m, known)
  PROVE  WriterInv'
<1>1. stored \in Seq(Noting) /\ Len(stored) \in Nat /\ k \in Nat /\ m \in Nat /\ MaxSize \in Nat
  BY StreamAssumption, LenProperties DEF WriterInv, Types
<1>2. /\ Unfinished \in Seq(Noting) /\ Len(Unfinished) \in Nat
      /\ \A i \in 1..Len(Unfinished) : /\ Len(Unfinished[i].data) <= Unfinished[i].size
                                       /\ ~Unfinished[i].told /\ ~Unfinished[i].calm
  <2>1. CASE add.pc = "copy"
    <3> DEFINE u == [name |-> add.name, file |-> add.file, size |-> add.size, data |-> add.data,
                     told |-> FALSE, calm |-> FALSE]
    <3>1. add \in Copying /\ add # Idle
      BY <2>1, AddType DEF WriterInv, Types, Idle
    <3>2. u \in Noting /\ Len(u.data) <= u.size
      BY <3>1 DEF Noting, Copying, WriterInv, AddInv
    <3>3. Unfinished = <<u>>
      BY <2>1 DEF Unfinished
    <3> HIDE DEF u
    <3>4. ~u.told /\ ~u.calm
      BY DEF u
    <3>5. <<u>> \in Seq(Noting) /\ Len(<<u>>) = 1 /\ <<u>>[1] = u
      BY <3>2
    <3> QED
      BY <3>2, <3>3, <3>4, <3>5
  <2>2. CASE add.pc # "copy"
    BY <2>2, EmptySeq DEF Unfinished
  <2> QED
    BY <2>1, <2>2
<1>3. /\ stored' \in Seq(Noting) /\ Len(stored') = Len(stored) + Len(Unfinished)
      /\ \A i \in 1..Len(stored) + Len(Unfinished) :
           stored'[i] = IF i <= Len(stored) THEN stored[i] ELSE Unfinished[i - Len(stored)]
  BY <1>1, <1>2, ConcatProperties DEF Cut
<1>4. \A e \in Noting, l \in Nat : CutEntry(e, l, known) \in Header
  <2> SUFFICES ASSUME NEW e \in Noting, NEW l \in Nat
               PROVE  CutEntry(e, l, known) \in Header
    OBVIOUS
  <2>1. e.data \in Seq(Unit) /\ Len(e.data) \in Nat /\ e.name \in Paths /\ e.size \in Nat
    BY SeriesType, StreamAssumption DEF Noting
  <2> DEFINE j == IF l < Len(e.data) THEN l ELSE Len(e.data)
  <2>2. j \in Int /\ \A i \in 1..j : e.data[i] \in Unit
    BY <2>1, ElementOfSeq
  <2> HIDE DEF j
  <2>3. SubSeq(e.data, 1, j) \in Seq(Unit)
    BY <2>2, SubSeqProperties
  <2>4. CutEntry(e, l, known) = [name |-> e.name, size |-> IF known THEN e.size ELSE 0, data |-> SubSeq(e.data, 1, j)]
    BY DEF CutEntry, j
  <2> QED
    BY <2>1, <2>3, <2>4, SeriesType DEF Header
<1>5. /\ arch' \in [entries : Seq(Header), whole : BOOLEAN]
      /\ Len(arch'.entries) = k /\ k <= Len(stored') /\ ~arch'.whole
  <2> DEFINE c(i) == CutEntry(stored'[i], IF i = k THEN m ELSE MaxSize, known)
             cut == [i \in 1..k |-> c(i)]
  <2>1. \A i \in 1..k : c(i) \in Header
    <3> SUFFICES ASSUME NEW i \in 1..k PROVE c(i) \in Header
      OBVIOUS
    <3>1. i \in 1..Len(stored') /\ stored'[i] \in Noting
      BY <1>1, <1>2, <1>3, ElementOfSeq DEF Cut
    <3> QED
      BY <1>1, <1>4, <3>1
  <2>2. arch' = [whole |-> FALSE, entries |-> cut] /\ k <= Len(stored')
    BY DEF Cut
  <2> HIDE DEF c
  <2>3. cut \in [1..k -> Header]
    BY <2>1
  <2> HIDE DEF cut
  <2>4. cut \in Seq(Header) /\ Len(cut) = k
    BY <1>1, <2>3
  <2> QED
    BY <2>2, <2>4
<1>6. Types' /\ AddInv' /\ ArchInv'
  BY <1>1, <1>2, <1>3, <1>5 DEF Cut, WriterInv, Types, AddInv, ArchInv
<1>7. StoredInv'
  <2> SUFFICES ASSUME NEW i \in 1..Len(stored')
               PROVE  Len(stored'[i].data) <= stored'[i].size /\ Told(stored'[i])
    BY DEF StoredInv
  <2>1. CASE i <= Len(stored)
    BY <1>1, <1>2, <1>3, <2>1 DEF WriterInv, StoredInv
  <2>2. CASE ~(i <= Len(stored))
    <3>1. i - Len(stored) \in 1..Len(Unfinished) /\ stored'[i] = Unfinished[i - Len(stored)]
      BY <1>1, <1>2, <1>3, <2>2
    <3> QED
      BY <1>2, <3>1 DEF Told
  <2> QED
    BY <2>1, <2>2
<1> QED
  BY <1>6, <1>7 DEF WriterInv

-----------------------------------------------------------------------------
LEMMA WriterInit == StreamInit => WriterInv
<1> SUFFICES ASSUME StreamInit PROVE WriterInv
  OBVIOUS
<1>1. << >> \in Seq(Noting) /\ << >> \in Seq(Header) /\ Len(<< >>) = 0
  BY EmptySeq
<1>2. src \in [Files -> File]
  <2>1. \A n \in 0..MaxSize : [there |-> TRUE, version |-> 1, blocks |-> n] \in File
    BY StreamAssumption DEF File
  <2> QED
    BY <2>1 DEF StreamInit
<1>3. Types /\ AddInv /\ ArchInv
  BY <1>1, <1>2 DEF StreamInit, Types, AddInv, ArchInv
<1>4. StoredInv
  BY <1>1 DEF StreamInit, StoredInv
<1> QED
  BY <1>3, <1>4 DEF WriterInv

LEMMA WriterStep == WriterInv /\ [StreamNext]_streamVars => WriterInv'
<1> SUFFICES ASSUME WriterInv, [StreamNext]_streamVars PROVE WriterInv'
  OBVIOUS
<1>0. writer = "none" => add = Idle /\ todo = {}
  BY DEF WriterInv, ArchInv
<1>1. ASSUME NEW f \in Files, FileChanges(f) PROVE WriterInv'
  BY <1>1, SourceChangesKeeps
<1>2. ASSUME NEW f \in Files, NEW n \in PathsOf[f], AddFile(n, f) PROVE WriterInv'
  <2>1. add = Idle /\ n \in Paths
    BY <1>2, AddType, StreamAssumption DEF AddFile, Quiet, WriterInv
  <2> QED
    BY <1>2, <2>1, BeginKeeps DEF AddFile
<1>3. ASSUME NEW f \in Files, AddNext(f) PROVE WriterInv'
  <2>1. add = Idle /\ writer # "none" /\ PathOf[f] \in Paths
    BY <1>0, <1>3, AddType, StreamAssumption DEF AddNext, WriterInv
  <2> QED
    BY <1>3, <2>1, BeginKeeps DEF AddNext
<1>4. ASSUME AddDirectory PROVE WriterInv'
  BY <1>4 DEF AddDirectory, WriterInv, Types, AddInv, ArchInv, StoredInv
<1>5. ASSUME AddOpen PROVE WriterInv'
  BY <1>5, AddOpenKeeps
<1>6. ASSUME AddCopy PROVE WriterInv'
  BY <1>6, AddCopyKeeps
<1>7. ASSUME AddFinish PROVE WriterInv'
  BY <1>7, AddFinishKeeps
<1>8. ASSUME CloseWriter PROVE WriterInv'
  <2>1. add = Idle /\ todo = {} /\ add' = Idle /\ todo' = {}
    BY <1>8, AddType DEF CloseWriter, Quiet, WriterInv
  <2>2. arch' \in [entries : Seq(Header), whole : BOOLEAN] /\ arch'.entries = arch.entries
    BY <1>8 DEF CloseWriter, WriterInv, Types
  <2> QED
    BY <1>8, <2>1, <2>2 DEF CloseWriter, WriterInv, Types, AddInv, ArchInv, StoredInv
<1>9. ASSUME NEW k \in 0..MaxStored, NEW m \in 0..MaxSize, NEW known \in BOOLEAN, Cut(k, m, known)
      PROVE  WriterInv'
  BY <1>9, CutKeeps
<1>10. CASE UNCHANGED streamVars
  BY <1>10 DEF streamVars, WriterInv, Types, AddInv, ArchInv, StoredInv
<1> QED
  BY <1>1, <1>2, <1>3, <1>4, <1>5, <1>6, <1>7, <1>8, <1>9, <1>10 DEF StreamNext

LEMMA InvGives == WriterInv => AddsWhatItTells
<1> SUFFICES ASSUME WriterInv PROVE AddsWhatItTells
  OBVIOUS
<1>1. stored \in Seq(Noting) /\ DOMAIN stored = 1..Len(stored)
  BY LenProperties DEF WriterInv, Types
<1>2. \A i \in DOMAIN stored : stored[i].data \in Series /\ Len(stored[i].data) <= stored[i].size
  <2>1. ASSUME NEW i \in DOMAIN stored
        PROVE  stored[i] \in Noting
    BY <1>1, <2>1, ElementOfSeq
  <2> QED
    BY <1>1, <2>1 DEF WriterInv, StoredInv, Noting
<1>3. add.pc # "idle" => add.data \in Series /\ Len(add.data) <= add.size /\ add.written <= add.at
  BY AddType DEF WriterInv, AddInv, Copying
<1>4. StreamTypeOK
  BY <1>2, <1>3 DEF StreamTypeOK, WriterInv, Types, ArchInv, File
<1> QED
  BY <1>1, <1>4 DEF AddsWhatItTells, WriterInv, StoredInv

(* addFile returns TRUE only if the entry has as many blocks as the file had when
   it was asked, each at its place and none made up, and it does so when nothing
   failed and nobody wrote the file meanwhile; and the variables have their
   types (comex_archive.cpp:1154-1199). *)
THEOREM AddsCorrect == StreamSpec => []AddsWhatItTells
<1>1. StreamSpec => []WriterInv
  BY WriterInit, WriterStep, PTL DEF StreamSpec
<1> QED
  BY <1>1, InvGives, PTL

-----------------------------------------------------------------------------
(* ArchiveReader *)

(* The entries of the archive, one by one, are what was stored or beginnings of
   it; their sizes are right in an archive that was not cut, and never too small
   unless a zip archive has lost them all. *)
EntriesInv ==
  /\ \A i \in 1..Len(arch.entries) : /\ arch.entries[i].name = stored[i].name
                                     /\ IsPrefix(arch.entries[i].data, stored[i].data)
  /\ writer = "ready" \/ arch.whole => \A i \in 1..Len(arch.entries) :
       arch.entries[i].data = stored[i].data /\ arch.entries[i].size = Len(stored[i].data)
  /\ \/ \A i \in 1..Len(arch.entries) : arch.entries[i].size >= Len(stored[i].data)
     \/ writer = "none" /\ \A i \in 1..Len(arch.entries) : arch.entries[i].size = 0

LEMMA PrefixOf ==
  ASSUME NEW s \in Seq(Unit)
  PROVE  /\ IsPrefix(s, s)
         /\ \A n \in 0..Len(s) : SubSeq(s, 1, n) \in Seq(Unit) /\ IsPrefix(SubSeq(s, 1, n), s)
         /\ \A t \in Seq(Unit) : IsPrefix(t, s) /\ t # << >> => s # << >>
<1>1. Len(s) \in Nat /\ \A i \in 1..Len(s) : s[i] \in Unit
  BY LenProperties, ElementOfSeq
<1>2. IsPrefix(s, s)
  BY <1>1 DEF IsPrefix
<1>3. ASSUME NEW n \in 0..Len(s) PROVE SubSeq(s, 1, n) \in Seq(Unit) /\ IsPrefix(SubSeq(s, 1, n), s)
  <2> DEFINE t == SubSeq(s, 1, n)
  <2>1. n \in Int /\ n \in Nat /\ \A i \in 1..n : s[i] \in Unit
    BY <1>1
  <2>2. t \in Seq(Unit) /\ Len(t) = n
    BY <2>1, SubSeqProperties
  <2> HIDE DEF t
  <2>3. SubSeq(t, 1, Len(t)) = t
    BY <2>2, SubSeqFull
  <2>4. SubSeq(s, 1, Len(t)) = t
    BY <2>2 DEF t
  <2>5. IsPrefix(t, s)
    BY <1>1, <2>2, <2>3, <2>4 DEF IsPrefix
  <2> QED
    BY <2>2, <2>5 DEF t
<1>4. ASSUME NEW t \in Seq(Unit), IsPrefix(t, s), t # << >> PROVE s # << >>
  <2>1. Len(t) \in Nat /\ Len(t) # 0 /\ Len(t) <= Len(s)
    BY <1>4, LenProperties, EmptySeq DEF IsPrefix
  <2> QED
    BY <1>1, <2>1, EmptySeq
<1> QED
  BY <1>2, <1>3, <1>4

(* The first and the last of some places. *)
LEMMA MinOf ==
  ASSUME NEW S \in SUBSET Nat, S # {}
  PROVE  Min(S) \in S /\ \A x \in S : Min(S) <= x
<1> DEFINE R == OpToRel(<, Nat)
<1>1. IsWellFoundedOn(R, Nat)
  BY NatLessThanWellFounded
<1>2. \A x, y \in Nat : x < y => <<x, y>> \in R
  BY DEF OpToRel
<1> HIDE DEF R
<1>3. PICK n \in S : \A m \in S : ~(<<m, n>> \in R)
  BY <1>1, WFMin
<1>4. ASSUME NEW m \in S PROVE n <= m
  <2>1. n \in Nat /\ m \in Nat
    OBVIOUS
  <2>2. ~(m < n)
    BY <1>2, <1>3, <2>1
  <2> QED
    BY <2>1, <2>2
<1> QED
  BY <1>4 DEF Min

LEMMA MaxOf ==
  ASSUME NEW k \in Nat, NEW S \in SUBSET (1..k), S # {}
  PROVE  Max(S) \in S /\ \A x \in S : Max(S) >= x
<1> DEFINE T == {k - x : x \in S}
<1>1. T \in SUBSET Nat /\ T # {}
  <2>1. \A x \in S : x \in Nat /\ x <= k /\ k - x \in Nat
    OBVIOUS
  <2> QED
    BY <2>1
<1>2. Min(T) \in T /\ \A x \in T : Min(T) <= x
  <2> HIDE DEF T
  <2> QED
    BY <1>1, MinOf
<1>3. PICK n \in S : Min(T) = k - n
  BY <1>2
<1>4. ASSUME NEW m \in S PROVE n >= m
  <2>1. n \in Nat /\ m \in Nat
    OBVIOUS
  <2>2. k - n <= k - m
    BY <1>2, <1>3
  <2> QED
    BY <2>1, <2>2
<1> QED
  BY <1>4 DEF Max

(* A tar entry is filled up to the size that its header announces. *)
LEMMA FilledUp ==
  ASSUME Types, add \in Copying, Len(add.data) <= add.size, format = "tar", writer = "ready"
  PROVE  Len(Filled) = add.size
<1> DEFINE n == add.size - Len(add.data)
           fill == [i \in 1..n |-> Filler]
<1>1. add.data \in Seq(Unit) /\ n \in Nat /\ Len(add.data) \in Nat /\ add.size \in Nat
  BY SeriesType, StreamAssumption, LenProperties DEF Copying
<1>2. fill \in Seq(Unit) /\ Len(fill) = n
  BY <1>1 DEF Unit
<1>3. Filled = add.data \o fill
  BY DEF Filled
<1> HIDE DEF fill
<1>4. Len(add.data \o fill) = Len(add.data) + Len(fill)
  BY <1>1, <1>2, ConcatProperties
<1> QED
  BY <1>1, <1>2, <1>3, <1>4

(* An entry is added to the archive and noted, equally long. *)
LEMMA EntersEntries ==
  ASSUME WriterInv, EntriesInv, NEW told, NEW calm, Enters(told, calm), add \in Copying, writer # "none",
         writer' = writer, Filled \in Series, Len(Filled) <= add.size,
         format = "tar" /\ writer = "ready" => Len(Filled) = add.size
  PROVE  EntriesInv'
<1> DEFINE e == [name |-> add.name, size |-> IF format = "tar" THEN add.size ELSE Len(Filled), data |-> Filled]
           s == [name |-> add.name, file |-> add.file, size |-> add.size,
                 data |-> Filled, told |-> told, calm |-> calm]
<1>1. arch' = [arch EXCEPT !.entries = Append(@, e)] /\ stored' = Append(stored, s)
  BY DEF Enters
<1>2. Filled \in Seq(Unit) /\ Len(Filled) \in Nat /\ add.size \in Nat /\ IsPrefix(Filled, Filled)
  BY SeriesType, StreamAssumption, PrefixOf DEF Copying
<1>3. /\ e.name = s.name /\ e.data = s.data /\ IsPrefix(e.data, s.data) /\ e.size >= Len(s.data)
      /\ writer = "ready" => e.size = Len(s.data)
  BY <1>2
<1> HIDE DEF e, s
<1>4. /\ arch \in [entries : Seq(Header), whole : BOOLEAN] /\ stored \in Seq(Noting)
      /\ Len(arch.entries) = Len(stored) /\ ~arch.whole /\ Len(stored) \in Nat
  BY LenProperties DEF WriterInv, Types, ArchInv
<1>5. /\ Len(arch'.entries) = Len(stored) + 1 /\ arch'.whole = arch.whole
      /\ \A i \in 1..Len(stored) : arch'.entries[i] = arch.entries[i]
      /\ arch'.entries[Len(stored) + 1] = e
  <2>1. arch.entries \in Seq(Header) /\ arch'.entries = Append(arch.entries, e) /\ arch'.whole = arch.whole
    BY <1>1, <1>4
  <2>2. /\ Len(Append(arch.entries, e)) = Len(arch.entries) + 1
        /\ \A i \in 1..Len(arch.entries) : Append(arch.entries, e)[i] = arch.entries[i]
        /\ Append(arch.entries, e)[Len(arch.entries) + 1] = e
    BY <2>1
  <2> QED
    BY <1>4, <2>1, <2>2
<1>6. \A i \in 1..Len(stored) : stored'[i] = stored[i]
  BY <1>1, <1>4
<1>7. stored'[Len(stored) + 1] = s
  BY <1>1, <1>4
<1>8. \A i \in 1..Len(arch'.entries) : i = Len(stored) + 1 \/ i \in 1..Len(stored)
  BY <1>4, <1>5
<1>9. \A i \in 1..Len(stored) : arch.entries[i].size >= Len(stored[i].data)
  BY <1>4 DEF EntriesInv
<1>10. \A i \in 1..Len(arch'.entries) : /\ arch'.entries[i].name = stored'[i].name
                                       /\ IsPrefix(arch'.entries[i].data, stored'[i].data)
                                       /\ arch'.entries[i].size >= Len(stored'[i].data)
  BY <1>3, <1>4, <1>5, <1>6, <1>7, <1>8, <1>9 DEF EntriesInv
<1>11. writer' = "ready" \/ arch'.whole => \A i \in 1..Len(arch'.entries) :
         arch'.entries[i].data = stored'[i].data /\ arch'.entries[i].size = Len(stored'[i].data)
  BY <1>3, <1>4, <1>5, <1>6, <1>7, <1>8 DEF EntriesInv
<1> QED
  BY <1>10, <1>11 DEF EntriesInv

(* What is left of an entry that is cut is a beginning of it. *)
LEMMA CutEntries ==
  ASSUME WriterInv, WriterInv', NEW k \in 0..MaxStored, NEW m \in 0..MaxSize, NEW known \in BOOLEAN, Cut(k, m, known)
  PROVE  EntriesInv'
<1> DEFINE c(i) == CutEntry(stored'[i], IF i = k THEN m ELSE MaxSize, known)
           cut == [i \in 1..k |-> c(i)]
<1>1. /\ arch' = [whole |-> FALSE, entries |-> cut] /\ writer' = "none" /\ k <= Len(stored')
      /\ k \in Nat /\ m \in Nat /\ MaxSize \in Nat
  BY StreamAssumption DEF Cut
<1>2. stored' \in Seq(Noting) /\ Len(stored') \in Nat
      /\ \A i \in 1..Len(stored') : Len(stored'[i].data) <= stored'[i].size
  BY LenProperties DEF WriterInv, Types, StoredInv
<1>3. ASSUME NEW i \in 1..k
      PROVE  /\ c(i).name = stored'[i].name
             /\ IsPrefix(c(i).data, stored'[i].data)
             /\ IF known THEN c(i).size >= Len(stored'[i].data) ELSE c(i).size = 0
  <2>1. i \in 1..Len(stored') /\ stored'[i] \in Noting
    BY <1>1, <1>2, ElementOfSeq
  <2>2. stored'[i].data \in Seq(Unit) /\ Len(stored'[i].data) \in Nat /\ stored'[i].size \in Nat
    BY <2>1, SeriesType, StreamAssumption DEF Noting
  <2> DEFINE l == IF i = k THEN m ELSE MaxSize
             n == IF l < Len(stored'[i].data) THEN l ELSE Len(stored'[i].data)
  <2>3. n \in 0..Len(stored'[i].data)
    BY <1>1, <2>2
  <2>4. c(i) = [name |-> stored'[i].name, size |-> IF known THEN stored'[i].size ELSE 0,
                data |-> SubSeq(stored'[i].data, 1, n)]
    BY DEF CutEntry
  <2> HIDE DEF n, l
  <2>5. IsPrefix(SubSeq(stored'[i].data, 1, n), stored'[i].data)
    BY <2>2, <2>3, PrefixOf
  <2> HIDE DEF c
  <2> QED
    BY <1>2, <2>1, <2>2, <2>4, <2>5
<1> HIDE DEF c
<1>4. /\ Len(arch'.entries) = k /\ ~arch'.whole /\ \A i \in 1..k : arch'.entries[i] = c(i)
  <2>1. Len(cut) = k /\ \A i \in 1..k : cut[i] = c(i)
    BY <1>1
  <2> HIDE DEF cut
  <2> QED
    BY <1>1, <2>1
<1> QED
  BY <1>1, <1>3, <1>4 DEF EntriesInv

LEMMA EntriesStep ==
  ASSUME WriterInv, WriterInv', EntriesInv, [StreamNext]_streamVars
  PROVE  EntriesInv'
<1>0. UNCHANGED <<writer, arch, stored>> => EntriesInv'
  BY DEF EntriesInv
<1>1. ASSUME NEW f \in Files, FileChanges(f) \/ AddNext(f) \/ \E n \in PathsOf[f] : AddFile(n, f)
      PROVE  EntriesInv'
  BY <1>0, <1>1 DEF FileChanges, AddNext, AddFile
<1>2. CASE AddDirectory
  BY <1>0, <1>2 DEF AddDirectory
<1>3. CASE AddOpen
  <2>1. add \in Copying /\ add.pc = "open" /\ add # Idle /\ Len(add.data) <= add.size
    BY <1>3, AddType DEF AddOpen, WriterInv, AddInv, Idle
  <2>2. CASE UNCHANGED <<writer, arch, stored>>
    BY <1>0, <2>2
  <2>3. CASE writer' \in {writer, "broken"} /\ UNCHANGED <<arch, stored>>
    <3>1. writer # "none" /\ ~arch.whole
      BY <2>1 DEF WriterInv, ArchInv
    <3> QED
      BY <2>3, <3>1 DEF EntriesInv
  <2>4. CASE Enters(FALSE, FALSE) /\ UNCHANGED writer
    <3>1. Filled \in Series /\ Len(Filled) <= add.size
          /\ (format = "tar" /\ writer = "ready" => Len(Filled) = add.size) /\ writer # "none"
      BY <2>1, FilledType, FilledUp DEF WriterInv, ArchInv
    <3> QED
      BY <2>1, <2>4, <3>1, EntersEntries
  <2> QED
    BY <1>3, <2>2, <2>3, <2>4 DEF AddOpen
<1>4. CASE AddCopy
  <2>1. writer # "none" /\ ~arch.whole /\ UNCHANGED <<arch, stored>> /\ writer' \in {writer, "broken"}
    BY <1>4, AddType DEF AddCopy, WriterInv, ArchInv, Idle
  <2> QED
    BY <2>1 DEF EntriesInv
<1>5. CASE AddFinish
  <2>1. add \in Copying /\ add # Idle /\ Len(add.data) <= add.size /\ writer # "none"
    BY <1>5, AddType DEF AddFinish, WriterInv, AddInv, ArchInv, Idle
  <2>2. Filled \in Series /\ Len(Filled) <= add.size /\ (format = "tar" /\ writer = "ready" => Len(Filled) = add.size)
    BY <2>1, FilledType, FilledUp DEF WriterInv
  <2> QED
    BY <1>5, <2>1, <2>2, EntersEntries DEF AddFinish
<1>6. CASE CloseWriter
  <2>1. /\ arch'.entries = arch.entries /\ arch'.whole = (writer = "ready") /\ writer # "none"
        /\ UNCHANGED stored /\ writer' = "none"
    BY <1>6 DEF CloseWriter, WriterInv, Types
  <2> QED
    BY <2>1 DEF EntriesInv
<1>7. ASSUME NEW k \in 0..MaxStored, NEW m \in 0..MaxSize, NEW known \in BOOLEAN, Cut(k, m, known)
      PROVE  EntriesInv'
  BY <1>7, CutEntries
<1>8. CASE UNCHANGED streamVars
  BY <1>0, <1>8 DEF streamVars
<1> QED
  BY <1>1, <1>2, <1>3, <1>4, <1>5, <1>6, <1>7, <1>8 DEF StreamNext

LEMMA EntriesInit == StreamInit => EntriesInv
<1> SUFFICES ASSUME StreamInit PROVE EntriesInv
  OBVIOUS
<1>1. Len(arch.entries) = 0
  BY EmptySeq DEF StreamInit
<1> QED
  BY <1>1 DEF EntriesInv

(* Each entry of the archive beside what is noted of it. *)
LEMMA EntryOf ==
  ASSUME WriterInv, EntriesInv
  PROVE  /\ Len(arch.entries) \in Nat /\ Len(stored) \in Nat /\ Len(arch.entries) <= Len(stored)
         /\ DOMAIN arch.entries = 1..Len(arch.entries) /\ DOMAIN stored = 1..Len(stored)
         /\ \A i \in 1..Len(stored) : /\ stored[i].data \in Seq(Unit) /\ Len(stored[i].data) \in Nat
                                      /\ Len(stored[i].data) = 0 <=> stored[i].data = << >>
         /\ \A i \in 1..Len(arch.entries) :
              /\ arch.entries[i].data \in Seq(Unit) /\ arch.entries[i].size \in Nat
              /\ arch.entries[i].data # << >> => stored[i].data # << >>
<1>1. arch.entries \in Seq(Header) /\ stored \in Seq(Noting)
  BY DEF WriterInv, Types
<1>2. /\ Len(arch.entries) \in Nat /\ Len(stored) \in Nat /\ Len(arch.entries) <= Len(stored)
      /\ DOMAIN arch.entries = 1..Len(arch.entries) /\ DOMAIN stored = 1..Len(stored)
  BY <1>1, LenProperties DEF WriterInv, ArchInv
<1>3. ASSUME NEW i \in 1..Len(stored)
      PROVE  /\ stored[i].data \in Seq(Unit) /\ Len(stored[i].data) \in Nat
             /\ Len(stored[i].data) = 0 <=> stored[i].data = << >>
  <2>1. stored[i] \in Noting
    BY <1>1, ElementOfSeq
  <2>2. stored[i].data \in Seq(Unit)
    BY <2>1, SeriesType DEF Noting
  <2> QED
    BY <2>2, LenProperties, EmptySeq
<1>4. ASSUME NEW i \in 1..Len(arch.entries)
      PROVE  /\ arch.entries[i].data \in Seq(Unit) /\ arch.entries[i].size \in Nat
             /\ arch.entries[i].data # << >> => stored[i].data # << >>
  <2>1. arch.entries[i] \in Header
    BY <1>1, ElementOfSeq
  <2>2. arch.entries[i].data \in Seq(Unit) /\ arch.entries[i].size \in Nat
    BY <2>1, SeriesType DEF Header
  <2>3. i \in 1..Len(stored)
    BY <1>2
  <2>4. stored[i].data \in Seq(Unit) /\ IsPrefix(arch.entries[i].data, stored[i].data)
    BY <1>3, <2>3 DEF EntriesInv
  <2> QED
    BY <2>2, <2>4, PrefixOf
<1> QED
  BY <1>2, <1>3, <1>4

(* Of an archive that was not cut every entry is found as it was stored. *)
LEMMA WholeGives ==
  ASSUME WriterInv, EntriesInv, arch.whole, NEW n \in Paths
  PROVE  /\ Named(n) = Stored(n) /\ WithData(n) = Full(Stored(n)) /\ OnPath(n) = Full(OnDisk(n))
         /\ \A i \in Stored(n) \cup OnDisk(n) : /\ arch.entries[i].data = stored[i].data
                                                /\ arch.entries[i].size = Len(stored[i].data)
<1>1. Len(arch.entries) = Len(stored)
  BY DEF WriterInv, ArchInv
<1>2. DOMAIN arch.entries = DOMAIN stored
  BY <1>1, EntryOf
<1>3. ASSUME NEW i \in DOMAIN stored
      PROVE  /\ arch.entries[i].name = stored[i].name /\ arch.entries[i].data = stored[i].data
             /\ arch.entries[i].size = Len(stored[i].data)
             /\ arch.entries[i].size > 0 <=> stored[i].data # << >>
  <2>1. i \in 1..Len(stored) /\ i \in 1..Len(arch.entries)
    BY <1>1, EntryOf
  <2>2. /\ arch.entries[i].name = stored[i].name /\ arch.entries[i].data = stored[i].data
        /\ arch.entries[i].size = Len(stored[i].data)
    BY <2>1 DEF EntriesInv
  <2>3. Len(stored[i].data) \in Nat /\ (Len(stored[i].data) = 0 <=> stored[i].data = << >>)
    BY <2>1, EntryOf
  <2> QED
    BY <2>2, <2>3
<1>4. Named(n) = Stored(n)
  BY <1>2, <1>3 DEF Named, Stored
<1>5. WithData(n) = Full(Stored(n))
  BY <1>3, <1>4 DEF WithData, Full, Stored
<1>6. OnPath(n) = Full(OnDisk(n))
  BY <1>2, <1>3 DEF OnPath, OnDisk, Full
<1> QED
  BY <1>3, <1>4, <1>5, <1>6 DEF Stored, OnDisk

(* Of an archive that was cut an entry is found as a beginning of what was
   stored, and none is passed over that has something to give. *)
LEMMA CutGives ==
  ASSUME WriterInv, EntriesInv, NEW n \in Paths
  PROVE  /\ Named(n) \subseteq Stored(n)
         /\ Read(n) # << >> => \E i \in Full(Stored(n)) : /\ i = Min(Full(Stored(n)))
                                                          /\ IsPrefix(Read(n), stored[i].data)
         /\ WithData(n) \subseteq Stored(n) /\ OnPath(n) \subseteq OnDisk(n)
<1>1. ASSUME NEW i \in DOMAIN arch.entries
      PROVE  /\ i \in DOMAIN stored /\ i \in 1..Len(arch.entries)
             /\ arch.entries[i].name = stored[i].name
             /\ IsPrefix(arch.entries[i].data, stored[i].data)
             /\ arch.entries[i].data # << >> => stored[i].data # << >>
  <2>1. i \in 1..Len(arch.entries) /\ i \in DOMAIN stored
    BY EntryOf
  <2> QED
    BY <2>1, EntryOf DEF EntriesInv
<1>2. Named(n) \subseteq Stored(n)
  BY <1>1 DEF Named, Stored
<1>3. ASSUME Read(n) # << >>
      PROVE  \E i \in Full(Stored(n)) : i = Min(Full(Stored(n))) /\ IsPrefix(Read(n), stored[i].data)
  <2> DEFINE i == Min(WithData(n))
             m == Min(Full(Stored(n)))
  <2>1. WithData(n) # {} /\ Read(n) = arch.entries[i].data
    BY <1>3 DEF Read
  <2>2. WithData(n) \in SUBSET Nat /\ Full(Stored(n)) \in SUBSET Nat
    BY EntryOf DEF WithData, Named, Full, Stored
  <2>3. i \in WithData(n) /\ \A x \in WithData(n) : i <= x
    BY <2>1, <2>2, MinOf
  <2>4. i \in DOMAIN arch.entries /\ i \in Named(n)
    BY <2>3 DEF WithData, Named
  <2>5. i \in Full(Stored(n)) /\ IsPrefix(Read(n), stored[i].data)
    BY <1>1, <1>2, <1>3, <2>1, <2>4 DEF Full
  <2>6. m \in Full(Stored(n)) /\ \A x \in Full(Stored(n)) : m <= x
    BY <2>2, <2>5, MinOf
  <2>7. m \in 1..Len(arch.entries) /\ i \in Nat /\ m \in Nat /\ m <= i
    <3>1. m \in 1..Len(stored) /\ i \in 1..Len(arch.entries) /\ m <= i
      BY <2>4, <2>5, <2>6, EntryOf DEF Full, Stored
    <3> QED
      BY <3>1, EntryOf
  <2>8. arch.entries[m].size > 0
    <3>1. arch.entries[i].size > 0
      BY <2>3 DEF WithData
    <3>2. arch.entries[m].size >= Len(stored[m].data)
      BY <2>4, <2>7, <3>1, <1>1 DEF EntriesInv
    <3>3. stored[m].data # << >> /\ m \in 1..Len(stored)
      BY <2>6, EntryOf DEF Full, Stored
    <3>4. Len(stored[m].data) \in Nat /\ Len(stored[m].data) # 0 /\ arch.entries[m].size \in Nat
      BY <2>7, <3>3, EntryOf
    <3> QED
      BY <3>2, <3>4
  <2>9. m \in WithData(n)
    <3>1. m \in DOMAIN arch.entries /\ stored[m].name = Stripped[n]
      BY <2>6, <2>7, EntryOf DEF Full, Stored
    <3> QED
      BY <1>1, <2>8, <3>1 DEF WithData, Named
  <2>10. i = m
    <3>1. i <= m
      BY <2>3, <2>9
    <3> HIDE DEF i, m
    <3> QED
      BY <2>7, <3>1
  <2> QED
    BY <2>5, <2>10
<1>4. WithData(n) \subseteq Stored(n) /\ OnPath(n) \subseteq OnDisk(n)
  BY <1>1, <1>2 DEF WithData, OnPath, OnDisk
<1> QED
  BY <1>2, <1>3, <1>4

(* What is left of an entry on the disk is of that entry. *)
LEMMA StandingLeaves ==
  ASSUME WriterInv, EntriesInv, NEW i \in DOMAIN arch.entries, NEW lost, NEW S, i \in S
  PROVE  Holds(Standing(arch.entries[i].data, lost), lost, S)
<1>1. i \in 1..Len(arch.entries) /\ i \in 1..Len(stored) /\ i \in DOMAIN stored
  BY EntryOf
<1>2. PICK e \in Seq(Unit) : e = arch.entries[i].data
  BY <1>1, EntryOf
<1>3. PICK s \in Seq(Unit) : s = stored[i].data
  BY <1>1, EntryOf
<1>4. IsPrefix(e, s) /\ (arch.whole => e = s)
  BY <1>1, <1>2, <1>3 DEF EntriesInv
<1>5. \A b \in DOMAIN e : b \in DOMAIN s /\ e[b] = s[b]
  <2>1. Len(e) \in Nat /\ Len(s) \in Nat /\ DOMAIN e = 1..Len(e) /\ DOMAIN s = 1..Len(s)
    BY LenProperties
  <2>2. Len(e) <= Len(s) /\ SubSeq(e, 1, Len(e)) = SubSeq(s, 1, Len(e))
    BY <1>4 DEF IsPrefix
  <2>3. \A b \in 1..Len(e) : b \in 1..Len(s) /\ e[b] \in Unit /\ s[b] \in Unit
    <3>1. \A b \in 1..Len(e) : b \in 1..Len(s)
      BY <2>1, <2>2
    <3> QED
      BY <3>1, ElementOfSeq
  <2>4. \A b \in 1..Len(e) - 1 + 1 : SubSeq(e, 1, Len(e))[b] = e[1 + b - 1]
    BY <2>1, <2>3, SubSeqProperties
  <2>5. \A b \in 1..Len(e) - 1 + 1 : SubSeq(s, 1, Len(e))[b] = s[1 + b - 1]
    BY <2>1, <2>3, SubSeqProperties
  <2>6. \A b \in 1..Len(e) : b \in 1..Len(e) - 1 + 1 /\ 1 + b - 1 = b
    BY <2>1
  <2> QED
    BY <2>1, <2>2, <2>3, <2>4, <2>5, <2>6
<1>6. PICK k : k = Standing(e, lost)
  OBVIOUS
<1>7. \A b \in DOMAIN k : b \in DOMAIN e /\ k[b] = e[b]
  BY <1>6 DEF Standing
<1>8. lost = {} => k = e
  <2>1. e = [b \in DOMAIN e |-> e[b]]
    BY LenProperties
  <2>2. ASSUME lost = {} PROVE DOMAIN e \ lost = DOMAIN e
    BY <2>2
  <2> QED
    BY <1>6, <2>1, <2>2 DEF Standing
<1>9. \A b \in DOMAIN k : b \in DOMAIN s /\ k[b] = s[b]
  BY <1>5, <1>7
<1>10. Holds(k, lost, S)
  BY <1>3, <1>4, <1>8, <1>9 DEF Holds
<1> QED
  BY <1>2, <1>6, <1>10

(* The entry that readTo, and the one that extractTo leaves on the disk. *)
LEMMA ChosenOf ==
  ASSUME WriterInv, EntriesInv, NEW n \in Paths, NEW opens
  PROVE  /\ ReadTo(n, opens) =>
              /\ Min(WithData(n) \cap opens) \in WithData(n) \cap opens
              /\ Min(WithData(n) \cap opens) \in DOMAIN arch.entries
         /\ ExtractTo(n, opens) =>
              /\ Max(OnPath(n) \cap opens) \in OnPath(n) \cap opens
              /\ Max(OnPath(n) \cap opens) \in DOMAIN arch.entries
<1> DEFINE R == WithData(n) \cap opens
           E == OnPath(n) \cap opens
<1>1. R \subseteq DOMAIN arch.entries /\ E \subseteq DOMAIN arch.entries
  BY DEF WithData, Named, OnPath
<1>2. R \in SUBSET Nat /\ E \in SUBSET (1..Len(arch.entries)) /\ Len(arch.entries) \in Nat
  <2> HIDE DEF R, E
  <2> QED
    BY <1>1, EntryOf
<1>3. R # {} => Min(R) \in R
  <2> HIDE DEF R
  <2> QED
    BY <1>2, MinOf
<1>4. E # {} => Max(E) \in E
  <2> HIDE DEF E
  <2> QED
    BY <1>2, MaxOf
<1> QED
  BY <1>1, <1>3, <1>4 DEF ReadTo, ExtractTo

LEMMA EntriesGive == WriterInv /\ EntriesInv => ReadsWhatWasWritten
<1> SUFFICES ASSUME WriterInv, EntriesInv PROVE ReadsWhatWasWritten
  OBVIOUS
<1>1. ASSUME ~arch.whole, NEW n \in Paths
      PROVE  /\ Gives(Read(n), First(Full(Stored(n)))) /\ (IsFileExist(n) => Stored(n) # {})
             /\ \A opens \in SUBSET DOMAIN stored, lost \in SUBSET (1..MaxSize) :
                  /\ ReadTo(n, opens) => Holds(ReadFile(n, opens, lost), lost, Stored(n) \cap opens)
                  /\ ExtractTo(n, opens) => Holds(ExtractFile(n, opens, lost), lost, OnDisk(n) \cap opens)
  <2>1. Gives(Read(n), First(Full(Stored(n))))
    BY <1>1, CutGives DEF Gives, First
  <2>2. ASSUME NEW opens, NEW lost, ReadTo(n, opens)
        PROVE  Holds(ReadFile(n, opens, lost), lost, Stored(n) \cap opens)
    <3>1. PICK i : i = Min(WithData(n) \cap opens)
      OBVIOUS
    <3>2. i \in WithData(n) \cap opens /\ i \in DOMAIN arch.entries
      BY <2>2, <3>1, ChosenOf
    <3>3. i \in Stored(n) \cap opens
      BY <3>2, CutGives
    <3>4. Holds(Standing(arch.entries[i].data, lost), lost, Stored(n) \cap opens)
      BY <3>2, <3>3, StandingLeaves
    <3> QED
      BY <3>1, <3>4 DEF ReadFile
  <2>3. ASSUME NEW opens, NEW lost, ExtractTo(n, opens)
        PROVE  Holds(ExtractFile(n, opens, lost), lost, OnDisk(n) \cap opens)
    <3>1. PICK i : i = Max(OnPath(n) \cap opens)
      OBVIOUS
    <3>2. i \in OnPath(n) \cap opens /\ i \in DOMAIN arch.entries
      BY <2>3, <3>1, ChosenOf
    <3>3. i \in OnDisk(n) \cap opens
      BY <3>2, CutGives
    <3>4. Holds(Standing(arch.entries[i].data, lost), lost, OnDisk(n) \cap opens)
      BY <3>2, <3>3, StandingLeaves
    <3> QED
      BY <3>1, <3>4 DEF ExtractFile
  <2>4. IsFileExist(n) => Stored(n) # {}
    BY CutGives DEF IsFileExist
  <2> QED
    BY <2>1, <2>2, <2>3, <2>4
<1>2. ASSUME arch.whole, NEW n \in Paths
      PROVE  /\ Gives(Read(n), First(Full(Stored(n))))
             /\ IsFileExist(n) <=> Stored(n) # {}
             /\ IF Stored(n) = {} THEN GetFileSize(n) = 0
                                  ELSE GetFileSize(n) = Len(stored[Min(Stored(n))].data)
             /\ \A opens \in SUBSET DOMAIN stored, lost \in SUBSET (1..MaxSize) :
                  /\ ReadTo(n, opens) =>
                       Holds(ReadFile(n, opens, lost), lost, First(Full(Stored(n)) \cap opens))
                  /\ ExtractTo(n, opens) =>
                       Holds(ExtractFile(n, opens, lost), lost, Final(Full(OnDisk(n)) \cap opens))
                  /\ ReadTo(n, opens) <=> Full(Stored(n)) \cap opens # {}
                  /\ ExtractTo(n, opens) <=> Full(OnDisk(n)) \cap opens # {}
  <2>1. /\ Named(n) = Stored(n) /\ WithData(n) = Full(Stored(n)) /\ OnPath(n) = Full(OnDisk(n))
        /\ \A i \in Stored(n) : /\ arch.entries[i].data = stored[i].data
                                /\ arch.entries[i].size = Len(stored[i].data)
    BY <1>2, WholeGives
  <2>2. Stored(n) \in SUBSET Nat /\ Full(Stored(n)) \in SUBSET Nat /\ Full(Stored(n)) \subseteq Stored(n)
    BY EntryOf DEF Full, Stored
  <2>3. ASSUME NEW i \in DOMAIN stored PROVE IsPrefix(stored[i].data, stored[i].data)
    BY EntryOf, PrefixOf
  <2>4. Gives(Read(n), First(Full(Stored(n))))
    <3>1. CASE Full(Stored(n)) = {}
      BY <2>1, <3>1 DEF Gives, Read, First
    <3>2. CASE Full(Stored(n)) # {}
      <4>1. Min(Full(Stored(n))) \in Full(Stored(n))
        BY <2>2, <3>2, MinOf
      <4>2. Read(n) = stored[Min(Full(Stored(n)))].data
        BY <2>1, <2>2, <3>2, <4>1 DEF Read
      <4>3. Min(Full(Stored(n))) \in DOMAIN stored
        BY <4>1 DEF Full, Stored
      <4> QED
        BY <2>3, <4>1, <4>2, <4>3 DEF Gives, First
    <3> QED
      BY <3>1, <3>2
  <2>5. ASSUME NEW opens, NEW lost, ReadTo(n, opens)
        PROVE  Holds(ReadFile(n, opens, lost), lost, First(Full(Stored(n)) \cap opens))
    <3>1. PICK i : i = Min(WithData(n) \cap opens)
      OBVIOUS
    <3>2. i \in WithData(n) \cap opens /\ i \in DOMAIN arch.entries
      BY <2>5, <3>1, ChosenOf
    <3>3. i \in First(Full(Stored(n)) \cap opens)
      BY <2>1, <3>1, <3>2 DEF First
    <3>4. Holds(Standing(arch.entries[i].data, lost), lost, First(Full(Stored(n)) \cap opens))
      BY <3>2, <3>3, StandingLeaves
    <3> QED
      BY <3>1, <3>4 DEF ReadFile
  <2>6. ASSUME NEW opens, NEW lost, ExtractTo(n, opens)
        PROVE  Holds(ExtractFile(n, opens, lost), lost, Final(Full(OnDisk(n)) \cap opens))
    <3>1. PICK i : i = Max(OnPath(n) \cap opens)
      OBVIOUS
    <3>2. i \in OnPath(n) \cap opens /\ i \in DOMAIN arch.entries
      BY <2>6, <3>1, ChosenOf
    <3>3. i \in Final(Full(OnDisk(n)) \cap opens)
      BY <2>1, <3>1, <3>2 DEF Final
    <3>4. Holds(Standing(arch.entries[i].data, lost), lost, Final(Full(OnDisk(n)) \cap opens))
      BY <3>2, <3>3, StandingLeaves
    <3> QED
      BY <3>1, <3>4 DEF ExtractFile
  <2>7. IF Stored(n) = {} THEN GetFileSize(n) = 0
                          ELSE GetFileSize(n) = Len(stored[Min(Stored(n))].data)
    <3>1. CASE Stored(n) = {}
      BY <2>1, <3>1 DEF GetFileSize
    <3>2. CASE Stored(n) # {}
      <4>1. Min(Stored(n)) \in Stored(n)
        BY <2>2, <3>2, MinOf
      <4> QED
        BY <2>1, <3>2, <4>1 DEF GetFileSize
    <3> QED
      BY <3>1, <3>2
  <2>8. ASSUME NEW opens
        PROVE  /\ ReadTo(n, opens) <=> Full(Stored(n)) \cap opens # {}
               /\ ExtractTo(n, opens) <=> Full(OnDisk(n)) \cap opens # {}
    BY <2>1 DEF ReadTo, ExtractTo
  <2>9. IsFileExist(n) <=> Stored(n) # {}
    BY <2>1 DEF IsFileExist
  <2> QED
    BY <2>4, <2>5, <2>6, <2>7, <2>8, <2>9
<1> QED
  BY <1>1, <1>2 DEF ReadsWhatWasWritten

(* What read gives is what was written, of a cut archive nothing or a beginning
   of it; and a file that readTo returned TRUE for, or that extractTo opened,
   holds blocks of one entry of its path, each as it was written, of a whole
   archive those of the first or the last that could be opened, and all of them
   if the disk took all (comex_archive.cpp:793-1037). *)
THEOREM ReadsCorrect == StreamSpec => []ReadsWhatWasWritten
<1>1. StreamSpec => []WriterInv
  BY WriterInit, WriterStep, PTL DEF StreamSpec
<1>2. WriterInv /\ WriterInv' /\ EntriesInv /\ [StreamNext]_streamVars => EntriesInv'
  BY EntriesStep
<1>3. StreamSpec => []EntriesInv
  BY <1>1, <1>2, EntriesInit, PTL DEF StreamSpec
<1> QED
  BY <1>1, <1>3, EntriesGive, PTL
-----------------------------------------------------------------------------
(* The functions for zlib *)

Outs == Units \cup {Wrong}

(* What comes out of the packed bytes is the text as far as it is good. *)
ComesOK ==
  /\ \A i \in 1..packed.good : packed.comes[i] = packed.text[i]
  /\ packed.ends # "damaged" => Len(packed.comes) = packed.good
  /\ packed.ends \in {"none", "whole"} => packed.comes = packed.text
  /\ packed.behind => packed.ends = "whole"
  /\ packed.ends = "none" => packed.text = << >>

(* As long as the end of the stream has not been seen, the loop has appended
   what comes out up to where zlib is. *)
UpTo ==
  /\ ctx.state = "dry" => MayStarve
  /\ pc = "packed" => result = << >> /\ ctx = Start
  /\ pc = "inflate" => /\ packed.ends # "none"
                       /\ ctx.state # "end" => result = SubSeq(packed.comes, 1, ctx.made)
                       /\ ctx.state = "end" => packed.behind

(* What it has appended when it is left. *)
EndsOK ==
  pc = "done" =>
    /\ Len(result) <= Len(packed.comes) /\ result = SubSeq(packed.comes, 1, Len(result))
    /\ packed.ends = "whole" /\ ~failed => result = packed.comes
    /\ packed.ends = "cut" /\ ~failed => Len(result) = Len(packed.comes)
    /\ packed.ends = "damaged" /\ ~failed => Len(result) + Buffer >= Len(packed.comes)

UnpackInv == InflateTypeOK /\ ComesOK /\ UpTo /\ EndsOK

LEMMA UnpackGives == UnpackInv => UnpacksWhatWasPacked
<1> SUFFICES ASSUME UnpackInv, pc = "done" PROVE UnpacksWhatWasPacked
  BY DEF UnpacksWhatWasPacked
<1> DEFINE l == Len(result)
<1>1. /\ packed.comes \in Seq(Outs) /\ result \in Seq(Outs) /\ packed.text \in Seq(Units)
      /\ packed.good \in Nat /\ packed.good <= Len(packed.comes) /\ Len(packed.comes) \in Nat /\ l \in Nat
      /\ l <= Len(packed.comes) /\ result = SubSeq(packed.comes, 1, l)
  BY LenProperties DEF UnpackInv, InflateTypeOK, EndsOK, Outs
<1>2. \A i \in 1..l : result[i] = packed.comes[i]
  <2>1. \A i \in 1..Len(packed.comes) : packed.comes[i] \in Outs
    BY <1>1, ElementOfSeq
  <2> HIDE DEF l
  <2>2. \A i \in 1..l : packed.comes[i] \in Outs
    BY <1>1, <2>1
  <2>3. \A i \in 1..l - 1 + 1 : SubSeq(packed.comes, 1, l)[i] = packed.comes[1 + i - 1]
    BY <1>1, <2>2, SubSeqProperties
  <2>4. \A i \in 1..l : i \in 1..l - 1 + 1 /\ 1 + i - 1 = i
    BY <1>1
  <2> QED
    BY <1>1, <2>3, <2>4
<1>3. ASSUME NEW i \in 1..l, i <= packed.good PROVE result[i] = packed.text[i]
  <2>1. i \in 1..packed.good
    BY <1>1, <1>3
  <2> QED
    BY <1>2, <2>1 DEF UnpackInv, ComesOK
<1>4. packed.ends # "damaged" => Len(packed.comes) = packed.good
  BY DEF UnpackInv, ComesOK
<1>5. packed.ends = "whole" => packed.comes = packed.text
  BY DEF UnpackInv, ComesOK
<1> QED
  BY <1>1, <1>3, <1>4, <1>5 DEF UnpackInv, EndsOK, UnpacksWhatWasPacked

LEMMA GivenType ==
  ASSUME InflateTypeOK
  PROVE  /\ Given \in 0..Buffer /\ ctx.made + Given \in 0..Len(packed.comes)
         /\ ctx.made \in Nat /\ Len(packed.comes) \in Nat
         /\ Given = 0 => ctx.made = Len(packed.comes)
         /\ LastPiece => ctx.made + Given = Len(packed.comes)
BY InflateAssumption, LenProperties DEF InflateTypeOK, Given, Left, LastPiece

(* The text up to where zlib is, and what the next call gives. *)
LEMMA NextPart ==
  ASSUME InflateTypeOK
  PROVE  /\ Got \in Seq(Outs)
         /\ SubSeq(packed.comes, 1, ctx.made) \o Got = SubSeq(packed.comes, 1, ctx.made + Given)
         /\ Len(SubSeq(packed.comes, 1, ctx.made + Given)) = ctx.made + Given
         /\ SubSeq(packed.comes, 1, ctx.made + Given) \in Seq(Outs)
<1> DEFINE t == packed.comes
           m == ctx.made
           n == ctx.made + Given
<1>1. t \in Seq(Outs) /\ Len(t) \in Nat /\ m \in 0..n /\ n \in 0..Len(t)
  BY GivenType DEF InflateTypeOK, Outs
<1>2. \A i \in 1..Len(t) : t[i] \in Outs
  BY <1>1, ElementOfSeq
<1> HIDE DEF t, m, n
<1>3. SubSeq(t, m + 1, n) \in Seq(Outs)
  BY <1>1, <1>2, SubSeqProperties
<1>4. SubSeq(t, 1, n) \in Seq(Outs) /\ Len(SubSeq(t, 1, n)) = n
  BY <1>1, <1>2, SubSeqProperties
<1>5. SubSeq(t, 1, m) \o SubSeq(t, m + 1, n) = SubSeq(t, 1, n)
  <2>1. n \in m..Len(t) /\ m \in (1 - 1)..Len(t) /\ 1 \in 1..(Len(t) + 1)
    BY <1>1
  <2> QED
    BY <1>1, <2>1, ConcatAdjacentSubSeq
<1> QED
  BY <1>3, <1>4, <1>5 DEF t, m, n, Got

LEMMA UnpackStep ==
  ASSUME UnpackInv, NEW ret \in Codes, InflateStep(ret)
  PROVE  UnpackInv'
<1> DEFINE n == ctx.made + Given
<1>1. InflateTypeOK /\ ComesOK /\ UpTo /\ pc = "inflate" /\ packed' = packed
  BY DEF UnpackInv, InflateStep
<1>5. ComesOK'
  BY <1>1 DEF ComesOK
<1>2. /\ n \in Nat /\ n <= Len(packed.comes) /\ Len(packed.comes) \in Nat
      /\ ctx.made \in Nat /\ (Given = 0 => n = Len(packed.comes)) /\ Given \in Nat
  BY <1>1, GivenType DEF InflateTypeOK
<1>3. Got \in Seq(Outs) /\ Got \o Got \in Seq(Outs) /\ << >> \in Seq(Outs)
  BY <1>1, NextPart, ConcatProperties
<1>4. PICK s \in {"run", "dry", "end"} : After(ret, s) /\ ctx' = [made |-> n, state |-> s]
  BY DEF InflateStep
<1>6. Appends(ret) \in Seq(Outs) /\ result' \in Seq(Outs)
  BY <1>1, <1>3, ConcatProperties DEF Appends, InflateStep, InflateTypeOK, Outs
<1>7. InflateTypeOK'
  BY <1>1, <1>2, <1>4, <1>6 DEF InflateStep, InflateTypeOK, Outs
<1>8. SubSeq(packed.comes, 1, n) \in Seq(Outs) /\ Len(SubSeq(packed.comes, 1, n)) = n
      /\ SubSeq(packed.comes, 1, ctx.made) \o Got = SubSeq(packed.comes, 1, n)
  BY <1>1, NextPart
<1>9. packed.comes \in Seq(Outs) /\ packed.ends \in {"whole", "cut", "damaged"} /\ result \in Seq(Outs)
  BY <1>1 DEF InflateTypeOK, UpTo, Outs
<1>10. s = "dry" => MayStarve
  BY <1>1, <1>4 DEF After, UpTo
<1>11. CASE ret = "Z_OK"
  <2>1. ctx.state # "end" /\ s # "end" /\ pc' = "inflate"
    BY <1>4, <1>11 DEF InflateStep, Possible, After, Leaves
  <2>2. result' = SubSeq(packed.comes, 1, n)
    BY <1>1, <1>8, <1>11, <2>1 DEF InflateStep, Appends, UpTo
  <2> QED
    BY <1>1, <1>4, <1>5, <1>7, <1>9, <1>10, <2>1, <2>2 DEF UnpackInv, UpTo, EndsOK, MayStarve
<1>12. CASE ret = "Z_STREAM_END"
  <2>1. n = Len(packed.comes) /\ packed.ends = "whole" /\ s = "end"
    BY <1>1, <1>4, <1>12, GivenType DEF InflateStep, Possible, After
  <2>2. CASE packed.behind
    <3>1. pc' = "inflate"
      BY <1>12, <2>2 DEF InflateStep, Leaves
    <3> QED
      BY <1>1, <1>4, <1>5, <1>7, <1>9, <2>1, <2>2, <3>1 DEF UnpackInv, UpTo, EndsOK
  <2>3. CASE ~packed.behind
    <3>1. pc' = "done" /\ ctx.state # "end"
      BY <1>1, <1>12, <2>3 DEF InflateStep, Leaves, UpTo
    <3>2. result' = SubSeq(packed.comes, 1, n)
      BY <1>1, <1>8, <1>12, <2>3, <3>1 DEF InflateStep, Appends, UpTo
    <3>3. result' = packed.comes /\ Len(result') = n
      BY <1>8, <1>9, <2>1, <3>2, SubSeqFull
    <3> QED
      BY <1>1, <1>2, <1>4, <1>5, <1>7, <1>9, <2>1, <2>3, <3>1, <3>2, <3>3 DEF UnpackInv, UpTo, EndsOK
  <2> QED
    BY <2>2, <2>3
<1>13. CASE ret \in {"Z_BUF_ERROR", "Z_DATA_ERROR", "Z_MEM_ERROR"}
  <2>1. /\ pc' = "done" /\ result' = result
        /\ ret = "Z_BUF_ERROR" => ctx.state = "dry" /\ Given = 0
        /\ ret = "Z_DATA_ERROR" => packed.ends = "damaged" /\ LastPiece
        /\ ret = "Z_MEM_ERROR" => ctx.state # "end" /\ failed'
    <3>1. Appends(ret) = << >>
      BY <1>13 DEF Appends
    <3>2. result \o << >> = result
      BY <1>9, ConcatEmptySeq
    <3> QED
      BY <1>13, <3>1, <3>2 DEF InflateStep, Possible, Leaves
  <2>2. ctx.state # "end"
    BY <1>1, <1>13, <2>1 DEF UpTo, ComesOK
  <2>3. result' = SubSeq(packed.comes, 1, ctx.made)
    BY <1>1, <2>1, <2>2 DEF UpTo
  <2>4. ctx.made <= Len(packed.comes) /\ Len(result') = ctx.made
    <3>1. ctx.made \in 0..Len(packed.comes) /\ Len(packed.comes) \in Nat
      BY <1>1, GivenType DEF InflateTypeOK
    <3>2. Len(SubSeq(packed.comes, 1, ctx.made)) = ctx.made
      BY <1>9, <3>1, SubSeqProperties
    <3> QED
      BY <2>3, <3>1, <3>2
  <2>5. packed.ends = "cut" /\ ~failed' => ctx.made = Len(packed.comes)
    BY <1>1, <1>13, <2>1, GivenType
  <2>6. packed.ends = "whole" => failed'
    BY <1>1, <1>13, <2>1 DEF UpTo, MayStarve
  <2>7. packed.ends = "damaged" /\ ~failed' => ctx.made + Buffer >= Len(packed.comes)
    <3>1. ret \in {"Z_BUF_ERROR", "Z_DATA_ERROR"} => n = Len(packed.comes)
      BY <1>1, <2>1, GivenType
    <3>2. Given <= Buffer /\ Buffer \in Nat
      BY <1>1, GivenType, InflateAssumption
    <3> QED
      BY <1>2, <1>13, <2>1, <3>1, <3>2
  <2>8. UpTo' /\ EndsOK'
    BY <1>1, <1>4, <1>9, <1>10, <2>1, <2>3, <2>4, <2>5, <2>6, <2>7 DEF UpTo, EndsOK, MayStarve
  <2> QED
    BY <1>5, <1>7, <2>8 DEF UnpackInv
<1> QED
  BY <1>11, <1>12, <1>13 DEF Codes

Bytes == [text : Seq(Units), good : Nat, comes : Seq(Outs), ends : {"none", "whole", "cut", "damaged"},
          behind : BOOLEAN]
Streams == [made : Nat, state : {"run", "dry", "end"}]

LEMMA Emptiness ==
  /\ << >> \in Seq(Units) /\ << >> \in Seq(Outs) /\ Len(<< >>) = 0
  /\ NoBytes \in Bytes /\ NoBytes.good = 0 /\ NoBytes.text = << >> /\ NoBytes.comes = << >>
  /\ NoBytes.ends = "none" /\ ~NoBytes.behind
  /\ Start \in Streams /\ Start.made = 0 /\ Start.state = "run"
  /\ SubSeq(<< >>, 1, 0) = << >>
<1>1. << >> \in Seq(Units) /\ << >> \in Seq(Outs) /\ Len(<< >>) = 0
  BY EmptySeq
<1>2. SubSeq(<< >>, 1, 0) = << >>
  BY SubSeqEmpty
<1>3. NoBytes.good = 0 /\ NoBytes.text = << >> /\ NoBytes.comes = << >> /\ NoBytes.ends = "none" /\ ~NoBytes.behind
  BY DEF NoBytes
<1>4. NoBytes \in Bytes
  BY <1>1 DEF NoBytes, Bytes
<1>5. Start \in Streams /\ Start.made = 0 /\ Start.state = "run"
  BY DEF Start, Streams
<1> QED
  BY <1>1, <1>2, <1>3, <1>4, <1>5

(* Nothing is unpacked yet. *)
LEMMA AtFirst ==
  ASSUME packed \in Bytes, packed.good <= Len(packed.text), packed.good <= Len(packed.comes), ComesOK,
         ctx = Start, pc = "packed", result = << >>, failed \in BOOLEAN
  PROVE  UnpackInv
<1>1. ctx \in Streams /\ ctx.made = 0 /\ result \in Seq(Outs) /\ ctx.state = "run" /\ 0 <= Len(packed.comes)
  BY Emptiness, LenProperties DEF Bytes
<1> QED
  BY <1>1 DEF UnpackInv, InflateTypeOK, UpTo, EndsOK, Bytes, Streams, Outs

LEMMA UnpackInit == InflateInit => UnpackInv
<1> SUFFICES ASSUME InflateInit PROVE UnpackInv
  OBVIOUS
<1>1. packed = NoBytes /\ ctx = Start /\ pc = "packed" /\ result = << >> /\ failed = FALSE
  BY DEF InflateInit
<1>2. ComesOK
  BY <1>1, Emptiness DEF ComesOK
<1>3. failed \in BOOLEAN
  BY <1>1, Zenon
<1> QED
  BY <1>1, <1>2, <1>3, Emptiness, AtFirst

LEMMA AtFirstNext ==
  ASSUME packed' \in Bytes, packed'.good <= Len(packed'.text), packed'.good <= Len(packed'.comes), ComesOK',
         ctx' = Start, pc' = "packed", result' = << >>, failed' \in BOOLEAN
  PROVE  UnpackInv'
<1>1. ctx' \in Streams /\ ctx'.made = 0 /\ result' \in Seq(Outs) /\ ctx'.state = "run" /\ 0 <= Len(packed'.comes)
  BY Emptiness, LenProperties DEF Bytes
<1> QED
  BY <1>1 DEF UnpackInv, InflateTypeOK, UpTo, EndsOK, Bytes, Streams, Outs

LEMMA UnpackNext == UnpackInv /\ [InflateNext]_inflateVars => UnpackInv'
<1> SUFFICES ASSUME UnpackInv, [InflateNext]_inflateVars PROVE UnpackInv'
  OBVIOUS
<1>1. InflateTypeOK /\ ComesOK /\ UpTo /\ EndsOK
  BY DEF UnpackInv
<1>2. ASSUME NEW t \in Texts, Compress(t) PROVE UnpackInv'
  <2>1. t \in Seq(Units) /\ Len(t) \in Nat /\ t \in Seq(Outs)
    <3>1. Units \subseteq Outs
      BY DEF Outs
    <3> QED
      BY <3>1, InflateAssumption, LenProperties, SeqMonotonic
  <2>2. packed' = NoBytes \/ packed' = Whole(t)
    BY <1>2 DEF Compress
  <2>3. packed' \in Bytes /\ packed'.good = Len(packed'.text) /\ packed'.comes = packed'.text
        /\ Len(packed'.text) \in Nat /\ ~packed'.behind /\ (packed'.ends = "none" => packed'.text = << >>)
    <3>1. Whole(t) \in Bytes /\ Whole(t).good = Len(t) /\ Whole(t).text = t /\ Whole(t).comes = t
          /\ ~Whole(t).behind /\ Whole(t).ends = "whole"
      BY <2>1 DEF Whole, Bytes
    <3> QED
      BY <2>1, <2>2, <3>1, Emptiness
  <2>4. ctx' = Start /\ pc' = "packed" /\ result' = << >> /\ failed' = FALSE
    BY <1>2 DEF Compress
  <2>5. ComesOK'
    BY <2>3 DEF ComesOK
  <2>6. failed' \in BOOLEAN
    BY <2>4, Zenon
  <2>7. packed'.good <= Len(packed'.text) /\ packed'.good <= Len(packed'.comes)
    BY <2>3
  <2> QED
    BY <2>3, <2>4, <2>5, <2>6, <2>7, AtFirstNext
<1>3. ASSUME Arrives PROVE UnpackInv'
  <2>1. /\ packed.ends = "whole" /\ ~packed.behind /\ packed.good = Len(packed.comes) /\ packed.comes = packed.text
        /\ pc' = "packed" /\ result' = << >> /\ ctx' = Start /\ failed' \in BOOLEAN
        /\ \A i \in 1..packed.good : packed.comes[i] = packed.text[i]
    BY <1>1, <1>3 DEF UpTo, ComesOK, InflateTypeOK, Arrives
  <2>2. packed \in Bytes /\ packed.good \in Nat /\ packed.comes \in Seq(Outs)
        /\ Len(packed.comes) \in Nat
    BY <1>1, LenProperties DEF InflateTypeOK, Bytes, Outs
  <2>3. ASSUME BytesFollow PROVE UnpackInv'
    <3>1. packed' \in Bytes /\ packed'.good = packed.good /\ packed'.text = packed.text
          /\ packed'.comes = packed.comes /\ packed'.ends = "whole"
      BY <2>1, <2>2, <2>3 DEF Bytes, BytesFollow
    <3>2. ComesOK'
      BY <2>1, <3>1 DEF ComesOK
    <3>3. packed'.good <= Len(packed'.text) /\ packed'.good <= Len(packed'.comes)
      BY <2>1, <2>2, <3>1
    <3> QED
      BY <2>1, <3>1, <3>2, <3>3, AtFirstNext
  <2>4. ASSUME NEW n \in 0..packed.good
        PROVE  /\ n \in Nat /\ n <= Len(packed.text) /\ SubSeq(packed.comes, 1, n) \in Seq(Outs)
               /\ Len(SubSeq(packed.comes, 1, n)) = n
               /\ \A i \in 1..n : SubSeq(packed.comes, 1, n)[i] = packed.text[i]
    <3>1. n \in Nat /\ n <= Len(packed.comes) /\ \A i \in 1..n : i \in 1..packed.good /\ i \in 1..Len(packed.comes)
      BY <2>1, <2>2
    <3>2. \A i \in 1..n : packed.comes[i] \in Outs
      BY <2>2, <3>1, ElementOfSeq
    <3>3. SubSeq(packed.comes, 1, n) \in Seq(Outs)
          /\ (Len(SubSeq(packed.comes, 1, n)) = IF 1 <= n THEN n - 1 + 1 ELSE 0)
          /\ \A i \in 1..n - 1 + 1 : SubSeq(packed.comes, 1, n)[i] = packed.comes[1 + i - 1]
      BY <3>1, <3>2, SubSeqProperties
    <3>4. Len(SubSeq(packed.comes, 1, n)) = n /\ \A i \in 1..n : SubSeq(packed.comes, 1, n)[i] = packed.comes[i]
      <4>1. n - 1 + 1 = n /\ \A i \in 1..n : 1 + i - 1 = i
        BY <3>1
      <4> QED
        BY <3>1, <3>3, <4>1
    <3> QED
      BY <2>1, <3>1, <3>3, <3>4
  <2>5. ASSUME NEW n \in 0..packed.good, BytesCut(n) PROVE UnpackInv'
    <3>1. PICK c \in Seq(Outs) : c = SubSeq(packed.comes, 1, n)
      BY <2>4
    <3>2. /\ packed' \in Bytes /\ packed'.good = n /\ packed'.text = packed.text
          /\ packed'.comes = c /\ packed'.ends = "cut" /\ ~packed'.behind
      BY <2>1, <2>2, <2>4, <2>5, <3>1 DEF Bytes, BytesCut
    <3>3. Len(c) = n /\ \A i \in 1..n : c[i] = packed.text[i]
      BY <2>4, <3>1
    <3>4. ComesOK'
      BY <3>2, <3>3 DEF ComesOK
    <3>5. packed'.good <= Len(packed'.text) /\ packed'.good <= Len(packed'.comes)
      BY <2>4, <3>2, <3>3
    <3> QED
      BY <2>1, <3>2, <3>4, <3>5, AtFirstNext
  <2>6. ASSUME NEW n \in 0..packed.good, NEW m \in 0..MaxWrong, BytesDamaged(n, m) PROVE UnpackInv'
    <3>1. PICK c : c = SubSeq(packed.comes, 1, n) \o [i \in 1..m |-> Wrong]
      OBVIOUS
    <3>2. m \in Nat /\ [i \in 1..m |-> Wrong] \in Seq(Outs)
      <4>1. m \in Nat
        BY InflateAssumption
      <4>2. [i \in 1..m |-> Wrong] \in [1..m -> Outs]
        BY DEF Outs
      <4> QED
        BY <4>1, <4>2, SeqDef
    <3>3. c \in Seq(Outs) /\ Len(c) \in Nat /\ n <= Len(c) /\ \A i \in 1..n : c[i] = packed.text[i]
      <4>1. PICK a \in Seq(Outs), b \in Seq(Outs) : a = SubSeq(packed.comes, 1, n) /\ b = [i \in 1..m |-> Wrong]
        BY <2>4, <3>2
      <4>2. c = a \o b /\ Len(a) = n /\ \A i \in 1..n : a[i] = packed.text[i]
        BY <2>4, <3>1, <4>1
      <4>3. a \o b \in Seq(Outs) /\ Len(a \o b) = Len(a) + Len(b)
            /\ \A i \in 1..Len(a) + Len(b) : (a \o b)[i] = IF i <= Len(a) THEN a[i] ELSE b[i - Len(a)]
        BY ConcatProperties
      <4>4. Len(b) \in Nat /\ n \in Nat
        BY <2>4, LenProperties
      <4> QED
        BY <4>2, <4>3, <4>4
    <3>4. packed' = [packed EXCEPT !.good = n, !.ends = "damaged", !.comes = c]
      BY <2>6, <3>1 DEF BytesDamaged
    <3>5. /\ packed' \in Bytes /\ packed'.good = n /\ packed'.text = packed.text
          /\ packed'.comes = c /\ packed'.ends = "damaged" /\ ~packed'.behind
      BY <2>1, <2>2, <2>4, <3>3, <3>4 DEF Bytes
    <3>6. ComesOK'
      BY <3>3, <3>5 DEF ComesOK
    <3>7. packed'.good <= Len(packed'.text) /\ packed'.good <= Len(packed'.comes)
      BY <2>4, <3>3, <3>5
    <3> QED
      BY <2>1, <3>5, <3>6, <3>7, AtFirstNext
  <2> QED
    BY <1>3, <2>3, <2>5, <2>6 DEF Arrives
<1>4. CASE Decompress
  <2>1. /\ packed' = packed /\ ctx' = ctx /\ result' = result /\ result = << >> /\ ctx = Start
        /\ pc' \in {"inflate", "done"} /\ failed' \in BOOLEAN
        /\ pc' = "inflate" => packed # NoBytes
        /\ pc' = "done" /\ packed # NoBytes => failed'
    BY <1>1, <1>4 DEF UpTo, Decompress
  <2>2. InflateTypeOK'
    BY <1>1, <2>1 DEF InflateTypeOK
  <2>3. packed.ends = "none" <=> packed = NoBytes
    <3>1. ASSUME packed.ends = "none" PROVE packed = NoBytes
      <4>1. packed \in Bytes /\ packed.text = << >> /\ packed.comes = << >> /\ packed.good = 0 /\ packed.behind = FALSE
        BY <1>1, <3>1, Emptiness DEF InflateTypeOK, Bytes, ComesOK, Outs
      <4> QED
        BY <3>1, <4>1 DEF NoBytes, Bytes
    <3> QED
      BY <3>1, Emptiness
  <2>4. SubSeq(packed.comes, 1, 0) = << >> /\ 0 <= Len(packed.comes)
    BY <1>1, SubSeqEmpty, LenProperties DEF InflateTypeOK
  <2>5. packed.ends \in {"cut", "damaged", "whole"} => packed # NoBytes
    BY Emptiness
  <2>6. ComesOK'
    BY <1>1, <2>1 DEF ComesOK
  <2>7. UpTo' /\ EndsOK'
    BY <1>1, <2>1, <2>3, <2>4, <2>5, Emptiness DEF UpTo, EndsOK, MayStarve
  <2> QED
    BY <2>2, <2>6, <2>7 DEF UnpackInv
<1>5. ASSUME NEW ret \in Codes, InflateStep(ret) PROVE UnpackInv'
  BY <1>5, UnpackStep
<1>6. CASE UNCHANGED inflateVars
  BY <1>6 DEF inflateVars, UnpackInv, InflateTypeOK, ComesOK, UpTo, EndsOK, MayStarve
<1> QED
  BY <1>2, <1>3, <1>4, <1>5, <1>6 DEF InflateNext

(* The types hold, and zlib never gives more than is there. *)
THEOREM UnpackTypes == InflateSpec => []InflateTypeOK
<1>1. UnpackInv => InflateTypeOK
  BY DEF UnpackInv
<1> QED
  BY <1>1, UnpackInit, UnpackNext, PTL DEF InflateSpec

(* comex_zlib_decompress returns the whole text that was packed if nothing happened
   to its bytes and memory was enough, of cut bytes as much of it as still comes
   out, and of damaged bytes a result that is right up to the damage and loses
   at most the last buffer (comex_zlib.cpp:50-71). *)
THEOREM UnpackCorrect == InflateSpec => []UnpacksWhatWasPacked
<1>1. UnpackInv => UnpacksWhatWasPacked
  BY UnpackGives
<1> QED
  BY <1>1, UnpackInit, UnpackNext, PTL DEF InflateSpec

-----------------------------------------------------------------------------
(* ArchiveZip, ArchiveTar *)

(* A name has one entry in the archive, and one that is alive in the list of an
   object. *)
OneEach(es) == \A i, j \in DOMAIN es : es[i].live /\ es[j].live /\ es[i].name = es[j].name => i = j

ZipInv ==
  /\ \A i, j \in DOMAIN zdisk : zdisk[i].name = zdisk[j].name => i = j
  /\ \A z \in Zips : OneEach(zctx[z].ents)

(* The TAR is within its file; one that the latest open began for writing has
   written there what was added since, from the beginning. *)
TarInv ==
  /\ IF tar.file = "" THEN tar.stem = "" /\ ~tctx.open ELSE tar.stem = Stem[tar.file]
  /\ proper /\ tar.file # "" => tar.type = Suffix[tar.file]
  /\ \A i \in DOMAIN added : added[i] # Eof
  /\ tctx.open =>
       /\ tctx.at <= Len(tdisk[tctx.path].blocks)
       /\ tdisk[tctx.path].format # "raw" => tctx.at = 0 /\ ~tctx.reading
  /\ tctx.open /\ ~tar.reading =>
       /\ ~tctx.reading /\ tctx.path = tar.stem
       /\ SubSeq(tdisk[tctx.path].blocks, 1, tctx.at) = added

IInv == TypeOK /\ ZipInv /\ TarInv

-----------------------------------------------------------------------------
(* Blocks and files of a tar archive. *)

Piece   == [from : SUBSET Sources, content : Contents]
TarFile == [format : {"none", "raw", "gz", "bz2"}, blocks : Blocks]

LEMMA BlocksAre ==
  /\ Blocks = Seq(Piece) /\ << >> \in Blocks
  /\ \A s \in Blocks : Len(s) \in Nat /\ DOMAIN s = 1..Len(s)
  BY EmptySeq, LenProperties DEF Blocks, Piece

LEMMA SeqOfType == ASSUME NEW T, NEW n \in Nat, NEW f \in [1..n -> T] PROVE f \in Seq(T) /\ Len(f) = n
  BY SeqDef, LenProperties

LEMMA PieceOf ==
  /\ Eof \in Piece
  /\ \A f \in Sources : FilesTypeOK => Block(f) \in Piece /\ Block(f) # Eof
<1>1. Eof \in Piece
  BY FilesAssumption DEF Eof, Piece, Contents
<1>2. ASSUME NEW f \in Sources, FilesTypeOK PROVE Block(f) \in Piece /\ Block(f) # Eof
  BY <1>2 DEF Block, Eof, Piece, FilesTypeOK
<1> QED
  BY <1>1, <1>2

(* A set as a sequence. *)
LEMMA InSequence ==
  ASSUME NEW S, IsFiniteSet(S)
  PROVE  /\ Cardinality(S) \in Nat
         /\ SetToSeq(S) \in [1..Cardinality(S) -> S]
         /\ \A i, j \in 1..Cardinality(S) : SetToSeq(S)[i] = SetToSeq(S)[j] => i = j
         /\ \A x \in S : \E i \in 1..Cardinality(S) : SetToSeq(S)[i] = x
<1> DEFINE n == Cardinality(S)
<1>1. n \in Nat /\ ExistsBijection(1..n, S)
  BY FS_CardinalityType
<1>2. \E f \in [1..n -> S] : IsInjective(f)
  BY <1>1 DEF ExistsBijection, Bijection, Injection
<1>3. SetToSeq(S) \in [1..n -> S] /\ IsInjective(SetToSeq(S))
  BY <1>2 DEF SetToSeq
<1>4. SetToSeq(S) \in Injection(1..n, S)
  BY <1>3 DEF Injection
<1>5. IsFiniteSet(1..n) /\ Cardinality(1..n) = n
  BY <1>1, FS_Interval
<1>6. SetToSeq(S) \in Surjection(1..n, S)
  BY <1>4, <1>5, FS_Injection
<1>7. \A x \in S : \E i \in 1..n : SetToSeq(S)[i] = x
  BY <1>6 DEF Surjection
<1> QED
  BY <1>1, <1>3, <1>7 DEF IsInjective

LEMMA ListedFinite == IsFiniteSet(Listed) /\ Listed \subseteq Sources
  BY FilesAssumption, FS_Subset DEF Listed

(* What a write into a file leaves: what was in front of it, then the new
   blocks, then what is behind them. *)
LEMMA OverlaidIs ==
  ASSUME NEW file \in TarFile, NEW at \in Nat, NEW new \in Blocks, at <= Len(file.blocks),
         file.format # "raw" => at = 0
  PROVE  /\ Overlaid(file, at, new) \in TarFile
         /\ Overlaid(file, at, new).format = "raw"
         /\ at + Len(new) <= Len(Overlaid(file, at, new).blocks)
         /\ SubSeq(Overlaid(file, at, new).blocks, 1, at + Len(new)) = SubSeq(file.blocks, 1, at) \o new
<1> DEFINE old == file.blocks
           l == Len(old)
           front == SubSeq(old, 1, at)
           back == SubSeq(old, at + Len(new) + 1, l)
           all == front \o new \o back
<1>1. old \in Seq(Piece) /\ new \in Seq(Piece) /\ l \in Nat /\ Len(new) \in Nat /\ DOMAIN old = 1..l
  BY BlocksAre DEF TarFile
<1>2. front \in Seq(Piece) /\ Len(front) = at
  BY <1>1, SubSeqProperties
<1>3. back \in Seq(Piece) /\ Len(back) \in Nat
  BY <1>1, SubSeqProperties, LenProperties
<1>4. CASE file.format = "raw"
  <2> HIDE DEF front, back
  <2>1. front \o new \in Seq(Piece) /\ Len(front \o new) = at + Len(new)
    BY <1>1, <1>2, ConcatProperties
  <2>2. all \in Seq(Piece) /\ Len(all) = at + Len(new) + Len(back)
    <3> DEFINE fn == front \o new
    <3>1. fn \in Seq(Piece) /\ Len(fn) = at + Len(new) /\ all = fn \o back
      BY <2>1
    <3> HIDE DEF fn, all
    <3>2. fn \o back \in Seq(Piece) /\ Len(fn \o back) = Len(fn) + Len(back)
      BY <3>1, <1>3, ConcatProperties
    <3> QED
      BY <3>1, <3>2
  <2>3. SubSeq(all, 1, at + Len(new)) = front \o new
    <3> DEFINE fn == front \o new
    <3> HIDE DEF fn
    <3>1. fn \in Seq(Piece) /\ Len(fn) = at + Len(new) /\ all = fn \o back
      BY <2>1 DEF fn
    <3>2. SubSeq(fn \o back, 1, Len(fn)) = fn
      BY <3>1, <1>3
    <3> QED
      BY <3>1, <3>2 DEF fn
  <2>4. Overlaid(file, at, new) = [format |-> "raw", blocks |-> all]
    BY <1>4 DEF Overlaid, Plain, front, back
  <2>5. at + Len(new) <= Len(all)
    BY <2>2, <1>1, <1>3
  <2> HIDE DEF all
  <2>6. Overlaid(file, at, new) \in TarFile /\ Overlaid(file, at, new).format = "raw"
    BY <2>2, <2>4, BlocksAre DEF TarFile
  <2>7. Overlaid(file, at, new).blocks = all
    BY <2>4
  <2> QED
    BY <2>3, <2>5, <2>6, <2>7 DEF front
<1>5. CASE file.format # "raw"
  <2>1. Overlaid(file, at, new) = [format |-> "raw", blocks |-> new] /\ at = 0
    BY <1>5 DEF Overlaid, Plain
  <2>2. SubSeq(new, 1, Len(new)) = new /\ SubSeq(old, 1, 0) = << >> /\ << >> \o new = new
    BY <1>1
  <2> QED
    BY <2>1, <2>2, <1>1 DEF TarFile
<1> QED
  BY <1>4, <1>5

LEMMA ReadableIs ==
  ASSUME NEW bs \in Blocks
  PROVE  /\ Readable(bs) \in Blocks
         /\ \A n \in Nat : /\ n < Len(bs) /\ bs[n + 1] = Eof
                           /\ \A i \in 1..n : bs[i] # Eof
                           => Readable(bs) = SubSeq(bs, 1, n)
<1> DEFINE ends == {i \in DOMAIN bs : bs[i] = Eof}
<1>1. bs \in Seq(Piece) /\ Len(bs) \in Nat /\ DOMAIN bs = 1..Len(bs)
  BY BlocksAre
<1>2. CASE ends = {}
  <2>1. Readable(bs) = bs
    BY <1>2 DEF Readable
  <2>2. \A n \in Nat : n < Len(bs) => bs[n + 1] # Eof
    BY <1>1, <1>2
  <2> QED
    BY <2>1, <2>2
<1>3. CASE ends # {}
  <2>1. ends \in SUBSET Nat
    BY <1>1
  <2>2. Min(ends) \in ends /\ \A x \in ends : Min(ends) <= x
    <3> HIDE DEF ends
    <3> QED
      BY <1>3, <2>1, MinOf
  <2> DEFINE m == Min(ends)
  <2>3. m \in 1..Len(bs) /\ bs[m] = Eof
    BY <2>2, <1>1
  <2>4. \A x \in 1..Len(bs) : bs[x] = Eof => m <= x
    BY <2>2, <1>1
  <2>5. Readable(bs) = SubSeq(bs, 1, m - 1)
    BY <1>3 DEF Readable
  <2> HIDE DEF m, ends
  <2>6. SubSeq(bs, 1, m - 1) \in Seq(Piece)
    BY <2>3, <1>1, SubSeqProperties
  <2>7. ASSUME NEW n \in Nat, n < Len(bs), bs[n + 1] = Eof, \A i \in 1..n : bs[i] # Eof
        PROVE  m = n + 1
    BY <2>3, <2>4, <2>7, <1>1
  <2> QED
    BY <2>5, <2>6, <2>7, BlocksAre
<1> QED
  BY <1>2, <1>3

-----------------------------------------------------------------------------
(* The tar object. *)

TarTypes == FilesTypeOK /\ TarTypeOK

LEMMA TarParts ==
  ASSUME TarTypeOK
  PROVE  /\ tdisk \in [TarPaths -> TarFile]
         /\ tctx.at \in Nat /\ tctx.path \in TarPaths /\ tctx.open \in BOOLEAN /\ tctx.reading \in BOOLEAN
         /\ tar.file \in TarPaths \cup {""} /\ tar.stem \in TarPaths \cup {""}
         /\ tar.reading \in BOOLEAN /\ tar.added \in BOOLEAN /\ tar.type \in {"none", "gz", "bz2"}
         /\ added \in Blocks /\ proper \in BOOLEAN
  BY DEF TarTypeOK, TarFile

LEMMA OpenTar ==
  ASSUME TarTypes, TarInv, NEW p \in TarPaths, NEW r \in BOOLEAN, TarOpen(p, r)
  PROVE  TarTypes' /\ TarInv'
<1> DEFINE type == IF Suffix[p] # "none" THEN Suffix[p] ELSE tar.type
           ok   == r => type # "none" /\ tdisk[p].format # "none"
           q    == Stem[p]
           new  == IF r THEN Decompressed(p, q, type)
                   ELSE IF tdisk[q].format = "none" THEN Plain(<< >>) ELSE tdisk[q]
<1>1. Suffix[p] \in {"gz", "bz2", "none"} /\ q \in TarPaths /\ p # ""
  BY TarAssumption
<1>2. type \in {"none", "gz", "bz2"}
  BY <1>1, TarParts DEF TarTypes
<1>3. new \in TarFile /\ (r => new.format = "raw")
  <2>1. tdisk[p] \in TarFile /\ tdisk[q] \in TarFile
    BY <1>1, TarParts DEF TarTypes
  <2>2. Unpacked(p, type) \in Blocks
    BY <2>1, BlocksAre DEF Unpacked, TarFile
  <2>3. \A bs \in Blocks : Plain(bs) \in TarFile /\ Plain(bs).format = "raw"
    BY DEF Plain, TarFile
  <2>4. Decompressed(p, q, type) \in TarFile /\ Decompressed(p, q, type).format = "raw"
    BY <2>2, <2>3, BlocksAre DEF Decompressed
  <2> QED
    BY <2>1, <2>3, <2>4, BlocksAre
<1>4. /\ tar' = [tar EXCEPT !.file = p, !.stem = q, !.reading = r, !.type = type]
      /\ proper' = (type = Suffix[p]) /\ added' = << >> /\ UNCHANGED files
      /\ tctx' = IF ok THEN [open |-> TRUE, reading |-> r, path |-> q, at |-> 0] ELSE tctx
      /\ tdisk' = IF ok THEN [tdisk EXCEPT ![q] = new] ELSE tdisk
  BY DEF TarOpen, WorkFile
<1> HIDE DEF type, ok, q, new
<1>5. /\ tar' \in [file : TarPaths \cup {""}, stem : TarPaths \cup {""}, reading : BOOLEAN,
                   type : {"none", "gz", "bz2"}, added : BOOLEAN]
      /\ tar'.file = p /\ tar'.stem = q /\ tar'.reading = r /\ tar'.type = type
  BY <1>1, <1>2, <1>4 DEF TarTypes, TarTypeOK
<1>6. tdisk' \in [TarPaths -> TarFile] /\ (ok => tdisk'[q] = new)
  BY <1>1, <1>3, <1>4, TarParts DEF TarTypes
<1>7. tctx' \in [open : BOOLEAN, reading : BOOLEAN, path : TarPaths, at : Nat]
  BY <1>1, <1>4 DEF TarTypes, TarTypeOK
<1>8. TarTypes'
  BY <1>4, <1>5, <1>6, <1>7, BlocksAre DEF TarTypes, TarTypeOK, FilesTypeOK, TarFile
<1>9. ASSUME ok PROVE TarInv'
  <2>1. tctx'.open /\ tctx'.reading = r /\ tctx'.path = q /\ tctx'.at = 0
    BY <1>4, <1>9
  <2>2. new.blocks \in Blocks /\ Len(new.blocks) \in Nat /\ SubSeq(new.blocks, 1, 0) = << >>
    BY <1>3, BlocksAre DEF TarFile
  <2>3. tar'.file # "" /\ tar'.stem = Stem[tar'.file] /\ (proper' => tar'.type = Suffix[tar'.file])
    BY <1>1, <1>4, <1>5 DEF q
  <2>4. tdisk'[tctx'.path] = new
    BY <2>1, <1>6, <1>9
  <2>5. tctx'.at <= Len(tdisk'[tctx'.path].blocks) /\ SubSeq(tdisk'[tctx'.path].blocks, 1, tctx'.at) = added'
    BY <2>1, <2>2, <2>4, <1>4
  <2>6. tdisk'[tctx'.path].format # "raw" => tctx'.at = 0 /\ ~tctx'.reading
    BY <2>1, <2>4, <1>3
  <2>7. ~tar'.reading => ~tctx'.reading /\ tctx'.path = tar'.stem
    BY <2>1, <1>5
  <2>8. \A i \in DOMAIN added' : added'[i] # Eof
    BY <1>4
  <2> QED
    BY <2>3, <2>5, <2>6, <2>7, <2>8 DEF TarInv
<1>10. ASSUME ~ok PROVE TarInv'
  <2>1. r /\ UNCHANGED <<tctx, tdisk>>
    BY <1>10, <1>4 DEF ok
  <2>2. tar'.file # "" /\ tar'.stem = Stem[tar'.file] /\ (proper' => tar'.type = Suffix[tar'.file])
    BY <1>1, <1>4, <1>5 DEF q
  <2>3. tar'.reading /\ \A i \in DOMAIN added' : added'[i] # Eof
    <3>1. tar'.reading
      BY <2>1, <1>5
    <3>2. added' = << >>
      BY <1>4
    <3> QED
      BY <3>1, <3>2
  <2>4. tctx'.open => /\ tctx'.at <= Len(tdisk'[tctx'.path].blocks)
                      /\ tdisk'[tctx'.path].format # "raw" => tctx'.at = 0 /\ ~tctx'.reading
    BY <2>1 DEF TarInv
  <2> QED
    BY <2>2, <2>3, <2>4 DEF TarInv
<1> QED
  BY <1>8, <1>9, <1>10

(* addFile and addDirectory. *)
LEMMA AppendKeeps ==
  ASSUME TarTypes, TarInv, NEW new \in Blocks, \A i \in DOMAIN new : new[i] # Eof, Append1(new),
         tar' = tar \/ tar' = Noted, proper' = proper, UNCHANGED files
  PROVE  TarTypes' /\ TarInv'
<1> DEFINE p == tctx.path
           at == tctx.at
           file == Overlaid(tdisk[p], at, new)
<1>1. /\ tctx.open /\ ~tctx.reading
      /\ tdisk' = [tdisk EXCEPT ![p] = file]
      /\ tctx' = [tctx EXCEPT !.at = at + Len(new)]
      /\ added' = added \o new
  BY DEF Append1
<1>2. /\ tdisk \in [TarPaths -> TarFile] /\ p \in TarPaths /\ at \in Nat /\ added \in Blocks
      /\ new \in Seq(Piece) /\ added \in Seq(Piece) /\ Len(new) \in Nat
  BY TarParts, BlocksAre DEF TarTypes
<1>3. at <= Len(tdisk[p].blocks) /\ (tdisk[p].format # "raw" => at = 0)
  BY <1>1 DEF TarInv
<1>4. /\ file \in TarFile /\ file.format = "raw" /\ at + Len(new) <= Len(file.blocks)
      /\ SubSeq(file.blocks, 1, at + Len(new)) = SubSeq(tdisk[p].blocks, 1, at) \o new
  BY <1>2, <1>3, OverlaidIs
<1> HIDE DEF file
<1>5. tdisk' \in [TarPaths -> TarFile] /\ tdisk'[p] = file
  BY <1>1, <1>2, <1>4
<1>6. /\ tctx' \in [open : BOOLEAN, reading : BOOLEAN, path : TarPaths, at : Nat]
      /\ tctx'.open /\ ~tctx'.reading /\ tctx'.path = p /\ tctx'.at = at + Len(new)
  <2>1. tctx \in [open : BOOLEAN, reading : BOOLEAN, path : TarPaths, at : Nat]
    BY DEF TarTypes, TarTypeOK
  <2>5. at + Len(new) \in Nat
    <3> HIDE DEF at
    <3> QED
      BY <1>2
  <2> DEFINE n == at + Len(new)
  <2> HIDE DEF n, at, p
  <2>2. tctx' = [tctx EXCEPT !.at = n] /\ n \in Nat
    BY <2>5, <1>1 DEF n, at
  <2>3. tctx' \in [open : BOOLEAN, reading : BOOLEAN, path : TarPaths, at : Nat]
    BY <2>1, <2>2
  <2>4. tctx'.open = tctx.open /\ tctx'.reading = tctx.reading /\ tctx'.path = tctx.path /\ tctx'.at = n
    BY <2>1, <2>2
  <2> QED
    BY <2>3, <2>4, <1>1 DEF n, at, p
<1>7. /\ tar' \in [file : TarPaths \cup {""}, stem : TarPaths \cup {""}, reading : BOOLEAN,
                   type : {"none", "gz", "bz2"}, added : BOOLEAN]
      /\ tar'.file = tar.file /\ tar'.stem = tar.stem /\ tar'.reading = tar.reading /\ tar'.type = tar.type
  BY DEF TarTypes, TarTypeOK, Noted
<1>8. added' \in Blocks /\ \A i \in DOMAIN added' : added'[i] # Eof
  <2>1. /\ added \o new \in Seq(Piece) /\ Len(added \o new) = Len(added) + Len(new)
        /\ \A i \in 1..(Len(added) + Len(new)) :
             (added \o new)[i] = IF i <= Len(added) THEN added[i] ELSE new[i - Len(added)]
    BY <1>2, ConcatProperties
  <2>2. /\ DOMAIN (added \o new) = 1..(Len(added) + Len(new)) /\ Len(added) \in Nat
        /\ DOMAIN added = 1..Len(added) /\ DOMAIN new = 1..Len(new)
    BY <2>1, <1>2, LenProperties
  <2>3. \A i \in 1..Len(added) : added[i] # Eof
    BY <2>2 DEF TarInv
  <2>4. ASSUME NEW i \in 1..(Len(added) + Len(new)) PROVE (added \o new)[i] # Eof
    <3>1. CASE i <= Len(added)
      BY <3>1, <2>1, <2>2, <2>3
    <3>2. CASE ~(i <= Len(added))
      <4>1. i - Len(added) \in 1..Len(new)
        BY <3>2, <2>2, <1>2
      <4> QED
        BY <3>2, <4>1, <2>1, <2>2
    <3> QED
      BY <3>1, <3>2
  <2> QED
    BY <1>1, <2>1, <2>2, <2>4, BlocksAre
<1>9. TarTypes'
  BY <1>5, <1>6, <1>7, <1>8, TarParts DEF TarTypes, TarTypeOK, FilesTypeOK, TarFile
<1>10. ~tar'.reading => tctx'.path = tar'.stem /\ SubSeq(tdisk'[tctx'.path].blocks, 1, tctx'.at) = added'
  BY <1>1, <1>4, <1>5, <1>6, <1>7 DEF TarInv
<1>11. TarInv'
  BY <1>1, <1>4, <1>5, <1>6, <1>7, <1>8, <1>10 DEF TarInv
<1> QED
  BY <1>9, <1>11

LEMMA AddFileKeeps ==
  ASSUME TarTypes, TarInv, NEW f \in Sources, TarAddFile(f)
  PROVE  TarTypes' /\ TarInv'
<1> DEFINE new == <<Block(f)>>
<1>1. new \in Blocks /\ \A i \in DOMAIN new : new[i] # Eof
  BY PieceOf, BlocksAre DEF TarTypes
<1>2. Append1(new) /\ tar' = Noted /\ proper' = proper /\ UNCHANGED files
  BY DEF TarAddFile
<1> HIDE DEF new
<1> QED
  BY <1>1, <1>2, AppendKeeps

LEMMA AddDirectoryKeeps ==
  ASSUME TarTypes, TarInv, TarAddDirectory
  PROVE  TarTypes' /\ TarInv'
<1> DEFINE n == Cardinality(Listed)
           new == [i \in 1..n |-> Block(SetToSeq(Listed)[i])]
<1>1. n \in Nat /\ SetToSeq(Listed) \in [1..n -> Listed] /\ Listed \subseteq Sources
  BY ListedFinite, InSequence
<1>2. \A i \in 1..n : Block(SetToSeq(Listed)[i]) \in Piece /\ Block(SetToSeq(Listed)[i]) # Eof
  <2> HIDE DEF n
  <2> QED
    BY <1>1, PieceOf DEF TarTypes
<1>3. Append1(new) /\ tar' = tar /\ proper' = proper /\ UNCHANGED files
  BY DEF TarAddDirectory
<1>4. new \in [1..n -> Piece] /\ DOMAIN new = 1..n /\ \A i \in DOMAIN new : new[i] # Eof
  <2> HIDE DEF n
  <2> QED
    BY <1>2
<1> HIDE DEF n, new
<1>5. new \in Blocks
  BY <1>1, <1>4, SeqOfType, BlocksAre
<1> QED
  BY <1>3, <1>4, <1>5, AppendKeeps

LEMMA ExtractKeeps ==
  ASSUME TarTypes, TarInv, TarExtract
  PROVE  TarTypes' /\ TarInv'
<1> DEFINE all == tdisk[tctx.path].blocks
           rest == SubSeq(all, tctx.at + 1, Len(all))
           bs == Readable(rest)
           of(f) == {i \in DOMAIN bs : f \in bs[i].from}
<1>1. /\ tdisk \in [TarPaths -> TarFile] /\ tctx.path \in TarPaths /\ tctx.at \in Nat
      /\ all \in Seq(Piece) /\ Len(all) \in Nat /\ DOMAIN all = 1..Len(all)
  <2>1. tdisk \in [TarPaths -> TarFile] /\ tctx.path \in TarPaths /\ tctx.at \in Nat
    BY TarParts DEF TarTypes
  <2>2. all \in Blocks
    BY <2>1 DEF TarFile
  <2> QED
    BY <2>1, <2>2, BlocksAre
<1>2. rest \in Blocks
  <2> HIDE DEF all
  <2> QED
    BY <1>1, SubSeqProperties, BlocksAre
<1>3. bs \in Seq(Piece) /\ Len(bs) \in Nat /\ DOMAIN bs = 1..Len(bs)
  <2> HIDE DEF rest
  <2> QED
    BY <1>2, ReadableIs, BlocksAre
<1>4. ASSUME NEW f \in Sources, of(f) # {} PROVE bs[Max(of(f))].content \in Contents
  <2>1. of(f) \in SUBSET (1..Len(bs))
    BY <1>3
  <2>2. Max(of(f)) \in of(f)
    <3> HIDE DEF of
    <3> QED
      BY <1>3, <1>4, <2>1, MaxOf
  <2>3. bs[Max(of(f))] \in Piece
    <3> HIDE DEF of
    <3> QED
      BY <2>1, <2>2, <1>3
  <2> QED
    BY <2>3 DEF Piece
<1>5. files' = [f \in Sources |-> IF of(f) = {} THEN files[f] ELSE bs[Max(of(f))].content]
  BY DEF TarExtract
<1>6. FilesTypeOK'
  <2> HIDE DEF of, bs
  <2> QED
    BY <1>4, <1>5 DEF FilesTypeOK, TarTypes
<1>7. /\ UNCHANGED <<tdisk, tar, added, proper>>
      /\ tctx.open /\ tctx.reading /\ tctx' = [tctx EXCEPT !.at = Len(all)]
  BY DEF TarExtract
<1> HIDE DEF all
<1>8. /\ tctx' \in [open : BOOLEAN, reading : BOOLEAN, path : TarPaths, at : Nat]
      /\ tctx'.open /\ tctx'.reading /\ tctx'.path = tctx.path /\ tctx'.at = Len(all)
  BY <1>1, <1>7 DEF TarTypes, TarTypeOK
<1>9. TarTypes'
  BY <1>6, <1>7, <1>8 DEF TarTypes, TarTypeOK
<1>10. TarInv'
  <2>1. tdisk'[tctx'.path].blocks = all /\ tdisk'[tctx'.path].format = "raw" /\ tar.reading
    BY <1>1, <1>7, <1>8 DEF TarInv, all
  <2>2. tctx'.at <= Len(tdisk'[tctx'.path].blocks)
    BY <2>1, <1>1, <1>8
  <2>3. /\ IF tar'.file = "" THEN tar'.stem = "" /\ ~tctx'.open ELSE tar'.stem = Stem[tar'.file]
        /\ proper' /\ tar'.file # "" => tar'.type = Suffix[tar'.file]
        /\ \A i \in DOMAIN added' : added'[i] # Eof
    BY <1>7 DEF TarInv
  <2> QED
    BY <2>1, <2>2, <2>3, <1>7 DEF TarInv
<1> QED
  BY <1>9, <1>10

(* What a close leaves: the end mark is behind the last entry, and the file of
   the name has what the plain file has. *)
LEMMA Closing ==
  ASSUME TarTypes, TarInv, tctx.open
  PROVE  /\ Compressed(Ended) \in [TarPaths -> TarFile]
         /\ \A p \in TarPaths : Compressed(Ended)[p] # tdisk[p] => p = tctx.path \/ (p = tar.file /\ ~tar.reading)
         /\ proper /\ ~tar.reading /\ tar.added => Readable(Compressed(Ended)[tar.file].blocks) = added
<1> DEFINE path == tctx.path
           at == tctx.at
           end == Overlaid(tdisk[path], at, <<Eof>>)
<1>1. /\ tdisk \in [TarPaths -> TarFile] /\ path \in TarPaths /\ at \in Nat /\ added \in Seq(Piece)
      /\ tar.file \in TarPaths /\ tar.stem = Stem[tar.file] /\ tar.stem \in TarPaths
      /\ tar.type \in {"none", "gz", "bz2"} /\ tar.reading \in BOOLEAN /\ tar.added \in BOOLEAN
      /\ Suffix[tar.file] \in {"gz", "bz2", "none"}
  BY TarParts, BlocksAre, TarAssumption DEF TarTypes, TarInv
<1>2. at <= Len(tdisk[path].blocks) /\ (tdisk[path].format # "raw" => at = 0)
  BY DEF TarInv
<1>3. <<Eof>> \in Blocks /\ Len(<<Eof>>) = 1
  BY PieceOf, BlocksAre
<1>4. /\ end \in TarFile /\ end.format = "raw" /\ at + 1 <= Len(end.blocks)
      /\ SubSeq(end.blocks, 1, at + 1) = SubSeq(tdisk[path].blocks, 1, at) \o <<Eof>>
  <2> DEFINE mark == <<Eof>>
  <2>1. mark \in Blocks /\ Len(mark) = 1
    BY <1>3
  <2> HIDE DEF mark
  <2>2. /\ Overlaid(tdisk[path], at, mark) \in TarFile /\ Overlaid(tdisk[path], at, mark).format = "raw"
        /\ at + Len(mark) <= Len(Overlaid(tdisk[path], at, mark).blocks)
        /\ SubSeq(Overlaid(tdisk[path], at, mark).blocks, 1, at + Len(mark))
             = SubSeq(tdisk[path].blocks, 1, at) \o mark
    BY <1>1, <1>2, <2>1, OverlaidIs
  <2> QED
    BY <2>1, <2>2 DEF mark
<1>5. Ended = IF tar.added /\ ~tctx.reading THEN [tdisk EXCEPT ![path] = end] ELSE tdisk
  BY DEF Ended
<1> HIDE DEF end, path, at
<1>6. /\ Ended \in [TarPaths -> TarFile]
      /\ \A p \in TarPaths : p # path => Ended[p] = tdisk[p]
      /\ tar.added /\ ~tctx.reading => Ended[path] = end
  BY <1>1, <1>4, <1>5
<1>7. ASSUME NEW d \in [TarPaths -> TarFile]
      PROVE  /\ Compressed(d) \in [TarPaths -> TarFile]
             /\ \A p \in TarPaths : Compressed(d)[p] # d[p] => p = tar.file /\ ~tar.reading
             /\ ~tar.reading /\ tar.type # "none" /\ tar.file # tar.stem
                  => Compressed(d)[tar.file].blocks = d[tar.stem].blocks
             /\ tar.type = "none" => Compressed(d) = d
  <2> DEFINE small == [format |-> tar.type, blocks |-> IF tar.file = tar.stem THEN << >> ELSE d[tar.stem].blocks]
  <2>1. small \in TarFile
    BY <1>1, BlocksAre DEF TarFile
  <2>2. Compressed(d) = IF tar.reading \/ tar.type = "none" THEN d ELSE [d EXCEPT ![tar.file] = small]
    BY DEF Compressed
  <2>3. tar.file # tar.stem => small.blocks = d[tar.stem].blocks
    OBVIOUS
  <2> HIDE DEF small
  <2> QED
    BY <2>1, <2>2, <2>3, <1>1
<1>8. Compressed(Ended) \in [TarPaths -> TarFile]
  BY <1>6, <1>7
<1>9. \A p \in TarPaths : Compressed(Ended)[p] # tdisk[p] => p = path \/ (p = tar.file /\ ~tar.reading)
  BY <1>6, <1>7
<1>10. ASSUME proper, ~tar.reading, tar.added
       PROVE  Readable(Compressed(Ended)[tar.file].blocks) = added
  <2> DEFINE bs == end.blocks
             old == tdisk[path].blocks
  <2>1. ~tctx.reading /\ path = tar.stem /\ SubSeq(old, 1, at) = added /\ \A i \in DOMAIN added : added[i] # Eof
    BY <1>10 DEF TarInv, path, at
  <2>2. tar.type = Suffix[tar.file]
    BY <1>1, <1>10, TarAssumption DEF TarInv
  <2>3. Compressed(Ended)[tar.file].blocks = bs
    <3>1. Ended[path].blocks = bs
      BY <1>6, <1>10, <2>1
    <3>2. CASE tar.type = "none"
      <4>1. tar.file = path
        BY <3>2, <2>1, <2>2, <1>1, TarAssumption
      <4> QED
        BY <3>1, <3>2, <4>1, <1>6, <1>7
    <3>3. CASE tar.type # "none"
      <4>1. tar.file # tar.stem
        BY <3>3, <2>2, <1>1, TarAssumption
      <4> QED
        BY <3>1, <3>3, <4>1, <2>1, <1>6, <1>7, <1>10
    <3> QED
      BY <3>2, <3>3
  <2>4. /\ bs \in Blocks /\ bs \in Seq(Piece) /\ Len(bs) \in Nat /\ DOMAIN bs = 1..Len(bs)
        /\ old \in Seq(Piece) /\ Len(old) \in Nat /\ DOMAIN old = 1..Len(old)
    <3>1. bs \in Blocks /\ old \in Blocks
      BY <1>1, <1>4 DEF TarFile
    <3> QED
      BY <3>1, BlocksAre
  <2> HIDE DEF bs, old
  <2>5. Len(added) = at /\ DOMAIN added = 1..at
    <3>1. Len(SubSeq(old, 1, at)) = at
      BY <1>1, <1>2, <2>4, SubSeqProperties DEF old
    <3> QED
      BY <3>1, <2>1, <1>1, LenProperties
  <2>6. at + 1 <= Len(bs) /\ SubSeq(bs, 1, at + 1) = added \o <<Eof>>
    BY <1>4, <2>1 DEF bs, old
  <2>7. \A i \in 1..(at + 1) : (added \o <<Eof>>)[i] = IF i <= at THEN added[i] ELSE Eof
    <3>1. \A i \in 1..(at + 1) : (added \o <<Eof>>)[i] = IF i <= at THEN added[i] ELSE <<Eof>>[i - at]
      BY <1>1, <1>3, <2>5, BlocksAre, ConcatProperties
    <3>2. ASSUME NEW i \in 1..(at + 1), ~(i <= at) PROVE <<Eof>>[i - at] = Eof
      <4>1. i - at = 1
        BY <3>2, <1>1
      <4> QED
        BY <4>1
    <3> QED
      BY <3>1, <3>2
  <2>8. \A i \in 1..(at + 1) : SubSeq(bs, 1, at + 1)[i] = bs[i]
    BY <1>1, <2>4, <2>6, SubSeqProperties
  <2>9. bs[at + 1] = Eof /\ \A i \in 1..at : bs[i] = added[i]
    BY <1>1, <2>6, <2>7, <2>8
  <2>10. Readable(bs) = SubSeq(bs, 1, at)
    <3>1. \A i \in 1..at : bs[i] # Eof
      BY <2>1, <2>5, <2>9
    <3>2. at < Len(bs)
      BY <2>4, <2>6, <1>1
    <3> QED
      BY <3>1, <3>2, <2>4, <2>9, <1>1, ReadableIs
  <2>11. SubSeq(bs, 1, at) = added
    <3>1. /\ SubSeq(bs, 1, at) \in Seq(Piece) /\ Len(SubSeq(bs, 1, at)) = at
          /\ \A i \in 1..at : SubSeq(bs, 1, at)[i] = bs[i]
      BY <1>1, <2>4, <2>6, SubSeqProperties
    <3> QED
      BY <3>1, <2>5, <2>9, <1>1, SeqEqual
  <2> QED
    BY <2>3, <2>10, <2>11
<1> QED
  BY <1>8, <1>9, <1>10 DEF path

LEMMA CloseKeeps ==
  ASSUME TarTypes, TarInv, TarClose
  PROVE  TarTypes' /\ TarInv'
<1>1. tctx.open /\ tctx' = NoTar /\ tdisk' = Compressed(Ended) /\ UNCHANGED <<files, tar, added, proper>>
  BY DEF TarClose
<1>2. tdisk' \in [TarPaths -> TarFile]
  BY <1>1, Closing
<1>3. tctx' \in [open : BOOLEAN, reading : BOOLEAN, path : TarPaths, at : Nat] /\ ~tctx'.open
  <2>1. (CHOOSE p \in TarPaths : TRUE) \in TarPaths
    BY TarParts DEF TarTypes
  <2> QED
    BY <1>1, <2>1 DEF NoTar
<1>4. TarTypes'
  BY <1>1, <1>2, <1>3 DEF TarTypes, TarTypeOK, FilesTypeOK, TarFile
<1> QED
  BY <1>1, <1>3, <1>4 DEF TarInv

LEMMA DestroyKeeps ==
  ASSUME TarTypes, TarInv, TarDestroy
  PROVE  TarTypes' /\ TarInv'
<1> DEFINE d == IF tctx.open THEN Compressed(Ended) ELSE tdisk
<1>1. /\ tdisk' = IF tar.file # tar.stem THEN [d EXCEPT ![tar.stem] = NoFile] ELSE d
      /\ tar' = Fresh /\ tctx' = NoTar /\ added' = << >> /\ proper' = TRUE /\ UNCHANGED files
  BY DEF TarDestroy
<1>2. d \in [TarPaths -> TarFile]
  BY Closing, TarParts DEF TarTypes
<1>3. NoFile \in TarFile
  BY BlocksAre DEF NoFile, TarFile
<1> HIDE DEF d
<1>4. tdisk' \in [TarPaths -> TarFile]
  BY <1>1, <1>2, <1>3
<1>5. tctx' \in [open : BOOLEAN, reading : BOOLEAN, path : TarPaths, at : Nat] /\ ~tctx'.open
  <2>1. (CHOOSE p \in TarPaths : TRUE) \in TarPaths
    BY TarParts DEF TarTypes
  <2> QED
    BY <1>1, <2>1 DEF NoTar
<1>6. /\ tar' \in [file : TarPaths \cup {""}, stem : TarPaths \cup {""}, reading : BOOLEAN,
                   type : {"none", "gz", "bz2"}, added : BOOLEAN]
      /\ tar'.file = "" /\ tar'.stem = ""
  BY <1>1 DEF Fresh
<1>7. TarTypes'
  BY <1>1, <1>4, <1>5, <1>6, BlocksAre DEF TarTypes, TarTypeOK, FilesTypeOK, TarFile
<1>8. \A i \in DOMAIN added' : added'[i] # Eof
  <2>1. added' = << >>
    BY <1>1
  <2> QED
    BY <2>1
<1>9. TarInv'
  BY <1>5, <1>6, <1>8 DEF TarInv
<1> QED
  BY <1>7, <1>9

LEMMA TarStepKeeps == TarTypes /\ TarInv /\ TarStep => TarTypes' /\ TarInv'
  BY OpenTar, AddFileKeeps, AddDirectoryKeeps, ExtractKeeps, CloseKeeps, DestroyKeeps DEF TarStep

(* What a step of the tar object does to the archives. *)
LEMMA TarStepHolds ==
  ASSUME TarTypes, TarInv, TarStep
  PROVE  AddedIsIn /\ OthersKept
<1>1. /\ tdisk \in [TarPaths -> TarFile] /\ tctx.path \in TarPaths
      /\ tctx.open => tar.file \in TarPaths /\ tar.stem = Stem[tar.file] /\ tar.stem \in TarPaths
  BY TarParts, TarAssumption DEF TarTypes, TarInv
<1>2. ASSUME NEW p \in TarPaths, NEW r \in BOOLEAN, TarOpen(p, r) PROVE AddedIsIn /\ OthersKept
  <2>1. tctx.open => tctx'.open
    BY <1>2 DEF TarOpen
  <2>2. tar'.file = p /\ p # ""
    BY <1>2, TarAssumption DEF TarOpen, TarTypes, TarTypeOK
  <2>3. \A q \in TarPaths : tdisk'[q] # tdisk[q] => q = Stem[p]
    BY <1>1, <1>2 DEF TarOpen, WorkFile
  <2> QED
    BY <2>1, <2>2, <2>3 DEF AddedIsIn, OthersKept
<1>3. ASSUME NEW new, Append1(new) PROVE AddedIsIn /\ OthersKept
  <2>1. tctx'.open
    BY <1>3 DEF Append1, TarTypes, TarTypeOK
  <2>2. \A q \in TarPaths : tdisk'[q] # tdisk[q] => q = tctx.path
    BY <1>1, <1>3 DEF Append1
  <2> QED
    BY <2>1, <2>2 DEF AddedIsIn, OthersKept
<1>4. CASE TarExtract
  <2>1. tctx'.open /\ tdisk' = tdisk
    BY <1>4 DEF TarExtract, TarTypes, TarTypeOK
  <2> QED
    BY <2>1 DEF AddedIsIn, OthersKept
<1>5. CASE TarClose
  <2>1. tctx.open /\ tdisk' = Compressed(Ended)
    BY <1>5 DEF TarClose
  <2> QED
    BY <2>1, Closing DEF AddedIsIn, OthersKept
<1>6. CASE TarDestroy
  <2> DEFINE d == IF tctx.open THEN Compressed(Ended) ELSE tdisk
  <2>1. tdisk' = IF tar.file # tar.stem THEN [d EXCEPT ![tar.stem] = NoFile] ELSE d
    BY <1>6 DEF TarDestroy
  <2>2. tar.file # "" /\ tar.file \in TarPaths /\ tar.stem = Stem[tar.file]
    BY <1>6, TarParts DEF TarDestroy, TarTypes, TarInv
  <2>3. d \in [TarPaths -> TarFile]
    BY <1>1, Closing
  <2>4. tctx.open => d = Compressed(Ended)
    OBVIOUS
  <2>5. ~tctx.open => d = tdisk
    OBVIOUS
  <2> HIDE DEF d
  <2>6. tdisk'[tar.file] = d[tar.file]
    BY <2>1, <2>2, <2>3
  <2>7. AddedIsIn
    BY <2>4, <2>6, Closing DEF AddedIsIn
  <2>8. ASSUME NEW q \in TarPaths, tdisk'[q] # tdisk[q]
        PROVE  \/ q \in {Stem[f] : f \in {tar.file, tar'.file} \ {""}} \cup {tctx.path}
               \/ q = tar.file /\ ~tar.reading
    <3>1. CASE q = tar.stem
      BY <3>1, <2>2
    <3>2. CASE q # tar.stem
      <4>1. tdisk'[q] = d[q]
        BY <3>2, <2>1, <2>3
      <4> QED
        BY <4>1, <2>4, <2>5, <2>8, Closing
    <3> QED
      BY <3>1, <3>2
  <2> QED
    BY <2>7, <2>8 DEF OthersKept
<1>7. CASE \E f \in Sources : TarAddFile(f)
  BY <1>3, <1>7 DEF TarAddFile
<1>8. CASE TarAddDirectory
  BY <1>3, <1>8 DEF TarAddDirectory
<1> QED
  BY <1>2, <1>4, <1>5, <1>6, <1>7, <1>8 DEF TarStep

-----------------------------------------------------------------------------
(* The lists of libzip as maps. *)

LEMMA StagedIs ==
  ASSUME NEW es \in Seq(Staged)
  PROVE  /\ Len(es) \in Nat /\ DOMAIN es = 1..Len(es)
         /\ \A i \in DOMAIN es : es[i] \in Staged /\ es[i].name \in Names /\ es[i].live \in BOOLEAN
<1>1. Len(es) \in Nat /\ DOMAIN es = 1..Len(es) /\ \A i \in 1..Len(es) : es[i] \in Staged
  BY LenProperties, ElementOfSeq
<1>2. \A e \in Staged : e.name \in Names /\ e.live \in BOOLEAN
  BY DEF Staged
<1> QED
  BY <1>1, <1>2

LEMMA EntryIs ==
  /\ \A n, s : /\ Entry(n, s).name = n /\ Entry(n, s).source = s /\ Entry(n, s).live = TRUE
  /\ \A n \in Names, f \in Sources : Entry(n, From(f)) \in Staged
  /\ \A n \in Names, c \in Contents : Entry(n, Kept(c)) \in Staged
  BY DEF Entry, From, Kept, Staged

LEMMA CopyHas ==
  ASSUME NEW es \in Seq(Staged), OneEach(es)
  PROVE  /\ CopyMap(es) = [n \in DOMAIN CopyMap(es) |-> CopyMap(es)[n]]
         /\ \A n : n \in DOMAIN CopyMap(es) <=> \E i \in DOMAIN es : es[i].live /\ es[i].name = n
         /\ \A i \in DOMAIN es : es[i].live => CopyMap(es)[es[i].name] = es[i].source
<1> DEFINE D == {es[i].name : i \in {j \in DOMAIN es : es[j].live}}
<1>1. CopyMap(es) = [n \in D |-> es[CHOOSE i \in Live(es, n) : TRUE].source]
  BY DEF CopyMap
<1>2. \A n : n \in D <=> \E i \in DOMAIN es : es[i].live /\ es[i].name = n
  OBVIOUS
<1>3. ASSUME NEW i \in DOMAIN es, es[i].live
      PROVE  (CHOOSE k \in Live(es, es[i].name) : TRUE) = i
  <2>1. Live(es, es[i].name) = {i}
    BY <1>3 DEF Live, OneEach
  <2> QED
    BY <2>1
<1> HIDE DEF D
<1>4. DOMAIN CopyMap(es) = D /\ CopyMap(es) = [n \in D |-> CopyMap(es)[n]]
  BY <1>1
<1>5. ASSUME NEW i \in DOMAIN es, es[i].live PROVE CopyMap(es)[es[i].name] = es[i].source
  <2>1. es[i].name \in D
    BY <1>2, <1>5
  <2>2. CopyMap(es)[es[i].name] = es[CHOOSE k \in Live(es, es[i].name) : TRUE].source
    BY <1>1, <2>1
  <2> QED
    BY <2>2, <1>3, <1>5
<1> QED
  BY <1>2, <1>4, <1>5

LEMMA CopyIs ==
  ASSUME NEW es \in Seq(Staged), OneEach(es), NEW m, m = [n \in DOMAIN m |-> m[n]],
         \A n : n \in DOMAIN m <=> \E i \in DOMAIN es : es[i].live /\ es[i].name = n,
         \A i \in DOMAIN es : es[i].live => m[es[i].name] = es[i].source
  PROVE  CopyMap(es) = m
<1>1. DOMAIN CopyMap(es) = DOMAIN m
  BY CopyHas
<1>2. \A n \in DOMAIN m : CopyMap(es)[n] = m[n]
  BY CopyHas
<1>3. CopyMap(es) = [n \in DOMAIN CopyMap(es) |-> CopyMap(es)[n]]
  BY CopyHas
<1> QED
  BY <1>1, <1>2, <1>3

(* An entry is added, in the place of the one of its name if there is one. *)
LEMMA AddedIs ==
  ASSUME NEW es \in Seq(Staged), OneEach(es), NEW n \in Names, NEW f \in Sources
  PROVE  /\ Added(es, n, f) \in Seq(Staged) /\ OneEach(Added(es, n, f))
         /\ CopyMap(Added(es, n, f)) =
              [x \in DOMAIN CopyMap(es) \cup {n} |-> IF x = n THEN From(f) ELSE CopyMap(es)[x]]
<1> DEFINE new == Added(es, n, f)
           m == [x \in DOMAIN CopyMap(es) \cup {n} |-> IF x = n THEN From(f) ELSE CopyMap(es)[x]]
           l == Len(es)
<1>1. l \in Nat /\ DOMAIN es = 1..l /\ \A i \in 1..l : es[i] \in Staged /\ es[i].live \in BOOLEAN
  BY StagedIs
<1>2. /\ Entry(n, From(f)) \in Staged /\ Entry(n, From(f)).name = n /\ Entry(n, From(f)).live
      /\ Entry(n, From(f)).source = From(f)
  BY EntryIs
<1>3. CASE Live(es, n) = {}
  <2>1. new = Append(es, Entry(n, From(f)))
    BY <1>3 DEF Added
  <2>2. /\ new \in Seq(Staged) /\ DOMAIN new = 1..(l + 1)
        /\ \A i \in 1..l : new[i] = es[i]
        /\ new[l + 1] = Entry(n, From(f))
    BY <2>1, <1>1, <1>2, AppendProperties, LenProperties
  <2>3. \A i \in 1..l : es[i].live => es[i].name # n
    BY <1>1, <1>3 DEF Live
  <2> HIDE DEF new
  <2>4. \A i \in 1..(l + 1) : i \in 1..l \/ i = l + 1
    BY <1>1
  <2>5. OneEach(new)
    BY <2>2, <2>3, <2>4, <1>1, <1>2 DEF OneEach
  <2>6. \A x : x \in DOMAIN m <=> \E i \in DOMAIN new : new[i].live /\ new[i].name = x
    BY <2>2, <2>4, <1>1, <1>2, CopyHas
  <2>7. \A i \in DOMAIN new : new[i].live => m[new[i].name] = new[i].source
    BY <2>2, <2>3, <2>4, <1>1, <1>2, CopyHas
  <2>8. m = [x \in DOMAIN m |-> m[x]]
    OBVIOUS
  <2> HIDE DEF m
  <2>9. CopyMap(new) = m
    <3>1. new \in Seq(Staged)
      BY <2>2
    <3> QED
      BY <3>1, <2>5, <2>6, <2>7, <2>8, CopyIs
  <2> QED
    BY <2>2, <2>5, <2>9 DEF new, m
<1>4. CASE Live(es, n) # {}
  <2>1. PICK k \in 1..l : es[k].live /\ es[k].name = n
    BY <1>1, <1>4 DEF Live
  <2>2. \A i \in 1..l : i \in Live(es, n) <=> i = k
    BY <1>1, <2>1 DEF Live, OneEach
  <2>3. new = [i \in 1..l |-> IF i \in Live(es, n) THEN Entry(n, From(f)) ELSE es[i]]
    BY <1>1, <1>4 DEF Added
  <2> HIDE DEF new
  <2>4. /\ DOMAIN new = 1..l /\ new[k] = Entry(n, From(f))
        /\ \A i \in 1..l : i # k => new[i] = es[i]
    BY <2>2, <2>3
  <2>5. new \in Seq(Staged)
    <3>1. new \in [1..l -> Staged]
      BY <2>3, <1>1, <1>2
    <3> QED
      BY <3>1, <1>1, SeqDef
  <2>6. OneEach(new)
    BY <2>1, <2>4, <1>1, <1>2 DEF OneEach
  <2>7. \A x : x \in DOMAIN m <=> \E i \in DOMAIN new : new[i].live /\ new[i].name = x
    BY <2>1, <2>4, <1>1, <1>2, CopyHas
  <2>8. \A i \in DOMAIN new : new[i].live => m[new[i].name] = new[i].source
    <3>1. \A i \in 1..l : i # k /\ es[i].live => es[i].name # n
      BY <2>1, <1>1 DEF OneEach
    <3> QED
      BY <3>1, <2>1, <2>4, <1>1, <1>2, CopyHas
  <2>9. m = [x \in DOMAIN m |-> m[x]]
    OBVIOUS
  <2> HIDE DEF m
  <2>10. CopyMap(new) = m
    BY <2>5, <2>6, <2>7, <2>8, <2>9, CopyIs
  <2> QED
    BY <2>5, <2>6, <2>10 DEF new, m
<1> QED
  BY <1>3, <1>4

(* Entries die: those of the names in T. *)
LEMMA DeadIs ==
  ASSUME NEW es \in Seq(Staged), OneEach(es), NEW S, NEW T,
         \A i \in DOMAIN es : es[i].live => (i \in S <=> es[i].name \in T)
  PROVE  /\ Dead(es, S) \in Seq(Staged) /\ OneEach(Dead(es, S))
         /\ CopyMap(Dead(es, S)) = [n \in DOMAIN CopyMap(es) \ T |-> CopyMap(es)[n]]
<1> DEFINE new == Dead(es, S)
           m == [n \in DOMAIN CopyMap(es) \ T |-> CopyMap(es)[n]]
           l == Len(es)
<1>1. l \in Nat /\ DOMAIN es = 1..l /\ \A i \in 1..l : es[i] \in Staged /\ es[i].live \in BOOLEAN
  BY StagedIs
<1>2. new = [i \in 1..l |-> [es[i] EXCEPT !.live = es[i].live /\ i \notin S]]
  BY <1>1 DEF Dead
<1>3. ASSUME NEW i \in 1..l
      PROVE  /\ new[i] \in Staged /\ new[i].name = es[i].name /\ new[i].source = es[i].source
             /\ new[i].live <=> es[i].live /\ i \notin S
  <2>1. new[i] = [es[i] EXCEPT !.live = es[i].live /\ i \notin S]
    BY <1>2
  <2>2. es[i] \in Staged
    BY <1>1
  <2> HIDE DEF new
  <2> QED
    BY <2>1, <2>2 DEF Staged
<1>4. DOMAIN new = 1..l
  BY <1>2
<1>5. new \in Seq(Staged)
  <2> HIDE DEF new
  <2>1. new \in [1..l -> Staged]
    BY <1>2, <1>3
  <2> QED
    BY <2>1, <1>1, SeqDef
<1> HIDE DEF new
<1>6. OneEach(new)
  BY <1>1, <1>3, <1>4 DEF OneEach
<1>7. \A x : x \in DOMAIN m <=> \E i \in DOMAIN new : new[i].live /\ new[i].name = x
  BY <1>1, <1>3, <1>4, CopyHas
<1>8. \A i \in DOMAIN new : new[i].live => m[new[i].name] = new[i].source
  BY <1>1, <1>3, <1>4, CopyHas
<1>9. m = [x \in DOMAIN m |-> m[x]]
  OBVIOUS
<1> HIDE DEF m
<1>10. CopyMap(new) = m
  BY <1>5, <1>6, <1>7, <1>8, <1>9, CopyIs
<1> QED
  BY <1>5, <1>6, <1>10 DEF new, m

(* Several are added: those of a name that is there take its place, the others
   come behind. *)
LEMMA AddingIs ==
  ASSUME NEW es \in Seq(Staged), OneEach(es), NEW fs \in SUBSET Sources, IsFiniteSet(fs)
  PROVE  /\ Adding(es, fs) \in Seq(Staged) /\ OneEach(Adding(es, fs))
         /\ CopyMap(Adding(es, fs)) =
              [x \in DOMAIN CopyMap(es) \cup {NameOf[f] : f \in fs} |->
                 IF x \in {NameOf[f] : f \in fs} THEN From(CHOOSE f \in fs : NameOf[f] = x) ELSE CopyMap(es)[x]]
<1> DEFINE fresh == {f \in fs : Live(es, NameOf[f]) = {}}
           of(x) == CHOOSE f \in fs : NameOf[f] = x
           l == Len(es)
           q == SetToSeq(fresh)
           c == Cardinality(fresh)
           Hit(i) == \E f \in fs : i \in Live(es, NameOf[f])
           front == [i \in DOMAIN es |-> IF Hit(i) THEN Entry(es[i].name, From(of(es[i].name))) ELSE es[i]]
           back == [k \in 1..c |-> Entry(NameOf[q[k]], From(q[k]))]
           new == front \o back
           given == {NameOf[f] : f \in fs}
           m == [x \in DOMAIN CopyMap(es) \cup given |-> IF x \in given THEN From(of(x)) ELSE CopyMap(es)[x]]
<1>1. /\ l \in Nat /\ DOMAIN es = 1..l
      /\ \A i \in 1..l : es[i] \in Staged /\ es[i].live \in BOOLEAN /\ es[i].name \in Names
  BY StagedIs
<1>2. \A f \in fs : f \in Sources /\ NameOf[f] \in Names /\ of(NameOf[f]) = f
  BY ZipAssumption
<1>3. /\ c \in Nat /\ q \in [1..c -> fresh]
      /\ \A i, j \in 1..c : q[i] = q[j] => i = j
      /\ \A f \in fresh : \E i \in 1..c : q[i] = f
  <2>1. IsFiniteSet(fresh)
    BY FS_Subset
  <2> HIDE DEF fresh
  <2> QED
    BY <2>1, InSequence
<1>4. \A i \in 1..l : Hit(i) <=> es[i].live /\ es[i].name \in given
  BY <1>1 DEF Live
<1>5. \A i \in 1..l : /\ front[i] \in Staged /\ front[i].name = es[i].name /\ (front[i].live <=> es[i].live)
                      /\ es[i].live => front[i].source = IF es[i].name \in given THEN From(of(es[i].name))
                                                         ELSE es[i].source
  <2> SUFFICES ASSUME NEW i \in 1..l
               PROVE  /\ front[i] \in Staged /\ front[i].name = es[i].name /\ (front[i].live <=> es[i].live)
                      /\ es[i].live => front[i].source = IF es[i].name \in given THEN From(of(es[i].name))
                                                         ELSE es[i].source
    OBVIOUS
  <2>1. CASE Hit(i)
    <3>1. front[i] = Entry(es[i].name, From(of(es[i].name)))
      BY <1>1, <2>1
    <3>2. es[i].live /\ es[i].name \in given /\ of(es[i].name) \in Sources
      BY <2>1, <1>2, <1>4
    <3> HIDE DEF front, given, of, Hit
    <3> QED
      BY <3>1, <3>2, <1>1, EntryIs
  <2>2. CASE ~Hit(i)
    <3>1. front[i] = es[i]
      BY <1>1, <2>2
    <3>2. ~(es[i].live /\ es[i].name \in given)
      BY <2>2, <1>4
    <3> HIDE DEF front, given, of, Hit
    <3> QED
      BY <3>1, <3>2, <1>1
  <2> QED
    BY <2>1, <2>2
<1>6. front \in Seq(Staged) /\ Len(front) = l
  <2>1. front \in [1..l -> Staged]
    <3>1. front = [i \in 1..l |-> front[i]]
      BY <1>1
    <3> HIDE DEF front, l
    <3> QED
      BY <3>1, <1>5
  <2> HIDE DEF front, l
  <2> QED
    BY <2>1, <1>1, SeqOfType
<1>7. \A k \in 1..c : /\ back[k] \in Staged /\ back[k].live /\ back[k].source = From(q[k])
                      /\ back[k].name = NameOf[q[k]] /\ NameOf[q[k]] \in given /\ of(NameOf[q[k]]) = q[k]
                      /\ Live(es, NameOf[q[k]]) = {}
  <2> SUFFICES ASSUME NEW k \in 1..c
               PROVE  /\ back[k] \in Staged /\ back[k].live /\ back[k].source = From(q[k])
                      /\ back[k].name = NameOf[q[k]] /\ NameOf[q[k]] \in given /\ of(NameOf[q[k]]) = q[k]
                      /\ Live(es, NameOf[q[k]]) = {}
    OBVIOUS
  <2>1. q[k] \in fresh
    BY <1>3
  <2>2. q[k] \in fs /\ Live(es, NameOf[q[k]]) = {}
    BY <2>1
  <2>3. back[k] = Entry(NameOf[q[k]], From(q[k]))
    OBVIOUS
  <2> HIDE DEF back, q, c, of
  <2> QED
    BY <2>2, <2>3, <1>2, EntryIs
<1>8. back \in Seq(Staged) /\ Len(back) = c
  <2>1. back \in [1..c -> Staged]
    <3>1. back = [k \in 1..c |-> back[k]]
      OBVIOUS
    <3> HIDE DEF back, c
    <3> QED
      BY <3>1, <1>7
  <2> HIDE DEF back, c
  <2> QED
    BY <2>1, <1>3, SeqOfType
<1>9. Adding(es, fs) = new
  BY DEF Adding
<1> HIDE DEF front, back, of, Hit, m, given
<1>10. /\ new \in Seq(Staged) /\ DOMAIN new = 1..(l + c)
       /\ \A i \in 1..l : new[i] = front[i]
       /\ \A k \in 1..c : new[l + k] = back[k]
  <2> HIDE DEF l, c
  <2>1. /\ new \in Seq(Staged) /\ Len(new) = l + c
        /\ \A i \in 1..(l + c) : new[i] = IF i <= l THEN front[i] ELSE back[i - l]
    BY <1>6, <1>8, ConcatProperties
  <2> HIDE DEF new
  <2>2. DOMAIN new = 1..(l + c)
    BY <2>1, LenProperties
  <2>3. \A i \in 1..l : new[i] = front[i]
    BY <2>1, <1>1, <1>3
  <2>4. ASSUME NEW k \in 1..c PROVE new[l + k] = back[k]
    <3>1. l + k \in 1..(l + c) /\ ~(l + k <= l) /\ (l + k) - l = k
      BY <1>1, <1>3
    <3> QED
      BY <3>1, <2>1
  <2> QED
    BY <2>1, <2>2, <2>3, <2>4
<1> HIDE DEF new, l, c, q
<1>11. \A i \in 1..(l + c) : i \in 1..l \/ \E k \in 1..c : i = l + k
  <2> SUFFICES ASSUME NEW i \in 1..(l + c), i \notin 1..l PROVE \E k \in 1..c : i = l + k
    OBVIOUS
  <2>1. i - l \in 1..c /\ i = l + (i - l)
    BY <1>1, <1>3
  <2> QED
    BY <2>1
<1>12. \A i \in 1..l, k \in 1..c : es[i].live => es[i].name # NameOf[q[k]]
  BY <1>1, <1>7 DEF Live
<1>13. \A k, j \in 1..c : NameOf[q[k]] = NameOf[q[j]] => k = j
  BY <1>3, <1>7
<1>14. OneEach(new)
  <2> SUFFICES ASSUME NEW i \in 1..(l + c), NEW j \in 1..(l + c), new[i].live, new[j].live, new[i].name = new[j].name
               PROVE  i = j
    BY <1>10 DEF OneEach
  <2>1. CASE i \in 1..l /\ j \in 1..l
    BY <2>1, <1>1, <1>5, <1>10 DEF OneEach
  <2>2. CASE i \in 1..l /\ j \notin 1..l
    BY <2>2, <1>5, <1>7, <1>10, <1>11, <1>12
  <2>3. CASE i \notin 1..l /\ j \in 1..l
    BY <2>3, <1>5, <1>7, <1>10, <1>11, <1>12
  <2>4. CASE i \notin 1..l /\ j \notin 1..l
    BY <2>4, <1>7, <1>10, <1>11, <1>13
  <2> QED
    BY <2>1, <2>2, <2>3, <2>4
<1>15. ASSUME NEW x PROVE x \in DOMAIN m <=> \E i \in DOMAIN new : new[i].live /\ new[i].name = x
  <2>1. ASSUME NEW i \in DOMAIN es, es[i].live, es[i].name = x
        PROVE  \E j \in DOMAIN new : new[j].live /\ new[j].name = x
    <3>1. i \in 1..l /\ i \in 1..(l + c)
      BY <2>1, <1>1, <1>3
    <3> QED
      BY <2>1, <3>1, <1>5, <1>10
  <2>2. ASSUME NEW f \in fs, x = NameOf[f]
        PROVE  \E j \in DOMAIN new : new[j].live /\ new[j].name = x
    <3>1. CASE Live(es, x) = {}
      <4>1. PICK k \in 1..c : q[k] = f
        BY <3>1, <2>2, <1>3
      <4>2. l + k \in 1..(l + c)
        BY <1>1, <1>3
      <4> QED
        BY <4>1, <4>2, <2>2, <1>7, <1>10
    <3>2. CASE Live(es, x) # {}
      BY <3>2, <2>1 DEF Live
    <3> QED
      BY <3>1, <3>2
  <2>3. ASSUME NEW i \in DOMAIN new, new[i].live, new[i].name = x PROVE x \in DOMAIN m
    <3>1. CASE i \in 1..l
      <4>1. es[i].live /\ es[i].name = x /\ i \in DOMAIN es
        BY <3>1, <2>3, <1>1, <1>5, <1>10
      <4>2. x \in DOMAIN CopyMap(es)
        BY <4>1, CopyHas
      <4> QED
        BY <4>2 DEF m
    <3>2. CASE i \notin 1..l
      <4>1. x \in given
        BY <3>2, <2>3, <1>7, <1>10, <1>11
      <4> QED
        BY <4>1 DEF m
    <3> QED
      BY <3>1, <3>2
  <2>4. x \in DOMAIN m => x \in DOMAIN CopyMap(es) \/ \E f \in fs : x = NameOf[f]
    BY DEF m, given
  <2>5. x \in DOMAIN CopyMap(es) => \E i \in DOMAIN es : es[i].live /\ es[i].name = x
    BY CopyHas
  <2> HIDE DEF m
  <2> QED
    BY <2>1, <2>2, <2>3, <2>4, <2>5
<1>16. ASSUME NEW i \in DOMAIN new, new[i].live PROVE m[new[i].name] = new[i].source
  <2>1. CASE i \in 1..l
    <3>1. /\ es[i].live /\ i \in DOMAIN es /\ new[i].name = es[i].name
          /\ new[i].source = IF es[i].name \in given THEN From(of(es[i].name)) ELSE es[i].source
      BY <2>1, <1>16, <1>1, <1>5, <1>10
    <3>2. es[i].name \in DOMAIN CopyMap(es) /\ CopyMap(es)[es[i].name] = es[i].source
      BY <3>1, CopyHas
    <3>3. m[es[i].name] = IF es[i].name \in given THEN From(of(es[i].name)) ELSE CopyMap(es)[es[i].name]
      BY <3>2 DEF m
    <3> QED
      BY <3>1, <3>2, <3>3
  <2>2. CASE i \notin 1..l
    <3>1. PICK k \in 1..c : i = l + k
      BY <2>2, <1>10, <1>11
    <3>2. new[i].name = NameOf[q[k]] /\ new[i].source = From(of(NameOf[q[k]])) /\ NameOf[q[k]] \in given
      BY <3>1, <1>7, <1>10
    <3>3. m[NameOf[q[k]]] = From(of(NameOf[q[k]]))
      BY <3>2 DEF m
    <3> QED
      BY <3>2, <3>3
  <2> QED
    BY <2>1, <2>2
<1>17. m = [x \in DOMAIN m |-> m[x]]
  BY DEF m
<1>18. CopyMap(new) = m
  <2>1. new \in Seq(Staged)
    BY <1>10
  <2> QED
    BY <2>1, <1>14, <1>15, <1>16, <1>17, CopyIs
<1> QED
  BY <1>9, <1>10, <1>14, <1>18 DEF m, given, of

(* The entries that are alive have places of their own from 1 on, and lie there
   in what is left. *)
LEMMA SurvivingIs ==
  ASSUME NEW es \in Seq(Staged)
  PROVE  \E c \in Nat :
           /\ Surviving(es) \in [1..c -> Staged]
           /\ \A k \in 1..c : \E i \in DOMAIN es : /\ es[i].live /\ Place(es, i) = k
                                                   /\ Surviving(es)[k] = es[i]
           /\ \A i \in DOMAIN es : es[i].live => Place(es, i) \in 1..c /\ Surviving(es)[Place(es, i)] = es[i]
<1> DEFINE live == {i \in DOMAIN es : es[i].live}
           upto(i) == {j \in 1..i : es[j].live}
           c == Cardinality(live)
           p == [i \in live |-> Place(es, i)]
           l == Len(es)
           at(k) == CHOOSE i \in live : Place(es, i) = k
<1>1. l \in Nat /\ DOMAIN es = 1..l /\ \A i \in 1..l : es[i] \in Staged /\ es[i].live \in BOOLEAN
  BY StagedIs
<1>2. IsFiniteSet(live) /\ c \in Nat
  <2>1. IsFiniteSet(1..l) /\ live \in SUBSET (1..l)
    BY <1>1, FS_Interval
  <2> HIDE DEF live
  <2> QED
    BY <2>1, FS_Subset, FS_CardinalityType
<1>3. ASSUME NEW i \in live
      PROVE  /\ upto(i) \in SUBSET live /\ i \in upto(i) /\ IsFiniteSet(upto(i))
             /\ Place(es, i) = Cardinality(upto(i)) /\ Place(es, i) \in 1..c
  <2>1. upto(i) \in SUBSET live /\ i \in upto(i)
    BY <1>1
  <2>2. Place(es, i) = Cardinality(upto(i))
    BY DEF Place
  <2> DEFINE u == upto(i)
  <2> HIDE DEF u, live
  <2>3. IsFiniteSet(u) /\ Cardinality(u) <= c
    BY <1>2, <2>1, FS_Subset DEF u
  <2>4. Cardinality(u) \in Nat /\ Cardinality(u) # 0
    <3>1. u # {}
      BY <2>1 DEF u
    <3> QED
      BY <2>3, <3>1, FS_CardinalityType, FS_EmptySet
  <2>5. Cardinality(u) \in 1..c
    <3> HIDE DEF c
    <3> QED
      BY <2>3, <2>4, <1>2
  <2> QED
    BY <2>1, <2>2, <2>3, <2>5 DEF u
<1>4. ASSUME NEW i \in live, NEW j \in live, i < j PROVE Place(es, i) # Place(es, j)
  <2>1. upto(i) \in SUBSET upto(j) /\ j \notin upto(i)
    BY <1>1, <1>4
  <2>2. j \in upto(j) /\ IsFiniteSet(upto(j)) /\ Place(es, i) = Cardinality(upto(i)) /\ Place(es, j) = Cardinality(upto(j))
    BY <1>3
  <2> DEFINE u == upto(i)
             w == upto(j)
  <2> HIDE DEF u, w
  <2>3. u \in SUBSET w /\ j \notin u /\ j \in w /\ IsFiniteSet(w)
    BY <2>1, <2>2 DEF u, w
  <2>4. Cardinality(w) = Cardinality(u) => w = u
    BY <2>3, FS_Subset
  <2> QED
    BY <2>2, <2>3, <2>4 DEF u, w
<1>5. \A i, j \in live : Place(es, i) = Place(es, j) => i = j
  <2> SUFFICES ASSUME NEW i \in live, NEW j \in live, i # j PROVE Place(es, i) # Place(es, j)
    OBVIOUS
  <2>1. i < j \/ j < i
    BY <1>1
  <2> QED
    BY <2>1, <1>4
<1>6. ASSUME NEW k \in 1..c PROVE \E i \in live : Place(es, i) = k
  <2>1. p \in [live -> 1..c] /\ \A i, j \in live : p[i] = p[j] => i = j
    <3> HIDE DEF live, upto, c
    <3> QED
      BY <1>3, <1>5
  <2> HIDE DEF live, c, p
  <2>2. p \in Injection(live, 1..c)
    BY <2>1 DEF Injection, IsInjective
  <2>3. IsFiniteSet(1..c) /\ Cardinality(1..c) = c
    BY <1>2, FS_Interval
  <2>4. p \in Surjection(live, 1..c)
    BY <2>2, <2>3, FS_Injection DEF c
  <2>5. PICK i \in live : p[i] = k
    BY <2>4 DEF Surjection
  <2> QED
    BY <2>5 DEF p
<1>7. \A k \in 1..c : at(k) \in live /\ Place(es, at(k)) = k
  <2> HIDE DEF live, c
  <2> QED
    BY <1>6
<1>8. \A i \in live : at(Place(es, i)) = i
  <2> HIDE DEF live
  <2> QED
    BY <1>5
<1>9. Surviving(es) = [k \in 1..c |-> es[at(k)]]
  BY DEF Surviving
<1>10. live = {i \in DOMAIN es : es[i].live}
  OBVIOUS
<1> HIDE DEF live, at, c, p, upto
<1>11. Surviving(es) \in [1..c -> Staged]
  BY <1>1, <1>7, <1>9, <1>10
<1>12. ASSUME NEW k \in 1..c
       PROVE  \E i \in DOMAIN es : es[i].live /\ Place(es, i) = k /\ Surviving(es)[k] = es[i]
  <2>1. at(k) \in live /\ Place(es, at(k)) = k /\ Surviving(es)[k] = es[at(k)]
    BY <1>7, <1>9
  <2> QED
    BY <2>1, <1>10
<1>13. ASSUME NEW i \in DOMAIN es, es[i].live
       PROVE  Place(es, i) \in 1..c /\ Surviving(es)[Place(es, i)] = es[i]
  <2>1. i \in live
    BY <1>10, <1>13
  <2>2. Place(es, i) \in 1..c
    BY <2>1, <1>3
  <2> QED
    BY <2>1, <2>2, <1>8, <1>9
<1> QED
  BY <1>2, <1>11, <1>12, <1>13

-----------------------------------------------------------------------------
(* The zip objects. *)

ZipTypes == FilesTypeOK /\ ZipTypeOK

Copies == [z \in Zips |-> [open |-> zctx[z].open, map |-> CopyMap(zctx[z].ents)]]

LEMMA ZipParts ==
  ASSUME ZipTypes
  PROVE  /\ zctx \in [Zips -> [open : BOOLEAN, ents : Seq(Staged)]]
         /\ \A z \in Zips : zctx[z].ents \in Seq(Staged)
         /\ zdisk \in Seq(Saved) /\ Len(zdisk) \in Nat /\ DOMAIN zdisk = 1..Len(zdisk)
         /\ \A i \in DOMAIN zdisk : zdisk[i] \in Saved
  BY LenProperties, ElementOfSeq DEF ZipTypes, ZipTypeOK

(* The archive as a map. *)
MapOf(d) == [n \in {d[i].name : i \in DOMAIN d} |-> d[CHOOSE i \in DOMAIN d : d[i].name = n].content]

LEMMA MapHas ==
  ASSUME NEW d, \A i, j \in DOMAIN d : d[i].name = d[j].name => i = j
  PROVE  /\ MapOf(d) = [n \in DOMAIN MapOf(d) |-> MapOf(d)[n]]
         /\ \A n : n \in DOMAIN MapOf(d) <=> \E i \in DOMAIN d : d[i].name = n
         /\ \A i \in DOMAIN d : MapOf(d)[d[i].name] = d[i].content
<1> DEFINE D == {d[i].name : i \in DOMAIN d}
<1>1. MapOf(d) = [n \in D |-> d[CHOOSE i \in DOMAIN d : d[i].name = n].content]
  BY DEF MapOf
<1>2. \A n : n \in D <=> \E i \in DOMAIN d : d[i].name = n
  OBVIOUS
<1>3. \A i \in DOMAIN d : (CHOOSE k \in DOMAIN d : d[k].name = d[i].name) = i
  OBVIOUS
<1> HIDE DEF D
<1> QED
  BY <1>1, <1>2, <1>3

(* A change of one object is a change of its copy. *)
LEMMA Changes ==
  ASSUME ZipTypes, ZipInv, NEW z \in Zips, NEW es, Change(z, es), es \in Seq(Staged), OneEach(es)
  PROVE  /\ ZipTypes' /\ ZipInv'
         /\ Copies[z].open /\ Copies' = [Copies EXCEPT ![z].map = CopyMap(es)] /\ UNCHANGED SavedMap
<1>1. /\ zctx[z].open /\ zctx' = [zctx EXCEPT ![z].ents = es] /\ UNCHANGED <<zdisk, files>>
  BY DEF Change
<1>2. /\ zctx' \in [Zips -> [open : BOOLEAN, ents : Seq(Staged)]]
      /\ zctx'[z].open = zctx[z].open /\ zctx'[z].ents = es
      /\ \A y \in Zips : y # z => zctx'[y] = zctx[y]
  <2>1. zctx \in [Zips -> [open : BOOLEAN, ents : Seq(Staged)]]
    BY ZipParts
  <2> QED
    BY <2>1, <1>1
<1>3. ZipTypes'
  BY <1>1, <1>2 DEF ZipTypes, ZipTypeOK, FilesTypeOK
<1>4. ZipInv'
  BY <1>1, <1>2 DEF ZipInv
<1>5. Copies' = [Copies EXCEPT ![z].map = CopyMap(es)]
  <2>1. Copies' = [y \in Zips |-> [open |-> zctx'[y].open, map |-> CopyMap(zctx'[y].ents)]]
    BY DEF Copies, CopyMap, Live
  <2>2. [Copies EXCEPT ![z].map = CopyMap(es)]
          = [y \in Zips |-> IF y = z THEN [Copies[z] EXCEPT !.map = CopyMap(es)] ELSE Copies[y]]
    BY DEF Copies
  <2>3. [Copies[z] EXCEPT !.map = CopyMap(es)] = [open |-> zctx[z].open, map |-> CopyMap(es)]
    BY DEF Copies
  <2>4. ASSUME NEW y \in Zips
        PROVE  [open |-> zctx'[y].open, map |-> CopyMap(zctx'[y].ents)]
                 = IF y = z THEN [Copies[z] EXCEPT !.map = CopyMap(es)] ELSE Copies[y]
    <3>1. CASE y = z
      BY <3>1, <2>3, <1>2
    <3>2. CASE y # z
      BY <3>2, <1>2 DEF Copies
    <3> QED
      BY <3>1, <3>2
  <2> QED
    BY <2>1, <2>2, <2>4
<1>6. Copies[z].open /\ UNCHANGED SavedMap
  BY <1>1 DEF Copies, SavedMap
<1> QED
  BY <1>3, <1>4, <1>5, <1>6

LEMMA OpenKeeps ==
  ASSUME ZipTypes, ZipInv, NEW z \in Zips, NEW b \in BOOLEAN, ZipOpen(z, b)
  PROVE  ZipTypes' /\ ZipInv' /\ Abstract!Open(z)
<1> DEFINE es == [i \in DOMAIN zdisk |-> Entry(zdisk[i].name, Kept(zdisk[i].content))]
           l == Len(zdisk)
           m == [n \in DOMAIN SavedMap |-> Kept(SavedMap[n])]
<1>1. zctx' = [zctx EXCEPT ![z] = [open |-> TRUE, ents |-> es]] /\ UNCHANGED <<zdisk, files>>
  BY DEF ZipOpen
<1>2. l \in Nat /\ DOMAIN zdisk = 1..l /\ \A i \in 1..l : zdisk[i].name \in Names /\ zdisk[i].content \in Contents
  <2>1. l \in Nat /\ DOMAIN zdisk = 1..l /\ \A i \in 1..l : zdisk[i] \in Saved
    BY ZipParts
  <2> QED
    BY <2>1 DEF Saved
<1>3. \A i \in 1..l : /\ es[i] \in Staged /\ es[i].name = zdisk[i].name /\ es[i].live
                      /\ es[i].source = Kept(zdisk[i].content)
  <2> SUFFICES ASSUME NEW i \in 1..l
               PROVE  /\ es[i] \in Staged /\ es[i].name = zdisk[i].name /\ es[i].live
                      /\ es[i].source = Kept(zdisk[i].content)
    OBVIOUS
  <2>1. es[i] = Entry(zdisk[i].name, Kept(zdisk[i].content))
    BY <1>2
  <2> HIDE DEF es
  <2> QED
    BY <2>1, <1>2, EntryIs
<1>4. DOMAIN es = 1..l /\ es = [i \in 1..l |-> es[i]]
  BY <1>2
<1> HIDE DEF es, l
<1>5. es \in Seq(Staged)
  <2>1. es \in [1..l -> Staged]
    BY <1>3, <1>4
  <2> QED
    BY <2>1, <1>2, SeqDef
<1>6. OneEach(es)
  BY <1>2, <1>3, <1>4 DEF OneEach, ZipInv
<1>7. /\ \A n : n \in DOMAIN SavedMap <=> \E i \in DOMAIN zdisk : zdisk[i].name = n
      /\ \A i \in DOMAIN zdisk : SavedMap[zdisk[i].name] = zdisk[i].content
  BY MapHas DEF ZipInv, SavedMap, MapOf
<1>8. CopyMap(es) = m
  <2>1. m = [n \in DOMAIN m |-> m[n]]
    OBVIOUS
  <2>2. ASSUME NEW n PROVE n \in DOMAIN m <=> \E i \in DOMAIN es : es[i].live /\ es[i].name = n
    BY <1>2, <1>3, <1>4, <1>7
  <2>3. ASSUME NEW i \in DOMAIN es PROVE m[es[i].name] = es[i].source
    BY <1>2, <1>3, <1>4, <1>7
  <2> HIDE DEF m
  <2> QED
    BY <2>1, <2>2, <2>3, <1>5, <1>6, CopyIs
<1>9. /\ zctx' \in [Zips -> [open : BOOLEAN, ents : Seq(Staged)]]
      /\ zctx'[z] = [open |-> TRUE, ents |-> es]
      /\ \A y \in Zips : y # z => zctx'[y] = zctx[y]
  <2>1. zctx \in [Zips -> [open : BOOLEAN, ents : Seq(Staged)]]
    BY ZipParts
  <2> QED
    BY <2>1, <1>1, <1>5
<1>10. ZipTypes'
  BY <1>1, <1>9 DEF ZipTypes, ZipTypeOK, FilesTypeOK
<1>11. ZipInv'
  <2>1. \A y \in Zips : OneEach(zctx'[y].ents)
    <3> SUFFICES ASSUME NEW y \in Zips PROVE OneEach(zctx'[y].ents)
      OBVIOUS
    <3>1. CASE y = z
      BY <3>1, <1>6, <1>9
    <3>2. CASE y # z
      BY <3>2, <1>9 DEF ZipInv
    <3> QED
      BY <3>1, <3>2
  <2> QED
    BY <2>1, <1>1 DEF ZipInv
<1>12. Copies' = [Copies EXCEPT ![z] = [open |-> TRUE, map |-> m]]
  <2>1. Copies' = [y \in Zips |-> [open |-> zctx'[y].open, map |-> CopyMap(zctx'[y].ents)]]
    BY DEF Copies, CopyMap, Live
  <2>2. ASSUME NEW y \in Zips
        PROVE  [open |-> zctx'[y].open, map |-> CopyMap(zctx'[y].ents)]
                 = IF y = z THEN [open |-> TRUE, map |-> m] ELSE Copies[y]
    <3>1. CASE y = z
      <4>1. zctx'[y].open = TRUE /\ zctx'[y].ents = es
        BY <3>1, <1>9
      <4> QED
        BY <3>1, <4>1, <1>8
    <3>2. CASE y # z
      BY <3>2, <1>9 DEF Copies
    <3> QED
      BY <3>1, <3>2
  <2> HIDE DEF m
  <2>3. [Copies EXCEPT ![z] = [open |-> TRUE, map |-> m]]
          = [y \in Zips |-> IF y = z THEN [open |-> TRUE, map |-> m] ELSE Copies[y]]
    BY DEF Copies
  <2> QED
    BY <2>1, <2>2, <2>3
<1>13. UNCHANGED SavedMap
  BY <1>1 DEF SavedMap
<1>14. Abstract!Open(z)
  BY <1>12, <1>13 DEF Abstract!Open, Abstract!Kept, Kept, Copies
<1> QED
  BY <1>10, <1>11, <1>14

LEMMA AddKeeps ==
  ASSUME ZipTypes, ZipInv, NEW z \in Zips, NEW n \in Names, NEW f \in Sources, ZipAdd(z, n, f)
  PROVE  ZipTypes' /\ ZipInv' /\ Abstract!Put(z, n, f)
<1>1. PICK es : es = zctx[z].ents
  OBVIOUS
<1>2. PICK new : new = Added(es, n, f)
  OBVIOUS
<1>3. es \in Seq(Staged) /\ OneEach(es) /\ Copies[z].map = CopyMap(es)
  BY <1>1, ZipParts DEF ZipInv, Copies
<1>4. Change(z, new)
  BY <1>1, <1>2 DEF ZipAdd
<1>5. /\ new \in Seq(Staged) /\ OneEach(new)
      /\ CopyMap(new) = [x \in DOMAIN Copies[z].map \cup {n} |-> IF x = n THEN From(f) ELSE Copies[z].map[x]]
  <2>1. /\ Added(es, n, f) \in Seq(Staged) /\ OneEach(Added(es, n, f))
        /\ CopyMap(Added(es, n, f)) =
             [x \in DOMAIN CopyMap(es) \cup {n} |-> IF x = n THEN From(f) ELSE CopyMap(es)[x]]
    BY <1>3, AddedIs
  <2> QED
    BY <2>1, <1>2, <1>3
<1>6. /\ ZipTypes' /\ ZipInv'
      /\ Copies[z].open /\ Copies' = [Copies EXCEPT ![z].map = CopyMap(new)] /\ UNCHANGED SavedMap
  BY <1>4, <1>5, Changes
<1> QED
  BY <1>5, <1>6 DEF Abstract!Put, Abstract!Stage, Abstract!From, From, Copies

LEMMA AddAllKeeps ==
  ASSUME ZipTypes, ZipInv, NEW z \in Zips, ZipAddDirectory(z)
  PROVE  ZipTypes' /\ ZipInv' /\ Abstract!PutAll(z)
<1> DEFINE given == {NameOf[f] : f \in Listed}
<1>1. PICK es : es = zctx[z].ents
  OBVIOUS
<1>2. PICK new : new = Adding(es, Listed)
  OBVIOUS
<1>3. es \in Seq(Staged) /\ OneEach(es) /\ Copies[z].map = CopyMap(es)
  BY <1>1, ZipParts DEF ZipInv, Copies
<1>4. Change(z, new)
  BY <1>1, <1>2 DEF ZipAddDirectory
<1>5. /\ new \in Seq(Staged) /\ OneEach(new)
      /\ CopyMap(new) = [x \in DOMAIN Copies[z].map \cup given |->
                           IF x \in given THEN From(CHOOSE f \in Listed : NameOf[f] = x) ELSE Copies[z].map[x]]
  <2>1. Listed \in SUBSET Sources /\ IsFiniteSet(Listed)
    BY ListedFinite
  <2>2. PICK fs \in SUBSET Sources : fs = Listed
    BY <2>1
  <2>3. /\ Adding(es, fs) \in Seq(Staged) /\ OneEach(Adding(es, fs))
        /\ CopyMap(Adding(es, fs)) =
             [x \in DOMAIN CopyMap(es) \cup {NameOf[f] : f \in fs} |->
                IF x \in {NameOf[f] : f \in fs} THEN From(CHOOSE f \in fs : NameOf[f] = x) ELSE CopyMap(es)[x]]
    BY <2>1, <2>2, <1>3, AddingIs
  <2> QED
    BY <2>2, <2>3, <1>2, <1>3
<1>6. /\ ZipTypes' /\ ZipInv'
      /\ Copies[z].open /\ Copies' = [Copies EXCEPT ![z].map = CopyMap(new)] /\ UNCHANGED SavedMap
  BY <1>4, <1>5, Changes
<1> QED
  BY <1>5, <1>6 DEF Abstract!PutAll, Abstract!Stage, Abstract!With, Abstract!From, From, Listed, Copies

(* removeFile, removeDirectoy and clear. *)
LEMMA RemoveKeeps ==
  ASSUME ZipTypes, ZipInv, NEW z \in Zips, NEW S, NEW T,
         \A i \in DOMAIN zctx[z].ents : zctx[z].ents[i].live => (i \in S <=> zctx[z].ents[i].name \in T),
         Change(z, Dead(zctx[z].ents, S))
  PROVE  ZipTypes' /\ ZipInv' /\ Abstract!Drop(z, T)
<1>1. PICK es : es = zctx[z].ents
  OBVIOUS
<1>2. PICK new : new = Dead(es, S)
  OBVIOUS
<1>3. es \in Seq(Staged) /\ OneEach(es) /\ Copies[z].map = CopyMap(es)
  BY <1>1, ZipParts DEF ZipInv, Copies
<1>4. Change(z, new)
  BY <1>1, <1>2
<1>5. /\ new \in Seq(Staged) /\ OneEach(new)
      /\ CopyMap(new) = [n \in DOMAIN Copies[z].map \ T |-> Copies[z].map[n]]
  <2>1. es \in Seq(Staged)
    BY <1>3
  <2>2. OneEach(es)
    BY <1>3
  <2>3. \A i \in DOMAIN es : es[i].live => (i \in S <=> es[i].name \in T)
    BY <1>1
  <2>4. /\ Dead(es, S) \in Seq(Staged) /\ OneEach(Dead(es, S))
        /\ CopyMap(Dead(es, S)) = [n \in DOMAIN CopyMap(es) \ T |-> CopyMap(es)[n]]
    BY <2>1, <2>2, <2>3, DeadIs
  <2> QED
    BY <2>4, <1>2, <1>3
<1>6. /\ ZipTypes' /\ ZipInv'
      /\ Copies[z].open /\ Copies' = [Copies EXCEPT ![z].map = CopyMap(new)] /\ UNCHANGED SavedMap
  BY <1>4, <1>5, Changes
<1> QED
  BY <1>5, <1>6 DEF Abstract!Drop, Abstract!Stage, Abstract!Without, Copies

LEMMA RemovalsKeep ==
  ASSUME ZipTypes, ZipInv, NEW z \in Zips,
         \/ \E n \in Names : ZipRemoveFile(z, n)
         \/ \E G \in Groups : ZipRemoveDirectory(z, G)
         \/ ZipClear(z)
  PROVE  ZipTypes' /\ ZipInv' /\ \E T \in Abstract!Droppable : Abstract!Drop(z, T)
<1>1. PICK es : es = zctx[z].ents
  OBVIOUS
<1>2. es \in Seq(Staged) /\ OneEach(es) /\ \A i \in DOMAIN es : es[i].name \in Names
  BY <1>1, ZipParts, StagedIs DEF ZipInv
<1>3. ASSUME NEW n \in Names, ZipRemoveFile(z, n)
      PROVE  ZipTypes' /\ ZipInv' /\ \E T \in Abstract!Droppable : Abstract!Drop(z, T)
  <2>1. PICK i \in Live(es, n) : Change(z, Dead(es, {i}))
    BY <1>1, <1>3 DEF ZipRemoveFile
  <2>2. \A j \in DOMAIN es : es[j].live => (j \in {i} <=> es[j].name \in {n})
    BY <1>2, <2>1 DEF Live, OneEach
  <2>3. ZipTypes' /\ ZipInv' /\ Abstract!Drop(z, {n})
    BY <1>1, <2>1, <2>2, RemoveKeeps
  <2>4. {n} \in Abstract!Droppable
    BY DEF Abstract!Droppable
  <2> QED
    BY <2>3, <2>4
<1>4. ASSUME NEW G \in Groups, ZipRemoveDirectory(z, G)
      PROVE  ZipTypes' /\ ZipInv' /\ \E T \in Abstract!Droppable : Abstract!Drop(z, T)
  <2>1. PICK S : S = Walked(es) \cap Matching(es, G)
    OBVIOUS
  <2>2. PICK T : T = {es[i].name : i \in S}
    OBVIOUS
  <2>3. Change(z, Dead(es, S))
    BY <1>1, <1>4, <2>1 DEF ZipRemoveDirectory
  <2>4. S \subseteq DOMAIN es /\ \A i \in S : es[i].live /\ es[i].name \in G
    <3>1. DOMAIN es = 1..Len(es) /\ Len(es) \in Nat
      BY <1>2, StagedIs
    <3> QED
      BY <2>1, <3>1 DEF Walked, Matching
  <2>5. \A j \in DOMAIN es : es[j].live => (j \in S <=> es[j].name \in T)
    BY <1>2, <2>2, <2>4 DEF OneEach
  <2>6. ZipTypes' /\ ZipInv' /\ Abstract!Drop(z, T)
    BY <1>1, <2>3, <2>5, RemoveKeeps
  <2>7. T \in Abstract!Droppable
    <3>1. T \in SUBSET G
      BY <2>2, <2>4
    <3> QED
      BY <3>1 DEF Abstract!Droppable
  <2> QED
    BY <2>6, <2>7
<1>5. ASSUME ZipClear(z)
      PROVE  ZipTypes' /\ ZipInv' /\ \E T \in Abstract!Droppable : Abstract!Drop(z, T)
  <2>1. Change(z, Dead(es, DOMAIN es))
    BY <1>1, <1>5 DEF ZipClear
  <2>2. PICK S : S = DOMAIN es
    OBVIOUS
  <2>3. \A j \in DOMAIN es : es[j].live => (j \in S <=> es[j].name \in Names)
    BY <1>2, <2>2
  <2>4. ZipTypes' /\ ZipInv' /\ Abstract!Drop(z, Names)
    BY <1>1, <2>1, <2>2, <2>3, RemoveKeeps
  <2>5. Names \in Abstract!Droppable
    BY DEF Abstract!Droppable
  <2> QED
    BY <2>4, <2>5
<1> QED
  BY <1>3, <1>4, <1>5
LEMMA ContentOf ==
  ASSUME FilesTypeOK, NEW e \in Staged
  PROVE  Content(e.source) \in Contents
<1>1. e.source \in ({"kept"} \X Contents) \cup ({"from"} \X Sources)
  BY DEF Staged
<1>2. PICK s : s = e.source
  OBVIOUS
<1>3. CASE s \in {"kept"} \X Contents
  BY <1>2, <1>3 DEF Content
<1>4. CASE s \in {"from"} \X Sources
  BY <1>2, <1>4 DEF Content, FilesTypeOK
<1> QED
  BY <1>1, <1>2, <1>3, <1>4

(* What is left of the entries has the names and the sources of the copy. *)
LEMMA SurvivorsAre ==
  ASSUME NEW es \in Seq(Staged), OneEach(es), NEW sv, sv = Surviving(es)
  PROVE  /\ Len(sv) \in Nat /\ DOMAIN sv = 1..Len(sv) /\ \A k \in DOMAIN sv : sv[k] \in Staged
         /\ \A j, k \in DOMAIN sv : sv[j].name = sv[k].name => j = k
         /\ \A n : n \in DOMAIN CopyMap(es) <=> \E k \in DOMAIN sv : sv[k].name = n
         /\ \A k \in DOMAIN sv : CopyMap(es)[sv[k].name] = sv[k].source
<1>1. PICK c \in Nat :
           /\ sv \in [1..c -> Staged]
           /\ \A k \in 1..c : \E i \in DOMAIN es : es[i].live /\ Place(es, i) = k /\ sv[k] = es[i]
           /\ \A i \in DOMAIN es : es[i].live => Place(es, i) \in 1..c /\ sv[Place(es, i)] = es[i]
  BY SurvivingIs
<1>2. Len(sv) \in Nat /\ DOMAIN sv = 1..Len(sv) /\ DOMAIN sv = 1..c /\ \A k \in DOMAIN sv : sv[k] \in Staged
  BY <1>1, SeqOfType
<1>3. ASSUME NEW j \in DOMAIN sv, NEW k \in DOMAIN sv, sv[j].name = sv[k].name PROVE j = k
  <2>1. PICK i \in DOMAIN es : es[i].live /\ Place(es, i) = j /\ sv[j] = es[i]
    BY <1>1, <1>2
  <2>2. PICK h \in DOMAIN es : es[h].live /\ Place(es, h) = k /\ sv[k] = es[h]
    BY <1>1, <1>2
  <2>3. i = h
    BY <2>1, <2>2, <1>3 DEF OneEach
  <2> QED
    BY <2>1, <2>2, <2>3
<1>4. ASSUME NEW n PROVE n \in DOMAIN CopyMap(es) <=> \E k \in DOMAIN sv : sv[k].name = n
  <2>1. n \in DOMAIN CopyMap(es) <=> \E i \in DOMAIN es : es[i].live /\ es[i].name = n
    BY CopyHas
  <2>2. ASSUME NEW i \in DOMAIN es, es[i].live, es[i].name = n PROVE \E k \in DOMAIN sv : sv[k].name = n
    BY <2>2, <1>1, <1>2
  <2>3. ASSUME NEW k \in DOMAIN sv, sv[k].name = n PROVE \E i \in DOMAIN es : es[i].live /\ es[i].name = n
    BY <2>3, <1>1, <1>2
  <2> QED
    BY <2>1, <2>2, <2>3
<1>5. ASSUME NEW k \in DOMAIN sv PROVE CopyMap(es)[sv[k].name] = sv[k].source
  <2>1. PICK i \in DOMAIN es : es[i].live /\ sv[k] = es[i]
    BY <1>1, <1>2
  <2>2. CopyMap(es)[es[i].name] = es[i].source
    BY <2>1, CopyHas
  <2> QED
    BY <2>1, <2>2
<1> QED
  BY <1>2, <1>3, <1>4, <1>5

(* The archive that a close writes. *)
Written(es) == [i \in DOMAIN es |-> [name |-> es[i].name, content |-> Content(es[i].source)]]

LEMMA WrittenIs ==
  ASSUME FilesTypeOK, NEW es \in Seq(Staged), OneEach(es), NEW sv, sv = Surviving(es), Complete(sv)
  PROVE  /\ Written(sv) \in Seq(Saved)
         /\ \A i, j \in DOMAIN Written(sv) : Written(sv)[i].name = Written(sv)[j].name => i = j
         /\ MapOf(Written(sv)) = [n \in DOMAIN CopyMap(es) |-> Content(CopyMap(es)[n])]
<1> DEFINE d == Written(sv)
           m == [n \in DOMAIN CopyMap(es) |-> Content(CopyMap(es)[n])]
<1>1. /\ Len(sv) \in Nat /\ DOMAIN sv = 1..Len(sv) /\ \A k \in DOMAIN sv : sv[k] \in Staged
      /\ \A j, k \in DOMAIN sv : sv[j].name = sv[k].name => j = k
      /\ \A n : n \in DOMAIN CopyMap(es) <=> \E k \in DOMAIN sv : sv[k].name = n
      /\ \A k \in DOMAIN sv : CopyMap(es)[sv[k].name] = sv[k].source
  BY SurvivorsAre
<1>2. /\ DOMAIN d = DOMAIN sv /\ d = [i \in DOMAIN sv |-> d[i]]
      /\ \A i \in DOMAIN sv : d[i] = [name |-> sv[i].name, content |-> Content(sv[i].source)]
  BY DEF Written
<1> HIDE DEF d
<1>3. ASSUME NEW i \in DOMAIN sv
      PROVE  d[i].name = sv[i].name /\ d[i].content = Content(sv[i].source) /\ d[i] \in Saved
  <2>1. Content(sv[i].source) \in Contents
    BY <1>1, ContentOf
  <2>2. Content(sv[i].source) # Missing
    BY DEF Complete
  <2>3. sv[i].name \in Names
    BY <1>1 DEF Staged
  <2> QED
    BY <2>1, <2>2, <2>3, <1>2 DEF Saved
<1>4. d \in Seq(Saved)
  <2>1. d \in [1..Len(sv) -> Saved]
    BY <1>1, <1>2, <1>3
  <2> QED
    BY <2>1, <1>1, SeqDef
<1>5. \A i, j \in DOMAIN d : d[i].name = d[j].name => i = j
  BY <1>1, <1>2, <1>3
<1>6. /\ MapOf(d) = [n \in DOMAIN MapOf(d) |-> MapOf(d)[n]]
      /\ \A n : n \in DOMAIN MapOf(d) <=> \E i \in DOMAIN d : d[i].name = n
      /\ \A i \in DOMAIN d : MapOf(d)[d[i].name] = d[i].content
  BY <1>5, MapHas
<1>7. DOMAIN MapOf(d) = DOMAIN CopyMap(es)
  <2>1. ASSUME NEW n PROVE n \in DOMAIN MapOf(d) <=> n \in DOMAIN CopyMap(es)
    <3>1. (\E i \in DOMAIN d : d[i].name = n) <=> \E k \in DOMAIN sv : sv[k].name = n
      BY <1>2, <1>3
    <3>2. n \in DOMAIN MapOf(d) <=> \E i \in DOMAIN d : d[i].name = n
      BY <1>6
    <3>3. n \in DOMAIN CopyMap(es) <=> \E k \in DOMAIN sv : sv[k].name = n
      BY <1>1
    <3> QED
      BY <3>1, <3>2, <3>3
  <2> QED
    BY <2>1
<1>8. ASSUME NEW n \in DOMAIN CopyMap(es) PROVE MapOf(d)[n] = Content(CopyMap(es)[n])
  <2>1. PICK k \in DOMAIN sv : sv[k].name = n
    BY <1>1
  <2> QED
    BY <2>1, <1>1, <1>2, <1>3, <1>6
<1>9. MapOf(d) = m
  <2>1. MapOf(d) = [n \in DOMAIN CopyMap(es) |-> MapOf(d)[n]]
    BY <1>6, <1>7
  <2> QED
    BY <2>1, <1>8
<1> QED
  BY <1>4, <1>5, <1>9 DEF d

LEMMA ZipCloseKeeps ==
  ASSUME ZipTypes, ZipInv, NEW z \in Zips, NEW b \in BOOLEAN, ZipClose(z, b)
  PROVE  ZipTypes' /\ ZipInv' /\ (Abstract!Save(z) \/ Abstract!Discard(z))
<1>0. PICK w \in BOOLEAN : w <=> b /\ Changed(zctx[z].ents)
  OBVIOUS
<1>1. PICK es : es = zctx[z].ents
  OBVIOUS
<1>2. PICK sv : sv = Surviving(es)
  OBVIOUS
<1>3. es \in Seq(Staged) /\ OneEach(es) /\ Copies[z].map = CopyMap(es)
  BY <1>1, ZipParts DEF ZipInv, Copies
<1>4. /\ zctx[z].open /\ zctx' = [zctx EXCEPT ![z] = NoZip] /\ UNCHANGED files
      /\ zdisk' = IF w /\ Complete(sv) THEN Written(sv) ELSE zdisk
  BY <1>0, <1>1, <1>2 DEF ZipClose, Written
<1>5. << >> \in Seq(Staged) /\ OneEach(<< >>) /\ CopyMap(<< >>) = [n \in {} |-> Missing]
  <2>1. << >> \in Seq(Staged)
    BY EmptySeq
  <2>2. DOMAIN << >> = {}
    OBVIOUS
  <2>3. OneEach(<< >>)
    BY <2>2 DEF OneEach
  <2> DEFINE m == [n \in {} |-> Missing]
  <2>4. m = [n \in DOMAIN m |-> m[n]] /\ DOMAIN m = {}
    OBVIOUS
  <2> HIDE DEF m
  <2>5. CopyMap(<< >>) = m
    BY <2>1, <2>2, <2>3, <2>4, CopyIs
  <2> QED
    BY <2>1, <2>3, <2>5 DEF m
<1>6. /\ zctx' \in [Zips -> [open : BOOLEAN, ents : Seq(Staged)]]
      /\ zctx'[z].open = FALSE /\ zctx'[z].ents = << >>
      /\ \A y \in Zips : y # z => zctx'[y] = zctx[y]
  <2>1. zctx \in [Zips -> [open : BOOLEAN, ents : Seq(Staged)]]
    BY ZipParts
  <2>2. NoZip \in [open : BOOLEAN, ents : Seq(Staged)] /\ NoZip.open = FALSE /\ NoZip.ents = << >>
    BY <1>5 DEF NoZip
  <2> QED
    BY <2>1, <2>2, <1>4
<1>7. /\ zdisk' \in Seq(Saved)
      /\ \A i, j \in DOMAIN zdisk' : zdisk'[i].name = zdisk'[j].name => i = j
      /\ IF w /\ Complete(sv) THEN SavedMap' = [n \in DOMAIN CopyMap(es) |-> Content(CopyMap(es)[n])]
         ELSE SavedMap' = SavedMap
  <2>1. CASE w /\ Complete(sv)
    <3>1. FilesTypeOK
      BY DEF ZipTypes
    <3>2. /\ Written(sv) \in Seq(Saved)
          /\ \A i, j \in DOMAIN Written(sv) : Written(sv)[i].name = Written(sv)[j].name => i = j
          /\ MapOf(Written(sv)) = [n \in DOMAIN CopyMap(es) |-> Content(CopyMap(es)[n])]
      BY <3>1, <2>1, <1>2, <1>3, WrittenIs
    <3>3. zdisk' = Written(sv)
      BY <2>1, <1>4
    <3>4. SavedMap' = MapOf(Written(sv))
      BY <3>3 DEF SavedMap, MapOf
    <3> QED
      BY <3>2, <3>3, <3>4, <2>1
  <2>2. CASE ~(w /\ Complete(sv))
    <3>1. zdisk' = zdisk
      BY <2>2, <1>4
    <3> QED
      BY <3>1, <2>2, ZipParts DEF ZipInv, SavedMap
  <2> QED
    BY <2>1, <2>2
<1>8. ZipTypes'
  BY <1>4, <1>6, <1>7 DEF ZipTypes, ZipTypeOK, FilesTypeOK
<1>9. ZipInv'
  <2>1. ASSUME NEW y \in Zips PROVE OneEach(zctx'[y].ents)
    <3>1. CASE y = z
      BY <3>1, <1>5, <1>6
    <3>2. CASE y # z
      BY <3>2, <1>6 DEF ZipInv
    <3> QED
      BY <3>1, <3>2
  <2> QED
    BY <2>1, <1>7 DEF ZipInv
<1>10. Copies' = [Copies EXCEPT ![z] = [open |-> FALSE, map |-> [n \in {} |-> Missing]]]
  <2>1. Copies' = [y \in Zips |-> [open |-> zctx'[y].open, map |-> CopyMap(zctx'[y].ents)]]
    BY DEF Copies, CopyMap, Live
  <2>2. PICK m : m = [n \in {} |-> Missing]
    OBVIOUS
  <2>3. ASSUME NEW y \in Zips
        PROVE  [open |-> zctx'[y].open, map |-> CopyMap(zctx'[y].ents)]
                 = IF y = z THEN [open |-> FALSE, map |-> m] ELSE Copies[y]
    <3>1. CASE y = z
      <4>1. zctx'[y].open = FALSE /\ zctx'[y].ents = << >>
        BY <3>1, <1>6
      <4> QED
        BY <3>1, <4>1, <2>2, <1>5
    <3>2. CASE y # z
      BY <3>2, <1>6 DEF Copies
    <3> QED
      BY <3>1, <3>2
  <2>4. [Copies EXCEPT ![z] = [open |-> FALSE, map |-> m]]
          = [y \in Zips |-> IF y = z THEN [open |-> FALSE, map |-> m] ELSE Copies[y]]
    BY DEF Copies
  <2> QED
    BY <2>1, <2>2, <2>3, <2>4
<1>11. (\A n \in DOMAIN CopyMap(es) : Content(CopyMap(es)[n]) # Missing) <=> Complete(sv)
  <2>1. /\ \A n : n \in DOMAIN CopyMap(es) <=> \E k \in DOMAIN sv : sv[k].name = n
        /\ \A k \in DOMAIN sv : CopyMap(es)[sv[k].name] = sv[k].source
    BY <1>2, <1>3, SurvivorsAre
  <2> QED
    BY <2>1 DEF Complete
<1>12. Copies[z].open
  BY <1>4 DEF Copies
<1>13. CASE w
  <2>1. Abstract!Readable(CopyMap(es)) <=> Complete(sv)
    BY <1>11 DEF Abstract!Readable, Abstract!Content, Content
  <2>2. Abstract!Save(z)
    BY <2>1, <1>3, <1>7, <1>10, <1>12, <1>13
       DEF Abstract!Save, Abstract!Closed, Abstract!Nothing, Abstract!Content, Content, Copies
  <2> QED
    BY <2>2, <1>8, <1>9
<1>14. CASE ~w
  <2>1. UNCHANGED SavedMap
    BY <1>7, <1>14
  <2>2. Abstract!Discard(z)
    BY <2>1, <1>10, <1>12 DEF Abstract!Discard, Abstract!Closed, Abstract!Nothing, Copies
  <2> QED
    BY <2>2, <1>8, <1>9
<1> QED
  BY <1>13, <1>14
(* What an entry gives is a content: the name has one entry that is alive, and
   it was there at the open. *)
LEMMA ExtractedIs ==
  ASSUME NEW es \in Seq(Staged), OneEach(es), NEW n
  PROVE  Extracted(es, n) \in Contents
<1>1. Empty \in Contents
  BY FilesAssumption DEF Empty, Contents
<1>2. ASSUME NEW j \in Live(es, n), es[j].source[1] = "kept"
      PROVE  es[CHOOSE i \in Live(es, n) : TRUE].source[2] \in Contents
  <2>1. Live(es, n) = {j}
    BY DEF Live, OneEach
  <2>2. (CHOOSE i \in Live(es, n) : TRUE) = j
    BY <2>1
  <2>3. es[j] \in Staged
    BY StagedIs DEF Live
  <2>4. PICK s : s = es[j].source
    OBVIOUS
  <2>5. s \in ({"kept"} \X Contents) \cup ({"from"} \X Sources) /\ s[1] = "kept"
    BY <2>3, <2>4, <1>2 DEF Staged
  <2>6. s[2] \in Contents
    BY <2>5
  <2> QED
    BY <2>2, <2>4, <2>6
<1> QED
  BY <1>1, <1>2 DEF Extracted

(* What is extracted goes to the files. *)
LEMMA ReadsKeep ==
  ASSUME ZipTypes, ZipInv, NEW z \in Zips,
         (\E n \in Names, f \in Sources : ZipReadTo(z, n, f)) \/ ZipExtractTo(z)
  PROVE  ZipTypes' /\ ZipInv' /\ UNCHANGED <<SavedMap, Copies>>
<1>1. UNCHANGED zipVars
  BY DEF ZipReadTo, ZipExtractTo
<1>2. UNCHANGED <<zdisk, zctx>>
  BY <1>1 DEF zipVars
<1>3. \A n : Extracted(zctx[z].ents, n) \in Contents
  BY ZipParts, ExtractedIs DEF ZipInv
<1>4. FilesTypeOK'
  <2>1. FilesTypeOK
    BY DEF ZipTypes
  <2>2. ASSUME NEW n \in Names, NEW f \in Sources, ZipReadTo(z, n, f) PROVE FilesTypeOK'
    BY <2>1, <2>2, <1>3 DEF ZipReadTo, FilesTypeOK
  <2>3. ASSUME ZipExtractTo(z) PROVE FilesTypeOK'
    <3>1. PICK x : x = zctx[z].ents
      OBVIOUS
    <3>2. files' = [f \in Sources |-> IF Live(x, NameOf[f]) # {} THEN Extracted(x, NameOf[f]) ELSE files[f]]
      BY <2>3, <3>1 DEF ZipExtractTo
    <3>3. \A f \in Sources : Extracted(x, NameOf[f]) \in Contents
      BY <1>3, <3>1
    <3> QED
      BY <2>1, <3>2, <3>3 DEF FilesTypeOK
  <2> QED
    BY <2>2, <2>3
<1>5. ZipTypes'
  BY <1>2, <1>4 DEF ZipTypes, ZipTypeOK
<1>6. ZipInv'
  BY <1>2 DEF ZipInv
<1>7. UNCHANGED <<SavedMap, Copies>>
  BY <1>2 DEF SavedMap, Copies, CopyMap, Live
<1> QED
  BY <1>5, <1>6, <1>7

LEMMA ZipStepKeeps ==
  ASSUME ZipTypes, ZipInv, ZipStep
  PROVE  ZipTypes' /\ ZipInv' /\ (Abstract!Next \/ UNCHANGED <<SavedMap, Copies>>)
<1> SUFFICES ASSUME NEW z \in Zips,
               \/ \E b \in BOOLEAN : ZipOpen(z, b) \/ ZipClose(z, b)
               \/ \E n \in Names, f \in Sources : ZipAdd(z, n, f) \/ ZipReadTo(z, n, f)
               \/ \E n \in Names : ZipRemoveFile(z, n)
               \/ \E G \in Groups : ZipRemoveDirectory(z, G)
               \/ ZipAddDirectory(z) \/ ZipClear(z) \/ ZipExtractTo(z)
             PROVE ZipTypes' /\ ZipInv' /\ (Abstract!Next \/ UNCHANGED <<SavedMap, Copies>>)
  BY DEF ZipStep
<1>1. ASSUME NEW b \in BOOLEAN, ZipOpen(z, b) PROVE ZipTypes' /\ ZipInv' /\ Abstract!Next
  BY <1>1, OpenKeeps DEF Abstract!Next
<1>2. ASSUME NEW b \in BOOLEAN, ZipClose(z, b) PROVE ZipTypes' /\ ZipInv' /\ Abstract!Next
  BY <1>2, ZipCloseKeeps DEF Abstract!Next
<1>3. ASSUME NEW n \in Names, NEW f \in Sources, ZipAdd(z, n, f) PROVE ZipTypes' /\ ZipInv' /\ Abstract!Next
  BY <1>3, AddKeeps DEF Abstract!Next
<1>4. ASSUME ZipAddDirectory(z) PROVE ZipTypes' /\ ZipInv' /\ Abstract!Next
  BY <1>4, AddAllKeeps DEF Abstract!Next
<1>5. ASSUME \/ \E n \in Names : ZipRemoveFile(z, n)
             \/ \E G \in Groups : ZipRemoveDirectory(z, G)
             \/ ZipClear(z)
      PROVE  ZipTypes' /\ ZipInv' /\ Abstract!Next
  <2>1. ZipTypes' /\ ZipInv' /\ \E T \in Abstract!Droppable : Abstract!Drop(z, T)
    BY <1>5, RemovalsKeep
  <2> QED
    BY <2>1 DEF Abstract!Next
<1>6. ASSUME (\E n \in Names, f \in Sources : ZipReadTo(z, n, f)) \/ ZipExtractTo(z)
      PROVE  ZipTypes' /\ ZipInv' /\ UNCHANGED <<SavedMap, Copies>>
  BY <1>6, ReadsKeep
<1> QED
  BY <1>1, <1>2, <1>3, <1>4, <1>5, <1>6

-----------------------------------------------------------------------------
(* The whole application. *)

LEMMA ZipBegins ==
  ASSUME Init
  PROVE  ZipTypeOK /\ ZipInv /\ Abstract!Init
<1>1. /\ zctx = [z \in Zips |-> NoZip]
      /\ \E s \in {<< >>} \cup {<<n>> : n \in Names} \cup {t \in Names \X Names : t[1] # t[2]} :
           zdisk = [i \in DOMAIN s |-> [name |-> s[i], content |-> MaxContent]]
  <2>1. zdisk = << >> \/ \E s \in {<<n>> : n \in Names} \cup {t \in Names \X Names : t[1] # t[2]} :
           zdisk = [i \in DOMAIN s |-> [name |-> s[i], content |-> MaxContent]]
    BY DEF Init, ZipFiles
  <2>2. << >> = [i \in DOMAIN << >> |-> [name |-> << >>[i], content |-> MaxContent]]
    OBVIOUS
  <2>3. zctx = [z \in Zips |-> NoZip]
    BY DEF Init, ZipInit
  <2> QED
    BY <2>1, <2>2, <2>3
<1>2. PICK s \in {<< >>} \cup {<<n>> : n \in Names} \cup {t \in Names \X Names : t[1] # t[2]} :
        zdisk = [i \in DOMAIN s |-> [name |-> s[i], content |-> MaxContent]]
  BY <1>1
<1>3. /\ s \in Seq(Names) /\ Len(s) \in Nat /\ DOMAIN s = 1..Len(s) /\ \A i \in DOMAIN s : s[i] \in Names
      /\ \A i, j \in DOMAIN s : s[i] = s[j] => i = j
  <2>1. s \in Seq(Names) /\ \A i, j \in DOMAIN s : s[i] = s[j] => i = j
    <3>1. CASE s = << >>
      <4>1. DOMAIN s = {} /\ s \in Seq(Names)
        BY <3>1, EmptySeq
      <4> QED
        BY <4>1
    <3>2. ASSUME NEW n \in Names, s = <<n>> PROVE s \in Seq(Names) /\ \A i, j \in DOMAIN s : s[i] = s[j] => i = j
      <4>1. DOMAIN s = {1} /\ s \in Seq(Names)
        BY <3>2
      <4> QED
        BY <4>1
    <3>3. ASSUME NEW n \in Names, NEW m \in Names, n # m, s = <<n, m>>
          PROVE  s \in Seq(Names) /\ \A i, j \in DOMAIN s : s[i] = s[j] => i = j
      <4>1. DOMAIN s = {1, 2} /\ s[1] = n /\ s[2] = m /\ s \in Seq(Names)
        BY <3>3
      <4> QED
        BY <4>1, <3>3
    <3>4. CASE s \in {t \in Names \X Names : t[1] # t[2]}
      <4>1. s = <<s[1], s[2]>> /\ s[1] \in Names /\ s[2] \in Names /\ s[1] # s[2]
        BY <3>4
      <4> QED
        BY <4>1, <3>3
    <3> QED
      BY <3>1, <3>2, <3>4
  <2> QED
    BY <2>1, LenProperties, ElementOfSeq
<1>4. \A i \in DOMAIN s : zdisk[i] \in Saved /\ zdisk[i].name = s[i]
  BY <1>2, <1>3, FilesAssumption DEF Saved, Contents, Missing
<1>5. zdisk \in Seq(Saved)
  <2>1. zdisk \in [1..Len(s) -> Saved]
    BY <1>2, <1>3, <1>4
  <2> QED
    BY <2>1, <1>3, SeqDef
<1>6. << >> \in Seq(Staged) /\ DOMAIN << >> = {}
  BY EmptySeq
<1>7. ZipTypeOK
  BY <1>1, <1>5, <1>6 DEF ZipTypeOK, NoZip
<1>8. ZipInv
  <2>1. \A i, j \in DOMAIN zdisk : zdisk[i].name = zdisk[j].name => i = j
    BY <1>2, <1>3, <1>4
  <2>2. \A z \in Zips : OneEach(zctx[z].ents)
    BY <1>1, <1>6 DEF NoZip, OneEach
  <2> QED
    BY <2>1, <2>2 DEF ZipInv
<1>9. DOMAIN SavedMap \subseteq Names
  BY <1>2, <1>3, <1>4 DEF SavedMap
<1>10. CopyMap(<< >>) = [n \in {} |-> Missing]
  <2> DEFINE m == [n \in {} |-> Missing]
  <2>1. m = [n \in DOMAIN m |-> m[n]] /\ DOMAIN m = {}
    OBVIOUS
  <2>2. OneEach(<< >>)
    BY <1>6 DEF OneEach
  <2> HIDE DEF m
  <2>3. CopyMap(<< >>) = m
    BY <2>1, <2>2, <1>6, CopyIs
  <2> QED
    BY <2>3 DEF m
<1>11. Copies = [z \in Zips |-> [open |-> FALSE, map |-> [n \in {} |-> Missing]]]
  <2>1. PICK m : m = [n \in {} |-> Missing]
    OBVIOUS
  <2>2. \A z \in Zips : zctx[z].open = FALSE /\ CopyMap(zctx[z].ents) = m
    BY <1>1, <1>10, <2>1 DEF NoZip
  <2>3. Copies = [z \in Zips |-> [open |-> FALSE, map |-> m]]
    BY <2>2 DEF Copies
  <2> QED
    BY <2>1, <2>3
<1> QED
  BY <1>7, <1>8, <1>9, <1>11 DEF Abstract!Init, Abstract!Closed, Abstract!Nothing, Copies

LEMMA TarBegins ==
  ASSUME Init
  PROVE  TarTypeOK /\ TarInv
<1>1. /\ tar = Fresh /\ tctx = NoTar /\ added = << >> /\ proper = TRUE
      /\ \E p \in TarPaths : \E t \in TarFiles(p) : tdisk = [[q \in TarPaths |-> NoFile] EXCEPT ![p] = t]
  BY DEF Init, TarInit
<1>2. PICK p \in TarPaths : \E t \in TarFiles(p) : tdisk = [[q \in TarPaths |-> NoFile] EXCEPT ![p] = t]
  BY <1>1
<1>22. PICK t \in TarFiles(p) : tdisk = [[q \in TarPaths |-> NoFile] EXCEPT ![p] = t]
  BY <1>2
<1> DEFINE S == {[from |-> {f}, content |-> MaxContent] : f \in Sources}
<1>3. IsFiniteSet(S) /\ S \subseteq Piece
  <2>1. S \subseteq Piece
    BY FilesAssumption DEF Piece, Contents
  <2> DEFINE h == [f \in Sources |-> [from |-> {f}, content |-> MaxContent]]
  <2>2. h \in Surjection(Sources, S)
    BY DEF Surjection
  <2> HIDE DEF h, S
  <2>3. IsFiniteSet(S)
    BY <2>2, FilesAssumption, FS_Surjection
  <2> QED
    BY <2>1, <2>3
<1> HIDE DEF S
<1>4. Append(SetToSeq(S), Eof) \in Blocks
  <2>1. Cardinality(S) \in Nat /\ SetToSeq(S) \in [1..Cardinality(S) -> S]
    BY <1>3, InSequence
  <2>2. SetToSeq(S) \in [1..Cardinality(S) -> Piece]
    BY <2>1, <1>3
  <2>3. SetToSeq(S) \in Seq(Piece)
    BY <2>1, <2>2, SeqOfType
  <2> QED
    BY <2>3, PieceOf, BlocksAre, AppendProperties
<1>5. NoFile \in TarFile /\ t \in TarFile
  <2>1. NoFile \in TarFile
    BY BlocksAre DEF NoFile, TarFile
  <2>2. t = NoFile \/ t = [format |-> IF Suffix[p] = "none" THEN "raw" ELSE Suffix[p],
                           blocks |-> Append(SetToSeq(S), Eof)]
    BY DEF TarFiles, S
  <2>3. PICK x : x = IF Suffix[p] = "none" THEN "raw" ELSE Suffix[p]
    OBVIOUS
  <2>4. x \in {"none", "raw", "gz", "bz2"}
    BY <2>3, TarAssumption
  <2>5. [format |-> x, blocks |-> Append(SetToSeq(S), Eof)] \in TarFile
    BY <2>4, <1>4 DEF TarFile
  <2> QED
    BY <2>1, <2>2, <2>3, <2>5
<1>6. tdisk \in [TarPaths -> TarFile]
  BY <1>22, <1>5
<1>7. tctx \in [open : BOOLEAN, reading : BOOLEAN, path : TarPaths, at : Nat] /\ ~tctx.open
  <2>1. (CHOOSE q \in TarPaths : TRUE) \in TarPaths
    OBVIOUS
  <2> QED
    BY <1>1, <2>1 DEF NoTar
<1>8. tar \in [file : TarPaths \cup {""}, stem : TarPaths \cup {""}, reading : BOOLEAN,
               type : {"none", "gz", "bz2"}, added : BOOLEAN] /\ tar.file = "" /\ tar.stem = ""
  BY <1>1 DEF Fresh
<1>9. TarTypeOK
  BY <1>1, <1>6, <1>7, <1>8, BlocksAre DEF TarTypeOK, TarFile
<1>10. \A i \in DOMAIN added : added[i] # Eof
  <2>1. DOMAIN << >> = {}
    OBVIOUS
  <2> QED
    BY <2>1, <1>1
<1> QED
  BY <1>7, <1>8, <1>9, <1>10 DEF TarInv

LEMMA Begins == Init => IInv
<1> SUFFICES ASSUME Init PROVE IInv
  OBVIOUS
<1>1. FilesTypeOK
  BY FilesAssumption DEF Init, FilesInit, FilesTypeOK, Contents, Missing
<1>2. steps \in 0..MaxSteps
  BY ArchivesAssumption DEF Init
<1> QED
  BY <1>1, <1>2, ZipBegins, TarBegins DEF IInv, TypeOK

LEMMA StepKeeps ==
  ASSUME IInv, [Next]_vars
  PROVE  IInv' /\ [Abstract!Next]_<<SavedMap, Copies>> /\ [AddedIsIn /\ OthersKept]_vars
<1>1. ZipTypes /\ TarTypes /\ ZipInv /\ TarInv /\ steps \in 0..MaxSteps
  BY DEF IInv, TypeOK, ZipTypes, TarTypes
<1>2. CASE UNCHANGED vars
  <2>1. UNCHANGED <<files, zdisk, zctx, tdisk, tar, tctx, added, proper, steps>>
    BY <1>2 DEF vars, zipVars, tarVars
  <2>2. TypeOK'
    BY <2>1 DEF IInv, TypeOK, FilesTypeOK, ZipTypeOK, TarTypeOK
  <2>3. ZipInv'
    BY <2>1, <1>1 DEF ZipInv
  <2>4. TarInv'
    BY <2>1, <1>1 DEF TarInv
  <2>5. UNCHANGED <<SavedMap, Copies>>
    BY <2>1 DEF SavedMap, Copies, CopyMap, Live
  <2> QED
    BY <2>2, <2>3, <2>4, <2>5, <1>2 DEF IInv
<1>3. CASE Next
  <2>1. steps' \in 0..MaxSteps
    BY <1>1, <1>3, ArchivesAssumption DEF Next
  <2>2. CASE ZipStep /\ UNCHANGED tarVars
    <3>1. ZipTypes' /\ ZipInv' /\ (Abstract!Next \/ UNCHANGED <<SavedMap, Copies>>)
      BY <2>2, <1>1, ZipStepKeeps
    <3>2. UNCHANGED <<tdisk, tar, tctx, added, proper>>
      BY <2>2 DEF tarVars
    <3>3. TarTypeOK' /\ TarInv'
      BY <3>2, <1>1 DEF TarTypes, TarTypeOK, TarInv
    <3>4. AddedIsIn /\ OthersKept
      BY <3>2 DEF AddedIsIn, OthersKept
    <3> QED
      BY <2>1, <3>1, <3>3, <3>4 DEF IInv, TypeOK, ZipTypes
  <2>3. CASE TarStep /\ UNCHANGED zipVars
    <3>1. TarTypes' /\ TarInv' /\ AddedIsIn /\ OthersKept
      BY <2>3, <1>1, TarStepKeeps, TarStepHolds
    <3>2. UNCHANGED <<zdisk, zctx>>
      BY <2>3 DEF zipVars
    <3>3. ZipTypeOK' /\ ZipInv'
      BY <3>2, <1>1 DEF ZipTypes, ZipTypeOK, ZipInv
    <3>4. UNCHANGED <<SavedMap, Copies>>
      BY <3>2 DEF SavedMap, Copies, CopyMap, Live
    <3> QED
      BY <2>1, <3>1, <3>3, <3>4 DEF IInv, TypeOK, TarTypes
  <2>4. CASE (\E f \in Sources, c \in Contents : SourceChanges(f, c)) /\ UNCHANGED <<zipVars, tarVars>>
    <3>1. UNCHANGED <<zdisk, zctx, tdisk, tar, tctx, added, proper>>
      BY <2>4 DEF zipVars, tarVars
    <3>2. FilesTypeOK'
      BY <2>4, <1>1 DEF SourceChanges, FilesTypeOK, ZipTypes
    <3>3. ZipTypeOK' /\ ZipInv' /\ TarTypeOK' /\ TarInv'
      BY <3>1, <1>1 DEF ZipTypes, ZipTypeOK, ZipInv, TarTypes, TarTypeOK, TarInv
    <3>4. UNCHANGED <<SavedMap, Copies>>
      BY <3>1 DEF SavedMap, Copies, CopyMap, Live
    <3>5. AddedIsIn /\ OthersKept
      BY <3>1 DEF AddedIsIn, OthersKept
    <3> QED
      BY <2>1, <3>2, <3>3, <3>4, <3>5 DEF IInv, TypeOK
  <2> QED
    BY <1>3, <2>2, <2>3, <2>4 DEF Next
<1> QED
  BY <1>2, <1>3

LEMMA Invariance == Spec => []IInv
<1>1. Init => IInv
  BY Begins
<1>2. IInv /\ [Next]_vars => IInv'
  BY StepKeeps
<1> QED
  BY <1>1, <1>2, PTL DEF Spec

(* The variables of the archives have their types: no object refers to a source
   or an entry that is not there (comex_archive.cpp:58-707). *)
THEOREM ArchivesTypes == Spec => []TypeOK
<1>1. IInv => TypeOK
  BY DEF IInv
<1> QED
  BY <1>1, Invariance, PTL

(* Every zip archive is the map it promises to be, whatever the names, the
   sources, the number of objects and their interleaving: each operation of
   ArchiveZip is one of StagedArchive or changes neither archive nor copies
   (comex_archive.cpp:58-418). *)
THEOREM ZipCorrect == Spec => ZipIsMap
<1>1. Init => Abstract!Init
  BY ZipBegins
<1>2. IInv /\ [Next]_vars => [Abstract!Next]_<<SavedMap, [z \in Zips |-> [open |-> zctx[z].open, map |-> CopyMap(zctx[z].ents)]]>>
  BY StepKeeps DEF Copies
<1> QED
  BY <1>1, <1>2, Invariance, PTL DEF Spec, ZipIsMap, Abstract!Spec

(* A tar archive that is closed holds what was added to it, and the operations of
   ArchiveTar leave the other archives as they are (comex_archive.cpp:441-656). *)
THEOREM TarCorrect == Spec => TarHoldsAdded
<1>1. IInv /\ [Next]_vars => [AddedIsIn /\ OthersKept]_vars
  BY StepKeeps
<1> QED
  BY <1>1, Invariance, PTL DEF Spec, TarHoldsAdded
=============================================================================
