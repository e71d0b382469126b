------------------------------ MODULE ArchiveTar ------------------------------
(***************************************************************************)
(* ArchiveTar (comex_archive.cpp:420-707) over libtar, zlib and bzip2: one *)
(* object at a time, used for several archives one after the other.  A     *)
(* compressed archive goes through the plain file of the same stem, which  *)
(* the destructor removes.                                                 *)
(*                                                                         *)
(* A file has a format and blocks; an entry is one block, and so is the    *)
(* end mark that libtar writes at the close.                               *)
(***************************************************************************)
EXTENDS ArchiveFiles

CONSTANTS TarPaths, \* names of archive files
          Suffix,   \* for each path "gz", "bz2" or "none"
          Stem,     \* the path without that suffix
          MaxBlocks \* bound on the blocks of a file

ASSUME TarAssumption ==
  /\ Suffix \in [TarPaths -> {"gz", "bz2", "none"}] /\ Stem \in [TarPaths -> TarPaths]
  /\ \A p \in TarPaths : p # "" /\ (Suffix[p] = "none" <=> Stem[p] = p)
  /\ MaxBlocks \in Nat

VARIABLES tdisk, \* the archive files
          tar,   \* the object: file, file_tar, read_mode, compress_type, file_added
          tctx,  \* its TAR: path, mode and offset
          added, \* history: the entries added since the open
          proper \* history: compress_type is that of the file that is open

tarVars == <<tdisk, tar, tctx, added, proper>>

NoFile    == [format |-> "none", blocks |-> << >>]
Plain(bs) == [format |-> "raw", blocks |-> bs]
Eof       == [from |-> {}, content |-> 0]
Block(f)  == [from |-> {f}, content |-> files[f]]
NoTar     == [open |-> FALSE, reading |-> TRUE, path |-> CHOOSE p \in TarPaths : TRUE, at |-> 0]

(* The constructor. *)
Fresh == [file |-> "", stem |-> "", reading |-> TRUE, type |-> "none", added |-> FALSE]

TarInit ==
  /\ tar = Fresh /\ tctx = NoTar
  /\ added = << >> /\ proper = TRUE

(* What gzread, BZ2_bzread give of a file: gzip passes plain bytes through,
   bzip2 gives an error, which ends the loop like the end of the file. *)
Unpacked(p, type) ==
  IF tdisk[p].format \in {type} \cup (IF type = "gz" THEN {"raw"} ELSE {})
  THEN tdisk[p].blocks ELSE << >>

(* decompress: the target is truncated first, which may be the source. *)
Decompressed(p, q, type) == Plain(IF p = q THEN << >> ELSE Unpacked(p, type))

(* Mutated form: decompress writes to the file it reads. *)
WorkFileSame(p) == p
WorkFile(p) == Stem[p]

(* A suffix sets compress_type, its absence does not reset it.  A read needs
   a type and the file; a failed open leaves an earlier TAR in place. *)
TarOpen(p, reading) ==
  LET type == IF Suffix[p] # "none" THEN Suffix[p] ELSE tar.type
      ok   == reading => type # "none" /\ tdisk[p].format # "none"
  IN /\ tar' = [tar EXCEPT !.file = p, !.stem = WorkFile(p), !.reading = reading, !.type = type]
     /\ proper' = (type = Suffix[p])
     /\ added' = << >>
     /\ tctx' = IF ok THEN [open |-> TRUE, reading |-> reading, path |-> WorkFile(p), at |-> 0] ELSE tctx
     /\ tdisk' = IF ~ok THEN tdisk
                 ELSE [tdisk EXCEPT ![WorkFile(p)] =
                         IF reading THEN Decompressed(p, WorkFile(p), type)
                         ELSE IF @.format = "none" THEN Plain(<< >>) ELSE @]
     /\ UNCHANGED files

(* O_CREAT without O_TRUNC: what was behind the blocks written stays.  A file
   in another format is shorter than a block. *)
Overlaid(file, at, new) ==
  Plain(IF file.format = "raw"
        THEN SubSeq(file.blocks, 1, at) \o new \o SubSeq(file.blocks, at + Len(new) + 1, Len(file.blocks))
        ELSE new)

Append1(new) ==
  /\ tctx.open /\ ~tctx.reading /\ tctx.at + Len(new) <= MaxBlocks
  /\ tdisk' = [tdisk EXCEPT ![tctx.path] = Overlaid(@, tctx.at, new)]
  /\ tctx' = [tctx EXCEPT !.at = @ + Len(new)]
  /\ added' = added \o new

Noted == [tar EXCEPT !.added = TRUE]

TarAddFile(f) ==
  /\ files[f] # Missing
  /\ Append1(<<Block(f)>>)
  /\ tar' = Noted
  /\ UNCHANGED <<files, proper>>

(* addDirectory does not set file_added. *)
TarAddDirectory ==
  /\ Listed # {}
  /\ Append1([i \in 1..Cardinality(Listed) |-> Block(SetToSeq(Listed)[i])])
  /\ UNCHANGED <<files, tar, proper>>

(* What a reader of the blocks finds: up to the first end mark. *)
Readable(bs) == LET ends == {i \in DOMAIN bs : bs[i] = Eof}
                IN IF ends = {} THEN bs ELSE SubSeq(bs, 1, Min(ends) - 1)

(* tar_extract_all, from where the TAR stands. *)
TarExtract ==
  /\ tctx.open /\ tctx.reading
  /\ LET bs == Readable(SubSeq(tdisk[tctx.path].blocks, tctx.at + 1, Len(tdisk[tctx.path].blocks)))
     IN files' = [f \in Sources |->
                    LET of == {i \in DOMAIN bs : f \in bs[i].from}
                    IN IF of = {} THEN files[f]
                       ELSE bs[Max(of)].content]
  /\ tctx' = [tctx EXCEPT !.at = Len(tdisk[tctx.path].blocks)]
  /\ UNCHANGED <<tdisk, tar, added, proper>>

(* close: the end mark, then compress of file_tar into file, by the names of
   the latest open.  Emptying the target first empties a source of that name. *)
(* Mutated form: no end mark. *)
EndedNot == tdisk
Ended == IF tar.added /\ ~tctx.reading
         THEN [tdisk EXCEPT ![tctx.path] = Overlaid(@, tctx.at, <<Eof>>)] ELSE tdisk

Compressed(d) ==
  IF tar.reading \/ tar.type = "none" THEN d
  ELSE [d EXCEPT ![tar.file] = [format |-> tar.type,
                                blocks |-> IF tar.file = tar.stem THEN << >> ELSE d[tar.stem].blocks]]

TarClose ==
  /\ tctx.open
  /\ tctx' = NoTar
  /\ tdisk' = Compressed(Ended)
  /\ UNCHANGED <<files, tar, added, proper>>

(* The destructor, and the next object. *)
TarDestroy ==
  LET d == IF tctx.open THEN Compressed(Ended) ELSE tdisk
  IN /\ tar.file # ""
     /\ tdisk' = IF tar.file # tar.stem THEN [d EXCEPT ![tar.stem] = NoFile] ELSE d
     /\ tar' = Fresh /\ tctx' = NoTar
     /\ added' = << >> /\ proper' = TRUE
     /\ UNCHANGED files

TarStep ==
  \/ \E p \in TarPaths, b \in BOOLEAN : TarOpen(p, b)
  \/ \E f \in Sources : TarAddFile(f)
  \/ TarAddDirectory \/ TarExtract \/ TarClose \/ TarDestroy

-----------------------------------------------------------------------------
Blocks == Seq([from : SUBSET Sources, content : Contents])

TarTypeOK ==
  /\ tdisk \in [TarPaths -> [format : {"none", "raw", "gz", "bz2"}, blocks : Blocks]]
  /\ tar \in [file : TarPaths \cup {""}, stem : TarPaths \cup {""}, reading : BOOLEAN,
              type : {"none", "gz", "bz2"}, added : BOOLEAN]
  /\ tctx \in [open : BOOLEAN, reading : BOOLEAN, path : TarPaths, at : Nat]
  /\ added \in Blocks /\ proper \in BOOLEAN
=============================================================================
