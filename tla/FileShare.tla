------------------------------ MODULE FileShare ------------------------------
(***************************************************************************)
(* ComexSmb (comex_smb.cpp) and ComexNfs (comex_nfs.cpp): one client of a  *)
(* file server, used by one thread, call after call, while other clients   *)
(* change the share and the connection breaks.                             *)
(*                                                                         *)
(* Every call begins with autoReconnect, and so does every getFileType and *)
(* rmdir inside a call: a context that does not answer is destroyed and    *)
(* built again, also under the directory handles of an rmdir in progress.  *)
(* The two classes repeat each other; `kind` says which one runs.          *)
(*                                                                         *)
(* A path is a sequence of names.  A file is a sequence of units: where it *)
(* comes from and its place there, so that a unit out of place shows.      *)
(***************************************************************************)
EXTENDS Integers, Sequences

CONSTANTS Paths,      \* the paths in use; with a path all its parents
          Lengths,    \* lengths of the files, in units
          Block,      \* units of a buffer; 1024 bytes in the code
          ErrorCodes, \* -e for these e is what a failed nfs_write or com_file_write returns
          MaxCalls, MaxFaults, MaxOthers \* bounds on calls, failures, interference

Up(p) == SubSeq(p, 1, Len(p) - 1)

ASSUME ShareAssumption ==
  /\ Paths \subseteq Seq(STRING) /\ Lengths \subseteq Nat
  /\ \A p \in Paths : Len(p) > 0 /\ \A n \in 1..Len(p) : SubSeq(p, 1, n) \in Paths
  /\ Block \in Nat \ {0} /\ ErrorCodes \subseteq 1..(Block - 1)
  /\ MaxCalls \in Nat /\ MaxFaults \in Nat /\ MaxOthers \in Nat

VARIABLES
  kind,            \* "smb" or "nfs"
  link,            \* smb_ctx, nfs_ctx: "none", "dead" (not connected), "live", or
                   \* "gone": broken, and nfs_is_connected has not noticed
  remote,          \* the share: what is at each path
  local,           \* the local file that put reads and get writes
  bytes,           \* what getBytes has appended
  pc, op, path,    \* the call in progress, or the last one
  made,            \* mkdir: how many components are there
  frames,          \* rmdir: open directories, the innermost last
  fh,              \* the handle of the remote file names what is at path
  pos, roff,       \* offset in the file read, offset in the remote file written
  wsize,           \* write_size
  result,          \* what the call returned: "true", "false"; "none" until then
  was, copy,       \* history: the share and the local file when the call began
  disk,            \* history: the local file of getAs could be opened and took all
                   \* ("ok"), was not opened ("closed"), or lost something ("full")
  faulted,         \* history: something failed during the call
  meddled,         \* history: another client changed the share during the call
  calls, faults, others

locally  == <<copy, disk>>
history  == <<was, faulted, meddled>>
transfer == <<fh, pos, roff, wsize>>
vars == <<kind, link, remote, local, bytes, pc, op, path, made, frames, transfer,
          result, history, locally, calls, faults, others>>

Absent     == [type |-> "absent", data |-> << >>]
Dir        == [type |-> "dir", data |-> << >>]
File(data) == [type |-> "file", data |-> data]

Written(v, n) == [i \in 1..n |-> <<v, i>>]
Hole          == <<0, 0>>
Inside(p, q)  == Len(q) >= Len(p) /\ SubSeq(q, 1, Len(p)) = p
Children(p)   == {q \in Paths : Up(q) = p}
HasParent(p)  == Len(p) > 1 => remote[Up(p)].type = "dir"

(* A tree: below a file or nothing there is nothing. *)
IsTree(t) ==
  \A p \in Paths : t[p].type # "absent" =>
    \A n \in 1..(Len(p) - 1) : t[SubSeq(p, 1, n)].type = "dir"

Init ==
  /\ kind \in {"smb", "nfs"} /\ link = "none"
  /\ remote \in {t \in [Paths -> {Absent, Dir} \cup {File(Written(1, n)) : n \in Lengths}] : IsTree(t)}
  /\ local \in {Absent} \cup {File(Written(2, n)) : n \in Lengths}
  /\ bytes = << >>
  /\ pc = "idle" /\ op = "none" /\ path \in {p \in Paths : Len(p) = 1}
  /\ made = 0 /\ frames = << >>
  /\ fh = FALSE /\ pos = 0 /\ roff = 0 /\ wsize = 0
  /\ result = "none"
  /\ was = remote /\ copy = local /\ disk = "ok" /\ faulted = FALSE /\ meddled = FALSE
  /\ calls = 0 /\ faults = 0 /\ others = 0

-----------------------------------------------------------------------------
(* autoReconnect and the calls of the library *)

(* Mutated form: the context is built anew every time. *)
EchoNever == FALSE
(* smb2_echo asks the server, nfs_is_connected only what libnfs has noticed:
   a context that passes stays. *)
Connected(l) == l \in {"live", "gone"}
Echo == Connected(link)

Links == {"none", "dead", "gone", "live"}

(* n more failures in a call that had one before if f. *)
Failing(f, n) ==
  /\ faults' = faults + n /\ faults' <= MaxFaults
  /\ faulted' = (f \/ n > 0)

(* autoReconnect leaves the context in state l and a library call follows,
   which is answered or not.  A connection that is gone was one of the faults
   when it broke, any other failure is one now. *)
Reached(f, l, ok) ==
  /\ ok => l = "live"
  /\ IF Echo THEN l = link ELSE l # "gone"
  /\ link' = l
  /\ Failing(f \/ ~ok, IF ok \/ l = "gone" THEN 0 ELSE 1)

(* Directories opened with a context that is destroyed are left with it. *)
Aged(fs) == IF Echo THEN fs ELSE [i \in DOMAIN fs |-> [fs[i] EXCEPT !.stale = TRUE]]

(* A library call without autoReconnect. *)
Asked(ok) ==
  /\ ok => link = "live"
  /\ Failing(faulted \/ ~ok, IF ok \/ link # "live" THEN 0 ELSE 1)
  /\ UNCHANGED link

Return(r) == pc' = "idle" /\ result' = r
Told(b)   == IF b THEN "true" ELSE "false"

(* A call begins, with fresh local variables. *)
Begin(o, p) ==
  /\ pc = "idle" /\ calls < MaxCalls
  /\ calls' = calls + 1
  /\ op' = o /\ path' = p
  /\ made' = 0 /\ bytes' = << >>
  /\ fh' = FALSE /\ pos' = 0 /\ roff' = 0 /\ wsize' = 0
  /\ was' = remote /\ copy' = local /\ meddled' = FALSE
  /\ UNCHANGED <<kind, others>>

Begins(o, p, l, ok) == Begin(o, p) /\ disk' = "ok" /\ Reached(FALSE, l, ok)

-----------------------------------------------------------------------------
(* Calls that are one call of the library *)

(* unlink, truncate(0), rename, and stat or opendir, which change nothing. *)
Unlinked(p)  == [remote EXCEPT ![p] = Absent]
Truncated(p) == [remote EXCEPT ![p] = File(<< >>)]
Renamed(p, q) == [remote EXCEPT ![q] = remote[p], ![p] = Absent]

(* Only NFS replaces a file that has the new name. *)
Replaceable(q)  == remote[q].type = "absent" \/ (kind = "nfs" /\ remote[q].type = "file")
CanRename(p, q) == remote[p].type = "file" /\ HasParent(q) /\ q # p /\ Replaceable(q)

OneCall(o, p, can, new) ==
  \E l \in Links, ok \in BOOLEAN :
    /\ Begins(o, p, l, ok)
    /\ remote' = IF ok /\ can THEN new ELSE remote
    /\ Return(Told(ok /\ can))
    /\ UNCHANGED <<local, frames>>

Remove(p)    == OneCall("remove", p, remote[p].type = "file", Unlinked(p))
Clean(p)     == OneCall("clean", p, remote[p].type = "file", Truncated(p))
Rename(p, q) == OneCall("rename", p, CanRename(p, q), Renamed(p, q))
Query(p)     == OneCall("query", p, remote[p].type # "absent", remote)

-----------------------------------------------------------------------------
(* mkdir, also as a part of putAs *)

(* Mutated form: putAs makes directories of the whole path. *)
TargetWhole == path
Target == IF op = "mkdir" THEN path ELSE Up(path)

(* Mutated form: the loop skips a component. *)
FurtherTwo == made + 2
Further == made + 1

Next1 == SubSeq(Target, 1, made + 1)

BeginMkdir(p) ==
  /\ \E l \in Links :
       /\ Begins("mkdir", p, l, l = "live")
       /\ IF Connected(l) THEN pc' = "look" /\ result' = "none" ELSE Return("false")
  /\ UNCHANGED <<remote, local, frames>>

(* putAs: autoReconnect, the local file, then mkdir with its own autoReconnect. *)
BeginPut(p) ==
  /\ \E l \in Links :
       /\ Begins("put", p, l, l = "live")
       /\ IF Connected(l) /\ local.type = "file" THEN pc' = "mkdir" /\ result' = "none" ELSE Return("false")
  /\ UNCHANGED <<remote, local, frames>>

MkdirEnter ==
  /\ pc = "mkdir"
  /\ \E l \in Links :
       /\ Reached(faulted, l, l = "live")
       /\ IF Connected(l) THEN pc' = "look" /\ UNCHANGED result ELSE Return("false")
  /\ UNCHANGED <<kind, remote, local, bytes, op, path, made, frames, transfer, was, meddled, locally, calls, others>>

(* getFileType: UNKNOWN without a connection, NOT_EXIST whenever stat fails. *)
Seen(l, ok) == IF ~Connected(l) THEN "unknown" ELSE IF ok THEN remote[Next1].type ELSE "absent"

MkdirLook ==
  /\ pc = "look" /\ made < Len(Target)
  /\ \E l \in Links, ok \in BOOLEAN :
       /\ Reached(faulted, l, ok)
       /\ \/ Seen(l, ok) = "absent" /\ pc' = "make" /\ UNCHANGED <<made, result>>
          \/ Seen(l, ok) = "dir" /\ made' = Further /\ UNCHANGED <<pc, result>>
          \/ Seen(l, ok) \in {"file", "unknown"} /\ Return("false") /\ UNCHANGED made
  /\ UNCHANGED <<kind, remote, local, bytes, op, path, frames, transfer, was, meddled, locally, calls, others>>

MkdirMake ==
  /\ pc = "make"
  /\ \E ok \in BOOLEAN :
       /\ Asked(ok)
       /\ IF ok /\ remote[Next1].type = "absent" /\ HasParent(Next1)
          THEN /\ remote' = [remote EXCEPT ![Next1] = Dir]
               /\ made' = Further /\ pc' = "look" /\ UNCHANGED result
          ELSE Return("false") /\ UNCHANGED <<remote, made>>
  /\ UNCHANGED <<kind, local, bytes, op, path, frames, transfer, was, meddled, locally, calls, others>>

MkdirDone ==
  /\ pc = "look" /\ made = Len(Target)
  /\ IF op = "mkdir" THEN Return("true") ELSE pc' = "open" /\ UNCHANGED result
  /\ UNCHANGED <<kind, link, remote, local, bytes, op, path, made, frames, transfer, history, locally, calls, faults, others>>

-----------------------------------------------------------------------------
(* putAs, once the directory is there *)

(* O_WRONLY | O_CREAT: what is there stays. *)
PutOpen ==
  /\ pc = "open" /\ op = "put"
  /\ \E ok \in BOOLEAN :
       /\ Asked(ok)
       /\ IF ok /\ HasParent(path) /\ remote[path].type # "dir"
          THEN /\ remote' = [remote EXCEPT ![path].type = "file"]
               /\ fh' = TRUE /\ pc' = "write" /\ UNCHANGED result
          ELSE Return("false") /\ UNCHANGED <<remote, fh>>
  /\ UNCHANGED <<kind, local, bytes, op, path, made, frames, pos, roff, wsize, was, meddled, locally, calls, others>>

Smaller(x, y) == IF x < y THEN x ELSE y
Larger(x, y)  == IF x < y THEN y ELSE x
Part(data)    == SubSeq(data, pos + 1, Smaller(pos + Block, Len(data)))

Overwritten(old, off, new) ==
  [i \in 1..Larger(Len(old), off + Len(new)) |->
     IF i \in (off + 1)..(off + Len(new)) THEN new[i - off]
     ELSE IF i <= Len(old) THEN old[i] ELSE Hole]

(* A block is written, the server may take only its beginning. *)
PutWrites ==
  /\ pc = "write" /\ pos < Len(local.data)
  /\ link = "live" /\ fh
  /\ \E k \in 1..Len(Part(local.data)) :
       /\ Failing(faulted, IF k = Len(Part(local.data)) THEN 0 ELSE 1)
       /\ remote' = [remote EXCEPT ![path].data =
                       Overwritten(@, roff, SubSeq(Part(local.data), 1, k))]
       /\ roff' = roff + k /\ wsize' = wsize + k
  /\ pos' = pos + Len(Part(local.data))
  /\ UNCHANGED <<kind, link, local, bytes, pc, op, path, made, frames, fh, result, was, meddled, locally, calls, others>>

(* Mutated form: the next block is tried after an error, like NFS. *)
StopsNever == FALSE
StopsAtError == kind = "smb"

(* A write fails: SMB leaves the loop, NFS adds the error code and goes on
   with the next block. *)
PutWriteFails ==
  /\ pc = "write" /\ pos < Len(local.data)
  /\ Failing(faulted, IF link = "live" /\ fh THEN 1 ELSE 0)
  /\ IF StopsAtError
     THEN Return(Told(wsize >= 0)) /\ UNCHANGED <<pos, wsize>>
     ELSE /\ pos' = pos + Len(Part(local.data))
          /\ \E e \in ErrorCodes : wsize' = wsize - e
          /\ UNCHANGED <<pc, result>>
  /\ UNCHANGED <<kind, link, remote, local, bytes, op, path, made, frames, fh, roff, was, meddled, locally, calls, others>>

PutDone ==
  /\ pc = "write" /\ pos = Len(local.data)
  /\ Return(Told(wsize >= 0))
  /\ UNCHANGED <<kind, link, remote, local, bytes, op, path, made, frames, transfer, history, locally, calls, faults, others>>

-----------------------------------------------------------------------------
(* getAs and getBytes *)

(* Mutated form: the local file is opened without truncation. *)
OpenedKept == IF local.type = "file" THEN local ELSE File(<< >>)
(* "wb+" *)
Opened == File(<< >>)

(* getAs opens the local file before it asks the server; when that fails the
   old copy stays and the call is over. *)
BeginGet(p) ==
  /\ Begin("get", p)
  /\ \/ /\ local' = Opened /\ disk' = "ok"
        /\ pc' = "open" /\ result' = "none" /\ Failing(FALSE, 0)
     \/ /\ disk' = "closed" /\ UNCHANGED local
        /\ Return("false") /\ Failing(FALSE, 1)
  /\ UNCHANGED <<link, remote, frames>>

BeginGetBytes(p) ==
  /\ Begin("bytes", p)
  /\ pc' = "open" /\ result' = "none" /\ disk' = "ok" /\ Failing(FALSE, 0)
  /\ UNCHANGED <<link, remote, local, frames>>

GetOpen ==
  /\ pc = "open" /\ op # "put"
  /\ \E l \in Links, ok \in BOOLEAN :
       /\ Reached(faulted, l, ok)
       /\ IF ok /\ remote[path].type = "file"
          THEN fh' = TRUE /\ pc' = "read" /\ UNCHANGED result
          ELSE Return("false") /\ UNCHANGED fh
  /\ UNCHANGED <<kind, remote, local, bytes, op, path, made, frames, pos, roff, wsize, was, meddled, locally, calls, others>>

(* What com_file_write may return when the file took only k of n units: the
   stream buffers, so that all may seem well until com_file_flush and
   com_file_close, whose results nobody looks at. *)
Claims(k, n) == {k, n} \cup {-e : e \in ErrorCodes}

GetReads ==
  LET part == Part(remote[path].data)
      n    == Len(part) IN
  /\ pc = "read" /\ link = "live" /\ fh /\ pos < Len(remote[path].data)
  /\ \/ /\ op = "bytes" /\ bytes' = bytes \o part /\ wsize' = wsize + n
        /\ Failing(faulted, 0)
        /\ UNCHANGED <<local, locally>>
     \/ /\ op = "get" /\ local' = File(local.data \o part) /\ wsize' = wsize + n
        /\ Failing(faulted, 0)
        /\ UNCHANGED <<bytes, locally>>
     \/ \E k \in 0..(n - 1) :
        /\ op = "get" /\ local' = File(local.data \o SubSeq(part, 1, k))
        /\ \E c \in Claims(k, n) : wsize' = wsize + c
        /\ Failing(TRUE, IF disk = "full" THEN 0 ELSE 1) /\ disk' = "full"
        /\ UNCHANGED <<bytes, copy>>
  /\ pos' = pos + n
  /\ UNCHANGED <<kind, link, remote, pc, op, path, made, frames, fh, roff, result, was, meddled, calls, others>>

(* The end of the file or an error: the loop ends in the same way. *)
GetEnds ==
  /\ pc = "read"
  /\ Failing(faulted, IF link = "live" /\ fh /\ pos < Len(remote[path].data) THEN 1 ELSE 0)
  /\ Return(Told(wsize > 0))
  /\ UNCHANGED <<kind, link, remote, local, bytes, op, path, made, frames, transfer, was, meddled, locally, calls, others>>

-----------------------------------------------------------------------------
(* rmdir: the library lists a directory when it is opened *)

Listing(p) == {[path |-> q, type |-> remote[q].type] : q \in {x \in Children(p) : remote[x].type # "absent"}}
Open(p)    == [dir |-> p, rest |-> Listing(p), stale |-> FALSE]
Top        == frames[Len(frames)]
Popped     == SubSeq(frames, 1, Len(frames) - 1)

BeginRmdir(p) ==
  /\ \E l \in Links, ok \in BOOLEAN :
       /\ Begins("rmdir", p, l, ok)
       /\ IF ok /\ remote[p].type = "dir"
          THEN frames' = <<Open(p)>> /\ pc' = "rmdir" /\ result' = "none"
          ELSE Return("false") /\ UNCHANGED frames
  /\ UNCHANGED <<remote, local>>

(* libsmb2 frees the directories of a context with it: the next readdir or
   closedir of one is undefined, and the model stops.  libnfs keeps them. *)
Misused == kind = "smb" /\ Top.stale

RmdirMisuse ==
  /\ pc = "rmdir" /\ Misused
  /\ pc' = "misuse"
  /\ UNCHANGED <<kind, link, remote, local, bytes, op, path, made, frames, transfer, result, history, locally, calls, faults, others>>

Taken(e) == [frames EXCEPT ![Len(frames)].rest = @ \ {e}]

(* A listed directory: rmdir of it, which reconnects and may find nothing. *)
RmdirEnter(e) ==
  /\ pc = "rmdir" /\ ~Misused /\ e \in Top.rest /\ e.type = "dir"
  /\ \E l \in Links, ok \in BOOLEAN :
       /\ Reached(faulted, l, ok)
       /\ frames' = LET fs == Aged(Taken(e))
                    IN IF ok /\ remote[e.path].type = "dir" THEN Append(fs, Open(e.path)) ELSE fs
  /\ UNCHANGED <<kind, remote, local, bytes, pc, op, path, made, transfer, result, was, meddled, locally, calls, others>>

(* Any other entry: unlink, whose result nobody looks at. *)
RmdirUnlink(e) ==
  /\ pc = "rmdir" /\ ~Misused /\ e \in Top.rest /\ e.type # "dir"
  /\ \E ok \in BOOLEAN :
       /\ Asked(ok)
       /\ remote' = IF ok /\ remote[e.path].type = "file" THEN Unlinked(e.path) ELSE remote
  /\ frames' = Taken(e)
  /\ UNCHANGED <<kind, local, bytes, pc, op, path, made, transfer, result, was, meddled, locally, calls, others>>

Empty(p) == \A q \in Children(p) : remote[q].type = "absent"

(* Mutated form: only the directory that was asked for is removed itself. *)
RemovableOuter(p) == p = path /\ remote[p].type = "dir" /\ Empty(p)
Removable(p) == remote[p].type = "dir" /\ Empty(p)

(* Behind the last entry the directory itself; the outermost returns true. *)
RmdirLeave ==
  /\ pc = "rmdir" /\ ~Misused /\ Top.rest = {}
  /\ \E ok \in BOOLEAN :
       /\ Asked(ok)
       /\ remote' = IF ok /\ Removable(Top.dir) THEN Unlinked(Top.dir) ELSE remote
  /\ frames' = Popped
  /\ IF Len(frames) = 1 THEN Return("true") ELSE UNCHANGED <<pc, result>>
  /\ UNCHANGED <<kind, local, bytes, op, path, made, transfer, was, meddled, locally, calls, others>>

-----------------------------------------------------------------------------
(* The connection and the other clients *)

LinkBreaks ==
  /\ link = "live" /\ faults < MaxFaults
  /\ link' \in IF kind = "smb" THEN {"dead"} ELSE {"dead", "gone"}
  /\ faults' = faults + 1
  /\ faulted' = (faulted \/ pc # "idle")
  /\ UNCHANGED <<kind, remote, local, bytes, pc, op, path, made, frames, transfer, result, was, meddled, locally, calls, others>>

(* libnfs notices, and connects by itself when it was told to (seReconnect). *)
LinkNoticed ==
  /\ link = "gone" /\ link' \in {"dead", "live"}
  /\ UNCHANGED <<kind, remote, local, bytes, pc, op, path, made, frames, transfer, result, history, locally, calls, faults, others>>

(* Another client makes, writes or removes what is at a path.  A file that was
   removed takes its handles with it. *)
Meddle(p, node) ==
  /\ pc \notin {"idle", "misuse"} /\ others < MaxOthers
  /\ HasParent(p) /\ Empty(p) /\ remote[p] # node
  /\ remote[p].type \in {"absent", node.type} \/ node = Absent
  /\ remote' = [remote EXCEPT ![p] = node]
  /\ fh' = (fh /\ ~(p = path /\ node = Absent))
  /\ others' = others + 1 /\ meddled' = TRUE
  /\ UNCHANGED <<kind, link, local, bytes, pc, op, path, made, frames, pos, roff, wsize, result, was, faulted, locally, calls, faults>>

Foreign == {Absent, Dir, File(Written(3, Block))}

-----------------------------------------------------------------------------
Begins1 ==
  \E p \in Paths :
    \/ Remove(p) \/ Clean(p) \/ Query(p) \/ BeginMkdir(p) \/ BeginRmdir(p)
    \/ BeginPut(p) \/ BeginGet(p) \/ BeginGetBytes(p)
    \/ \E q \in Paths : Rename(p, q)

Running ==
  \/ MkdirEnter \/ MkdirLook \/ MkdirMake \/ MkdirDone
  \/ PutOpen \/ PutWrites \/ PutWriteFails \/ PutDone
  \/ GetOpen \/ GetReads \/ GetEnds
  \/ RmdirMisuse \/ RmdirLeave
  \/ (pc = "rmdir" /\ \E e \in Top.rest : RmdirEnter(e) \/ RmdirUnlink(e))

Next == Begins1 \/ Running \/ LinkBreaks \/ LinkNoticed \/ (\E p \in Paths, n \in Foreign : Meddle(p, n))

Spec == Init /\ [][Next]_vars

-----------------------------------------------------------------------------
Unit  == (0..3) \X Nat
Node  == {Absent, Dir} \cup [type : {"file"}, data : Seq(Unit)]
Frame == [dir : Paths, rest : SUBSET [path : Paths, type : {"dir", "file"}], stale : BOOLEAN]

(* The variables have their types, and the share stays a tree. *)
TypeOK ==
  /\ kind \in {"smb", "nfs"} /\ link \in Links
  /\ remote \in [Paths -> Node] /\ IsTree(remote)
  /\ local \in Node /\ local # Dir /\ bytes \in Seq(Unit)
  /\ pc \in {"idle", "mkdir", "look", "make", "open", "write", "read", "rmdir", "misuse"}
  /\ op \in {"none", "remove", "clean", "rename", "query", "mkdir", "rmdir", "put", "get", "bytes"}
  /\ path \in Paths
  /\ pc \in {"look", "make"} => made \in 0..Len(Target)
  /\ frames \in Seq(Frame)
  /\ fh \in BOOLEAN /\ pos \in Nat /\ roff \in Nat /\ wsize \in Int
  /\ result \in {"none", "true", "false"}
  /\ was \in [Paths -> Node] /\ faulted \in BOOLEAN /\ meddled \in BOOLEAN
  /\ copy \in Node /\ disk \in {"ok", "closed", "full"}
  /\ calls \in 0..MaxCalls /\ faults \in 0..MaxFaults /\ others \in 0..MaxOthers

Returned(o) == pc = "idle" /\ op = o
Calm        == ~faulted /\ ~meddled
Prefix(s, t) == Len(s) <= Len(t) /\ SubSeq(t, 1, Len(s)) = s

(* putAs that met no failure and no other client has the local file, all of
   it and in order, at the start of the remote one, over whatever was there;
   and an SMB put that returns false has not touched the contents of a file,
   whatever failed (comex_smb.cpp:200-255, comex_nfs.cpp:170-217). *)
PutLands ==
  Returned("put") =>
    /\ result = "true" /\ Calm =>
         remote[path].data = Overwritten(was[path].data, 0, local.data)
    /\ result = "false" /\ kind = "smb" /\ ~meddled =>
         \A q \in Paths : remote[q].data = was[q].data

(* s is t with some units left out. *)
Thinned(s, t) ==
  \E f \in [1..Len(s) -> 1..Len(t)] :
    /\ \A i \in 1..Len(s) : s[i] = t[f[i]]
    /\ \A i, j \in 1..Len(s) : i < j => f[i] < f[j]

Received(got) ==
  /\ Prefix(got, remote[path].data)
  /\ result = "true" <=> got # << >>
  /\ ~faulted => got = remote[path].data

(* getAs that cannot open the local file says so and leaves the old copy.  Once
   it is open, nothing of that copy is left, and while the disk takes what it
   is given the local file is a beginning of the remote one, however the
   connection failed, and all of it without a failure; what getBytes returns
   likewise.  What the disk does not take is missing, also in the middle, and
   the result says nothing of it (comex_smb.cpp getAs, comex_nfs.cpp getAs). *)
GetIsPrefix ==
  /\ Returned("get") /\ ~meddled =>
       /\ disk = "closed" => result = "false" /\ local = copy
       /\ disk = "ok"     => Received(local.data)
       /\ disk = "full"   => Thinned(local.data, remote[path].data)
  /\ Returned("bytes") /\ ~meddled => Received(bytes)

(* A directory that rmdir has open outlives its context only if something
   failed during the call: while the server answers, the autoReconnect of the
   inner calls leaves the context alone.  After a failure rmdir does go on
   with it (comex_smb.cpp:110-115, 515-558). *)
ContextKept ==
  (pc = "misuse" \/ \E i \in DOMAIN frames : frames[i].stale) => faulted

(* mkdir that returns true has made or seen every directory of the path, also
   if connections broke in between, unless another client removed one; rmdir
   without a failure leaves nothing at its path and goes on with no directory
   whose context is gone; with or without, while it is defined what it does,
   it touches nothing outside (comex_smb.cpp mkdir, rmdir). *)
DirsAsTold ==
  /\ Returned("mkdir") /\ result = "true" /\ ~meddled =>
       \A n \in 1..Len(path) : remote[SubSeq(path, 1, n)].type = "dir"
  /\ Returned("rmdir") /\ result = "true" /\ Calm =>
       \A q \in Paths : Inside(path, q) => remote[q] = Absent
  /\ op = "rmdir" /\ ~meddled => \A q \in Paths : ~Inside(path, q) => remote[q] = was[q]
  /\ ContextKept

Blocked(p) == \E n \in 1..(Len(p) - 1) : was[SubSeq(p, 1, n)].type = "file"

(* What the share and the local file alone are reason enough to fail for. *)
Reason ==
  CASE op = "put"   -> local.type # "file" \/ was[path].type = "dir" \/ Blocked(path)
    [] op \in {"get", "bytes"} -> was[path].data = << >>
    [] op = "mkdir" -> was[path].type = "file" \/ Blocked(path)
    [] op = "rmdir" -> was[path].type # "dir"
    [] op = "query" -> was[path].type = "absent"
    [] OTHER        -> was[path].type # "file" \/ op = "rename"

(* A call that meets no failure of its own fails only for a reason in the
   share, whatever state an earlier failure left the connection, the context
   and half made directories in: autoReconnect repairs a context that it
   finds out of order.  To begin on a connection that is gone unnoticed is a
   failure of each call that does (comex_nfs.cpp:100-105). *)
FailsForAReason == pc = "idle" /\ result = "false" /\ Calm => Reason
=============================================================================
