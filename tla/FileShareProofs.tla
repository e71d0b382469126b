--------------------------- MODULE FileShareProofs ---------------------------
(***************************************************************************)
(* What holds of the SMB and NFS clients for every share, every length of  *)
(* file and buffer, and any number of calls, failures and other clients.   *)
(***************************************************************************)
EXTENDS FileShare, SequenceTheorems, TLAPS

-----------------------------------------------------------------------------
(* Paths, nodes and files *)

LEMMA PathType ==
  ASSUME NEW p \in Paths
  PROVE  /\ p \in Seq(STRING) /\ Len(p) \in Nat /\ Len(p) > 0
         /\ \A n \in 1..Len(p) : SubSeq(p, 1, n) \in Paths /\ Len(SubSeq(p, 1, n)) = n
         /\ Up(p) \in Seq(STRING) /\ Len(Up(p)) = Len(p) - 1
         /\ Len(p) > 1 => Up(p) \in Paths
<1>1. p \in Seq(STRING) /\ Len(p) \in Nat /\ Len(p) > 0 /\ \A n \in 1..Len(p) : SubSeq(p, 1, n) \in Paths
  BY ShareAssumption, LenProperties
<1>2. \A i \in 1..Len(p) : p[i] \in STRING
  BY <1>1, ElementOfSeq
<1>3. ASSUME NEW n \in 1..Len(p) PROVE Len(SubSeq(p, 1, n)) = n
  BY <1>1, <1>2, <1>3, SubSeqProperties
<1>4. SubSeq(p, 1, Len(p) - 1) \in Seq(STRING) /\ Len(SubSeq(p, 1, Len(p) - 1)) = Len(p) - 1
  <2> DEFINE n == Len(p) - 1
  <2>1. n \in Nat /\ 1 \in Int /\ \A i \in 1..n : p[i] \in STRING
    BY <1>1, <1>2
  <2> HIDE DEF n
  <2>2. SubSeq(p, 1, n) \in Seq(STRING) /\ Len(SubSeq(p, 1, n)) = n
    BY <2>1, SubSeqProperties
  <2> QED
    BY <2>2 DEF n
<1>5. Len(p) > 1 => Len(p) - 1 \in 1..Len(p)
  BY <1>1
<1>6. Len(p) > 1 => SubSeq(p, 1, Len(p) - 1) \in Paths
  BY <1>1, <1>5
<1> QED
  BY <1>1, <1>3, <1>4, <1>6 DEF Up

(* A beginning of a beginning is a beginning. *)
LEMMA PrefixOfPrefix ==
  ASSUME NEW p \in Paths, NEW n \in 1..Len(p), NEW m \in 1..n
  PROVE  SubSeq(SubSeq(p, 1, n), 1, m) = SubSeq(p, 1, m)
<1>1. p \in Seq(STRING) /\ SubSeq(p, 1, n) \in Seq(STRING) /\ Len(p) \in Nat
  BY PathType, ShareAssumption
<1> QED
  BY <1>1, SubSeqOfSubSeq

LEMMA WholePath ==
  ASSUME NEW p \in Paths
  PROVE  SubSeq(p, 1, Len(p)) = p
  BY PathType, SubSeqFull

LEMMA NodeType ==
  /\ Absent \in Node /\ Dir \in Node /\ \A d \in Seq(Unit) : File(d) \in Node
  /\ \A n \in Node : /\ n.type \in {"absent", "dir", "file"} /\ n.data \in Seq(Unit)
                     /\ n.type = "absent" <=> n = Absent
                     /\ n.type = "dir" <=> n = Dir
                     /\ n.type = "file" => n = File(n.data)
                     /\ n.type # "file" => n.data = << >>
<1>1. << >> \in Seq(Unit)
  BY EmptySeq
<1>2. Absent \in Node /\ Dir \in Node /\ \A d \in Seq(Unit) : File(d) \in Node
  BY <1>1 DEF Absent, Dir, File, Node
<1>3. ASSUME NEW n \in Node
      PROVE  n = Absent \/ n = Dir \/ n \in [type : {"file"}, data : Seq(Unit)]
  BY DEF Node
<1>4. ASSUME NEW n \in [type : {"file"}, data : Seq(Unit)]
      PROVE  n.type = "file" /\ n.data \in Seq(Unit) /\ n = File(n.data) /\ n # Absent /\ n # Dir
  BY DEF File, Absent, Dir
<1>5. Absent.type = "absent" /\ Absent.data = << >> /\ Dir.type = "dir" /\ Dir.data = << >> /\ Absent # Dir
  BY DEF Absent, Dir
<1>6. ASSUME NEW n \in Node
      PROVE  /\ n.type \in {"absent", "dir", "file"} /\ n.data \in Seq(Unit)
             /\ n.type = "absent" <=> n = Absent
             /\ n.type = "dir" <=> n = Dir
             /\ n.type = "file" => n = File(n.data)
             /\ n.type # "file" => n.data = << >>
  BY <1>1, <1>3, <1>4, <1>5
<1> QED
  BY <1>2, <1>6

(* The share stays a tree if what is at p is replaced, unless that cuts off
   what is below p or hangs something where there is no directory. *)
LEMMA TreeKept ==
  ASSUME NEW t \in [Paths -> Node], IsTree(t), NEW p \in Paths, NEW n \in Node,
         t[p].type = "dir" /\ n.type # "dir" => \A q \in Children(p) : t[q].type = "absent",
         n.type # "absent" /\ Len(p) > 1 => t[Up(p)].type = "dir"
  PROVE  [t EXCEPT ![p] = n] \in [Paths -> Node] /\ IsTree([t EXCEPT ![p] = n])
<1> DEFINE u == [t EXCEPT ![p] = n]
<1>1. u \in [Paths -> Node]
  OBVIOUS
<1>2. ASSUME NEW q \in Paths, u[q].type # "absent", NEW m \in 1..(Len(q) - 1)
      PROVE  u[SubSeq(q, 1, m)].type = "dir"
  <2> DEFINE a == SubSeq(q, 1, m)
  <2>1. a \in Paths /\ Len(a) = m /\ Len(q) \in Nat /\ m < Len(q)
    BY PathType
  <2>2. CASE q = p
    <3>1. a # p
      BY <2>1, <2>2
    <3>2. t[Up(p)].type = "dir" /\ Up(p) \in Paths /\ Len(p) > 1
      BY <1>2, <2>1, <2>2, PathType
    <3>3. CASE m = Len(p) - 1
      <4>1. a = Up(p)
        BY <2>2, <3>3 DEF Up
      <4> QED
        BY <2>1, <3>1, <3>2, <4>1
    <3>4. CASE m < Len(p) - 1
      <4>1. a = SubSeq(Up(p), 1, m)
        BY <2>1, <2>2, <3>2, <3>4, PrefixOfPrefix DEF Up
      <4>2. m \in 1..(Len(Up(p)) - 1)
        BY <2>1, <2>2, <3>4, PathType
      <4>3. t[a].type = "dir"
        BY <3>2, <4>1, <4>2 DEF IsTree
      <4> QED
        BY <2>1, <3>1, <4>3
    <3> QED
      BY <2>1, <2>2, <3>3, <3>4
  <2>3. CASE q # p
    <3>1. t[q].type # "absent" /\ t[a].type = "dir"
      BY <1>2, <2>3 DEF IsTree
    <3>2. CASE a # p
      BY <2>1, <3>1, <3>2
    <3>3. CASE a = p /\ n.type = "dir"
      BY <2>1, <3>3
    <3>4. CASE a = p /\ n.type # "dir"
      <4> DEFINE c == SubSeq(q, 1, m + 1)
      <4>1. c \in Paths /\ Len(c) = m + 1
        BY <2>1, PathType
      <4>2. Up(c) = p
        <5>1. m + 1 \in 1..Len(q) /\ m \in 1..(m + 1) /\ (m + 1) - 1 = m
          BY <2>1
        <5>2. SubSeq(c, 1, m) = a
          BY <5>1, PrefixOfPrefix
        <5>3. Up(c) = SubSeq(c, 1, m)
          BY <4>1, <5>1 DEF Up
        <5> QED
          BY <3>4, <5>2, <5>3
      <4>3. t[c].type = "absent"
        <5>1. c \in Children(p) /\ t[p].type = "dir"
          BY <3>1, <3>4, <4>1, <4>2 DEF Children
        <5> QED
          BY <3>4, <5>1
      <4>4. c = q \/ t[c].type = "dir"
        BY <2>1, <3>1, WholePath DEF IsTree
      <4> QED
        BY <3>1, <4>3, <4>4
    <3> QED
      BY <3>2, <3>3, <3>4
  <2> QED
    BY <2>2, <2>3
<1> QED
  BY <1>1, <1>2 DEF IsTree

LEMMA PartType ==
  ASSUME NEW data \in Seq(Unit), pos \in Nat
  PROVE  /\ Part(data) \in Seq(Unit)
         /\ pos <= Len(data) => Len(Part(data)) = Smaller(Block, Len(data) - pos)
         /\ \A i \in 1..Len(Part(data)) : Part(data)[i] = data[pos + i]
         /\ \A k \in 1..Len(Part(data)) : SubSeq(Part(data), 1, k) \in Seq(Unit) /\ Len(SubSeq(Part(data), 1, k)) = k
<1> DEFINE end == Smaller(pos + Block, Len(data))
<1>1. Len(data) \in Nat /\ Block \in Nat \ {0} /\ end \in Nat /\ end <= Len(data) /\ end <= pos + Block
  BY ShareAssumption, LenProperties DEF Smaller
<1>2. \A i \in (pos + 1)..end : data[i] \in Unit
  BY <1>1, ElementOfSeq
<1>3. /\ Part(data) \in Seq(Unit)
      /\ Len(Part(data)) = IF pos + 1 <= end THEN end - (pos + 1) + 1 ELSE 0
      /\ \A i \in 1..(end - (pos + 1) + 1) : Part(data)[i] = data[pos + 1 + i - 1]
  BY <1>1, <1>2, SubSeqProperties DEF Part
<1>4. ASSUME NEW k \in 1..Len(Part(data))
      PROVE  SubSeq(Part(data), 1, k) \in Seq(Unit) /\ Len(SubSeq(Part(data), 1, k)) = k
  <2>1. \A i \in 1..k : Part(data)[i] \in Unit
    BY <1>3, ElementOfSeq, LenProperties
  <2> QED
    BY <1>3, <2>1, SubSeqProperties, LenProperties
<1> QED
  BY <1>1, <1>3, <1>4 DEF Smaller

LEMMA OverwrittenType ==
  ASSUME NEW old \in Seq(Unit), NEW off \in Nat, NEW new \in Seq(Unit)
  PROVE  /\ Overwritten(old, off, new) \in Seq(Unit)
         /\ Len(Overwritten(old, off, new)) = Larger(Len(old), off + Len(new))
<1>1. Len(old) \in Nat /\ Len(new) \in Nat /\ Larger(Len(old), off + Len(new)) \in Nat
  BY LenProperties DEF Larger
<1>2. \A i \in 1..Len(old) : old[i] \in Unit
  BY ElementOfSeq
<1>3. \A i \in 1..Len(new) : new[i] \in Unit
  BY ElementOfSeq
<1>4. Hole \in Unit
  BY DEF Hole, Unit
<1>5. Overwritten(old, off, new) \in [1..Larger(Len(old), off + Len(new)) -> Unit]
  BY <1>1, <1>2, <1>3, <1>4 DEF Overwritten, Larger
<1> QED
  BY <1>1, <1>5, SeqDef, LenProperties

LEMMA ListingType ==
  ASSUME remote \in [Paths -> Node], NEW p \in Paths
  PROVE  Open(p) \in Frame /\ Open(p).dir = p /\ ~Open(p).stale
         /\ \A e \in Open(p).rest : Up(e.path) = p
  BY NodeType DEF Open, Listing, Frame, Children

(* The component that mkdir looks at. *)
LEMMA ComponentType ==
  ASSUME path \in Paths, made \in 0..Len(Target), made < Len(Target)
  PROVE  /\ Next1 \in Paths /\ Next1 = SubSeq(path, 1, made + 1) /\ Len(Next1) = made + 1
         /\ Len(Target) \in Nat /\ Len(Target) <= Len(path)
         /\ \A n \in 1..(made + 1) : SubSeq(Target, 1, n) = SubSeq(path, 1, n) /\ SubSeq(path, 1, n) \in Paths
<1>1. CASE op = "mkdir"
  BY <1>1, PathType DEF Target, Next1
<1>2. CASE op # "mkdir"
  <2>1. Target = SubSeq(path, 1, Len(path) - 1) /\ Len(Target) = Len(path) - 1 /\ Len(path) \in Nat
    BY <1>2, PathType DEF Target, Up
  <2>2. Len(path) - 1 \in 1..Len(path)
    BY <2>1
  <2>3. \A n \in 1..(made + 1) : n \in 1..(Len(path) - 1)
    BY <2>1
  <2>4. \A n \in 1..(made + 1) : SubSeq(Target, 1, n) = SubSeq(path, 1, n)
    BY <2>1, <2>2, <2>3, PrefixOfPrefix
  <2>5. \A n \in 1..(made + 1) : SubSeq(path, 1, n) \in Paths /\ Len(SubSeq(path, 1, n)) = n
    BY <2>1, <2>3, PathType
  <2>6. made + 1 \in 1..(made + 1) /\ Next1 = SubSeq(Target, 1, made + 1)
    BY DEF Next1
  <2>7. Len(Target) \in Nat
    BY <2>1, PathType
  <2>8. Next1 = SubSeq(path, 1, made + 1)
    BY <2>4, <2>6
  <2>9. Next1 \in Paths /\ Len(Next1) = made + 1
    BY <2>5, <2>6, <2>8
  <2> QED
    BY <2>1, <2>4, <2>5, <2>7, <2>8, <2>9
<1> QED
  BY <1>1, <1>2
-----------------------------------------------------------------------------
(* What the control keeps to, beyond the types: an open file is a file; rmdir
   is the only call with directories open, and each of those was opened with
   the present context unless something failed since the call began. *)
Control ==
  /\ pc = "mkdir" => made = 0
  /\ pc = "make" => made < Len(Target)
  /\ fh => pc \in {"idle", "write", "read"}
  /\ fh /\ pc # "idle" => remote[path].type = "file"
  /\ frames # << >> <=> pc \in {"rmdir", "misuse"}
  /\ \A i \in DOMAIN frames : frames[i].stale => faulted
  /\ pc = "misuse" => faulted
  /\ pc = "rmdir" => link = "live" \/ faulted

IInv == TypeOK /\ Control

Ops == {"remove", "clean", "rename", "query", "mkdir", "rmdir", "put", "get", "bytes"}

LEMMA FailingType ==
  ASSUME faults \in 0..MaxFaults, NEW f \in BOOLEAN, NEW n \in {0, 1}, Failing(f, n)
  PROVE  faults' \in 0..MaxFaults /\ faulted' \in BOOLEAN /\ (f => faulted') /\ (n = 1 => faulted')
<1>1. faults' = faults + n /\ faults' <= MaxFaults /\ faulted' = (f \/ n > 0)
  BY DEF Failing
<1>2. faults' \in 0..MaxFaults
  BY <1>1, ShareAssumption
<1>3. n = 1 => n > 0
  OBVIOUS
<1>4. faulted' \in BOOLEAN /\ (f => faulted') /\ (n > 0 => faulted')
  BY <1>1
<1> QED
  BY <1>2, <1>3, <1>4

LEMMA ReachedType ==
  ASSUME faults \in 0..MaxFaults, NEW f \in BOOLEAN, NEW l \in Links, NEW ok \in BOOLEAN, Reached(f, l, ok)
  PROVE  /\ faults' \in 0..MaxFaults /\ faulted' \in BOOLEAN /\ (f => faulted')
         /\ link' = l /\ link' \in Links
         /\ IF ok THEN link' = "live" ELSE faulted'
  BY FailingType DEF Reached

LEMMA AskedType ==
  ASSUME faults \in 0..MaxFaults, faulted \in BOOLEAN, NEW ok \in BOOLEAN, Asked(ok)
  PROVE  /\ faults' \in 0..MaxFaults /\ faulted' \in BOOLEAN /\ (faulted => faulted') /\ link' = link
         /\ ok \/ faulted'
  BY FailingType DEF Asked

LEMMA InitKeeps ==
  ASSUME Init
  PROVE  IInv
<1>1. \A v \in 0..3, n \in Nat : Written(v, n) \in [1..n -> Unit]
  BY DEF Written, Unit
<1>2. ASSUME NEW v \in 0..3, NEW n \in Nat PROVE Written(v, n) \in Seq(Unit)
  <2>1. Written(v, n) \in [1..n -> Unit]
    BY <1>1
  <2> QED
    BY <2>1, SeqDef
<1>3. \A v \in 0..3, n \in Lengths : File(Written(v, n)) \in Node
  BY <1>2, NodeType, ShareAssumption
<1>4. {Absent, Dir} \cup {File(Written(1, n)) : n \in Lengths} \subseteq Node
  BY <1>3, NodeType
<1>5. remote \in [Paths -> Node] /\ IsTree(remote) /\ was \in [Paths -> Node]
  BY <1>4 DEF Init
<1>6. local \in Node /\ local # Dir
  BY <1>3, NodeType DEF Init, File, Dir, Absent
<1>7. bytes \in Seq(Unit) /\ frames \in Seq(Frame) /\ frames = << >>
  BY EmptySeq DEF Init
<1>8. /\ pc = "idle" /\ op = "none" /\ path \in Paths /\ fh = FALSE /\ faulted = FALSE /\ meddled = FALSE
      /\ kind \in {"smb", "nfs"} /\ link = "none" /\ result = "none" /\ pos = 0 /\ roff = 0 /\ wsize = 0
      /\ calls \in 0..MaxCalls /\ faults \in 0..MaxFaults /\ others \in 0..MaxOthers
  BY ShareAssumption DEF Init
<1>9. TypeOK
  <2>1. fh \in BOOLEAN /\ faulted \in BOOLEAN /\ meddled \in BOOLEAN
    BY <1>8
  <2>2. pos \in Nat /\ roff \in Nat /\ wsize \in Int /\ link \in Links
    BY <1>8 DEF Links
  <2>3. copy \in Node /\ disk \in {"ok", "closed", "full"}
    BY <1>6 DEF Init
  <2> QED
    BY <1>5, <1>6, <1>7, <1>8, <2>1, <2>2, <2>3 DEF TypeOK
<1>10. DOMAIN frames = {}
  BY <1>7
<1>11. Control
  BY <1>7, <1>8, <1>10 DEF Control
<1> QED
  BY <1>9, <1>11 DEF IInv

-----------------------------------------------------------------------------
(* Each step *)

LEMMA BeginKeeps ==
  ASSUME TypeOK, NEW o \in Ops, NEW p \in Paths, Begin(o, p),
         link' \in Links, remote' \in [Paths -> Node], IsTree(remote'),
         local' \in Node, local' # Dir,
         pc' \in {"idle", "mkdir", "look", "open", "rmdir"}, frames' \in Seq(Frame),
         frames' # << >> <=> pc' = "rmdir", pc' = "rmdir" => link' = "live",
         \A i \in DOMAIN frames' : ~frames'[i].stale,
         result' \in {"none", "true", "false"}, faulted' \in BOOLEAN, faults' \in 0..MaxFaults,
         disk' \in {"ok", "closed", "full"}
  PROVE  IInv'
<1>1. /\ kind' \in {"smb", "nfs"} /\ op' = o /\ path' \in Paths /\ made' = 0 /\ bytes' = << >>
      /\ fh' = FALSE /\ pos' = 0 /\ roff' = 0 /\ wsize' = 0 /\ was' \in [Paths -> Node]
      /\ meddled' = FALSE /\ calls' \in 0..MaxCalls /\ others' \in 0..MaxOthers /\ copy' \in Node
  BY ShareAssumption DEF TypeOK, Begin
<1>2. bytes' \in Seq(Unit)
  BY <1>1, EmptySeq
<1>3. (made \in 0..Len(Target))'
  <2>1. Len(path') \in Nat /\ Len(Up(path')) \in Nat
    BY <1>1, PathType
  <2>2. Len(Target)' \in Nat
    BY <2>1 DEF Target
  <2> QED
    BY <1>1, <2>2
<1>4. TypeOK'
  <2>1. op' \in {"none", "remove", "clean", "rename", "query", "mkdir", "rmdir", "put", "get", "bytes"}
    BY <1>1 DEF Ops
  <2>2. pos' \in Nat /\ roff' \in Nat /\ wsize' \in Int /\ fh' \in BOOLEAN /\ meddled' \in BOOLEAN
    <3>1. pos' \in Nat /\ roff' \in Nat /\ wsize' \in Int
      BY <1>1
    <3>2. fh' \in BOOLEAN /\ meddled' \in BOOLEAN
      BY <1>1
    <3> QED
      BY <3>1, <3>2
  <2>3. pc' \in {"idle", "mkdir", "look", "make", "open", "write", "read", "rmdir", "misuse"}
    OBVIOUS
  <2> QED
    BY <1>1, <1>2, <1>3, <2>1, <2>2, <2>3 DEF TypeOK
<1>5. Control'
  BY <1>1 DEF Control
<1> QED
  BY <1>4, <1>5 DEF IInv

(* A call that is one call of the library, whatever it makes of the share. *)
LEMMA OneCallKeeps ==
  ASSUME IInv, NEW o \in Ops, NEW p \in Paths, NEW can \in BOOLEAN, NEW new,
         OneCall(o, p, can, new),
         can => new \in [Paths -> Node] /\ IsTree(new)
  PROVE  IInv'
<1>1. PICK l \in Links, ok \in BOOLEAN :
        /\ Begin(o, p) /\ Reached(FALSE, l, ok) /\ disk' = "ok"
        /\ remote' = IF ok /\ can THEN new ELSE remote
        /\ pc' = "idle" /\ result' = Told(ok /\ can)
        /\ local' = local /\ frames' = frames
  BY DEF OneCall, Begins, Return
<1>2. TypeOK /\ Control /\ faults \in 0..MaxFaults /\ pc = "idle"
  BY <1>1 DEF IInv, TypeOK, Begin
<1>3. link' \in Links /\ faulted' \in BOOLEAN /\ faults' \in 0..MaxFaults
  BY <1>1, <1>2, ReachedType
<1>4. remote' \in [Paths -> Node] /\ IsTree(remote')
  BY <1>1, <1>2 DEF TypeOK
<1>5. frames' = << >>
  BY <1>1, <1>2 DEF Control
<1>6. frames' \in Seq(Frame) /\ DOMAIN frames' = {}
  BY <1>5, EmptySeq
<1>7. result' \in {"none", "true", "false"}
  BY <1>1 DEF Told
<1>8. local' \in Node /\ local' # Dir
  BY <1>1, <1>2 DEF TypeOK
<1> QED
  BY <1>1, <1>2, <1>3, <1>4, <1>5, <1>6, <1>7, <1>8, BeginKeeps

(* Below a file there is nothing. *)
LEMMA FileIsLeaf ==
  ASSUME NEW t \in [Paths -> Node], IsTree(t), NEW p \in Paths, t[p].type # "dir"
  PROVE  \A q \in Children(p) : t[q].type = "absent"
<1>1. ASSUME NEW q \in Children(p) PROVE t[q].type = "absent"
  <2>1. q \in Paths /\ Up(q) = p /\ Len(q) \in Nat /\ Len(q) > 0 /\ Len(p) > 0 /\ Len(Up(q)) = Len(q) - 1
    BY PathType DEF Children
  <2>2. Len(q) - 1 \in 1..(Len(q) - 1)
    BY <2>1
  <2>3. SubSeq(q, 1, Len(q) - 1) = p
    BY <2>1 DEF Up
  <2> QED
    BY <2>1, <2>2, <2>3 DEF IsTree
<1> QED
  BY <1>1

LEMMA RenamedTree ==
  ASSUME remote \in [Paths -> Node], IsTree(remote), NEW p \in Paths, NEW q \in Paths, CanRename(p, q)
  PROVE  Renamed(p, q) \in [Paths -> Node] /\ IsTree(Renamed(p, q))
<1> DEFINE t == [remote EXCEPT ![q] = remote[p]]
<1>1. remote[p] \in Node /\ remote[p].type = "file" /\ q # p /\ remote[q].type # "dir"
  BY DEF CanRename, Replaceable
<1>2. Len(q) > 1 => remote[Up(q)].type = "dir"
  BY DEF CanRename, HasParent
<1>3. t \in [Paths -> Node] /\ IsTree(t)
  BY <1>1, <1>2, TreeKept
<1>4. t[p].type = "file" /\ Absent \in Node /\ Absent.type = "absent"
  BY <1>1, NodeType
<1>5. [t EXCEPT ![p] = Absent] \in [Paths -> Node] /\ IsTree([t EXCEPT ![p] = Absent])
  <2> HIDE DEF t
  <2> QED
    BY <1>3, <1>4, TreeKept
<1>6. Renamed(p, q) = [t EXCEPT ![p] = Absent]
  BY <1>1 DEF Renamed
<1> QED
  BY <1>5, <1>6

LEMMA FileReplaced ==
  ASSUME NEW t \in [Paths -> Node], IsTree(t), NEW p \in Paths, t[p].type = "file"
  PROVE  /\ [t EXCEPT ![p] = Absent] \in [Paths -> Node] /\ IsTree([t EXCEPT ![p] = Absent])
         /\ \A d \in Seq(Unit) : /\ [t EXCEPT ![p] = File(d)] \in [Paths -> Node]
                                 /\ IsTree([t EXCEPT ![p] = File(d)])
<1>1. t[p].type # "dir" /\ t[p].type # "absent"
  OBVIOUS
<1>2. Len(p) > 1 => t[Up(p)].type = "dir"
  <2>1. Len(p) \in Nat /\ (Len(p) > 1 => Len(p) - 1 \in 1..(Len(p) - 1))
    BY PathType
  <2> QED
    BY <1>1, <2>1 DEF IsTree, Up
<1>3. Absent \in Node /\ \A d \in Seq(Unit) : File(d) \in Node
  BY NodeType
<1> QED
  BY <1>1, <1>2, <1>3, TreeKept

LEMMA SingleCallsKeep ==
  ASSUME IInv, NEW p \in Paths,
         Remove(p) \/ Clean(p) \/ Query(p) \/ \E q \in Paths : Rename(p, q)
  PROVE  IInv'
<1>1. remote \in [Paths -> Node] /\ IsTree(remote)
  BY DEF IInv, TypeOK
<1>2. "remove" \in Ops /\ "clean" \in Ops /\ "query" \in Ops /\ "rename" \in Ops
  BY DEF Ops
<1>3. CASE Remove(p)
  <2>1. remote[p].type = "file" => Unlinked(p) \in [Paths -> Node] /\ IsTree(Unlinked(p))
    BY <1>1, FileReplaced DEF Unlinked
  <2> QED
    BY <1>2, <1>3, <2>1, OneCallKeeps DEF Remove
<1>4. CASE Clean(p)
  <2>1. << >> \in Seq(Unit)
    BY EmptySeq
  <2>2. remote[p].type = "file" => Truncated(p) \in [Paths -> Node] /\ IsTree(Truncated(p))
    BY <1>1, <2>1, FileReplaced DEF Truncated
  <2> QED
    BY <1>2, <1>4, <2>2, OneCallKeeps DEF Clean
<1>5. CASE Query(p)
  BY <1>1, <1>2, <1>5, OneCallKeeps DEF Query
<1>6. ASSUME NEW q \in Paths, Rename(p, q) PROVE IInv'
  <2>1. CanRename(p, q) \in BOOLEAN
    BY DEF CanRename, HasParent, Replaceable
  <2>2. CanRename(p, q) => Renamed(p, q) \in [Paths -> Node] /\ IsTree(Renamed(p, q))
    BY <1>1, RenamedTree
  <2> QED
    BY <1>2, <1>6, <2>1, <2>2, OneCallKeeps DEF Rename
<1> QED
  BY <1>3, <1>4, <1>5, <1>6

LEMMA BeginsKeep ==
  ASSUME IInv, NEW p \in Paths,
         BeginMkdir(p) \/ BeginRmdir(p) \/ BeginPut(p) \/ BeginGet(p) \/ BeginGetBytes(p)
  PROVE  IInv'
<1>1. TypeOK /\ Control /\ remote \in [Paths -> Node] /\ IsTree(remote) /\ link \in Links
      /\ local \in Node /\ local # Dir /\ faults \in 0..MaxFaults
  BY DEF IInv, TypeOK
<1>2. pc = "idle"
  BY DEF BeginMkdir, BeginRmdir, BeginPut, BeginGet, BeginGetBytes, Begins, Begin
<1>3. frames = << >> /\ frames \in Seq(Frame) /\ DOMAIN frames = {}
  <2>1. frames = << >>
    BY <1>1, <1>2 DEF Control
  <2> QED
    BY <2>1, EmptySeq
<1>4. CASE BeginMkdir(p) \/ BeginPut(p)
  <2>1. PICK o \in {"mkdir", "put"}, l \in Links :
          /\ Begin(o, p) /\ Reached(FALSE, l, l = "live") /\ disk' = "ok"
          /\ \/ pc' \in {"look", "mkdir"} /\ result' = "none"
             \/ pc' = "idle" /\ result' = "false"
          /\ remote' = remote /\ local' = local /\ frames' = frames
    BY <1>4 DEF BeginMkdir, BeginPut, Begins, Return
  <2>2. link' \in Links /\ faulted' \in BOOLEAN /\ faults' \in 0..MaxFaults
    BY <1>1, <2>1, ReachedType
  <2>3. o \in Ops
    BY DEF Ops
  <2> QED
    BY <1>1, <1>3, <2>1, <2>2, <2>3, BeginKeeps
<1>5. CASE BeginRmdir(p)
  <2>1. PICK l \in Links, ok \in BOOLEAN :
          /\ Begin("rmdir", p) /\ Reached(FALSE, l, ok) /\ disk' = "ok"
          /\ \/ ok /\ frames' = <<Open(p)>> /\ pc' = "rmdir" /\ result' = "none"
             \/ pc' = "idle" /\ result' = "false" /\ frames' = frames
          /\ remote' = remote /\ local' = local
    BY <1>5 DEF BeginRmdir, Begins, Return
  <2>2. link' \in Links /\ faulted' \in BOOLEAN /\ faults' \in 0..MaxFaults /\ (ok => link' = "live")
    BY <1>1, <2>1, ReachedType
  <2>3. "rmdir" \in Ops
    BY DEF Ops
  <2>4. Open(p) \in Frame /\ ~Open(p).stale
    BY <1>1, ListingType
  <2>5. <<Open(p)>> \in Seq(Frame) /\ <<Open(p)>> # << >> /\ \A i \in DOMAIN <<Open(p)>> : ~<<Open(p)>>[i].stale
    BY <2>4
  <2>6. /\ frames' \in Seq(Frame) /\ (frames' # << >> <=> pc' = "rmdir") /\ (pc' = "rmdir" => link' = "live")
        /\ \A i \in DOMAIN frames' : ~frames'[i].stale
    <3>1. CASE ok /\ frames' = <<Open(p)>> /\ pc' = "rmdir"
      BY <2>2, <2>5, <3>1
    <3>2. CASE pc' = "idle" /\ frames' = frames
      BY <1>3, <3>2
    <3> QED
      BY <2>1, <3>1, <3>2
  <2>7. /\ pc' \in {"idle", "mkdir", "look", "open", "rmdir"} /\ result' \in {"none", "true", "false"}
        /\ remote' = remote /\ local' = local
    BY <2>1
  <2> QED
    BY <1>1, <2>1, <2>2, <2>3, <2>6, <2>7, BeginKeeps
<1>6. CASE BeginGet(p) \/ BeginGetBytes(p)
  <2>1. PICK o \in {"get", "bytes"}, n \in {0, 1} :
          /\ Begin(o, p) /\ Failing(FALSE, n)
          /\ pc' \in {"open", "idle"} /\ result' \in {"none", "false"} /\ disk' \in {"ok", "closed"}
          /\ link' = link /\ remote' = remote /\ frames' = frames
          /\ local' \in {local, Opened}
    BY <1>6 DEF BeginGet, BeginGetBytes, Return
  <2>2. Opened \in Node /\ Opened # Dir
    BY EmptySeq, NodeType DEF Opened, File, Dir
  <2>3. o \in Ops /\ faulted' \in BOOLEAN /\ faults' \in 0..MaxFaults
    BY <1>1, <2>1, FailingType DEF Ops
  <2> QED
    BY <1>1, <1>3, <2>1, <2>2, <2>3, BeginKeeps
<1> QED
  BY <1>4, <1>5, <1>6

(* A step of mkdir, put or get: it opens no directory and leaves the call as
   it is; it may write one file and make one directory. *)
LEMMA RunningKeeps ==
  ASSUME IInv, pc \in {"mkdir", "look", "make", "open", "write", "read"},
         pc' \in {"idle", "look", "make", "open", "write", "read"},
         kind' = kind, op' = op, path' = path, frames' = frames,
         copy' = copy, disk' \in {"ok", "closed", "full"}, was' = was, meddled' = meddled, calls' = calls, others' = others,
         link' \in Links, remote' \in [Paths -> Node], IsTree(remote'),
         local' \in Node, local' # Dir, bytes' \in Seq(Unit),
         pc' \in {"look", "make"} => made' \in 0..Len(Target), pc' = "make" => made' < Len(Target),
         fh' \in BOOLEAN, fh' => pc' \in {"idle", "write", "read"} /\ remote'[path].type = "file",
         pos' \in Nat, roff' \in Nat, wsize' \in Int,
         result' \in {"none", "true", "false"}, faulted' \in BOOLEAN, faults' \in 0..MaxFaults
  PROVE  IInv'
<1>1. Target' = Target
  BY DEF Target
<1>2. TypeOK'
  BY <1>1 DEF IInv, TypeOK
<1>3. frames = << >> /\ DOMAIN frames = {}
  <2>1. frames = << >>
    BY DEF IInv, Control
  <2> QED
    BY <2>1
<1>4. Control'
  BY <1>1, <1>3 DEF Control
<1> QED
  BY <1>2, <1>4 DEF IInv

LEMMA MkdirKeeps ==
  ASSUME IInv, MkdirEnter \/ MkdirLook \/ MkdirMake \/ MkdirDone
  PROVE  IInv'
<1>1. /\ TypeOK /\ Control /\ path \in Paths /\ faults \in 0..MaxFaults /\ faulted \in BOOLEAN
      /\ remote \in [Paths -> Node] /\ IsTree(remote) /\ link \in Links /\ result \in {"none", "true", "false"}
      /\ local \in Node /\ local # Dir /\ bytes \in Seq(Unit) /\ pos \in Nat /\ roff \in Nat /\ wsize \in Int
      /\ disk \in {"ok", "closed", "full"}
  BY DEF IInv, TypeOK
<1>2. fh = FALSE /\ pc \in {"mkdir", "look", "make"} /\ fh' = fh
  <2>1. pc \in {"mkdir", "look", "make"} /\ fh' = fh
    BY DEF MkdirEnter, MkdirLook, MkdirMake, MkdirDone, transfer
  <2> QED
    BY <1>1, <2>1 DEF Control, TypeOK
<1>3. Len(Target) \in Nat
  <2>1. Len(path) \in Nat /\ Len(Up(path)) \in Nat
    BY <1>1, PathType
  <2> QED
    BY <2>1 DEF Target
<1>4. CASE MkdirEnter
  <2>1. PICK l \in Links :
          /\ Reached(faulted, l, l = "live")
          /\ \/ pc' = "look" /\ result' = result
             \/ pc' = "idle" /\ result' = "false"
    BY <1>4 DEF MkdirEnter, Return
  <2>2. link' \in Links /\ faulted' \in BOOLEAN /\ faults' \in 0..MaxFaults
    BY <1>1, <2>1, ReachedType
  <2>3. made' = made /\ made = 0
    BY <1>1, <1>4 DEF MkdirEnter, Control
  <2>4. made' \in 0..Len(Target)
    BY <1>3, <2>3
  <2> QED
    BY <1>1, <1>2, <1>4, <2>1, <2>2, <2>4, RunningKeeps DEF MkdirEnter, transfer, locally
<1>5. CASE MkdirLook
  <2>1. PICK l \in Links, ok \in BOOLEAN :
          /\ Reached(faulted, l, ok)
          /\ \/ pc' = "make" /\ made' = made /\ result' = result
             \/ pc' = pc /\ made' = Further /\ result' = result
             \/ pc' = "idle" /\ result' = "false"
    BY <1>5 DEF MkdirLook, Return
  <2>2. link' \in Links /\ faulted' \in BOOLEAN /\ faults' \in 0..MaxFaults
    BY <1>1, <2>1, ReachedType
  <2>3. made \in 0..Len(Target) /\ made < Len(Target) /\ pc = "look"
    BY <1>1, <1>5 DEF MkdirLook, TypeOK
  <2>4. /\ pc' \in {"look", "make"} => made' \in 0..Len(Target)
        /\ pc' = "make" => made' < Len(Target)
    BY <1>3, <2>1, <2>3 DEF Further
  <2> QED
    BY <1>1, <1>2, <1>5, <2>1, <2>2, <2>3, <2>4, RunningKeeps DEF MkdirLook, transfer, locally
<1>6. CASE MkdirMake
  <2>1. PICK ok \in BOOLEAN :
          /\ Asked(ok)
          /\ \/ /\ ok /\ remote[Next1].type = "absent" /\ HasParent(Next1)
                /\ remote' = [remote EXCEPT ![Next1] = Dir]
                /\ made' = Further /\ pc' = "look" /\ result' = result
             \/ pc' = "idle" /\ result' = "false" /\ remote' = remote
    BY <1>6 DEF MkdirMake, Return
  <2>2. link' \in Links /\ faulted' \in BOOLEAN /\ faults' \in 0..MaxFaults
    BY <1>1, <2>1, AskedType
  <2>3. made \in 0..Len(Target) /\ made < Len(Target)
    BY <1>1, <1>6 DEF MkdirMake, TypeOK, Control
  <2>4. pc' \in {"look", "make"} => made' \in 0..Len(Target)
    BY <1>3, <2>1, <2>3 DEF Further
  <2>5. Next1 \in Paths
    BY <1>1, <2>3, ComponentType
  <2>6. remote' \in [Paths -> Node] /\ IsTree(remote')
    <3>1. CASE remote' = remote
      BY <1>1, <3>1
    <3>2. CASE /\ remote[Next1].type = "absent" /\ HasParent(Next1)
               /\ remote' = [remote EXCEPT ![Next1] = Dir]
      <4>1. Dir \in Node /\ Dir.type = "dir"
        BY NodeType
      <4>2. Len(Next1) > 1 => remote[Up(Next1)].type = "dir"
        BY <3>2 DEF HasParent
      <4> QED
        BY <1>1, <2>5, <3>2, <4>1, <4>2, TreeKept
    <3> QED
      BY <2>1, <3>1, <3>2
  <2> QED
    BY <1>1, <1>2, <1>6, <2>1, <2>2, <2>4, <2>6, RunningKeeps DEF MkdirMake, transfer, locally
<1>7. CASE MkdirDone
  <2>1. pc' \in {"idle", "open"} /\ result' \in {result, "true"}
    BY <1>7 DEF MkdirDone, Return
  <2> QED
    BY <1>1, <1>2, <1>7, <2>1, RunningKeeps DEF MkdirDone, transfer, history, locally
<1> QED
  BY <1>4, <1>5, <1>6, <1>7

LEMMA PutKeeps ==
  ASSUME IInv, PutOpen \/ PutWrites \/ PutWriteFails \/ PutDone
  PROVE  IInv'
<1>1. /\ TypeOK /\ Control /\ path \in Paths /\ faults \in 0..MaxFaults /\ faulted \in BOOLEAN
      /\ remote \in [Paths -> Node] /\ IsTree(remote) /\ link \in Links /\ result \in {"none", "true", "false"}
      /\ local \in Node /\ local # Dir /\ bytes \in Seq(Unit) /\ pos \in Nat /\ roff \in Nat /\ wsize \in Int
      /\ disk \in {"ok", "closed", "full"}
      /\ fh \in BOOLEAN /\ local.data \in Seq(Unit)
  BY NodeType DEF IInv, TypeOK
<1>2. Len(Part(local.data)) \in Nat
  <2>1. Part(local.data) \in Seq(Unit)
    BY <1>1, PartType
  <2> QED
    BY <2>1, LenProperties
<1>3. Told(wsize >= 0) \in {"none", "true", "false"}
  BY DEF Told
<1>4. CASE PutOpen
  <2>1. PICK ok \in BOOLEAN :
          /\ Asked(ok)
          /\ \/ /\ HasParent(path) /\ remote[path].type # "dir"
                /\ remote' = [remote EXCEPT ![path].type = "file"]
                /\ fh' = TRUE /\ pc' = "write" /\ result' = result
             \/ pc' = "idle" /\ result' = "false" /\ remote' = remote /\ fh' = fh
    BY <1>4 DEF PutOpen, Return
  <2>2. link' \in Links /\ faulted' \in BOOLEAN /\ faults' \in 0..MaxFaults
    BY <1>1, <2>1, AskedType
  <2>3. ASSUME HasParent(path), remote[path].type # "dir", remote' = [remote EXCEPT ![path].type = "file"]
        PROVE  remote' \in [Paths -> Node] /\ IsTree(remote') /\ remote'[path].type = "file"
    <3>1. remote[path] \in Node /\ remote[path].data \in Seq(Unit)
      BY <1>1, NodeType
    <3>2. [remote[path] EXCEPT !.type = "file"] = File(remote[path].data)
      <4>1. remote[path] = Absent \/ remote[path] = File(remote[path].data)
        BY <2>3, <3>1, NodeType
      <4>2. CASE remote[path] = Absent
        BY <4>2 DEF Absent, File
      <4>3. CASE remote[path] = File(remote[path].data)
        BY <4>3 DEF File
      <4> QED
        BY <4>1, <4>2, <4>3
    <3>3. remote' = [remote EXCEPT ![path] = File(remote[path].data)]
      BY <1>1, <2>3, <3>2
    <3>4. File(remote[path].data) \in Node /\ File(remote[path].data).type = "file"
      BY <3>1, NodeType DEF File
    <3>5. Len(path) > 1 => remote[Up(path)].type = "dir"
      BY <2>3 DEF HasParent
    <3>6. remote' \in [Paths -> Node] /\ IsTree(remote')
      <4> DEFINE new == File(remote[path].data)
      <4>1. new \in Node /\ remote' = [remote EXCEPT ![path] = new]
        BY <3>3, <3>4
      <4> HIDE DEF new
      <4>2. /\ [remote EXCEPT ![path] = new] \in [Paths -> Node]
            /\ IsTree([remote EXCEPT ![path] = new])
        BY <1>1, <2>3, <3>5, <4>1, TreeKept
      <4> QED
        BY <4>1, <4>2
    <3> QED
      BY <1>1, <3>3, <3>4, <3>6
  <2>4. remote' \in [Paths -> Node] /\ IsTree(remote')
    BY <1>1, <2>1, <2>3
  <2>5. fh' \in BOOLEAN /\ (fh' => pc' \in {"idle", "write", "read"} /\ remote'[path].type = "file")
    <3>1. fh = FALSE
      BY <1>1, <1>4 DEF PutOpen, Control
    <3>2. CASE fh' = TRUE /\ pc' = "write" /\ remote'[path].type = "file"
      BY <3>2
    <3>3. CASE fh' = fh
      BY <3>1, <3>3
    <3> QED
      BY <2>1, <2>3, <3>2, <3>3
  <2> QED
    BY <1>1, <1>4, <2>1, <2>2, <2>4, <2>5, RunningKeeps DEF PutOpen, locally
<1>5. CASE PutWrites
  <2>1. remote[path].type = "file" /\ remote[path].data \in Seq(Unit)
    BY <1>1, <1>5, NodeType DEF PutWrites, Control
  <2>2. PICK k \in 1..Len(Part(local.data)) :
          /\ Failing(faulted, IF k = Len(Part(local.data)) THEN 0 ELSE 1)
          /\ remote' = [remote EXCEPT ![path].data =
                          Overwritten(@, roff, SubSeq(Part(local.data), 1, k))]
          /\ roff' = roff + k /\ wsize' = wsize + k
    BY <1>5 DEF PutWrites
  <2>3. SubSeq(Part(local.data), 1, k) \in Seq(Unit)
    BY <1>1, PartType
  <2> DEFINE new == Overwritten(remote[path].data, roff, SubSeq(Part(local.data), 1, k))
  <2>4. new \in Seq(Unit)
    BY <1>1, <2>1, <2>3, OverwrittenType
  <2>5. remote' = [remote EXCEPT ![path] = File(new)]
    <3>1. remote[path] = File(remote[path].data)
      BY <1>1, <2>1, NodeType
    <3> HIDE DEF new
    <3>2. [remote[path] EXCEPT !.data = new] = File(new)
      BY <3>1 DEF File
    <3>3. remote' = [remote EXCEPT ![path].data = new]
      BY <2>2 DEF new
    <3> QED
      BY <1>1, <3>2, <3>3
  <2> HIDE DEF new
  <2>6. remote' \in [Paths -> Node] /\ IsTree(remote')
    BY <1>1, <2>1, <2>4, <2>5, FileReplaced
  <2>7. remote'[path].type = "file"
    BY <1>1, <2>5 DEF File
  <2>8. faulted' \in BOOLEAN /\ faults' \in 0..MaxFaults
    BY <1>1, <2>2, FailingType
  <2>9. pos' \in Nat /\ roff' \in Nat /\ wsize' \in Int
    BY <1>1, <1>2, <1>5, <2>2 DEF PutWrites
  <2> QED
    BY <1>1, <1>5, <2>6, <2>7, <2>8, <2>9, RunningKeeps DEF PutWrites, locally
<1>6. fh => remote[path].type = "file" \/ pc = "idle"
  BY <1>1 DEF Control
<1>7. CASE PutWriteFails
  <2>1. faulted' \in BOOLEAN /\ faults' \in 0..MaxFaults
    <3>1. Failing(faulted, IF link = "live" /\ fh THEN 1 ELSE 0)
      BY <1>7 DEF PutWriteFails
    <3> QED
      BY <1>1, <3>1, FailingType
  <2>2. pos' \in Nat /\ wsize' \in Int
    <3>1. CASE pos' = pos /\ wsize' = wsize
      BY <1>1, <3>1
    <3>2. CASE pos' = pos + Len(Part(local.data)) /\ \E e \in ErrorCodes : wsize' = wsize - e
      BY <1>1, <1>2, <3>2, ShareAssumption
    <3> QED
      BY <1>7, <3>1, <3>2 DEF PutWriteFails
  <2>3. pc = "write" /\ pc' \in {"idle", "write"} /\ result' \in {result, Told(wsize >= 0)}
    BY <1>7 DEF PutWriteFails, Return
  <2> QED
    BY <1>1, <1>3, <1>6, <1>7, <2>1, <2>2, <2>3, RunningKeeps DEF PutWriteFails, locally
<1>8. CASE PutDone
  BY <1>1, <1>3, <1>6, <1>8, RunningKeeps DEF PutDone, Return, transfer, history, locally
<1> QED
  BY <1>4, <1>5, <1>7, <1>8

LEMMA GetKeeps ==
  ASSUME IInv, GetOpen \/ GetReads \/ GetEnds
  PROVE  IInv'
<1>1. /\ TypeOK /\ Control /\ path \in Paths /\ faults \in 0..MaxFaults /\ faulted \in BOOLEAN
      /\ remote \in [Paths -> Node] /\ IsTree(remote) /\ link \in Links /\ result \in {"none", "true", "false"}
      /\ local \in Node /\ local # Dir /\ bytes \in Seq(Unit) /\ pos \in Nat /\ roff \in Nat /\ wsize \in Int
      /\ disk \in {"ok", "closed", "full"}
      /\ fh \in BOOLEAN /\ local.data \in Seq(Unit) /\ remote[path].data \in Seq(Unit)
  BY NodeType DEF IInv, TypeOK
<1>2. fh => remote[path].type = "file" \/ pc = "idle"
  BY <1>1 DEF Control
<1>3. CASE GetOpen
  <2>1. PICK l \in Links, ok \in BOOLEAN :
          /\ Reached(faulted, l, ok)
          /\ \/ remote[path].type = "file" /\ fh' = TRUE /\ pc' = "read" /\ result' = result
             \/ pc' = "idle" /\ result' = "false" /\ fh' = fh
    BY <1>3 DEF GetOpen, Return
  <2>2. link' \in Links /\ faulted' \in BOOLEAN /\ faults' \in 0..MaxFaults
    BY <1>1, <2>1, ReachedType
  <2>3. fh' \in BOOLEAN /\ (fh' => pc' \in {"idle", "write", "read"} /\ remote[path].type = "file")
    <3>1. fh = FALSE
      BY <1>1, <1>3 DEF GetOpen, Control
    <3>2. CASE fh' = TRUE /\ pc' = "read" /\ remote[path].type = "file"
      BY <3>2
    <3>3. CASE fh' = fh
      BY <3>1, <3>3
    <3> QED
      BY <2>1, <3>2, <3>3
  <2> QED
    BY <1>1, <1>3, <2>1, <2>2, <2>3, RunningKeeps DEF GetOpen, locally
<1>4. CASE GetReads
  <2> DEFINE part == Part(remote[path].data)
  <2>1. part \in Seq(Unit) /\ Len(part) \in Nat
    BY <1>1, PartType, LenProperties
  <2>2. \/ /\ bytes' = bytes \o part /\ wsize' = wsize + Len(part) /\ Failing(faulted, 0)
           /\ local' = local /\ locally' = locally
        \/ /\ local' = File(local.data \o part) /\ wsize' = wsize + Len(part) /\ Failing(faulted, 0)
           /\ bytes' = bytes /\ locally' = locally
        \/ \E k \in 0..(Len(part) - 1) :
           /\ local' = File(local.data \o SubSeq(part, 1, k))
           /\ \E c \in Claims(k, Len(part)) : wsize' = wsize + c
           /\ Failing(TRUE, IF disk = "full" THEN 0 ELSE 1) /\ disk' = "full"
           /\ bytes' = bytes /\ copy' = copy
    BY <1>4 DEF GetReads
  <2>3. pos' = pos + Len(part)
    BY <1>4 DEF GetReads
  <2>4. ASSUME NEW k \in 0..Len(part) PROVE SubSeq(part, 1, k) \in Seq(Unit)
    <3> HIDE DEF part
    <3>1. \A j \in 1..k : part[j] \in Unit
      BY <2>1, ElementOfSeq
    <3> QED
      BY <2>1, <3>1, SubSeqProperties
  <2> HIDE DEF part
  <2>5. ASSUME NEW d \in Seq(Unit) PROVE File(local.data \o d) \in Node /\ File(local.data \o d) # Dir
    <3>1. local.data \o d \in Seq(Unit)
      BY <1>1, ConcatProperties
    <3> QED
      BY <3>1, NodeType DEF File, Dir
  <2>6. bytes \o part \in Seq(Unit)
    BY <1>1, <2>1, ConcatProperties
  <2> DEFINE Good == /\ local' \in Node /\ local' # Dir /\ bytes' \in Seq(Unit) /\ wsize' \in Int
                     /\ faulted' \in BOOLEAN /\ faults' \in 0..MaxFaults
                     /\ copy' = copy /\ disk' \in {"ok", "closed", "full"}
  <2>7. Good
    <3>1. CASE /\ bytes' = bytes \o part /\ wsize' = wsize + Len(part) /\ Failing(faulted, 0)
               /\ local' = local /\ locally' = locally
      BY <1>1, <2>1, <2>6, <3>1, FailingType DEF locally
    <3>2. CASE /\ local' = File(local.data \o part) /\ wsize' = wsize + Len(part) /\ Failing(faulted, 0)
               /\ bytes' = bytes /\ locally' = locally
      BY <1>1, <2>1, <2>5, <3>2, FailingType DEF locally
    <3>3. ASSUME NEW k \in 0..(Len(part) - 1), NEW c \in Claims(k, Len(part)),
                 local' = File(local.data \o SubSeq(part, 1, k)), wsize' = wsize + c,
                 Failing(TRUE, IF disk = "full" THEN 0 ELSE 1), disk' = "full",
                 bytes' = bytes, copy' = copy
          PROVE  Good
      <4>1. k \in 0..Len(part) /\ c \in Int
        BY <2>1, <3>3, ShareAssumption DEF Claims
      <4>2. SubSeq(part, 1, k) \in Seq(Unit)
        BY <2>4, <4>1
      <4>3. (IF disk = "full" THEN 0 ELSE 1) \in {0, 1}
        OBVIOUS
      <4>4. faulted' \in BOOLEAN /\ faults' \in 0..MaxFaults
        BY <1>1, <3>3, <4>3, FailingType
      <4>5. local' \in Node /\ local' # Dir
        BY <2>5, <3>3, <4>2
      <4>6. wsize' \in Int
        BY <1>1, <3>3, <4>1
      <4> QED
        BY <1>1, <3>3, <4>4, <4>5, <4>6
    <3> QED
      BY <2>2, <3>1, <3>2, <3>3
  <2>8. pos' \in Nat
    BY <1>1, <2>1, <2>3
  <2> QED
    BY <1>1, <1>2, <1>4, <2>7, <2>8, RunningKeeps DEF GetReads
<1>5. CASE GetEnds
  <2>1. faulted' \in BOOLEAN /\ faults' \in 0..MaxFaults
    <3>1. Failing(faulted, IF link = "live" /\ fh /\ pos < Len(remote[path].data) THEN 1 ELSE 0)
      BY <1>5 DEF GetEnds
    <3> QED
      BY <1>1, <3>1, FailingType
  <2>2. pc = "read" /\ pc' = "idle" /\ result' \in {"true", "false"}
    BY <1>5 DEF GetEnds, Return, Told
  <2> QED
    BY <1>1, <1>2, <1>5, <2>1, <2>2, RunningKeeps DEF GetEnds, transfer, locally
<1> QED
  BY <1>3, <1>4, <1>5

(* A step of rmdir, which has the directories of frames open.  Those it opens
   itself are of the present context. *)
LEMMA RmdirStepKeeps ==
  ASSUME IInv, pc = "rmdir", pc' \in {"idle", "rmdir"},
         kind' = kind, local' = local, bytes' = bytes, op' = op, path' = path, made' = made,
         fh' = fh, pos' = pos, roff' = roff, wsize' = wsize,
         was' = was, meddled' = meddled, locally' = locally, calls' = calls, others' = others,
         link' \in Links, remote' \in [Paths -> Node], IsTree(remote'),
         frames' \in Seq(Frame), frames' # << >> <=> pc' = "rmdir",
         faulted => faulted', link' = "live" \/ faulted',
         \A i \in DOMAIN frames' : frames'[i].stale => faulted',
         result' \in {"none", "true", "false"}, faulted' \in BOOLEAN, faults' \in 0..MaxFaults
  PROVE  IInv'
<1>0. copy' = copy /\ disk' = disk
  BY DEF locally
<1>1. TypeOK'
  BY <1>0 DEF IInv, TypeOK
<1>2. fh = FALSE
  BY DEF IInv, TypeOK, Control
<1>3. Control'
  BY <1>2 DEF Control
<1> QED
  BY <1>1, <1>3 DEF IInv

(* The frames of an rmdir: the innermost is one of them, an entry of it can be
   taken, and to lose the context marks all of them. *)
LEMMA FramesType ==
  ASSUME frames \in Seq(Frame), frames # << >>
  PROVE  /\ Len(frames) \in Nat \ {0} /\ DOMAIN frames = 1..Len(frames) /\ Top \in Frame
         /\ Popped \in Seq(Frame) /\ Len(Popped) = Len(frames) - 1 /\ DOMAIN Popped = 1..(Len(frames) - 1)
         /\ \A i \in 1..(Len(frames) - 1) : Popped[i] = frames[i]
         /\ \A e : /\ Taken(e) \in Seq(Frame) /\ Len(Taken(e)) = Len(frames)
                   /\ \A i \in 1..Len(frames) : Taken(e)[i].stale = frames[i].stale
         /\ \A fs \in Seq(Frame) : Aged(fs) \in Seq(Frame) /\ Len(Aged(fs)) = Len(fs)
<1>1. Len(frames) \in Nat \ {0} /\ DOMAIN frames = 1..Len(frames)
  BY EmptySeq, LenProperties
<1>2. \A i \in 1..Len(frames) : frames[i] \in Frame
  BY ElementOfSeq
<1>3. Top \in Frame
  BY <1>1, <1>2 DEF Top
<1>4. /\ Popped \in Seq(Frame) /\ Len(Popped) = Len(frames) - 1
      /\ \A i \in 1..(Len(frames) - 1) : Popped[i] = frames[i]
  <2> DEFINE n == Len(frames) - 1
  <2>1. n \in Nat /\ \A i \in 1..n : frames[i] \in Frame
    BY <1>1, <1>2
  <2>2. n >= 1 => (1 <= n /\ n - 1 + 1 = n)
    BY <2>1
  <2> HIDE DEF n
  <2>3. /\ SubSeq(frames, 1, n) \in Seq(Frame)
        /\ Len(SubSeq(frames, 1, n)) = IF 1 <= n THEN n - 1 + 1 ELSE 0
        /\ \A i \in 1..(n - 1 + 1) : SubSeq(frames, 1, n)[i] = frames[1 + i - 1]
    BY <2>1, SubSeqProperties
  <2>4. Len(SubSeq(frames, 1, n)) = n /\ \A i \in 1..n : SubSeq(frames, 1, n)[i] = frames[i]
    BY <2>1, <2>3
  <2> QED
    BY <2>3, <2>4 DEF Popped, n
<1>5. DOMAIN Popped = 1..(Len(frames) - 1)
  BY <1>4, LenProperties
<1>6. ASSUME NEW e
      PROVE  /\ Taken(e) \in Seq(Frame) /\ Len(Taken(e)) = Len(frames)
             /\ \A i \in 1..Len(frames) : Taken(e)[i].stale = frames[i].stale
  <2> DEFINE f == [Top EXCEPT !.rest = @ \ {e}]
  <2>1. f \in Frame /\ f.stale = Top.stale
    BY <1>3 DEF Frame
  <2>2. Taken(e) = [frames EXCEPT ![Len(frames)] = f]
    BY DEF Taken, Top
  <2> HIDE DEF f
  <2>3. Len(frames) \in 1..Len(frames)
    BY <1>1
  <2>4. /\ Taken(e) \in Seq(Frame) /\ Len(Taken(e)) = Len(frames)
        /\ \A i \in 1..Len(frames) : Taken(e)[i] = IF i = Len(frames) THEN f ELSE frames[i]
    BY <2>1, <2>2, <2>3, ExceptSeq
  <2> QED
    BY <2>1, <2>4 DEF Top
<1>7. ASSUME NEW fs \in Seq(Frame) PROVE Aged(fs) \in Seq(Frame) /\ Len(Aged(fs)) = Len(fs)
  <2> DEFINE g == [i \in DOMAIN fs |-> [fs[i] EXCEPT !.stale = TRUE]]
  <2>1. Len(fs) \in Nat /\ DOMAIN fs = 1..Len(fs)
    BY LenProperties
  <2>2. \A i \in DOMAIN fs : [fs[i] EXCEPT !.stale = TRUE] \in Frame
    <3>1. \A i \in DOMAIN fs : fs[i] \in Frame
      BY <2>1, ElementOfSeq
    <3> QED
      BY <3>1 DEF Frame
  <2>3. g \in [1..Len(fs) -> Frame]
    BY <2>1, <2>2
  <2> HIDE DEF g
  <2>4. g \in Seq(Frame)
    BY <2>1, <2>3, SeqDef
  <2>5. Len(g) = Len(fs)
    BY <2>1, <2>3, <2>4, LenProperties
  <2> QED
    BY <2>4, <2>5 DEF Aged, g
<1> QED
  BY <1>1, <1>3, <1>4, <1>5, <1>6, <1>7

LEMMA RmdirKeeps ==
  ASSUME IInv, pc = "rmdir",
         RmdirMisuse \/ RmdirLeave \/ \E e \in Top.rest : RmdirEnter(e) \/ RmdirUnlink(e)
  PROVE  IInv'
<1>1. /\ TypeOK /\ Control /\ faults \in 0..MaxFaults /\ faulted \in BOOLEAN /\ frames \in Seq(Frame)
      /\ remote \in [Paths -> Node] /\ IsTree(remote) /\ link \in Links /\ result \in {"none", "true", "false"}
      /\ fh = FALSE
  BY DEF IInv, TypeOK, Control
<1>2. frames # << >> /\ (link = "live" \/ faulted)
  BY <1>1 DEF Control
<1>3. Len(frames) \in Nat \ {0} /\ DOMAIN frames = 1..Len(frames) /\ Top \in Frame /\ Len(frames) \in DOMAIN frames
  BY <1>1, <1>2, FramesType
<1>4. \A i \in 1..Len(frames) : frames[i].stale => faulted
  BY <1>1, <1>3 DEF Control
<1>5. Top.dir \in Paths /\ \A e \in Top.rest : e.path \in Paths
  BY <1>3 DEF Frame
<1>6. CASE RmdirMisuse
  <2>1. faulted
    BY <1>3, <1>4, <1>6 DEF RmdirMisuse, Misused, Top
  <2>2. TypeOK'
    BY <1>1, <1>6 DEF TypeOK, RmdirMisuse, transfer, history, locally
  <2>3. Control'
    BY <1>1, <1>2, <1>6, <2>1 DEF Control, RmdirMisuse, transfer, history, locally
  <2> QED
    BY <2>2, <2>3 DEF IInv
<1>7. CASE RmdirLeave
  <2>1. PICK ok \in BOOLEAN :
          /\ Asked(ok)
          /\ remote' = IF ok /\ Removable(Top.dir) THEN Unlinked(Top.dir) ELSE remote
    BY <1>7 DEF RmdirLeave
  <2>2. link' = link /\ faulted' \in BOOLEAN /\ faults' \in 0..MaxFaults /\ (faulted => faulted')
    BY <1>1, <2>1, AskedType
  <2>3. remote' \in [Paths -> Node] /\ IsTree(remote')
    <3>1. CASE Removable(Top.dir) /\ remote' = Unlinked(Top.dir)
      <4>1. Absent \in Node /\ Absent.type = "absent"
        BY NodeType
      <4>2. \A q \in Children(Top.dir) : remote[q].type = "absent"
        BY <3>1 DEF Removable, Empty
      <4> QED
        BY <1>1, <1>5, <3>1, <4>1, <4>2, TreeKept DEF Unlinked
    <3> QED
      BY <1>1, <2>1, <3>1
  <2>4. frames' = Popped /\ frames' \in Seq(Frame) /\ DOMAIN frames' = 1..(Len(frames) - 1) /\ Len(frames') = Len(frames) - 1
        /\ \A i \in 1..(Len(frames) - 1) : frames'[i] = frames[i]
    BY <1>1, <1>2, <1>7, FramesType DEF RmdirLeave
  <2>5. \A i \in DOMAIN frames' : frames'[i].stale => faulted'
    BY <1>3, <1>4, <2>2, <2>4
  <2>6. pc' = (IF Len(frames) = 1 THEN "idle" ELSE "rmdir") /\ result' \in {result, "true"}
    BY <1>7 DEF RmdirLeave, Return
  <2>7. frames' # << >> <=> pc' = "rmdir"
    <3>1. frames' = << >> <=> Len(frames') = 0
      BY <2>4, EmptySeq
    <3> QED
      BY <1>3, <2>4, <2>6, <3>1
  <2> QED
    BY <1>1, <1>2, <1>7, <2>2, <2>3, <2>4, <2>5, <2>6, <2>7, RmdirStepKeeps DEF RmdirLeave, transfer
<1>8. ASSUME NEW e \in Top.rest, RmdirEnter(e) PROVE IInv'
  <2> DEFINE fs == Aged(Taken(e))
  <2>1. PICK l \in Links, ok \in BOOLEAN :
          /\ Reached(faulted, l, ok)
          /\ frames' = IF ok /\ remote[e.path].type = "dir" THEN Append(fs, Open(e.path)) ELSE fs
    BY <1>8 DEF RmdirEnter
  <2>2. link' \in Links /\ faulted' \in BOOLEAN /\ faults' \in 0..MaxFaults /\ (faulted => faulted')
        /\ (link' = "live" \/ faulted')
    BY <1>1, <2>1, ReachedType
  <2>3. Taken(e) \in Seq(Frame) /\ Len(Taken(e)) = Len(frames) /\ fs \in Seq(Frame) /\ Len(fs) = Len(frames)
        /\ \A i \in 1..Len(frames) : Taken(e)[i].stale = frames[i].stale
    BY <1>1, <1>2, FramesType
  <2>4. \A i \in 1..Len(frames) : fs[i].stale => faulted'
    <3>1. CASE Echo
      BY <1>4, <2>2, <2>3, <3>1 DEF Aged
    <3>2. CASE ~Echo
      BY <1>2, <2>2, <3>2 DEF Echo, Connected
    <3> QED
      BY <3>1, <3>2
  <2> HIDE DEF fs
  <2>5. Open(e.path) \in Frame /\ ~Open(e.path).stale
    BY <1>1, <1>5, ListingType
  <2>6. /\ frames' \in Seq(Frame) /\ frames' # << >>
        /\ \A i \in DOMAIN frames' : frames'[i].stale => faulted'
    <3>1. CASE frames' = fs
      <4>1. DOMAIN fs = 1..Len(frames) /\ fs # << >>
        BY <1>3, <2>3, LenProperties, EmptySeq
      <4> QED
        BY <2>3, <2>4, <3>1, <4>1
    <3>2. CASE frames' = Append(fs, Open(e.path))
      <4>1. /\ Append(fs, Open(e.path)) \in Seq(Frame) /\ Len(Append(fs, Open(e.path))) = Len(frames) + 1
            /\ \A i \in 1..Len(frames) : Append(fs, Open(e.path))[i] = fs[i]
            /\ Append(fs, Open(e.path))[Len(frames) + 1] = Open(e.path)
        BY <2>3, <2>5, AppendProperties
      <4>2. DOMAIN frames' = 1..(Len(frames) + 1) /\ frames' # << >>
        BY <1>3, <3>2, <4>1, LenProperties, EmptySeq
      <4>3. \A i \in 1..(Len(frames) + 1) : i \in 1..Len(frames) \/ i = Len(frames) + 1
        BY <1>3
      <4> QED
        BY <2>4, <2>5, <3>2, <4>1, <4>2, <4>3
    <3> QED
      BY <2>1, <3>1, <3>2
  <2> QED
    BY <1>1, <1>8, <2>2, <2>6, RmdirStepKeeps DEF RmdirEnter, transfer
<1>9. ASSUME NEW e \in Top.rest, RmdirUnlink(e) PROVE IInv'
  <2>1. PICK ok \in BOOLEAN :
          /\ Asked(ok)
          /\ remote' = IF ok /\ remote[e.path].type = "file" THEN Unlinked(e.path) ELSE remote
    BY <1>9 DEF RmdirUnlink
  <2>2. link' = link /\ faulted' \in BOOLEAN /\ faults' \in 0..MaxFaults /\ (faulted => faulted')
    BY <1>1, <2>1, AskedType
  <2>3. remote' \in [Paths -> Node] /\ IsTree(remote')
    BY <1>1, <1>5, <2>1, FileReplaced DEF Unlinked
  <2>4. frames' = Taken(e) /\ Taken(e) \in Seq(Frame) /\ Len(Taken(e)) = Len(frames)
        /\ \A i \in 1..Len(frames) : Taken(e)[i].stale = frames[i].stale
    BY <1>1, <1>2, <1>9, FramesType DEF RmdirUnlink
  <2>5. DOMAIN frames' = 1..Len(frames) /\ frames' # << >>
    BY <1>3, <2>4, LenProperties, EmptySeq
  <2>6. \A i \in DOMAIN frames' : frames'[i].stale => faulted'
    BY <1>4, <2>2, <2>4, <2>5
  <2> QED
    BY <1>1, <1>2, <1>9, <2>2, <2>3, <2>4, <2>5, <2>6, RmdirStepKeeps DEF RmdirUnlink, transfer
<1> QED
  BY <1>6, <1>7, <1>8, <1>9

LEMMA OutsideKeeps ==
  ASSUME IInv, LinkBreaks \/ LinkNoticed \/ \E p \in Paths, n \in Foreign : Meddle(p, n)
  PROVE  IInv'
<1>1. /\ TypeOK /\ Control /\ faults \in 0..MaxFaults /\ others \in 0..MaxOthers /\ faulted \in BOOLEAN
      /\ remote \in [Paths -> Node] /\ IsTree(remote) /\ fh \in BOOLEAN /\ path \in Paths
  BY DEF IInv, TypeOK
<1>2. CASE LinkBreaks
  <2>1. faults' \in 0..MaxFaults /\ link' \in Links
    BY <1>1, <1>2, ShareAssumption DEF LinkBreaks, Links
  <2>2. faulted' = (faulted \/ pc # "idle")
    BY <1>2 DEF LinkBreaks
  <2>3. faulted' \in BOOLEAN /\ (faulted => faulted') /\ (pc # "idle" => faulted')
    BY <2>2
  <2>4. Target' = Target
    BY <1>2 DEF LinkBreaks, Target
  <2>5. TypeOK'
    BY <1>1, <1>2, <2>1, <2>3, <2>4 DEF LinkBreaks, TypeOK, transfer, locally
  <2>6. Control'
    BY <1>1, <1>2, <2>3, <2>4 DEF LinkBreaks, Control, transfer
  <2> QED
    BY <2>5, <2>6 DEF IInv
<1>3. ASSUME NEW p \in Paths, NEW n \in Foreign, Meddle(p, n) PROVE IInv'
  <2>1. n \in Node
    <3>1. Block \in Nat /\ 3 \in 0..3
      BY ShareAssumption
    <3>2. Written(3, Block) \in [1..Block -> Unit]
      BY <3>1 DEF Written, Unit
    <3>3. Written(3, Block) \in Seq(Unit)
      BY <3>1, <3>2, SeqDef
    <3> QED
      BY <3>3, NodeType DEF Foreign
  <2>2. remote' \in [Paths -> Node] /\ IsTree(remote')
    <3>1. \A q \in Children(p) : remote[q].type = "absent"
      BY <1>3 DEF Meddle, Empty
    <3>2. Len(p) > 1 => remote[Up(p)].type = "dir"
      BY <1>3 DEF Meddle, HasParent
    <3>3. remote' = [remote EXCEPT ![p] = n]
      BY <1>3 DEF Meddle
    <3> QED
      BY <1>1, <2>1, <3>1, <3>2, <3>3, TreeKept
  <2>3. fh' = (fh /\ ~(p = path /\ n = Absent))
    BY <1>3 DEF Meddle
  <2>4. fh' \in BOOLEAN /\ (fh' => fh) /\ (fh' /\ p = path => n # Absent)
    BY <1>1, <2>3
  <2>5. fh' => remote'[path].type = "file"
    <3>1. fh' => remote[path].type = "file"
      BY <1>1, <1>3, <2>4 DEF Meddle, Control
    <3>2. CASE p = path
      <4>1. remote[p].type \in {"absent", n.type} \/ n = Absent
        BY <1>3 DEF Meddle
      <4>2. remote' = [remote EXCEPT ![p] = n]
        BY <1>3 DEF Meddle
      <4> QED
        BY <1>1, <2>4, <3>1, <3>2, <4>1, <4>2
    <3>3. CASE p # path
      BY <1>1, <1>3, <3>1, <3>3 DEF Meddle
    <3> QED
      BY <3>2, <3>3
  <2>6. others' \in 0..MaxOthers /\ meddled' \in BOOLEAN
    BY <1>1, <1>3, ShareAssumption DEF Meddle
  <2>7. Target' = Target
    BY <1>3 DEF Meddle, Target
  <2>8. TypeOK'
    BY <1>1, <1>3, <2>2, <2>4, <2>6, <2>7 DEF Meddle, TypeOK, locally
  <2>9. Control'
    BY <1>1, <1>3, <2>4, <2>5, <2>7 DEF Meddle, Control
  <2> QED
    BY <2>8, <2>9 DEF IInv
<1>4. CASE LinkNoticed
  <2>1. link' \in Links /\ Target' = Target /\ link # "live"
    BY <1>4 DEF LinkNoticed, Links, Target
  <2>2. TypeOK'
    BY <1>1, <1>4, <2>1 DEF LinkNoticed, TypeOK, transfer, history, locally
  <2>3. Control'
    BY <1>1, <1>4, <2>1 DEF LinkNoticed, Control, transfer, history
  <2> QED
    BY <2>2, <2>3 DEF IInv
<1> QED
  BY <1>2, <1>3, <1>4

-----------------------------------------------------------------------------
LEMMA StepKeeps ==
  ASSUME IInv, [Next]_vars
  PROVE  IInv'
<1>1. CASE Begins1
  BY <1>1, SingleCallsKeep, BeginsKeep DEF Begins1
<1>2. CASE Running
  <2>1. RmdirMisuse \/ RmdirLeave => pc = "rmdir"
    BY DEF RmdirMisuse, RmdirLeave
  <2> QED
    BY <1>2, <2>1, MkdirKeeps, PutKeeps, GetKeeps, RmdirKeeps DEF Running
<1>3. CASE LinkBreaks \/ LinkNoticed \/ \E p \in Paths, n \in Foreign : Meddle(p, n)
  BY <1>3, OutsideKeeps
<1>4. CASE UNCHANGED vars
  <2>1. Target' = Target
    BY <1>4 DEF vars, Target
  <2>2. TypeOK'
    BY <1>4, <2>1 DEF IInv, vars, transfer, history, locally, TypeOK
  <2>3. Control'
    BY <1>4, <2>1 DEF IInv, vars, transfer, history, Control
  <2> QED
    BY <2>2, <2>3 DEF IInv
<1> QED
  BY <1>1, <1>2, <1>3, <1>4 DEF Next

THEOREM Invariance == Spec => []IInv
<1>1. Init => IInv
  BY InitKeeps
<1>2. IInv /\ [Next]_vars => IInv'
  BY StepKeeps
<1> QED
  BY <1>1, <1>2, PTL DEF Spec

(* The variables have their types and the share stays a tree: no step of mkdir,
   putAs, unlink, rename or rmdir leaves something where there is no directory
   for it, whatever fails in between and whatever the other clients do, for
   every set of paths and every number of them. *)
THEOREM TypeCorrect == Spec => []TypeOK
<1>1. IInv => TypeOK
  BY DEF IInv
<1> QED
  BY <1>1, Invariance, PTL

(* A directory that an rmdir has open is one of a context that is gone only if
   something failed during the call, however deep the tree is: while the server
   answers, the autoReconnect of the inner rmdir leaves the context alone.  That
   rmdir keeps away from such a directory after a failure is not said: it does
   go on with it. *)
THEOREM ContextCorrect == Spec => []ContextKept
<1>1. IInv => ContextKept
  BY DEF IInv, Control, ContextKept
<1> QED
  BY <1>1, Invariance, PTL

-----------------------------------------------------------------------------
(* putAs, getAs and getBytes move what they say, for every file and every
   length of the buffer, at the level of the blocks they move. *)

(* Which calls have which steps. *)
OpFits ==
  /\ pc \in {"mkdir", "look", "make"} => op \in {"mkdir", "put"}
  /\ pc = "open" => op \in {"put", "get", "bytes"}
  /\ pc = "write" => op = "put"
  /\ pc = "read" => op \in {"get", "bytes"}
  /\ pc \in {"rmdir", "misuse"} => op = "rmdir"

Remote == remote[path].data
Got    == IF op = "get" THEN local.data ELSE bytes

(* While the disk takes it, what a download has so far is the beginning of the
   remote file up to pos, and it ends with less than all only after a failure;
   a disk that did not take all of it leaves that beginning with gaps. *)
GoodDisk ==
  disk = "ok" =>
    /\ wsize = pos /\ Got = SubSeq(Remote, 1, pos)
    /\ pc = "idle" => /\ result = "true" <=> pos > 0
                      /\ ~faulted => pos = Len(Remote)

BadDisk ==
  /\ disk = "closed" => op = "get" /\ pc = "idle" /\ result = "false" /\ local = copy /\ faulted
  /\ disk = "full" => op = "get" /\ Thinned(local.data, SubSeq(Remote, 1, pos)) /\ faulted

FetchInv ==
  op \in {"get", "bytes"} /\ ~meddled =>
    /\ pos <= Len(Remote)
    /\ pc = "open" => pos = 0 /\ disk = "ok"
    /\ pc = "read" => faulted \/ (link = "live" /\ fh)
    /\ GoodDisk /\ BadDisk

(* The remote file when the first n units have been written. *)
Landed(n) == Overwritten(was[path].data, 0, SubSeq(local.data, 1, n))

(* Before it writes, an upload changes no contents; then it is pos units into
   the file, and the remote file is the old one with those in front. *)
StoreInv ==
  op = "put" /\ ~meddled =>
    /\ pc \in {"mkdir", "look", "make", "open"} =>
         pos = 0 /\ roff = 0 /\ wsize = 0 /\ \A q \in Paths : remote[q].data = was[q].data
    /\ pc = "write" =>
         /\ pos <= Len(local.data)
         /\ kind = "smb" => wsize >= 0
         /\ ~faulted => /\ link = "live" /\ fh /\ roff = pos /\ wsize = pos
                        /\ Remote = Landed(pos)
    /\ pc = "idle" =>
         /\ result = "false" /\ kind = "smb" => \A q \in Paths : remote[q].data = was[q].data
         /\ result = "true" /\ ~faulted => Remote = Landed(Len(local.data))

TransferInv == OpFits /\ FetchInv /\ StoreInv

-----------------------------------------------------------------------------
LEMMA FromTheStart ==
  ASSUME NEW old \in Seq(Unit), NEW new \in Seq(Unit)
  PROVE  Overwritten(old, 0, new) \in Seq(Unit) /\ Len(Overwritten(old, 0, new)) = Larger(Len(old), Len(new))
<1> DEFINE off == 0
<1>1. off \in Nat /\ off + Len(new) = Len(new) /\ off = 0
  BY LenProperties
<1> HIDE DEF off
<1>2. /\ Overwritten(old, off, new) \in Seq(Unit)
      /\ Len(Overwritten(old, off, new)) = Larger(Len(old), off + Len(new))
  BY <1>1, OverwrittenType
<1> QED
  BY <1>1, <1>2

(* Writing in two parts is writing both at once. *)
LEMMA OverwrittenTwice ==
  ASSUME NEW old \in Seq(Unit), NEW a \in Seq(Unit), NEW b \in Seq(Unit)
  PROVE  Overwritten(Overwritten(old, 0, a), Len(a), b) = Overwritten(old, 0, a \o b)
<1>both. PICK c \in Seq(Unit) :
        /\ c = a \o b /\ Len(c) = Len(a) + Len(b)
        /\ \A i \in 1..(Len(a) + Len(b)) : c[i] = IF i <= Len(a) THEN a[i] ELSE b[i - Len(a)]
  <2> DEFINE d == a \o b
  <2>1. /\ d \in Seq(Unit) /\ Len(d) = Len(a) + Len(b)
        /\ \A i \in 1..(Len(a) + Len(b)) : d[i] = IF i <= Len(a) THEN a[i] ELSE b[i - Len(a)]
    BY ConcatProperties
  <2>2. d = a \o b
    OBVIOUS
  <2> HIDE DEF d
  <2> QED
    BY <2>1, <2>2
<1>parts. Len(c) = Len(a) + Len(b) /\ \A i \in 1..Len(c) : c[i] = IF i <= Len(a) THEN a[i] ELSE b[i - Len(a)]
  BY <1>both
<1> DEFINE x == Overwritten(old, 0, a)
           y == Overwritten(x, Len(a), b)
           z == Overwritten(old, 0, c)
<1>1. Len(old) \in Nat /\ Len(a) \in Nat /\ Len(b) \in Nat /\ Len(c) \in Nat
  BY LenProperties
<1>2. x \in Seq(Unit) /\ Len(x) = Larger(Len(old), Len(a))
  BY FromTheStart
<1>3. y \in Seq(Unit) /\ Len(y) = Larger(Len(x), Len(a) + Len(b))
  <2> HIDE DEF x
  <2> QED
    BY <1>1, <1>2, OverwrittenType
<1>4. z \in Seq(Unit) /\ Len(z) = Larger(Len(old), Len(c))
  BY FromTheStart
<1>5. Len(y) = Len(z)
  BY <1>parts, <1>1, <1>2, <1>3, <1>4 DEF Larger
<1>6. \A i \in 1..Len(x) : x[i] = IF i <= Len(a) THEN a[i] ELSE IF i <= Len(old) THEN old[i] ELSE Hole
  BY <1>1, <1>2 DEF Overwritten, Larger
<1>7. \A i \in 1..Len(y) : y[i] = IF i \in (Len(a) + 1)..(Len(a) + Len(b)) THEN b[i - Len(a)]
                                  ELSE IF i <= Len(x) THEN x[i] ELSE Hole
  <2> HIDE DEF x
  <2> QED
    BY <1>1, <1>2, <1>3 DEF Overwritten, Larger
<1>8. \A i \in 1..Len(z) : z[i] = IF i <= Len(c) THEN c[i] ELSE IF i <= Len(old) THEN old[i] ELSE Hole
  BY <1>1, <1>4 DEF Overwritten, Larger
<1> HIDE DEF x, y, z
<1>9. ASSUME NEW i \in 1..Len(y) PROVE y[i] = z[i]
  <2>0. i \in Nat /\ 1 <= i /\ i \in 1..Len(z)
    BY <1>3, <1>5
  <2>1. CASE i <= Len(a)
    <3>1. i \in 1..Len(x) /\ i <= Len(x) /\ i \in 1..Len(c) /\ i <= Len(c) /\ i \notin (Len(a) + 1)..(Len(a) + Len(b))
      BY <1>parts, <1>1, <1>2, <2>0, <2>1 DEF Larger
    <3>2. y[i] = x[i] /\ x[i] = a[i]
      BY <1>6, <1>7, <2>1, <3>1
    <3>3. z[i] = c[i]
      BY <1>8, <2>0, <3>1
    <3>4. c[i] = a[i]
      BY <1>parts, <2>1, <3>1
    <3> QED
      BY <3>2, <3>3, <3>4
  <2>2. CASE i > Len(a) /\ i <= Len(c)
    <3>1. i \in (Len(a) + 1)..(Len(a) + Len(b)) /\ i \in 1..Len(c) /\ ~(i <= Len(a))
      BY <1>parts, <1>1, <2>0, <2>2
    <3>2. y[i] = b[i - Len(a)]
      BY <1>7, <3>1
    <3>3. z[i] = c[i]
      BY <1>8, <2>0, <2>2
    <3>4. c[i] = b[i - Len(a)]
      BY <1>parts, <3>1
    <3> QED
      BY <3>2, <3>3, <3>4
  <2>3. CASE i > Len(c)
    <3>1. /\ i <= Len(old) /\ i <= Len(x) /\ i \in 1..Len(x) /\ ~(i <= Len(a)) /\ ~(i <= Len(c))
          /\ i \notin (Len(a) + 1)..(Len(a) + Len(b))
      BY <1>parts, <1>1, <1>2, <1>3, <2>0, <2>3 DEF Larger
    <3>2. y[i] = x[i] /\ x[i] = old[i]
      BY <1>6, <1>7, <3>1
    <3>3. z[i] = old[i]
      BY <1>8, <2>0, <3>1
    <3> QED
      BY <3>2, <3>3
  <2> QED
    BY <1>1, <2>0, <2>1, <2>2, <2>3
<1>10. y = z
  BY <1>3, <1>4, <1>5, <1>9, SeqEqual
<1> QED
  BY <1>both, <1>10 DEF x, y, z

LEMMA NothingWritten ==
  ASSUME NEW old \in Seq(Unit)
  PROVE  Overwritten(old, 0, << >>) = old
<1>1. << >> \in Seq(Unit) /\ Len(<< >>) = 0 /\ Len(old) \in Nat
  BY EmptySeq, LenProperties
<1>2. Overwritten(old, 0, << >>) \in Seq(Unit) /\ Len(Overwritten(old, 0, << >>)) = Len(old)
  <2>1. ASSUME NEW c \in Seq(Unit), Len(c) = 0
        PROVE  Overwritten(old, 0, c) \in Seq(Unit) /\ Len(Overwritten(old, 0, c)) = Len(old)
    <3>1. Overwritten(old, 0, c) \in Seq(Unit) /\ Len(Overwritten(old, 0, c)) = Larger(Len(old), Len(c))
      BY FromTheStart
    <3> QED
      BY <1>1, <2>1, <3>1 DEF Larger
  <2> QED
    BY <1>1, <2>1
<1>3. \A i \in 1..Len(old) : Overwritten(old, 0, << >>)[i] = old[i]
  BY <1>1 DEF Overwritten, Larger
<1> QED
  BY <1>1, <1>2, <1>3, SeqEqual

(* What has been moved and the next block are together what will have been. *)
LEMMA NextBlock ==
  ASSUME NEW d \in Seq(Unit), pos \in Nat, pos < Len(d)
  PROVE  /\ SubSeq(d, 1, pos) \in Seq(Unit) /\ Len(SubSeq(d, 1, pos)) = pos
         /\ Part(d) \in Seq(Unit) /\ Len(Part(d)) \in Nat \ {0} /\ pos + Len(Part(d)) <= Len(d)
         /\ SubSeq(d, 1, pos) \o Part(d) = SubSeq(d, 1, pos + Len(Part(d)))
         /\ SubSeq(Part(d), 1, Len(Part(d))) = Part(d)
<1>1. Len(d) \in Nat /\ Block \in Nat \ {0} /\ \A i \in 1..Len(d) : d[i] \in Unit
  BY ShareAssumption, LenProperties, ElementOfSeq
<1>2. Part(d) \in Seq(Unit) /\ Len(Part(d)) = Smaller(Block, Len(d) - pos)
  BY <1>1, PartType
<1>3. /\ Len(Part(d)) \in Nat \ {0} /\ pos + Len(Part(d)) <= Len(d)
      /\ Smaller(pos + Block, Len(d)) = pos + Len(Part(d))
  BY <1>1, <1>2 DEF Smaller
<1>4. SubSeq(d, 1, pos) \in Seq(Unit) /\ Len(SubSeq(d, 1, pos)) = pos
  BY <1>1, SubSeqProperties
<1>5. Part(d) = SubSeq(d, pos + 1, pos + Len(Part(d)))
  BY <1>3 DEF Part
<1>6. SubSeq(d, 1, pos) \o Part(d) = SubSeq(d, 1, pos + Len(Part(d)))
  <2> DEFINE e == pos + Len(Part(d))
  <2>1. e \in pos..Len(d) /\ pos \in (1 - 1)..Len(d) /\ 1 \in 1..(Len(d) + 1)
    BY <1>1, <1>3
  <2> HIDE DEF e
  <2>2. SubSeq(d, 1, pos) \o SubSeq(d, pos + 1, e) = SubSeq(d, 1, e)
    BY <2>1, ConcatAdjacentSubSeq
  <2> QED
    BY <1>5, <2>2 DEF e
<1> QED
  BY <1>2, <1>3, <1>4, <1>6, SubSeqFull
LEMMA ThinnedSelf ==
  ASSUME NEW s \in Seq(Unit)
  PROVE  Thinned(s, s)
<1> DEFINE f == [i \in 1..Len(s) |-> i]
<1>1. Len(s) \in Nat /\ f \in [1..Len(s) -> 1..Len(s)]
  BY LenProperties
<1>2. \A i \in 1..Len(s) : s[i] = s[f[i]]
  OBVIOUS
<1>3. \A i, j \in 1..Len(s) : i < j => f[i] < f[j]
  OBVIOUS
<1> QED
  BY <1>1, <1>2, <1>3 DEF Thinned

(* The disk takes k units of the next block b. *)
LEMMA ThinnedMore ==
  ASSUME NEW s \in Seq(Unit), NEW a \in Seq(Unit), NEW b \in Seq(Unit), Thinned(s, a),
         NEW k \in 0..Len(b), NEW c \in Seq(Unit), Len(c) = k, \A i \in 1..k : c[i] = b[i]
  PROVE  Thinned(s \o c, a \o b)
<1>1. Len(s) \in Nat /\ Len(a) \in Nat /\ Len(b) \in Nat
  BY LenProperties
<1>2. PICK f \in [1..Len(s) -> 1..Len(a)] :
        /\ \A i \in 1..Len(s) : s[i] = a[f[i]]
        /\ \A i, j \in 1..Len(s) : i < j => f[i] < f[j]
  BY DEF Thinned
<1> DEFINE sc == s \o c
           ab == a \o b
           g == [i \in 1..(Len(s) + k) |-> IF i <= Len(s) THEN f[i] ELSE Len(a) + (i - Len(s))]
<1>3. /\ sc \in Seq(Unit) /\ Len(sc) = Len(s) + k
      /\ \A i \in 1..(Len(s) + k) : sc[i] = IF i <= Len(s) THEN s[i] ELSE c[i - Len(s)]
  BY ConcatProperties
<1>4. /\ ab \in Seq(Unit) /\ Len(ab) = Len(a) + Len(b)
      /\ \A i \in 1..(Len(a) + Len(b)) : ab[i] = IF i <= Len(a) THEN a[i] ELSE b[i - Len(a)]
  BY ConcatProperties
<1>5. ASSUME NEW i \in 1..(Len(s) + k)
      PROVE  /\ g[i] \in 1..(Len(a) + Len(b))
             /\ i <= Len(s) => i \in 1..Len(s) /\ g[i] = f[i] /\ f[i] \in 1..Len(a)
             /\ ~(i <= Len(s)) => i - Len(s) \in 1..k /\ g[i] = Len(a) + (i - Len(s))
  <2>1. CASE i <= Len(s)
    <3>1. i \in 1..Len(s)
      BY <1>1, <2>1
    <3>2. f[i] \in 1..Len(a) /\ g[i] = f[i]
      BY <1>2, <2>1, <3>1
    <3> QED
      BY <1>1, <2>1, <3>1, <3>2
  <2>2. CASE ~(i <= Len(s))
    <3>1. i - Len(s) \in 1..k /\ g[i] = Len(a) + (i - Len(s))
      BY <1>1, <2>2
    <3> QED
      BY <1>1, <2>2, <3>1
  <2> QED
    BY <2>1, <2>2
<1>6. g \in [1..(Len(s) + k) -> 1..(Len(a) + Len(b))]
  BY <1>5
<1> HIDE DEF g, sc, ab
<1>7. ASSUME NEW i \in 1..Len(sc) PROVE sc[i] = ab[g[i]]
  <2>1. i \in 1..(Len(s) + k)
    BY <1>3
  <2>2. CASE i <= Len(s)
    <3>1. g[i] = f[i] /\ g[i] \in 1..Len(a) /\ g[i] \in 1..(Len(a) + Len(b)) /\ i \in 1..Len(s)
      BY <1>5, <2>1, <2>2
    <3>2. ab[g[i]] = a[g[i]]
      BY <1>1, <1>4, <3>1
    <3> QED
      BY <1>2, <1>3, <2>1, <2>2, <3>1, <3>2
  <2>3. CASE ~(i <= Len(s))
    <3>1. g[i] = Len(a) + (i - Len(s)) /\ i - Len(s) \in 1..k /\ g[i] \in 1..(Len(a) + Len(b))
      BY <1>5, <2>1, <2>3
    <3>2. ab[g[i]] = b[i - Len(s)]
      BY <1>1, <1>4, <3>1
    <3> QED
      BY <1>3, <2>1, <2>3, <3>1, <3>2
  <2> QED
    BY <2>2, <2>3
<1>8. ASSUME NEW i \in 1..Len(sc), NEW j \in 1..Len(sc), i < j PROVE g[i] < g[j]
  <2>1. i \in 1..(Len(s) + k) /\ j \in 1..(Len(s) + k)
    BY <1>3
  <2>2. CASE j <= Len(s)
    BY <1>1, <1>2, <1>5, <1>8, <2>1, <2>2
  <2>3. CASE i <= Len(s) /\ ~(j <= Len(s))
    <3>1. g[i] = f[i] /\ f[i] \in 1..Len(a)
      BY <1>5, <2>1, <2>3
    <3>2. j - Len(s) \in 1..k /\ g[j] = Len(a) + (j - Len(s))
      BY <1>5, <2>1, <2>3
    <3> QED
      BY <1>1, <3>1, <3>2
  <2>4. CASE ~(i <= Len(s))
    <3>1. ~(j <= Len(s))
      BY <1>1, <1>8, <2>1, <2>4
    <3>2. /\ i - Len(s) \in 1..k /\ g[i] = Len(a) + (i - Len(s))
          /\ j - Len(s) \in 1..k /\ g[j] = Len(a) + (j - Len(s))
      BY <1>5, <2>1, <2>4, <3>1
    <3> QED
      BY <1>1, <1>8, <2>1, <3>2
  <2> QED
    BY <1>1, <1>8, <2>1, <2>2, <2>3, <2>4
<1> QED
  BY <1>3, <1>4, <1>6, <1>7, <1>8 DEF Thinned, sc, ab

LEMMA ThinnedLonger ==
  ASSUME NEW s \in Seq(Unit), NEW t \in Seq(Unit), NEW n \in 0..Len(t), Thinned(s, SubSeq(t, 1, n))
  PROVE  Thinned(s, t)
<1>1. Len(s) \in Nat /\ Len(t) \in Nat /\ \A i \in 1..n : t[i] \in Unit
  BY LenProperties, ElementOfSeq
<1> DEFINE u == SubSeq(t, 1, n)
<1>2. Len(u) = n /\ \A i \in 1..n : u[i] = t[i]
  BY <1>1, SubSeqProperties
<1> HIDE DEF u
<1>3. Thinned(s, u)
  BY DEF u
<1>4. PICK f \in [1..Len(s) -> 1..n] :
        /\ \A i \in 1..Len(s) : s[i] = u[f[i]]
        /\ \A i, j \in 1..Len(s) : i < j => f[i] < f[j]
  BY <1>2, <1>3 DEF Thinned
<1>5. ASSUME NEW i \in 1..Len(s) PROVE f[i] \in 1..Len(t) /\ s[i] = t[f[i]]
  <2>1. f[i] \in 1..n
    BY <1>4
  <2> QED
    BY <1>1, <1>2, <1>4, <2>1
<1>6. f \in [1..Len(s) -> 1..Len(t)]
  BY <1>4, <1>5
<1> QED
  BY <1>4, <1>5, <1>6 DEF Thinned

-----------------------------------------------------------------------------
(* Each step *)

LEMMA TransferTypes ==
  ASSUME IInv
  PROVE  /\ path \in Paths /\ remote \in [Paths -> Node] /\ local \in Node /\ was \in [Paths -> Node]
         /\ Remote \in Seq(Unit) /\ local.data \in Seq(Unit) /\ was[path].data \in Seq(Unit)
         /\ bytes \in Seq(Unit) /\ Got \in Seq(Unit)
         /\ pos \in Nat /\ roff \in Nat /\ wsize \in Int /\ faulted \in BOOLEAN /\ meddled \in BOOLEAN
         /\ fh \in BOOLEAN /\ faults \in 0..MaxFaults /\ kind \in {"smb", "nfs"}
  BY NodeType DEF IInv, TypeOK, Remote, Got

LEMMA NodeIsRecord ==
  ASSUME NEW n \in Node
  PROVE  n \in [type : {"absent", "dir", "file"}, data : Seq(Unit)]
<1>1. << >> \in Seq(Unit)
  BY EmptySeq
<1>2. n = Absent \/ n = Dir \/ n \in [type : {"file"}, data : Seq(Unit)]
  BY DEF Node
<1>3. Absent \in [type : {"absent", "dir", "file"}, data : Seq(Unit)]
  BY <1>1 DEF Absent
<1>4. Dir \in [type : {"absent", "dir", "file"}, data : Seq(Unit)]
  BY <1>1 DEF Dir
<1> QED
  BY <1>2, <1>3, <1>4

LEMMA EmptyPart ==
  ASSUME NEW d \in Seq(Unit)
  PROVE  SubSeq(d, 1, 0) = << >> /\ Len(d) >= 0
  BY SubSeqEmpty, LenProperties

LEMMA BeginsTransfer ==
  ASSUME IInv, TransferInv, Begins1
  PROVE  TransferInv'
<1>1. PICK p \in Paths :
        \/ Remove(p) \/ Clean(p) \/ Query(p) \/ BeginMkdir(p) \/ BeginRmdir(p)
        \/ BeginPut(p) \/ BeginGet(p) \/ BeginGetBytes(p)
        \/ \E q \in Paths : Rename(p, q)
  BY DEF Begins1
<1>2. CASE Remove(p) \/ Clean(p) \/ Query(p) \/ \E q \in Paths : Rename(p, q)
  <2>1. op' \in {"remove", "clean", "query", "rename"} /\ pc' = "idle"
    BY <1>2 DEF Remove, Clean, Query, Rename, OneCall, Begins, Begin, Return
  <2> QED
    BY <2>1 DEF TransferInv, OpFits, FetchInv, StoreInv
<1>3. CASE BeginMkdir(p) \/ BeginRmdir(p)
  <2>1. \/ op' = "mkdir" /\ pc' \in {"idle", "look"}
        \/ op' = "rmdir" /\ pc' \in {"idle", "rmdir"}
    BY <1>3 DEF BeginMkdir, BeginRmdir, Begins, Begin, Return
  <2> QED
    BY <2>1 DEF TransferInv, OpFits, FetchInv, StoreInv
<1>4. CASE BeginPut(p)
  <2>1. /\ op' = "put" /\ pos' = 0 /\ roff' = 0 /\ wsize' = 0 /\ was' = remote /\ remote' = remote
        /\ pc' = "mkdir" \/ (pc' = "idle" /\ result' = "false")
    BY <1>4 DEF BeginPut, Begins, Begin, Return
  <2>2. (OpFits /\ FetchInv)'
    BY <2>1 DEF OpFits, FetchInv
  <2>3. StoreInv'
    BY <2>1 DEF StoreInv
  <2> QED
    BY <2>2, <2>3 DEF TransferInv
<1>5. CASE BeginGet(p) \/ BeginGetBytes(p)
  <2>1. /\ op' \in {"get", "bytes"} /\ pos' = 0 /\ wsize' = 0 /\ remote' = remote /\ path' = p
        /\ \/ pc' = "open" /\ disk' = "ok" /\ Got' = << >>
           \/ op' = "get" /\ pc' = "idle" /\ disk' = "closed" /\ result' = "false" /\ local' = copy' /\ faulted'
    <3>1. CASE BeginGet(p)
      <4>1. /\ op' = "get" /\ pos' = 0 /\ wsize' = 0 /\ remote' = remote /\ path' = p /\ copy' = local
            /\ \/ local' = Opened /\ disk' = "ok" /\ pc' = "open"
               \/ disk' = "closed" /\ local' = local /\ pc' = "idle" /\ result' = "false" /\ Failing(FALSE, 1)
        BY <3>1 DEF BeginGet, Begin, Return
      <4>2. Failing(FALSE, 1) => faulted'
        BY TransferTypes, FailingType
      <4>3. local' = Opened => Got' = << >>
        BY <4>1 DEF Opened, File, Got
      <4> QED
        BY <4>1, <4>2, <4>3
    <3>2. CASE BeginGetBytes(p)
      <4>1. /\ op' = "bytes" /\ pos' = 0 /\ wsize' = 0 /\ remote' = remote /\ path' = p
            /\ bytes' = << >> /\ disk' = "ok" /\ pc' = "open"
        BY <3>2 DEF BeginGetBytes, Begin
      <4> QED
        BY <4>1 DEF Got
    <3> QED
      BY <1>5, <3>1, <3>2
  <2>2. Remote' \in Seq(Unit)
    <3>1. remote \in [Paths -> Node]
      BY TransferTypes
    <3>2. remote[p].data \in Seq(Unit)
      BY <3>1, NodeType
    <3> QED
      BY <2>1, <3>2 DEF Remote
  <2>3. SubSeq(Remote', 1, 0) = << >> /\ 0 <= Len(Remote')
    <3> DEFINE d == Remote'
    <3>1. d \in Seq(Unit)
      BY <2>2
    <3> HIDE DEF d
    <3>2. SubSeq(d, 1, 0) = << >> /\ Len(d) >= 0 /\ Len(d) \in Nat
      BY <3>1, EmptyPart, LenProperties
    <3> QED
      BY <3>2 DEF d
  <2>4. FetchInv'
    <3>1. CASE pc' = "open" /\ disk' = "ok" /\ Got' = << >>
      BY <2>1, <2>3, <3>1 DEF FetchInv, GoodDisk, BadDisk
    <3>2. CASE op' = "get" /\ pc' = "idle" /\ disk' = "closed" /\ result' = "false" /\ local' = copy' /\ faulted'
      BY <2>1, <2>3, <3>2 DEF FetchInv, GoodDisk, BadDisk
    <3> QED
      BY <2>1, <3>1, <3>2
  <2>5. (OpFits /\ StoreInv)'
    BY <2>1 DEF OpFits, StoreInv
  <2> QED
    BY <2>4, <2>5 DEF TransferInv
<1> QED
  BY <1>1, <1>2, <1>3, <1>4, <1>5

LEMMA MkdirTransfer ==
  ASSUME IInv, TransferInv, MkdirEnter \/ MkdirLook \/ MkdirMake \/ MkdirDone
  PROVE  TransferInv'
<1>1. /\ pc \in {"mkdir", "look", "make"} /\ op' = op /\ path' = path /\ was' = was /\ meddled' = meddled
      /\ pos' = pos /\ roff' = roff /\ wsize' = wsize
  BY DEF MkdirEnter, MkdirLook, MkdirMake, MkdirDone, transfer, history
<1>2. \/ pc' \in {"look", "make"}
      \/ pc' = "idle" /\ (op = "mkdir" \/ result' = "false")
      \/ pc' = "open" /\ op # "mkdir"
  BY DEF MkdirEnter, MkdirLook, MkdirMake, MkdirDone, Return
<1>3. op \in {"mkdir", "put"}
  BY <1>1 DEF TransferInv, OpFits
<1>4. (OpFits /\ FetchInv)'
  BY <1>1, <1>2, <1>3 DEF OpFits, FetchInv
<1>5. \A q \in Paths : remote'[q].data = remote[q].data
  <2>1. CASE remote' = remote
    BY <2>1
  <2>2. CASE remote[Next1].type = "absent" /\ remote' = [remote EXCEPT ![Next1] = Dir]
    <3>1. remote \in [Paths -> Node]
      BY TransferTypes
    <3>2. CASE Next1 \in Paths
      <4>1. remote[Next1].data = << >> /\ Dir.data = << >>
        BY <2>2, <3>1, <3>2, NodeType
      <4> QED
        BY <2>2, <3>1, <4>1
    <3>3. CASE Next1 \notin Paths
      BY <2>2, <3>1, <3>3
    <3> QED
      BY <3>2, <3>3
  <2> QED
    BY <2>1, <2>2 DEF MkdirEnter, MkdirLook, MkdirMake, MkdirDone
<1>6. StoreInv'
  <2>1. op = "put" /\ ~meddled =>
          pos = 0 /\ roff = 0 /\ wsize = 0 /\ \A q \in Paths : remote[q].data = was[q].data
    BY <1>1 DEF TransferInv, StoreInv
  <2>2. op = "put" /\ ~meddled => \A q \in Paths : remote'[q].data = was'[q].data
    BY <1>1, <1>5, <2>1
  <2> QED
    BY <1>1, <1>2, <2>1, <2>2 DEF StoreInv
<1> QED
  BY <1>4, <1>6 DEF TransferInv

LEMMA PutTransfer ==
  ASSUME IInv, TransferInv, PutOpen \/ PutWrites \/ PutWriteFails \/ PutDone
  PROVE  TransferInv'
<1>1. /\ TransferInv /\ OpFits /\ StoreInv /\ op = "put" /\ op' = op /\ path' = path /\ was' = was
      /\ meddled' = meddled /\ local' = local /\ kind' = kind /\ Remote' = remote'[path].data
  BY DEF TransferInv, OpFits, PutOpen, PutWrites, PutWriteFails, PutDone, transfer, history, Remote
<1>2. /\ path \in Paths /\ remote \in [Paths -> Node] /\ Remote \in Seq(Unit) /\ local.data \in Seq(Unit)
      /\ was[path].data \in Seq(Unit) /\ pos \in Nat /\ roff \in Nat /\ wsize \in Int
      /\ faulted \in BOOLEAN /\ fh \in BOOLEAN /\ faults \in 0..MaxFaults /\ kind \in {"smb", "nfs"}
      /\ meddled \in BOOLEAN /\ Len(local.data) \in Nat
  BY TransferTypes, LenProperties
<1>3. pc' \in {"idle", "write"}
  BY DEF PutOpen, PutWrites, PutWriteFails, PutDone, Return
<1>4. (OpFits /\ FetchInv)'
  BY <1>1, <1>3 DEF OpFits, FetchInv
<1>5. \A n : Landed(n)' = Landed(n)
  BY <1>1 DEF Landed
<1>6. CASE PutOpen /\ ~meddled
  <2>1. pos = 0 /\ roff = 0 /\ wsize = 0 /\ \A q \in Paths : remote[q].data = was[q].data
    BY <1>1, <1>6 DEF StoreInv, PutOpen
  <2>2. PICK ok \in BOOLEAN :
          /\ Asked(ok)
          /\ \/ ok /\ remote' = [remote EXCEPT ![path].type = "file"] /\ fh' = TRUE /\ pc' = "write"
             \/ pc' = "idle" /\ result' = "false" /\ remote' = remote
    BY <1>6 DEF PutOpen, Return
  <2>3. \A q \in Paths : remote'[q].data = remote[q].data
    <3>1. CASE remote' = [remote EXCEPT ![path].type = "file"]
      <4>1. remote' = [remote EXCEPT ![path] = [remote[path] EXCEPT !.type = "file"]]
        BY <3>1
      <4>2. remote[path] \in [type : {"absent", "dir", "file"}, data : Seq(Unit)]
        BY <1>2, NodeIsRecord
      <4>3. [remote[path] EXCEPT !.type = "file"].data = remote[path].data
        BY <4>2
      <4> QED
        BY <1>2, <4>1, <4>3
    <3> QED
      BY <2>2, <3>1
  <2>4. Remote' = Landed(pos)
    <3>1. SubSeq(local.data, 1, pos) = << >>
      BY <1>2, <2>1, EmptyPart
    <3>2. Landed(pos) = was[path].data
      BY <1>2, <3>1, NothingWritten DEF Landed
    <3> QED
      BY <1>1, <1>2, <2>1, <2>3, <3>2
  <2>5. ok => link' = "live"
    BY <2>2 DEF Asked
  <2>6. pos' = pos /\ roff' = roff /\ wsize' = wsize
    BY <1>6 DEF PutOpen
  <2>7. StoreInv'
    BY <1>1, <1>2, <1>5, <2>1, <2>2, <2>3, <2>4, <2>5, <2>6 DEF StoreInv
  <2> QED
    BY <1>4, <2>7 DEF TransferInv
<1>7. CASE PutWrites /\ ~meddled
  <2> DEFINE d == local.data
             m == pos + Len(Part(d))
  <2>1. kind = "smb" => wsize >= 0
    BY <1>1, <1>7 DEF PutWrites, StoreInv
  <2>2. pc = "write" /\ pos < Len(d) /\ link = "live" /\ fh /\ pc' = "write" /\ link' = link /\ fh' = fh /\ pos' = m
    BY <1>7 DEF PutWrites
  <2>3. PICK k \in 1..Len(Part(d)) :
          /\ Failing(faulted, IF k = Len(Part(d)) THEN 0 ELSE 1)
          /\ remote' = [remote EXCEPT ![path].data = Overwritten(@, roff, SubSeq(Part(d), 1, k))]
          /\ roff' = roff + k /\ wsize' = wsize + k
    BY <1>7 DEF PutWrites
  <2>4. /\ SubSeq(d, 1, pos) \in Seq(Unit) /\ Len(SubSeq(d, 1, pos)) = pos
        /\ Part(d) \in Seq(Unit) /\ Len(Part(d)) \in Nat \ {0} /\ m <= Len(d)
        /\ SubSeq(d, 1, pos) \o Part(d) = SubSeq(d, 1, m)
        /\ SubSeq(Part(d), 1, Len(Part(d))) = Part(d)
    BY <1>2, <2>2, NextBlock
  <2>5. (faulted => faulted') /\ (k # Len(Part(d)) => faulted') /\ faulted' \in BOOLEAN
    BY <1>2, <2>3, FailingType
  <2>6. ASSUME ~faulted' PROVE roff' = pos' /\ wsize' = pos' /\ Remote' = Landed(m)
    <3>1. ~faulted /\ k = Len(Part(d))
      BY <2>5, <2>6
    <3>2. roff = pos /\ wsize = pos /\ Remote = Landed(pos)
      BY <1>1, <1>7, <2>2, <3>1 DEF StoreInv
    <3>3. Remote' = Overwritten(Remote, pos, Part(d))
      <4>1. remote' = [remote EXCEPT ![path] = [remote[path] EXCEPT !.data = Overwritten(Remote, pos, Part(d))]]
        BY <2>3, <2>4, <3>1, <3>2 DEF Remote
      <4>2. remote[path] \in [type : {"absent", "dir", "file"}, data : Seq(Unit)]
        BY <1>2, NodeIsRecord
      <4>3. [remote[path] EXCEPT !.data = Overwritten(Remote, pos, Part(d))].data = Overwritten(Remote, pos, Part(d))
        BY <4>2
      <4> QED
        BY <1>1, <1>2, <4>1, <4>3
    <3>4. Overwritten(Landed(pos), pos, Part(d)) = Landed(m)
      <4> DEFINE a == SubSeq(d, 1, pos)
                 b == Part(d)
      <4>1. a \in Seq(Unit) /\ b \in Seq(Unit) /\ Len(a) = pos /\ a \o b = SubSeq(d, 1, m)
        BY <2>4
      <4> HIDE DEF a, b, d, m
      <4>2. Overwritten(Overwritten(was[path].data, 0, a), Len(a), b) = Overwritten(was[path].data, 0, a \o b)
        BY <1>2, <4>1, OverwrittenTwice
      <4>3. Landed(pos) = Overwritten(was[path].data, 0, a) /\ Landed(m) = Overwritten(was[path].data, 0, a \o b)
        BY <4>1 DEF Landed, a, d
      <4> QED
        BY <4>1, <4>2, <4>3 DEF b
    <3> QED
      BY <2>2, <2>3, <3>1, <3>2, <3>3, <3>4
  <2>7. kind = "smb" => wsize' >= 0
    BY <1>2, <2>1, <2>2, <2>3
  <2>8. StoreInv'
    BY <1>1, <1>5, <2>2, <2>4, <2>6, <2>7 DEF StoreInv
  <2> QED
    BY <1>4, <2>8 DEF TransferInv
<1>8. CASE PutWriteFails /\ ~meddled
  <2>1. pc = "write" /\ pos < Len(local.data) /\ (kind = "smb" => wsize >= 0) /\ link' = link /\ fh' = fh
    BY <1>1, <1>8 DEF PutWriteFails, StoreInv
  <2>2. faulted'
    <3>1. Failing(faulted, IF link = "live" /\ fh THEN 1 ELSE 0)
      BY <1>8 DEF PutWriteFails
    <3>2. faulted \/ (link = "live" /\ fh)
      BY <1>1, <1>8, <2>1 DEF StoreInv
    <3> QED
      BY <1>2, <3>1, <3>2, FailingType
  <2>3. \/ pc' = "idle" /\ kind = "smb" /\ result' = Told(wsize >= 0)
        \/ pc' = pc /\ kind # "smb" /\ pos' = pos + Len(Part(local.data))
    BY <1>8 DEF PutWriteFails, StopsAtError, Return
  <2>4. pos + Len(Part(local.data)) <= Len(local.data)
    BY <1>2, <2>1, NextBlock
  <2>5. StoreInv'
    <3>1. CASE pc' = "idle" /\ kind = "smb" /\ result' = Told(wsize >= 0)
      <4>1. result' = "true"
        BY <2>1, <3>1 DEF Told
      <4> QED
        BY <2>2, <3>1, <4>1 DEF StoreInv
    <3>2. CASE pc' = pc /\ kind # "smb" /\ pos' = pos + Len(Part(local.data))
      BY <1>1, <2>1, <2>2, <2>4, <3>2 DEF StoreInv
    <3> QED
      BY <2>3, <3>1, <3>2
  <2> QED
    BY <1>4, <2>5 DEF TransferInv
<1>9. CASE PutDone /\ ~meddled
  <2>1. /\ pc = "write" /\ pos = Len(local.data) /\ pc' = "idle" /\ result' = Told(wsize >= 0)
        /\ faulted' = faulted /\ remote' = remote
    BY <1>9 DEF PutDone, Return, history
  <2>2. /\ kind = "smb" => wsize >= 0
        /\ ~faulted => Remote = Landed(pos)
    BY <1>1, <1>9, <2>1 DEF StoreInv
  <2>3. kind = "smb" => result' = "true"
    BY <2>1, <2>2 DEF Told
  <2>4. Remote' = Remote
    BY <1>1, <2>1 DEF Remote
  <2>5. StoreInv'
    BY <1>1, <1>5, <2>1, <2>2, <2>3, <2>4 DEF StoreInv
  <2> QED
    BY <1>4, <2>5 DEF TransferInv
<1>10. CASE meddled
  BY <1>1, <1>4, <1>10 DEF TransferInv, StoreInv
<1> QED
  BY <1>2, <1>6, <1>7, <1>8, <1>9, <1>10

LEMMA GetTransfer ==
  ASSUME IInv, TransferInv, GetOpen \/ GetReads \/ GetEnds
  PROVE  TransferInv'
<1>1. /\ OpFits /\ FetchInv /\ op' = op /\ path' = path /\ meddled' = meddled /\ remote' = remote
      /\ op \in {"get", "bytes"} /\ Remote' = Remote
  BY DEF TransferInv, OpFits, GetOpen, GetReads, GetEnds, transfer, history, Remote
<1>2. /\ path \in Paths /\ remote \in [Paths -> Node] /\ Remote \in Seq(Unit) /\ Len(Remote) \in Nat
      /\ pos \in Nat /\ wsize \in Int /\ faulted \in BOOLEAN /\ fh \in BOOLEAN /\ faults \in 0..MaxFaults
      /\ Got \in Seq(Unit) /\ local.data \in Seq(Unit) /\ bytes \in Seq(Unit) /\ meddled \in BOOLEAN
  BY TransferTypes, LenProperties
<1>3. (OpFits /\ StoreInv)'
  <2>1. pc' \in {"idle", "read"}
    BY DEF GetOpen, GetReads, GetEnds, Return
  <2> QED
    BY <1>1, <2>1 DEF OpFits, StoreInv
<1>4. CASE GetOpen /\ ~meddled
  <2>1. /\ pc = "open" /\ pos' = pos /\ wsize' = wsize /\ Got' = Got /\ disk' = disk
        /\ disk = "ok" /\ pos = 0 /\ wsize = pos /\ Got = SubSeq(Remote, 1, pos) /\ pos <= Len(Remote)
    BY <1>1, <1>4 DEF GetOpen, FetchInv, GoodDisk, Got, locally
  <2>2. PICK l \in Links, ok \in BOOLEAN :
          /\ Reached(faulted, l, ok)
          /\ \/ ok /\ fh' = TRUE /\ pc' = "read"
             \/ ~(ok /\ remote[path].type = "file") /\ pc' = "idle" /\ result' = "false"
    BY <1>4 DEF GetOpen, Return
  <2>3. IF ok THEN link' = "live" ELSE faulted'
    BY <1>2, <2>2, ReachedType
  <2>4. remote[path].type # "file" => Len(Remote) = 0
    BY <1>2, NodeType, EmptySeq DEF Remote
  <2>5. FetchInv'
    <3>1. CASE ok /\ fh' = TRUE /\ pc' = "read"
      BY <1>1, <2>1, <2>3, <3>1 DEF FetchInv, GoodDisk, BadDisk
    <3>2. CASE ~(ok /\ remote[path].type = "file") /\ pc' = "idle" /\ result' = "false"
      BY <1>1, <2>1, <2>3, <2>4, <3>2 DEF FetchInv, GoodDisk, BadDisk
    <3> QED
      BY <2>2, <3>1, <3>2
  <2> QED
    BY <1>3, <2>5 DEF TransferInv
<1>5. CASE GetReads /\ ~meddled
  <2> DEFINE part == Part(Remote)
             a == SubSeq(Remote, 1, pos)
  <2>1. /\ pc = "read" /\ pc' = pc /\ pos < Len(Remote) /\ link = "live" /\ fh
        /\ pos' = pos + Len(part) /\ link' = link /\ fh' = fh
    BY <1>5 DEF GetReads, Remote
  <2>2. /\ a \in Seq(Unit) /\ part \in Seq(Unit) /\ Len(part) \in Nat \ {0} /\ pos + Len(part) <= Len(Remote)
        /\ a \o part = SubSeq(Remote, 1, pos + Len(part))
    BY <1>2, <2>1, NextBlock
  <2>3. GoodDisk /\ BadDisk
    BY <1>1, <1>5 DEF FetchInv
  <2>4. disk # "closed"
    BY <2>1, <2>3 DEF BadDisk
  <2>5. \/ Got' = Got \o part /\ wsize' = wsize + Len(part) /\ disk' = disk /\ (op = "get" => local'.data = local.data \o part)
        \/ \E k \in 0..(Len(part) - 1) :
             op = "get" /\ disk' = "full" /\ local'.data = local.data \o SubSeq(part, 1, k) /\ faulted'
    <3>1. CASE op = "bytes" /\ bytes' = bytes \o part /\ wsize' = wsize + Len(part) /\ locally' = locally
      BY <1>1, <3>1 DEF Got, locally
    <3>2. CASE op = "get" /\ local' = File(local.data \o part) /\ wsize' = wsize + Len(part) /\ locally' = locally
      BY <1>1, <3>2 DEF Got, File, locally
    <3>3. CASE \E k \in 0..(Len(part) - 1) :
                 /\ op = "get" /\ local' = File(local.data \o SubSeq(part, 1, k)) /\ disk' = "full"
                 /\ Failing(TRUE, IF disk = "full" THEN 0 ELSE 1)
      <4>1. PICK k \in 0..(Len(part) - 1) :
              /\ op = "get" /\ local' = File(local.data \o SubSeq(part, 1, k)) /\ disk' = "full"
              /\ Failing(TRUE, IF disk = "full" THEN 0 ELSE 1)
        BY <3>3
      <4>2. faulted'
        BY <1>2, <4>1, FailingType
      <4>3. local'.data = local.data \o SubSeq(part, 1, k)
        BY <4>1 DEF File
      <4> QED
        BY <4>1, <4>2, <4>3
    <3> HIDE DEF part
    <3>4. \/ op = "bytes" /\ bytes' = bytes \o part /\ wsize' = wsize + Len(part) /\ locally' = locally
          \/ op = "get" /\ local' = File(local.data \o part) /\ wsize' = wsize + Len(part) /\ locally' = locally
          \/ \E k \in 0..(Len(part) - 1) :
                 /\ op = "get" /\ local' = File(local.data \o SubSeq(part, 1, k)) /\ disk' = "full"
                 /\ Failing(TRUE, IF disk = "full" THEN 0 ELSE 1)
      BY <1>5 DEF GetReads, Remote, part
    <3> QED
      BY <3>1, <3>2, <3>3, <3>4
  <2> HIDE DEF part
  <2>6. GoodDisk'
    <3>1. CASE disk' = "ok"
      <4>1. Got' = Got \o part /\ wsize' = wsize + Len(part) /\ disk = "ok"
        BY <2>5, <3>1
      <4>2. wsize = pos /\ Got = a
        BY <2>3, <4>1 DEF GoodDisk
      <4> QED
        BY <1>1, <2>1, <2>2, <4>1, <4>2 DEF GoodDisk
    <3> QED
      BY <3>1 DEF GoodDisk
  <2>7. BadDisk'
    <3>1. disk' # "closed" /\ (disk' = "full" => op' = "get" /\ faulted')
      <4>1. disk = "full" => op = "get" /\ faulted
        BY <2>3 DEF BadDisk
      <4>2. faulted => faulted'
        <5>1. TRUE \in BOOLEAN
          OBVIOUS
        <5> QED
          BY <1>2, <1>5, <5>1, FailingType DEF GetReads
      <4> QED
        BY <1>1, <2>4, <2>5, <4>1, <4>2
    <3>2. ASSUME disk' = "full" PROVE Thinned(local'.data, SubSeq(Remote', 1, pos'))
      <4>1. op = "get"
        BY <1>1, <3>1, <3>2
      <4>2. Thinned(local.data, a)
        <5>1. CASE disk = "full"
          BY <2>3, <5>1 DEF BadDisk
        <5>2. CASE disk # "full"
          <6>1. disk = "ok"
            BY <2>4, <5>2 DEF IInv, TypeOK
          <6>2. local.data = a
            BY <2>3, <4>1, <6>1 DEF GoodDisk, Got
          <6> QED
            BY <2>2, <6>2, ThinnedSelf
        <5> QED
          BY <5>1, <5>2
      <4>3. PICK k \in 0..Len(part) : local'.data = local.data \o SubSeq(part, 1, k)
        <5>1. CASE local'.data = local.data \o part
          <6>1. SubSeq(part, 1, Len(part)) = part /\ Len(part) \in 0..Len(part)
            BY <2>2, SubSeqFull
          <6> QED
            BY <5>1, <6>1
        <5>2. CASE \E k \in 0..(Len(part) - 1) : local'.data = local.data \o SubSeq(part, 1, k)
          <6>1. \A k \in 0..(Len(part) - 1) : k \in 0..Len(part)
            BY <2>2
          <6> QED
            BY <5>2, <6>1
        <5> QED
          BY <2>5, <4>1, <5>1, <5>2
      <4> DEFINE c == SubSeq(part, 1, k)
      <4>4. c \in Seq(Unit) /\ Len(c) = k /\ \A i \in 1..k : c[i] = part[i]
        <5>1. \A i \in 1..k : part[i] \in Unit
          BY <2>2, ElementOfSeq
        <5> QED
          BY <2>2, <5>1, SubSeqProperties
      <4>5. local'.data = local.data \o c
        BY <4>3
      <4> HIDE DEF c, a
      <4>6. Thinned(local.data \o c, a \o part)
        BY <1>2, <2>2, <4>2, <4>4, ThinnedMore
      <4>7. a \o part = SubSeq(Remote', 1, pos')
        BY <1>1, <2>1, <2>2
      <4> QED
        BY <4>5, <4>6, <4>7
    <3> QED
      BY <3>1, <3>2 DEF BadDisk
  <2>8. FetchInv'
    BY <1>1, <1>2, <2>1, <2>2, <2>6, <2>7 DEF FetchInv
  <2> QED
    BY <1>3, <2>8 DEF TransferInv
<1>6. CASE GetEnds /\ ~meddled
  <2>1. /\ pc = "read" /\ pc' = "idle" /\ result' = Told(wsize > 0) /\ pos' = pos /\ wsize' = wsize /\ Got' = Got
        /\ local' = local /\ disk' = disk
        /\ Failing(faulted, IF link = "live" /\ fh /\ pos < Len(Remote) THEN 1 ELSE 0)
    BY <1>6 DEF GetEnds, Return, transfer, locally, Remote, Got
  <2>2. /\ pos <= Len(Remote) /\ GoodDisk /\ BadDisk
        /\ faulted \/ (link = "live" /\ fh)
    BY <1>1, <1>6, <2>1 DEF FetchInv
  <2>3. (faulted => faulted') /\ (link = "live" /\ fh /\ pos < Len(Remote) => faulted')
    BY <1>2, <2>1, FailingType
  <2>4. ~faulted' => pos = Len(Remote)
    BY <1>2, <2>2, <2>3
  <2>5. disk = "ok" => (result' = "true" <=> pos > 0)
    BY <2>1, <2>2 DEF GoodDisk, Told
  <2>6. GoodDisk'
    BY <1>1, <2>1, <2>2, <2>4, <2>5 DEF GoodDisk
  <2>7. BadDisk'
    BY <1>1, <2>1, <2>2, <2>3 DEF BadDisk
  <2>8. FetchInv'
    BY <1>1, <2>1, <2>2, <2>6, <2>7 DEF FetchInv
  <2> QED
    BY <1>3, <2>8 DEF TransferInv
<1>7. CASE meddled
  BY <1>1, <1>3, <1>7 DEF TransferInv, FetchInv
<1> QED
  BY <1>2, <1>4, <1>5, <1>6, <1>7

LEMMA OtherTransfer ==
  ASSUME IInv, TransferInv,
         \/ RmdirMisuse \/ RmdirLeave
         \/ pc = "rmdir" /\ \E e \in Top.rest : RmdirEnter(e) \/ RmdirUnlink(e)
         \/ LinkBreaks \/ LinkNoticed
         \/ \E p \in Paths, n \in Foreign : Meddle(p, n)
         \/ UNCHANGED vars
  PROVE  TransferInv'
<1>1. /\ OpFits /\ FetchInv /\ StoreInv /\ faulted \in BOOLEAN
  BY DEF TransferInv, IInv, TypeOK
<1>2. CASE \/ RmdirMisuse \/ RmdirLeave
           \/ pc = "rmdir" /\ \E e \in Top.rest : RmdirEnter(e) \/ RmdirUnlink(e)
  <2>1. pc = "rmdir" /\ op' = op /\ pc' \in {"rmdir", "misuse", "idle"}
    BY <1>2 DEF RmdirMisuse, RmdirLeave, RmdirEnter, RmdirUnlink, Return
  <2> QED
    BY <1>1, <2>1 DEF TransferInv, OpFits, FetchInv, StoreInv
<1>3. CASE LinkBreaks
  <2>1. /\ pc' = pc /\ op' = op /\ path' = path /\ remote' = remote /\ local' = local /\ bytes' = bytes
        /\ copy' = copy /\ disk' = disk
        /\ was' = was /\ meddled' = meddled /\ result' = result /\ kind' = kind
        /\ pos' = pos /\ roff' = roff /\ wsize' = wsize
        /\ Remote' = Remote /\ Got' = Got
    BY <1>3 DEF LinkBreaks, transfer, locally, Remote, Got
  <2>2. faulted' = (faulted \/ pc # "idle")
    BY <1>3 DEF LinkBreaks
  <2>3. (faulted => faulted') /\ (pc # "idle" => faulted')
    BY <2>2
  <2>4. \A n : Landed(n)' = Landed(n)
    BY <2>1 DEF Landed
  <2>5. OpFits'
    BY <1>1, <2>1 DEF OpFits
  <2>6. FetchInv'
    BY <1>1, <2>1, <2>3 DEF FetchInv, GoodDisk, BadDisk
  <2>7. StoreInv'
    BY <1>1, <2>1, <2>3, <2>4 DEF StoreInv
  <2> QED
    BY <2>5, <2>6, <2>7 DEF TransferInv
<1>4. CASE \E p \in Paths, n \in Foreign : Meddle(p, n)
  <2>1. pc' = pc /\ op' = op /\ meddled' = TRUE
    BY <1>4 DEF Meddle
  <2> QED
    BY <1>1, <2>1 DEF TransferInv, OpFits, FetchInv, StoreInv
<1>5. CASE UNCHANGED vars
  <2>1. \A n : Landed(n)' = Landed(n)
    BY <1>5 DEF Landed, vars, history
  <2>2. Remote' = Remote /\ Got' = Got
    BY <1>5 DEF vars, Remote, Got
  <2>3. OpFits'
    BY <1>1, <1>5 DEF vars, OpFits
  <2>4. FetchInv'
    BY <1>1, <1>5, <2>2 DEF vars, transfer, history, locally, FetchInv, GoodDisk, BadDisk
  <2>5. StoreInv'
    BY <1>1, <1>5, <2>1, <2>2 DEF vars, transfer, history, StoreInv
  <2> QED
    BY <2>3, <2>4, <2>5 DEF TransferInv
<1>6. CASE LinkNoticed
  <2>1. /\ pc' = pc /\ op' = op /\ path' = path /\ remote' = remote /\ local' = local /\ bytes' = bytes
        /\ copy' = copy /\ disk' = disk /\ fh' = fh /\ faulted' = faulted
        /\ was' = was /\ meddled' = meddled /\ result' = result /\ kind' = kind
        /\ pos' = pos /\ roff' = roff /\ wsize' = wsize
        /\ Remote' = Remote /\ Got' = Got /\ link # "live"
    BY <1>6 DEF LinkNoticed, transfer, history, locally, Remote, Got
  <2>2. \A n : Landed(n)' = Landed(n)
    BY <2>1 DEF Landed
  <2>3. OpFits'
    BY <1>1, <2>1 DEF OpFits
  <2>4. FetchInv'
    BY <1>1, <2>1 DEF FetchInv, GoodDisk, BadDisk
  <2>5. StoreInv'
    BY <1>1, <2>1, <2>2 DEF StoreInv
  <2> QED
    BY <2>3, <2>4, <2>5 DEF TransferInv
<1> QED
  BY <1>2, <1>3, <1>4, <1>5, <1>6

-----------------------------------------------------------------------------
LEMMA Transferred == Spec => [](IInv /\ TransferInv)
<1>1. Init => IInv /\ TransferInv
  <2>1. Init => TransferInv
    BY DEF Init, TransferInv, OpFits, FetchInv, StoreInv
  <2> QED
    BY <2>1, InitKeeps
<1>2. IInv /\ TransferInv /\ [Next]_vars => (IInv /\ TransferInv)'
  <2> SUFFICES ASSUME IInv, TransferInv, [Next]_vars PROVE (IInv /\ TransferInv)'
    OBVIOUS
  <2>1. IInv'
    BY StepKeeps
  <2>2. TransferInv'
    BY BeginsTransfer, MkdirTransfer, PutTransfer, GetTransfer, OtherTransfer DEF Next, Running
  <2> QED
    BY <2>1, <2>2
<1> QED
  BY <1>1, <1>2, PTL DEF Spec

LEMMA GotBeginning ==
  ASSUME IInv, TransferInv, pc = "idle", op \in {"get", "bytes"}, ~meddled, disk = "ok"
  PROVE  Received(Got)
<1>1. /\ pos <= Len(Remote) /\ Got = SubSeq(Remote, 1, pos)
      /\ result = "true" <=> pos > 0
      /\ ~faulted => pos = Len(Remote)
  BY DEF TransferInv, FetchInv, GoodDisk
<1>2. /\ Remote \in Seq(Unit) /\ Got \in Seq(Unit) /\ pos \in Nat /\ Len(Remote) \in Nat
      /\ \A i \in 1..Len(Remote) : Remote[i] \in Unit
  BY TransferTypes, LenProperties, ElementOfSeq
<1>3. Len(Got) = pos
  <2>1. \A i \in 1..pos : Remote[i] \in Unit
    BY <1>1, <1>2
  <2> QED
    BY <1>1, <1>2, <2>1, SubSeqProperties
<1>4. Got # << >> <=> pos > 0
  BY <1>2, <1>3, EmptySeq
<1>5. ~faulted => Got = Remote
  BY <1>1, <1>2, SubSeqFull
<1>6. Prefix(Got, Remote)
  BY <1>1, <1>3 DEF Prefix
<1> QED
  BY <1>1, <1>4, <1>5, <1>6 DEF Received, Remote

(* getAs that cannot open its local file leaves the old copy and returns false;
   while the disk takes what it is given, the copy of getAs and getBytes is a
   beginning of the remote file, with nothing of what was there before, and all
   of it unless something failed; a disk that does not leaves gaps and nothing
   else, for every file and every buffer. *)
THEOREM GetCorrect == Spec => []GetIsPrefix
<1>1. IInv /\ TransferInv => GetIsPrefix
  <2> SUFFICES ASSUME IInv, TransferInv, pc = "idle", ~meddled PROVE GetIsPrefix
    BY DEF GetIsPrefix, Returned
  <2>1. CASE op = "get"
    <3>1. Got = local.data /\ FetchInv /\ BadDisk
      BY <2>1 DEF Got, TransferInv, FetchInv
    <3>2. disk = "closed" => result = "false" /\ local = copy
      BY <3>1 DEF BadDisk
    <3>3. disk = "ok" => Received(local.data)
      BY <2>1, <3>1, GotBeginning
    <3>4. ASSUME disk = "full" PROVE Thinned(local.data, remote[path].data)
      <4>1. pos \in 0..Len(Remote) /\ Thinned(local.data, SubSeq(Remote, 1, pos))
        BY <2>1, <3>1, <3>4, TransferTypes, LenProperties DEF FetchInv, BadDisk
      <4> QED
        BY <4>1, TransferTypes, ThinnedLonger DEF Remote
    <3> QED
      BY <2>1, <3>2, <3>3, <3>4 DEF GetIsPrefix, Returned
  <2>2. CASE op = "bytes"
    <3>1. Got = bytes /\ disk = "ok"
      BY <2>2 DEF Got, TransferInv, FetchInv, BadDisk, IInv, TypeOK
    <3> QED
      BY <2>2, <3>1, GotBeginning DEF GetIsPrefix, Returned
  <2> QED
    BY <2>1, <2>2 DEF GetIsPrefix, Returned
<1> QED
  BY <1>1, Transferred, PTL

(* A putAs that met no failure leaves the old file with the local one written
   over its beginning, unit by unit; an SMB put that returns false has changed
   the contents of no file, for every file and every buffer. *)
THEOREM PutCorrect == Spec => []PutLands
<1>1. IInv /\ TransferInv => PutLands
  <2> SUFFICES ASSUME IInv, TransferInv, Returned("put")
               PROVE  /\ result = "true" /\ Calm =>
                           remote[path].data = Overwritten(was[path].data, 0, local.data)
                      /\ result = "false" /\ kind = "smb" /\ ~meddled =>
                           \A q \in Paths : remote[q].data = was[q].data
    BY DEF PutLands
  <2>1. op = "put" /\ pc = "idle"
    BY DEF Returned
  <2>2. SubSeq(local.data, 1, Len(local.data)) = local.data
    BY TransferTypes, SubSeqFull
  <2> QED
    BY <2>1, <2>2 DEF TransferInv, StoreInv, Landed, Remote, Calm
<1> QED
  BY <1>1, Transferred, PTL

-----------------------------------------------------------------------------
(* mkdir makes, and rmdir removes, what they say, for every tree. *)

(* mkdir: the components so far are directories. *)
MkdirInv ==
  op = "mkdir" /\ ~meddled =>
    /\ pc \in {"look", "make"} => \A n \in 1..made : remote[SubSeq(path, 1, n)].type = "dir"
    /\ pc = "idle" /\ result = "true" => \A n \in 1..Len(path) : remote[SubSeq(path, 1, n)].type = "dir"

(* What is at q is an entry of the i-th open directory that is still to come,
   or the directory below it that is being removed. *)
ToCome(i, q) ==
  \/ [path |-> q, type |-> remote[q].type] \in frames[i].rest
  \/ i < Len(frames) /\ q = frames[i + 1].dir

(* The open directories of rmdir lie below each other, the first at the path. *)
WayDown ==
  \A i \in DOMAIN frames :
    /\ Inside(path, frames[i].dir) /\ Len(frames[i].dir) = Len(path) + i - 1
    /\ \A e \in frames[i].rest : Up(e.path) = frames[i].dir

(* rmdir: what is outside the path stays as it was; whatever is left in one of
   the open directories is still to come, unless something failed. *)
RmdirInv ==
  op = "rmdir" /\ ~meddled =>
    /\ \A q \in Paths : ~Inside(path, q) => remote[q] = was[q]
    /\ pc = "rmdir" /\ ~faulted =>
         \A i \in DOMAIN frames :
           /\ remote[frames[i].dir].type = "dir"
           /\ \A q \in Children(frames[i].dir) : remote[q].type # "absent" => ToCome(i, q)
    /\ pc = "idle" /\ result = "true" /\ ~faulted => remote[path].type = "absent"

TreesInv == MkdirInv /\ RmdirInv /\ WayDown

-----------------------------------------------------------------------------
LEMMA InsideItself ==
  ASSUME NEW p \in Paths
  PROVE  Inside(p, p)
  BY PathType, WholePath DEF Inside

LEMMA InsideBelow ==
  ASSUME NEW p \in Paths, NEW q \in Paths, Inside(p, q), NEW r \in Paths, Up(r) = q
  PROVE  Inside(p, r) /\ Len(r) = Len(q) + 1
<1>1. /\ Len(p) \in Nat /\ Len(q) \in Nat /\ Len(r) \in Nat /\ Len(p) > 0 /\ Len(q) > 0 /\ Len(q) = Len(r) - 1
      /\ Len(p) <= Len(q) /\ SubSeq(q, 1, Len(p)) = p
  BY PathType DEF Inside
<1>2. q = SubSeq(r, 1, Len(q)) /\ Len(q) \in 1..Len(r) /\ Len(p) \in 1..Len(q)
  BY <1>1 DEF Up
<1>3. SubSeq(SubSeq(r, 1, Len(q)), 1, Len(p)) = SubSeq(r, 1, Len(p))
  BY <1>2, PrefixOfPrefix
<1> QED
  BY <1>1, <1>2, <1>3 DEF Inside

(* If nothing is at the path, nothing is below it. *)
LEMMA NothingBelow ==
  ASSUME NEW t \in [Paths -> Node], IsTree(t), NEW p \in Paths, t[p].type = "absent",
         NEW q \in Paths, Inside(p, q)
  PROVE  t[q] = Absent
<1>1. Len(p) \in Nat /\ Len(q) \in Nat /\ Len(p) > 0 /\ Len(p) <= Len(q) /\ SubSeq(q, 1, Len(p)) = p
  BY PathType DEF Inside
<1>2. t[q].type = "absent"
  <2>1. CASE Len(p) = Len(q)
    BY <1>1, <2>1, WholePath
  <2>2. CASE Len(p) < Len(q)
    <3>1. Len(p) \in 1..(Len(q) - 1)
      BY <1>1, <2>2
    <3>2. t[q].type # "absent" => t[SubSeq(q, 1, Len(p))].type = "dir"
      BY <3>1 DEF IsTree
    <3> QED
      BY <1>1, <3>2
  <2> QED
    BY <1>1, <2>1, <2>2
<1> QED
  BY <1>2, NodeType

-----------------------------------------------------------------------------
LEMMA TreesTypes ==
  ASSUME IInv
  PROVE  /\ path \in Paths /\ remote \in [Paths -> Node] /\ IsTree(remote) /\ was \in [Paths -> Node]
         /\ faulted \in BOOLEAN /\ meddled \in BOOLEAN /\ faults \in 0..MaxFaults /\ frames \in Seq(Frame)
         /\ link \in Links
  BY DEF IInv, TypeOK

LEMMA FramesInside ==
  ASSUME IInv, pc = "rmdir"
  PROVE  /\ frames # << >> /\ Len(frames) \in Nat \ {0} /\ DOMAIN frames = 1..Len(frames) /\ Top = frames[Len(frames)]
         /\ \A i \in DOMAIN frames : /\ frames[i] \in Frame /\ frames[i].dir \in Paths
                                     /\ \A e \in frames[i].rest : e.path \in Paths /\ e.type \in {"dir", "file"}
                                                                  /\ e = [path |-> e.path, type |-> e.type]
<1>1. frames \in Seq(Frame) /\ frames # << >>
  BY DEF IInv, TypeOK, Control
<1>2. Len(frames) \in Nat \ {0} /\ DOMAIN frames = 1..Len(frames)
  BY <1>1, FramesType
<1>3. \A i \in DOMAIN frames : frames[i] \in Frame
  BY <1>1, <1>2, ElementOfSeq
<1> QED
  BY <1>1, <1>2, <1>3 DEF Frame, Top

(* Taking an entry and losing the context leave the directories. *)
LEMMA FramesStay ==
  ASSUME IInv, pc = "rmdir", NEW e
  PROVE  /\ Taken(e) \in Seq(Frame) /\ Len(Taken(e)) = Len(frames) /\ DOMAIN Taken(e) = 1..Len(frames)
         /\ \A i \in 1..Len(frames) :
              /\ Taken(e)[i].dir = frames[i].dir
              /\ Taken(e)[i].rest = IF i = Len(frames) THEN frames[i].rest \ {e} ELSE frames[i].rest
         /\ Aged(Taken(e)) \in Seq(Frame) /\ Len(Aged(Taken(e))) = Len(frames)
         /\ \A i \in 1..Len(frames) :
              Aged(Taken(e))[i].dir = Taken(e)[i].dir /\ Aged(Taken(e))[i].rest = Taken(e)[i].rest
<1>1. /\ frames \in Seq(Frame) /\ frames # << >> /\ Len(frames) \in Nat \ {0} /\ DOMAIN frames = 1..Len(frames)
      /\ \A i \in DOMAIN frames : frames[i] \in Frame
  BY FramesInside, TreesTypes
<1>2. Taken(e) \in Seq(Frame) /\ Len(Taken(e)) = Len(frames)
  BY <1>1, FramesType
<1>3. DOMAIN Taken(e) = 1..Len(frames)
  BY <1>2, LenProperties
<1>4. ASSUME NEW i \in 1..Len(frames)
      PROVE  /\ Taken(e)[i].dir = frames[i].dir
             /\ Taken(e)[i].rest = IF i = Len(frames) THEN frames[i].rest \ {e} ELSE frames[i].rest
  <2>1. Taken(e)[i] = IF i = Len(frames) THEN [frames[i] EXCEPT !.rest = @ \ {e}] ELSE frames[i]
    BY <1>1 DEF Taken
  <2>2. frames[i] \in Frame
    BY <1>1
  <2> QED
    BY <2>1, <2>2 DEF Frame
<1>5. Aged(Taken(e)) \in Seq(Frame) /\ Len(Aged(Taken(e))) = Len(frames)
  BY <1>1, <1>2, FramesType
<1>6. ASSUME NEW i \in 1..Len(frames)
      PROVE  Aged(Taken(e))[i].dir = Taken(e)[i].dir /\ Aged(Taken(e))[i].rest = Taken(e)[i].rest
  <2>1. Taken(e)[i] \in Frame
    BY <1>2, ElementOfSeq
  <2>2. Aged(Taken(e))[i] \in {Taken(e)[i], [Taken(e)[i] EXCEPT !.stale = TRUE]}
    BY <1>3 DEF Aged
  <2> QED
    BY <2>1, <2>2 DEF Frame
<1> QED
  BY <1>2, <1>3, <1>4, <1>5, <1>6

-----------------------------------------------------------------------------
(* Each step *)

LEMMA BeginsTrees ==
  ASSUME IInv, Begins1
  PROVE  TreesInv'
<1>1. PICK p \in Paths :
        \/ Remove(p) \/ Clean(p) \/ Query(p) \/ BeginMkdir(p) \/ BeginRmdir(p)
        \/ BeginPut(p) \/ BeginGet(p) \/ BeginGetBytes(p)
        \/ \E q \in Paths : Rename(p, q)
  BY DEF Begins1
<1>2. pc = "idle"
  BY <1>1 DEF Remove, Clean, Query, Rename, OneCall, BeginMkdir, BeginRmdir, BeginPut, BeginGet, BeginGetBytes, Begins, Begin
<1>3. frames = << >>
  BY <1>2 DEF IInv, Control
<1>4. CASE \/ Remove(p) \/ Clean(p) \/ Query(p) \/ BeginMkdir(p)
           \/ BeginPut(p) \/ BeginGet(p) \/ BeginGetBytes(p)
           \/ \E q \in Paths : Rename(p, q)
  <2>1. /\ op' # "rmdir" /\ frames' = frames
        /\ op' = "mkdir" => made' = 0 /\ (pc' = "idle" => result' = "false")
    BY <1>4 DEF Remove, Clean, Query, Rename, OneCall, BeginMkdir, BeginPut, BeginGet, BeginGetBytes, Begins, Begin, Return
  <2>2. DOMAIN frames' = {}
    BY <1>3, <2>1
  <2>3. op' = "mkdir" => \A n \in 1..made' : FALSE
    BY <2>1
  <2>4. MkdirInv'
    BY <2>1, <2>3 DEF MkdirInv
  <2>5. (RmdirInv /\ WayDown)'
    BY <2>1, <2>2 DEF RmdirInv, WayDown
  <2> QED
    BY <2>4, <2>5 DEF TreesInv
<1>5. CASE BeginRmdir(p)
  <2>1. /\ op' = "rmdir" /\ path' = p /\ remote' = remote /\ was' = remote
        /\ \/ /\ remote[p].type = "dir" /\ frames' = <<Open(p)>> /\ pc' = "rmdir"
           \/ frames' = frames /\ pc' = "idle" /\ result' = "false"
    BY <1>5 DEF BeginRmdir, Begins, Begin, Return
  <2>2. MkdirInv'
    BY <2>1 DEF MkdirInv
  <2>3. CASE frames' = frames /\ pc' = "idle" /\ result' = "false"
    <3>1. DOMAIN frames' = {}
      BY <1>3, <2>3
    <3>2. (RmdirInv /\ WayDown)'
      BY <2>1, <2>3, <3>1 DEF RmdirInv, WayDown
    <3> QED
      BY <2>2, <3>2 DEF TreesInv
  <2>4. CASE remote[p].type = "dir" /\ frames' = <<Open(p)>> /\ pc' = "rmdir"
    <3>1. /\ remote \in [Paths -> Node] /\ Open(p).dir = p /\ \A e \in Open(p).rest : Up(e.path) = p
          /\ Inside(p, p) /\ Len(p) \in Nat
      BY TreesTypes, ListingType, InsideItself, PathType
    <3>2. DOMAIN frames' = {1} /\ frames'[1] = Open(p)
      BY <2>4
    <3>3. \A q \in Children(p) : remote[q].type # "absent" =>
            [path |-> q, type |-> remote[q].type] \in Open(p).rest
      BY DEF Open, Listing
    <3>4. WayDown'
      BY <2>1, <3>1, <3>2 DEF WayDown
    <3>5. RmdirInv'
      BY <2>1, <2>4, <3>1, <3>2, <3>3 DEF RmdirInv, ToCome
    <3> QED
      BY <2>2, <3>4, <3>5 DEF TreesInv
  <2> QED
    BY <2>1, <2>3, <2>4
<1> QED
  BY <1>1, <1>4, <1>5

LEMMA MkdirTrees ==
  ASSUME IInv, TransferInv, TreesInv, MkdirEnter \/ MkdirLook \/ MkdirMake \/ MkdirDone
  PROVE  TreesInv'
<1>1. /\ pc \in {"mkdir", "look", "make"} /\ op' = op /\ path' = path /\ frames' = frames /\ meddled' = meddled
  BY DEF MkdirEnter, MkdirLook, MkdirMake, MkdirDone, history
<1>2. op \in {"mkdir", "put"} /\ frames = << >>
  BY <1>1 DEF TransferInv, OpFits, IInv, Control
<1>3. DOMAIN frames' = {}
  BY <1>1, <1>2
<1>4. (RmdirInv /\ WayDown)'
  BY <1>1, <1>2, <1>3 DEF RmdirInv, WayDown
<1>5. CASE op = "put" \/ meddled
  BY <1>1, <1>4, <1>5 DEF TreesInv, MkdirInv
<1>6. CASE op = "mkdir" /\ ~meddled
  <2>1. MkdirInv /\ pc \in {"mkdir", "look", "make"} /\ remote \in [Paths -> Node] /\ path \in Paths
    BY <1>1, TreesTypes DEF TreesInv
  <2>2. pc = "look" \/ pc = "make" => made \in 0..Len(Target) /\ Target = path
    BY <1>6 DEF IInv, TypeOK, Target
  <2>3. MkdirInv'
    <3>1. CASE MkdirEnter
      <4>1. made' = 0 /\ pc' \in {"look", "idle"} /\ (pc' = "idle" => result' = "false")
        BY <3>1 DEF MkdirEnter, Return, IInv, Control
      <4> QED
        BY <4>1 DEF MkdirInv
    <3>2. CASE MkdirLook
      <4>1. pc = "look" /\ made < Len(Target) /\ remote' = remote
        BY <3>2 DEF MkdirLook
      <4>2. \/ pc' = "make" /\ made' = made
            \/ remote[Next1].type = "dir" /\ made' = made + 1 /\ pc' = pc
            \/ pc' = "idle" /\ result' = "false"
        BY <3>2 DEF MkdirLook, Seen, Further, Return
      <4>3. Next1 = SubSeq(path, 1, made + 1) /\ made \in Nat
        BY <2>1, <2>2, <4>1, ComponentType
      <4>4. \A n \in 1..made : remote[SubSeq(path, 1, n)].type = "dir"
        BY <1>6, <2>1, <4>1 DEF MkdirInv
      <4>5. CASE remote[Next1].type = "dir" /\ made' = made + 1 /\ pc' = pc
        <5>1. \A n \in 1..(made + 1) : remote[SubSeq(path, 1, n)].type = "dir"
          <6>1. \A n \in 1..(made + 1) : n \in 1..made \/ n = made + 1
            BY <4>3
          <6> QED
            BY <4>3, <4>4, <4>5, <6>1
        <5> QED
          BY <1>1, <4>1, <4>5, <5>1 DEF MkdirInv
      <4> QED
        BY <1>1, <4>1, <4>2, <4>4, <4>5 DEF MkdirInv
    <3>3. CASE MkdirMake
      <4>1. pc = "make" /\ made < Len(Target)
        BY <3>3 DEF MkdirMake, IInv, Control
      <4>2. \/ /\ remote[Next1].type = "absent" /\ remote' = [remote EXCEPT ![Next1] = Dir]
               /\ made' = made + 1 /\ pc' = "look"
            \/ pc' = "idle" /\ result' = "false"
        BY <3>3 DEF MkdirMake, Further, Return
      <4>3. /\ Next1 = SubSeq(path, 1, made + 1) /\ made \in Nat /\ Next1 \in Paths
            /\ \A n \in 1..(made + 1) : SubSeq(path, 1, n) \in Paths
        BY <2>1, <2>2, <4>1, ComponentType
      <4>4. \A n \in 1..made : remote[SubSeq(path, 1, n)].type = "dir"
        BY <1>6, <2>1, <4>1 DEF MkdirInv
      <4>5. CASE remote' = [remote EXCEPT ![Next1] = Dir] /\ made' = made + 1 /\ pc' = "look"
        <5>1. ASSUME NEW n \in 1..(made + 1) PROVE remote'[SubSeq(path, 1, n)].type = "dir"
          <6>1. Dir.type = "dir" /\ (n \in 1..made \/ n = made + 1) /\ SubSeq(path, 1, n) \in Paths
            BY <4>3 DEF Dir
          <6> QED
            BY <2>1, <4>3, <4>4, <4>5, <6>1
        <5> QED
          BY <1>1, <4>5, <5>1 DEF MkdirInv
      <4> QED
        BY <4>2, <4>5 DEF MkdirInv
    <3>4. CASE MkdirDone
      <4>1. pc = "look" /\ made = Len(Target) /\ remote' = remote /\ pc' = "idle" /\ made' = made
        BY <1>6, <3>4 DEF MkdirDone, Return
      <4> QED
        BY <1>1, <1>6, <2>1, <2>2, <4>1 DEF MkdirInv
    <3> QED
      BY <3>1, <3>2, <3>3, <3>4
  <2> QED
    BY <1>4, <2>3 DEF TreesInv
<1> QED
  BY <1>2, <1>5, <1>6, TreesTypes

LEMMA TransfersTrees ==
  ASSUME IInv, TransferInv, TreesInv,
         PutOpen \/ PutWrites \/ PutWriteFails \/ PutDone \/ GetOpen \/ GetReads \/ GetEnds
  PROVE  TreesInv'
<1>1. pc \in {"open", "write", "read"} /\ op' = op /\ frames' = frames
  BY DEF PutOpen, PutWrites, PutWriteFails, PutDone, GetOpen, GetReads, GetEnds
<1>2. op \in {"put", "get", "bytes"} /\ frames = << >>
  BY <1>1 DEF TransferInv, OpFits, IInv, Control
<1>3. DOMAIN frames' = {}
  BY <1>1, <1>2
<1> QED
  BY <1>1, <1>2, <1>3 DEF TreesInv, MkdirInv, RmdirInv, WayDown

LEMMA OutsideTrees ==
  ASSUME IInv, TreesInv,
         RmdirMisuse \/ LinkBreaks \/ LinkNoticed \/ (\E p \in Paths, n \in Foreign : Meddle(p, n)) \/ UNCHANGED vars
  PROVE  TreesInv'
<1>1. MkdirInv /\ RmdirInv /\ WayDown
  BY DEF TreesInv
<1>2. op' = op /\ path' = path /\ frames' = frames /\ made' = made /\ result' = result /\ was' = was
  BY DEF RmdirMisuse, LinkBreaks, LinkNoticed, Meddle, vars, transfer, history
<1>3. WayDown'
  BY <1>1, <1>2 DEF WayDown
<1>4. CASE RmdirMisuse
  <2>1. pc = "rmdir" /\ pc' = "misuse" /\ remote' = remote /\ meddled' = meddled
    BY <1>4 DEF RmdirMisuse, history
  <2> QED
    BY <1>1, <1>2, <1>3, <2>1 DEF TreesInv, MkdirInv, RmdirInv
<1>5. CASE LinkBreaks
  <2>1. pc' = pc /\ remote' = remote /\ meddled' = meddled /\ faulted' = (faulted \/ pc # "idle")
    BY <1>5 DEF LinkBreaks
  <2>2. (faulted => faulted') /\ (pc # "idle" => faulted')
    BY <2>1
  <2>3. RmdirInv'
    BY <1>1, <1>2, <2>1, <2>2 DEF RmdirInv
  <2>4. MkdirInv'
    BY <1>1, <1>2, <2>1 DEF MkdirInv
  <2> QED
    BY <1>3, <2>3, <2>4 DEF TreesInv
<1>6. CASE \E p \in Paths, n \in Foreign : Meddle(p, n)
  <2>1. meddled' = TRUE
    BY <1>6 DEF Meddle
  <2> QED
    BY <1>3, <2>1 DEF TreesInv, MkdirInv, RmdirInv
<1>7. CASE LinkNoticed \/ UNCHANGED vars
  <2>1. pc' = pc /\ remote' = remote /\ meddled' = meddled /\ faulted' = faulted
    BY <1>7 DEF LinkNoticed, vars, history
  <2>2. \A i, q : ToCome(i, q)' = ToCome(i, q)
    BY <1>2, <2>1 DEF ToCome
  <2> QED
    BY <1>1, <1>2, <1>3, <2>1, <2>2 DEF TreesInv, MkdirInv, RmdirInv
<1> QED
  BY <1>4, <1>5, <1>6, <1>7

(* An rmdir that met no failure has a connection and loses it only with one. *)
LEMMA NoFailure ==
  ASSUME IInv, pc = "rmdir", NEW ok \in BOOLEAN,
         Asked(ok) \/ \E l \in Links : Reached(faulted, l, ok),
         ~faulted'
  PROVE  ok /\ ~faulted /\ link = "live"
<1>1. faulted \in BOOLEAN /\ faults \in 0..MaxFaults /\ (link = "live" \/ faulted)
  BY TreesTypes DEF IInv, Control
<1>2. CASE Asked(ok)
  BY <1>1, <1>2, AskedType
<1>3. CASE \E l \in Links : Reached(faulted, l, ok)
  BY <1>1, <1>3, ReachedType
<1> QED
  BY <1>2, <1>3

LEMMA LeaveTrees ==
  ASSUME IInv, TransferInv, TreesInv, RmdirLeave
  PROVE  TreesInv'
<1>1. /\ pc = "rmdir" /\ op' = op /\ path' = path /\ was' = was /\ meddled' = meddled /\ Top.rest = {}
      /\ frames' = Popped /\ pc' = (IF Len(frames) = 1 THEN "idle" ELSE "rmdir")
  BY DEF RmdirLeave, Return
<1>2. op = "rmdir" /\ RmdirInv /\ WayDown
  BY <1>1 DEF TransferInv, OpFits, TreesInv
<1>3. /\ frames # << >> /\ Len(frames) \in Nat \ {0} /\ DOMAIN frames = 1..Len(frames) /\ Top = frames[Len(frames)]
      /\ \A i \in DOMAIN frames : frames[i].dir \in Paths
  BY <1>1, FramesInside
<1>4. /\ remote \in [Paths -> Node] /\ path \in Paths /\ faulted \in BOOLEAN /\ Top.dir \in Paths /\ Len(path) \in Nat
  BY <1>3, TreesTypes, PathType
<1>5. /\ DOMAIN frames' = 1..(Len(frames) - 1) /\ Len(frames') = Len(frames) - 1
      /\ \A i \in 1..(Len(frames) - 1) : frames'[i] = frames[i]
  BY <1>1, <1>3, FramesType, TreesTypes
<1>6. PICK ok \in BOOLEAN :
        Asked(ok) /\ remote' = IF ok /\ Removable(Top.dir) THEN Unlinked(Top.dir) ELSE remote
  BY DEF RmdirLeave
<1>7. WayDown'
  <2>1. \A i \in DOMAIN frames' : i \in DOMAIN frames /\ frames'[i] = frames[i]
    BY <1>3, <1>5
  <2>2. \A i \in DOMAIN frames :
          /\ Inside(path, frames[i].dir) /\ Len(frames[i].dir) = Len(path) + i - 1
          /\ \A e \in frames[i].rest : Up(e.path) = frames[i].dir
    BY <1>2 DEF WayDown
  <2>3. \A i \in DOMAIN frames' :
          /\ Inside(path, frames'[i].dir) /\ Len(frames'[i].dir) = Len(path) + i - 1
          /\ \A e \in frames'[i].rest : Up(e.path) = frames'[i].dir
    BY <2>1, <2>2
  <2> QED
    BY <1>1, <2>3 DEF WayDown
<1>8. MkdirInv'
  BY <1>1, <1>2 DEF MkdirInv
<1>9. Inside(path, Top.dir) /\ Len(Top.dir) = Len(path) + Len(frames) - 1
  BY <1>2, <1>3 DEF WayDown
<1>10. ~meddled => \A q \in Paths : ~Inside(path, q) => remote'[q] = was[q]
  <2>1. \A q \in Paths : ~Inside(path, q) => remote'[q] = remote[q]
    BY <1>4, <1>6, <1>9 DEF Unlinked
  <2> QED
    BY <1>2, <2>1 DEF RmdirInv
<1>11. ASSUME ~meddled, ~faulted'
       PROVE  /\ remote' = [remote EXCEPT ![Top.dir] = Absent]
              /\ \A i \in DOMAIN frames :
                   /\ remote[frames[i].dir].type = "dir"
                   /\ \A q \in Children(frames[i].dir) : remote[q].type # "absent" => ToCome(i, q)
  <2>1. ok /\ ~faulted
    BY <1>1, <1>6, <1>11, NoFailure
  <2>2. \A i \in DOMAIN frames :
          /\ remote[frames[i].dir].type = "dir"
          /\ \A q \in Children(frames[i].dir) : remote[q].type # "absent" => ToCome(i, q)
    BY <1>1, <1>2, <1>11, <2>1 DEF RmdirInv
  <2>3. remote[Top.dir].type = "dir" /\ \A q \in Children(Top.dir) : remote[q].type = "absent"
    <3>1. Len(frames) \in DOMAIN frames
      BY <1>3
    <3>2. \A q \in Children(Top.dir) : ~ToCome(Len(frames), q)
      BY <1>1, <1>3 DEF ToCome
    <3> QED
      BY <1>3, <2>2, <3>1, <3>2
  <2> QED
    BY <1>6, <2>1, <2>2, <2>3 DEF Removable, Empty, Unlinked
<1>12. CASE Len(frames) = 1
  <2>1. Top.dir = path
    BY <1>4, <1>9, <1>12, WholePath DEF Inside
  <2>2. ~meddled /\ ~faulted' => remote'[path].type = "absent"
    BY <1>4, <1>11, <2>1 DEF Absent
  <2>3. RmdirInv'
    BY <1>1, <1>10, <1>12, <2>2 DEF RmdirInv
  <2> QED
    BY <1>7, <1>8, <2>3 DEF TreesInv
<1>13. CASE Len(frames) # 1
  <2>1. ASSUME ~meddled, ~faulted', NEW i \in 1..(Len(frames) - 1)
        PROVE  /\ remote'[frames'[i].dir].type = "dir"
               /\ \A q \in Children(frames'[i].dir) : remote'[q].type # "absent" => ToCome(i, q)'
    <3>1. frames'[i] = frames[i] /\ i \in DOMAIN frames
      BY <1>3, <1>5
    <3>2. frames[i].dir # Top.dir /\ frames[i].dir \in Paths
      BY <1>2, <1>3, <1>4, <1>9, <3>1 DEF WayDown
    <3>3. remote'[frames[i].dir].type = "dir"
      BY <1>4, <1>11, <2>1, <3>1, <3>2
    <3>4. ASSUME NEW q \in Children(frames[i].dir), remote'[q].type # "absent"
          PROVE  ToCome(i, q)'
      <4>1. q \in Paths /\ q # Top.dir /\ remote'[q] = remote[q]
        BY <1>4, <1>11, <2>1, <3>4 DEF Children, Absent
      <4>2. ToCome(i, q)
        BY <1>11, <2>1, <3>1, <3>4, <4>1
      <4>3. i < Len(frames) - 1 \/ [path |-> q, type |-> remote[q].type] \in frames[i].rest
        BY <1>3, <4>1, <4>2 DEF ToCome
      <4>4. CASE [path |-> q, type |-> remote[q].type] \in frames[i].rest
        BY <3>1, <4>1, <4>4 DEF ToCome
      <4>5. CASE i < Len(frames) - 1
        <5>1. frames'[i + 1] = frames[i + 1]
          BY <1>3, <1>5, <4>5
        <5> QED
          BY <1>5, <3>1, <4>1, <4>2, <4>5, <5>1 DEF ToCome
      <4> QED
        BY <4>3, <4>4, <4>5
    <3> QED
      BY <3>1, <3>3, <3>4
  <2>2. RmdirInv'
    BY <1>1, <1>5, <1>10, <1>13, <2>1 DEF RmdirInv
  <2> QED
    BY <1>7, <1>8, <2>2 DEF TreesInv
<1> QED
  BY <1>12, <1>13

LEMMA UnlinkTrees ==
  ASSUME IInv, TransferInv, TreesInv, NEW e \in Top.rest, RmdirUnlink(e)
  PROVE  TreesInv'
<1>1. /\ pc = "rmdir" /\ op' = op /\ path' = path /\ was' = was /\ meddled' = meddled /\ pc' = pc
      /\ frames' = Taken(e) /\ e.type # "dir"
  BY DEF RmdirUnlink
<1>2. op = "rmdir" /\ RmdirInv /\ WayDown
  BY <1>1 DEF TransferInv, OpFits, TreesInv
<1>3. /\ Len(frames) \in Nat \ {0} /\ DOMAIN frames = 1..Len(frames) /\ Top = frames[Len(frames)]
      /\ \A i \in DOMAIN frames : frames[i].dir \in Paths
      /\ e.path \in Paths /\ e.type = "file" /\ e = [path |-> e.path, type |-> e.type]
  BY <1>1, FramesInside
<1>4. remote \in [Paths -> Node] /\ path \in Paths /\ faulted \in BOOLEAN
  BY TreesTypes
<1>5. /\ DOMAIN frames' = 1..Len(frames) /\ Len(frames') = Len(frames)
      /\ \A i \in 1..Len(frames) :
           /\ frames'[i].dir = frames[i].dir
           /\ frames'[i].rest = IF i = Len(frames) THEN frames[i].rest \ {e} ELSE frames[i].rest
  BY <1>1, FramesStay
<1>6. PICK ok \in BOOLEAN :
        Asked(ok) /\ remote' = IF ok /\ remote[e.path].type = "file" THEN Unlinked(e.path) ELSE remote
  BY DEF RmdirUnlink
<1>7. WayDown'
  BY <1>1, <1>2, <1>3, <1>5 DEF WayDown
<1>8. MkdirInv'
  BY <1>1, <1>2 DEF MkdirInv
<1>9. Inside(path, e.path)
  BY <1>2, <1>3, <1>4, InsideBelow DEF WayDown
<1>10. ~meddled => \A q \in Paths : ~Inside(path, q) => remote'[q] = was[q]
  <2>1. \A q \in Paths : ~Inside(path, q) => remote'[q] = remote[q]
    BY <1>4, <1>6, <1>9 DEF Unlinked
  <2> QED
    BY <1>2, <2>1 DEF RmdirInv
<1>11. ASSUME ~meddled, ~faulted', NEW i \in DOMAIN frames
       PROVE  /\ remote'[frames'[i].dir].type = "dir"
              /\ \A q \in Children(frames'[i].dir) : remote'[q].type # "absent" => ToCome(i, q)'
  <2>1. ok /\ ~faulted
    BY <1>1, <1>6, <1>11, NoFailure
  <2>2. /\ remote[frames[i].dir].type = "dir"
        /\ \A q \in Children(frames[i].dir) : remote[q].type # "absent" => ToCome(i, q)
    BY <1>1, <1>2, <1>11, <2>1 DEF RmdirInv
  <2>3. \A q \in Paths : /\ remote'[q] = remote[q] \/ (q = e.path /\ remote[q].type = "file" /\ remote'[q] = Absent)
                         /\ q = e.path /\ remote[q].type = "file" => remote'[q].type = "absent"
    BY <1>3, <1>4, <1>6, <2>1 DEF Unlinked, Absent
  <2>4. frames'[i].dir = frames[i].dir /\ frames[i].dir \in Paths
    BY <1>3, <1>5
  <2>5. remote'[frames'[i].dir].type = "dir"
    BY <2>2, <2>3, <2>4
  <2>6. ASSUME NEW q \in Children(frames[i].dir), remote'[q].type # "absent" PROVE ToCome(i, q)'
    <3>1. q \in Paths /\ remote'[q] = remote[q] /\ ~(q = e.path /\ remote[q].type = "file")
      BY <2>3, <2>6 DEF Children, Absent
    <3>2. ToCome(i, q)
      BY <2>2, <2>6, <3>1
    <3>3. CASE [path |-> q, type |-> remote[q].type] \in frames[i].rest
      <4>1. [path |-> q, type |-> remote[q].type] # e
        BY <1>3, <3>1
      <4>2. [path |-> q, type |-> remote[q].type] \in frames'[i].rest
        BY <1>3, <1>5, <3>3, <4>1
      <4> QED
        BY <3>1, <4>2 DEF ToCome
    <3>4. CASE i < Len(frames) /\ q = frames[i + 1].dir
      <4>1. frames'[i + 1].dir = frames[i + 1].dir
        <5>1. i + 1 \in 1..Len(frames)
          BY <1>3, <3>4
        <5> QED
          BY <1>5, <5>1
      <4> QED
        BY <1>5, <3>4, <4>1 DEF ToCome
    <3> QED
      BY <3>2, <3>3, <3>4 DEF ToCome
  <2> QED
    BY <2>4, <2>5, <2>6
<1>12. RmdirInv'
  BY <1>1, <1>3, <1>5, <1>10, <1>11 DEF RmdirInv
<1> QED
  BY <1>7, <1>8, <1>12 DEF TreesInv

LEMMA EnterTrees ==
  ASSUME IInv, TransferInv, TreesInv, NEW e \in Top.rest, RmdirEnter(e)
  PROVE  TreesInv'
<1> DEFINE n  == Len(frames)
           fs == Aged(Taken(e))
<1>1. /\ pc = "rmdir" /\ op' = op /\ path' = path /\ was' = was /\ meddled' = meddled /\ pc' = pc
      /\ remote' = remote /\ e.type = "dir"
  BY DEF RmdirEnter
<1>2. op = "rmdir" /\ RmdirInv /\ WayDown
  BY <1>1 DEF TransferInv, OpFits, TreesInv
<1>3. /\ n \in Nat \ {0} /\ DOMAIN frames = 1..n /\ Top = frames[n]
      /\ \A i \in DOMAIN frames : frames[i].dir \in Paths
      /\ e.path \in Paths /\ e = [path |-> e.path, type |-> e.type]
  BY <1>1, FramesInside
<1>4. remote \in [Paths -> Node] /\ path \in Paths /\ faulted \in BOOLEAN /\ Len(path) \in Nat
  BY TreesTypes, PathType
<1>5. /\ fs \in Seq(Frame) /\ Len(fs) = n /\ DOMAIN fs = 1..n
      /\ \A i \in 1..n : /\ fs[i].dir = frames[i].dir
                         /\ fs[i].rest = IF i = n THEN frames[i].rest \ {e} ELSE frames[i].rest
  <2>1. fs \in Seq(Frame) /\ Len(fs) = n
    BY <1>1, FramesStay
  <2>2. DOMAIN fs = 1..n
    <3> HIDE DEF fs
    <3> QED
      BY <2>1, LenProperties
  <2>3. \A i \in 1..n : fs[i].dir = Taken(e)[i].dir /\ fs[i].rest = Taken(e)[i].rest
    BY <1>1, FramesStay
  <2>4. \A i \in 1..n :
          /\ Taken(e)[i].dir = frames[i].dir
          /\ Taken(e)[i].rest = IF i = n THEN frames[i].rest \ {e} ELSE frames[i].rest
    BY <1>1, FramesStay
  <2> HIDE DEF fs, n
  <2> QED
    BY <2>1, <2>2, <2>3, <2>4
<1>6. PICK l \in Links, ok \in BOOLEAN :
        /\ Reached(faulted, l, ok)
        /\ frames' = IF ok /\ remote[e.path].type = "dir" THEN Append(fs, Open(e.path)) ELSE fs
  BY DEF RmdirEnter
<1> HIDE DEF n, fs
<1>7. /\ Up(e.path) = frames[n].dir /\ Inside(path, e.path) /\ Len(e.path) = Len(path) + n
  <2>1. Up(e.path) = frames[n].dir /\ Inside(path, frames[n].dir) /\ Len(frames[n].dir) = Len(path) + n - 1
    BY <1>2, <1>3 DEF WayDown
  <2>2. Inside(path, e.path) /\ Len(e.path) = Len(frames[n].dir) + 1
    BY <1>3, <1>4, <2>1, InsideBelow
  <2> QED
    BY <1>3, <1>4, <2>1, <2>2
<1>8. MkdirInv'
  BY <1>1, <1>2 DEF MkdirInv
<1>9. /\ Open(e.path) \in Frame /\ Open(e.path).dir = e.path /\ \A d \in Open(e.path).rest : Up(d.path) = e.path
      /\ \A q \in Children(e.path) : remote[q].type # "absent" =>
           [path |-> q, type |-> remote[q].type] \in Open(e.path).rest
  <2>1. \A q \in Children(e.path) : remote[q].type # "absent" =>
           [path |-> q, type |-> remote[q].type] \in Open(e.path).rest
    BY DEF Open, Listing
  <2> QED
    BY <1>3, <1>4, <2>1, ListingType
<1>10. ~meddled /\ ~faulted' =>
         /\ ok /\ \A i \in 1..n : /\ remote[frames[i].dir].type = "dir"
                                  /\ \A q \in Children(frames[i].dir) : remote[q].type # "absent" => ToCome(i, q)
  <2>1. ~faulted' => ok /\ ~faulted
    BY <1>1, <1>6, NoFailure
  <2> QED
    BY <1>1, <1>2, <1>3, <2>1 DEF RmdirInv
<1>11. CASE frames' = fs /\ ~(ok /\ remote[e.path].type = "dir")
  <2>1. WayDown'
    BY <1>1, <1>2, <1>3, <1>5, <1>11 DEF WayDown
  <2>2. ASSUME ~meddled, ~faulted', NEW i \in 1..n, NEW q \in Children(frames[i].dir), remote[q].type # "absent"
        PROVE  ToCome(i, q)'
    <3>1. ToCome(i, q) /\ ok
      BY <1>10, <2>2
    <3>2. CASE [path |-> q, type |-> remote[q].type] \in frames[i].rest
      <4>1. [path |-> q, type |-> remote[q].type] # e
        BY <1>1, <1>3, <1>11, <3>1
      <4>2. [path |-> q, type |-> remote[q].type] \in fs[i].rest
        BY <1>5, <3>2, <4>1
      <4> QED
        BY <1>1, <1>11, <4>2 DEF ToCome
    <3>3. CASE i < n /\ q = frames[i + 1].dir
      <4>1. fs[i + 1].dir = frames[i + 1].dir
        <5>1. i + 1 \in 1..n
          BY <1>3, <3>3
        <5> QED
          BY <1>5, <5>1
      <4> QED
        BY <1>5, <1>11, <3>3, <4>1 DEF ToCome
    <3> QED
      BY <3>1, <3>2, <3>3 DEF ToCome, n
  <2>3. RmdirInv'
    BY <1>1, <1>2, <1>3, <1>5, <1>10, <1>11, <2>2 DEF RmdirInv
  <2> QED
    BY <1>8, <2>1, <2>3 DEF TreesInv
<1>12. CASE frames' = Append(fs, Open(e.path)) /\ remote[e.path].type = "dir"
  <2>1. /\ DOMAIN frames' = 1..(n + 1) /\ Len(frames') = n + 1 /\ frames'[n + 1] = Open(e.path)
        /\ \A i \in 1..n : frames'[i] = fs[i]
    <3>1. /\ Append(fs, Open(e.path)) \in Seq(Frame) /\ Len(Append(fs, Open(e.path))) = n + 1
          /\ Append(fs, Open(e.path))[n + 1] = Open(e.path)
          /\ \A i \in 1..n : Append(fs, Open(e.path))[i] = fs[i]
      BY <1>5, <1>9, AppendProperties
    <3>2. DOMAIN Append(fs, Open(e.path)) = 1..(n + 1)
      BY <3>1, LenProperties
    <3> QED
      BY <1>12, <3>1, <3>2
  <2>2. \A i \in 1..(n + 1) : i \in 1..n \/ i = n + 1
    BY <1>3
  <2>3. WayDown'
    <3>1. ASSUME NEW i \in 1..n
          PROVE  /\ Inside(path, frames'[i].dir) /\ Len(frames'[i].dir) = Len(path) + i - 1
                 /\ \A d \in frames'[i].rest : Up(d.path) = frames'[i].dir
      BY <1>2, <1>3, <1>5, <2>1 DEF WayDown
    <3>2. /\ Inside(path, frames'[n + 1].dir) /\ Len(frames'[n + 1].dir) = Len(path) + (n + 1) - 1
          /\ \A d \in frames'[n + 1].rest : Up(d.path) = frames'[n + 1].dir
      BY <1>3, <1>4, <1>7, <1>9, <2>1
    <3> QED
      BY <1>1, <2>1, <2>2, <3>1, <3>2 DEF WayDown
  <2>4. ASSUME ~meddled, ~faulted', NEW i \in 1..n, NEW q \in Children(frames[i].dir), remote[q].type # "absent"
        PROVE  ToCome(i, q)'
    <3>1. ToCome(i, q)
      BY <1>10, <2>4
    <3>2. CASE [path |-> q, type |-> remote[q].type] \in fs[i].rest
      BY <1>1, <2>1, <3>2 DEF ToCome
    <3>3. CASE i < n /\ q = frames[i + 1].dir
      <4>1. frames'[i + 1].dir = frames[i + 1].dir /\ i < n + 1
        <5>1. i + 1 \in 1..n /\ i < n + 1
          BY <1>3, <3>3
        <5>2. fs[i + 1].dir = frames[i + 1].dir
          BY <1>5, <5>1
        <5> QED
          BY <2>1, <5>1, <5>2
      <4> QED
        BY <2>1, <3>3, <4>1 DEF ToCome
    <3>4. CASE i = n /\ q = e.path
      BY <1>3, <1>9, <2>1, <3>4 DEF ToCome
    <3>5. \/ [path |-> q, type |-> remote[q].type] \in fs[i].rest
          \/ i < n /\ q = frames[i + 1].dir
          \/ i = n /\ q = e.path
      <4>1. [path |-> q, type |-> remote[q].type] = e => q = e.path
        BY <1>3
      <4> QED
        BY <1>5, <3>1, <4>1 DEF ToCome, n
    <3> QED
      BY <3>2, <3>3, <3>4, <3>5
  <2>5. ASSUME NEW i \in Nat, i = n + 1, NEW q \in Children(e.path), remote[q].type # "absent"
        PROVE  ToCome(i, q)'
    <3>1. [path |-> q, type |-> remote[q].type] \in Open(e.path).rest
      BY <1>9, <2>5
    <3>2. [path |-> q, type |-> remote'[q].type] \in frames'[i].rest
      BY <1>1, <2>1, <2>5, <3>1
    <3> QED
      BY <3>2 DEF ToCome
  <2>6. ASSUME ~meddled, ~faulted', NEW i \in 1..(n + 1)
        PROVE  /\ remote'[frames'[i].dir].type = "dir"
               /\ \A q \in Children(frames'[i].dir) : remote'[q].type # "absent" => ToCome(i, q)'
    <3>1. CASE i \in 1..n
      <4>1. frames'[i].dir = frames[i].dir
        BY <1>5, <2>1, <3>1
      <4> QED
        BY <1>1, <1>10, <2>4, <2>6, <3>1, <4>1
    <3>2. CASE i = n + 1
      <4>1. frames'[i].dir = e.path
        BY <1>9, <2>1, <3>2
      <4>2. remote'[e.path].type = "dir"
        BY <1>1, <1>12
      <4>3. \A q \in Children(e.path) : remote'[q].type # "absent" => ToCome(i, q)'
        BY <1>1, <1>3, <2>5, <3>2
      <4> QED
        BY <4>1, <4>2, <4>3
    <3> QED
      BY <2>2, <3>1, <3>2
  <2>7. RmdirInv'
    BY <1>1, <1>2, <2>1, <2>6 DEF RmdirInv
  <2> QED
    BY <1>8, <2>3, <2>7 DEF TreesInv
<1> QED
  BY <1>6, <1>11, <1>12

-----------------------------------------------------------------------------
LEMMA TreesKept == Spec => [](IInv /\ TreesInv)
<1>1. Init => TreesInv
  <2> SUFFICES ASSUME Init PROVE TreesInv
    OBVIOUS
  <2>1. op = "none" /\ DOMAIN frames = {}
    BY DEF Init
  <2> QED
    BY <2>1 DEF TreesInv, MkdirInv, RmdirInv, WayDown
<1>2. IInv /\ TransferInv /\ TreesInv /\ [Next]_vars => TreesInv'
  <2> SUFFICES ASSUME IInv, TransferInv, TreesInv, [Next]_vars PROVE TreesInv'
    OBVIOUS
  <2>1. CASE Begins1
    BY <2>1, BeginsTrees
  <2>2. CASE Running
    BY <2>2, MkdirTrees, TransfersTrees, OutsideTrees, LeaveTrees, EnterTrees, UnlinkTrees DEF Running
  <2>3. CASE LinkBreaks \/ LinkNoticed \/ (\E p \in Paths, n \in Foreign : Meddle(p, n)) \/ UNCHANGED vars
    BY <2>3, OutsideTrees
  <2> QED
    BY <2>1, <2>2, <2>3 DEF Next
<1> QED
  BY <1>1, <1>2, Transferred, PTL DEF Spec

(* mkdir that returns true has left a directory at every component, also if
   connections broke in between; rmdir that met no failure has left nothing at
   its path and goes on with no directory whose context is gone; and no rmdir,
   while it is defined what it does, touches what is outside: for every tree,
   however deep and wide, and every set of paths. *)
THEOREM DirsCorrect == Spec => []DirsAsTold
<1>1. IInv /\ TreesInv => DirsAsTold
  <2> SUFFICES ASSUME IInv, TreesInv PROVE DirsAsTold
    OBVIOUS
  <2>1. MkdirInv /\ RmdirInv
    BY DEF TreesInv
  <2>2. Returned("mkdir") /\ result = "true" /\ ~meddled =>
          \A n \in 1..Len(path) : remote[SubSeq(path, 1, n)].type = "dir"
    BY <2>1 DEF Returned, MkdirInv
  <2>3. Returned("rmdir") /\ result = "true" /\ Calm => \A q \in Paths : Inside(path, q) => remote[q] = Absent
    <3>1. Returned("rmdir") /\ result = "true" /\ Calm => remote[path].type = "absent"
      BY <2>1 DEF Returned, RmdirInv, Calm
    <3> QED
      BY <3>1, TreesTypes, NothingBelow
  <2>4. op = "rmdir" /\ ~meddled => \A q \in Paths : ~Inside(path, q) => remote[q] = was[q]
    BY <2>1 DEF RmdirInv
  <2>5. ContextKept
    BY DEF IInv, Control, ContextKept
  <2> QED
    BY <2>2, <2>3, <2>4, <2>5 DEF DirsAsTold
<1> QED
  BY <1>1, TreesKept, PTL

-----------------------------------------------------------------------------
(* A call fails only for a reason in the share, whatever earlier failures left. *)

(* As long as nothing fails and no other client is there, a call in progress has
   a connection, but for a download that has yet to ask for one; mkdir, also as
   a part of put, makes only directories where nothing was, and finds the ones
   it made or saw; a download changes nothing. *)
CalmInv ==
  pc # "idle" /\ Calm =>
    /\ link = "live" \/ (pc = "open" /\ op # "put")
    /\ op \in {"mkdir", "put"} =>
         /\ pc # "write" => \A q \in Paths :
              remote[q].type = was[q].type \/ (remote[q].type = "dir" /\ (op = "put" => q # path))
         /\ pc \in {"look", "make"} => \A n \in 1..made : remote[SubSeq(path, 1, n)].type = "dir"
         /\ pc = "make" => remote[Next1].type = "absent"
         /\ pc = "open" => HasParent(path)
    /\ op \in {"get", "bytes"} => remote = was

ReasonInv == CalmInv /\ FailsForAReason

(* Without a failure a library call was answered, over a connection. *)
LEMMA Answered ==
  ASSUME IInv, NEW ok \in BOOLEAN, ~faulted',
         \/ Asked(ok) /\ (link = "live" \/ faulted)
         \/ \E f \in BOOLEAN : (faulted => f) /\ \E l \in Links : Reached(f, l, ok)
         \/ pc = "idle" /\ \E l \in Links : Reached(FALSE, l, ok)
  PROVE  ok /\ (pc # "idle" => ~faulted) /\ link' = "live"
<1>1. faulted \in BOOLEAN /\ faults \in 0..MaxFaults
  BY TreesTypes
<1>2. CASE Asked(ok) /\ (link = "live" \/ faulted)
  BY <1>1, <1>2, AskedType
<1>3. CASE \E f \in BOOLEAN : (faulted => f) /\ \E l \in Links : Reached(f, l, ok)
  BY <1>1, <1>3, ReachedType
<1>4. CASE pc = "idle" /\ \E l \in Links : Reached(FALSE, l, ok)
  <2>1. FALSE \in BOOLEAN
    OBVIOUS
  <2> QED
    BY <1>1, <1>4, <2>1, ReachedType
<1> QED
  BY <1>2, <1>3, <1>4

LEMMA OneCallReason ==
  ASSUME IInv, NEW o \in Ops, NEW p \in Paths, NEW can \in BOOLEAN, NEW new, OneCall(o, p, can, new)
  PROVE  /\ op' = o /\ path' = p /\ pc' = "idle" /\ was' = remote
         /\ result' = "false" /\ ~faulted' => ~can
<1>1. PICK l \in Links, ok \in BOOLEAN :
        /\ Begin(o, p) /\ Reached(FALSE, l, ok) /\ pc' = "idle" /\ result' = Told(ok /\ can)
  BY DEF OneCall, Begins, Return
<1>2. op' = o /\ path' = p /\ pc' = "idle" /\ was' = remote /\ pc = "idle"
  BY <1>1 DEF Begin
<1>3. ~faulted' => ok
  BY <1>1, <1>2, Answered
<1> QED
  BY <1>1, <1>2, <1>3 DEF Told

LEMMA BeginsReason ==
  ASSUME IInv, Begins1
  PROVE  ReasonInv'
<1>1. PICK p \in Paths :
        \/ Remove(p) \/ Clean(p) \/ Query(p) \/ BeginMkdir(p) \/ BeginRmdir(p)
        \/ BeginPut(p) \/ BeginGet(p) \/ BeginGetBytes(p)
        \/ \E q \in Paths : Rename(p, q)
  BY DEF Begins1
<1>2. remote \in [Paths -> Node] /\ remote[p] \in Node
  BY TreesTypes
<1>3. CASE Remove(p) \/ Clean(p)
  <2>1. /\ op' \in {"remove", "clean"} /\ path' = p /\ pc' = "idle" /\ was' = remote
        /\ result' = "false" /\ ~faulted' => remote[p].type # "file"
    <3>1. "remove" \in Ops /\ "clean" \in Ops /\ (remote[p].type = "file") \in BOOLEAN
      BY DEF Ops
    <3> QED
      BY <1>3, <3>1, OneCallReason DEF Remove, Clean
  <2> QED
    BY <2>1 DEF ReasonInv, CalmInv, FailsForAReason, Reason, Calm
<1>4. CASE Query(p)
  <2>1. /\ op' = "query" /\ path' = p /\ pc' = "idle" /\ was' = remote
        /\ result' = "false" /\ ~faulted' => remote[p].type = "absent"
    <3>1. "query" \in Ops /\ (remote[p].type # "absent") \in BOOLEAN
      BY DEF Ops
    <3> QED
      BY <1>4, <3>1, OneCallReason DEF Query
  <2> QED
    BY <2>1 DEF ReasonInv, CalmInv, FailsForAReason, Reason, Calm
<1>5. CASE \E q \in Paths : Rename(p, q)
  <2>1. op' = "rename" /\ pc' = "idle"
    BY <1>5 DEF Rename, OneCall, Begins, Begin, Return
  <2> QED
    BY <2>1 DEF ReasonInv, CalmInv, FailsForAReason, Reason
<1>6. CASE BeginMkdir(p)
  <2>1. PICK l \in Links :
          /\ Begin("mkdir", p) /\ Reached(FALSE, l, l = "live")
          /\ IF Connected(l) THEN pc' = "look" ELSE pc' = "idle"
          /\ remote' = remote
    BY <1>6 DEF BeginMkdir, Begins, Return
  <2>2. op' = "mkdir" /\ path' = p /\ was' = remote /\ made' = 0 /\ pc = "idle"
    BY <2>1 DEF Begin
  <2>3. ~faulted' => l = "live" /\ link' = "live"
    <3>1. (l = "live") \in BOOLEAN
      OBVIOUS
    <3> QED
      BY <2>1, <2>2, <3>1, Answered
  <2>4. \A n \in 1..made' : FALSE
    BY <2>2
  <2> QED
    BY <2>1, <2>2, <2>3, <2>4 DEF ReasonInv, CalmInv, FailsForAReason, Calm, Connected
<1>7. CASE BeginPut(p)
  <2>1. PICK l \in Links :
          /\ Begin("put", p) /\ Reached(FALSE, l, l = "live")
          /\ IF Connected(l) /\ local.type = "file" THEN pc' = "mkdir" ELSE pc' = "idle"
          /\ remote' = remote /\ local' = local
    BY <1>7 DEF BeginPut, Begins, Return
  <2>2. op' = "put" /\ path' = p /\ was' = remote /\ pc = "idle"
    BY <2>1 DEF Begin
  <2>3. ~faulted' => l = "live" /\ link' = "live"
    <3>1. (l = "live") \in BOOLEAN
      OBVIOUS
    <3> QED
      BY <2>1, <2>2, <3>1, Answered
  <2> QED
    BY <2>1, <2>2, <2>3 DEF ReasonInv, CalmInv, FailsForAReason, Reason, Calm, Connected
<1>8. CASE BeginGet(p) \/ BeginGetBytes(p)
  <2>1. /\ op' \in {"get", "bytes"} /\ remote' = remote /\ was' = remote
        /\ pc' = "open" \/ (pc' = "idle" /\ Failing(FALSE, 1))
    BY <1>8 DEF BeginGet, BeginGetBytes, Begin, Return
  <2>2. Failing(FALSE, 1) => faulted'
    BY TransferTypes, FailingType
  <2> QED
    BY <2>1, <2>2 DEF ReasonInv, CalmInv, FailsForAReason, Calm
<1>9. CASE BeginRmdir(p)
  <2>1. PICK l \in Links, ok \in BOOLEAN :
          /\ Begin("rmdir", p) /\ Reached(FALSE, l, ok)
          /\ IF ok /\ remote[p].type = "dir" THEN pc' = "rmdir" ELSE pc' = "idle"
    BY <1>9 DEF BeginRmdir, Begins, Return
  <2>2. op' = "rmdir" /\ path' = p /\ was' = remote /\ pc = "idle"
    BY <2>1 DEF Begin
  <2>3. ~faulted' => ok /\ link' = "live"
    BY <2>1, <2>2, Answered
  <2> QED
    BY <2>1, <2>2, <2>3 DEF ReasonInv, CalmInv, FailsForAReason, Reason, Calm
<1> QED
  BY <1>1, <1>3, <1>4, <1>5, <1>6, <1>7, <1>8, <1>9

LEMMA MkdirReason ==
  ASSUME IInv, TransferInv, ReasonInv, MkdirEnter \/ MkdirLook \/ MkdirMake \/ MkdirDone
  PROVE  ReasonInv'
<1>1. /\ pc \in {"mkdir", "look", "make"} /\ op' = op /\ path' = path /\ meddled' = meddled /\ was' = was
      /\ local' = local /\ pc' \in {"look", "make", "open", "idle"}
  BY DEF MkdirEnter, MkdirLook, MkdirMake, MkdirDone, history, Return
<1>2. op \in {"mkdir", "put"} /\ path \in Paths /\ remote \in [Paths -> Node] /\ was \in [Paths -> Node]
  BY <1>1, TreesTypes DEF TransferInv, OpFits
<1>3. SUFFICES ASSUME ~faulted', ~meddled PROVE ReasonInv'
  BY <1>1 DEF ReasonInv, CalmInv, FailsForAReason, Calm
<1>4. faulted => faulted'
  <2>1. faulted \in BOOLEAN /\ faults \in 0..MaxFaults
    BY TreesTypes
  <2>2. CASE MkdirEnter
    BY <2>1, <2>2, ReachedType DEF MkdirEnter
  <2>3. CASE MkdirLook
    BY <2>1, <2>3, ReachedType DEF MkdirLook
  <2>4. CASE MkdirMake
    BY <2>1, <2>4, AskedType DEF MkdirMake
  <2>5. CASE MkdirDone
    BY <2>5 DEF MkdirDone, history
  <2> QED
    BY <2>2, <2>3, <2>4, <2>5
<1>5. /\ link = "live"
      /\ \A q \in Paths : remote[q].type = was[q].type \/ (remote[q].type = "dir" /\ (op = "put" => q # path))
      /\ pc \in {"look", "make"} => \A n \in 1..made : remote[SubSeq(path, 1, n)].type = "dir"
      /\ pc = "make" => remote[Next1].type = "absent"
  BY <1>1, <1>2, <1>3, <1>4 DEF ReasonInv, CalmInv, Calm
<1>6. pc \in {"look", "make"} /\ made < Len(Target) =>
        /\ made \in Nat /\ made + 1 \in 1..Len(path) /\ Next1 \in Paths /\ Next1 = SubSeq(path, 1, made + 1)
        /\ Len(Next1) = made + 1 /\ (op = "put" => made + 1 < Len(path) /\ Next1 # path)
        /\ \A n \in 1..(made + 1) : SubSeq(path, 1, n) \in Paths
  <2>1. Len(path) \in Nat /\ Len(Up(path)) = Len(path) - 1
    BY <1>2, PathType
  <2>2. pc \in {"look", "make"} => made \in 0..Len(Target)
    BY DEF IInv, TypeOK
  <2>3. op = "put" => Len(Target) = Len(path) - 1
    BY <2>1 DEF Target
  <2> QED
    BY <1>2, <2>1, <2>2, <2>3, ComponentType
<1>7. CASE MkdirEnter
  <2>1. PICK l \in Links : Reached(faulted, l, l = "live") /\ IF Connected(l) THEN pc' = "look" ELSE pc' = "idle"
    BY <1>7 DEF MkdirEnter, Return
  <2>2. l = "live" /\ link' = "live"
    <3>1. (l = "live") \in BOOLEAN /\ faulted \in BOOLEAN
      BY TreesTypes
    <3> QED
      BY <1>3, <2>1, <3>1, Answered
  <2>3. pc' = "look" /\ remote' = remote /\ made' = 0
    BY <1>7, <2>1, <2>2 DEF MkdirEnter, IInv, Control, Connected
  <2>4. \A n \in 1..made' : FALSE
    BY <2>3
  <2> QED
    BY <1>1, <1>2, <1>5, <2>2, <2>3, <2>4 DEF ReasonInv, CalmInv, FailsForAReason
<1>8. CASE MkdirLook
  <2>1. PICK l \in Links, ok \in BOOLEAN :
          /\ Reached(faulted, l, ok)
          /\ \/ Seen(l, ok) = "absent" /\ pc' = "make" /\ made' = made
             \/ Seen(l, ok) = "dir" /\ made' = made + 1 /\ pc' = pc
             \/ Seen(l, ok) \in {"file", "unknown"} /\ pc' = "idle" /\ made' = made
    BY <1>8 DEF MkdirLook, Return, Further
  <2>2. ok /\ link' = "live" /\ l = "live"
    <3>1. faulted \in BOOLEAN
      BY TreesTypes
    <3> QED
      BY <1>3, <2>1, <3>1, Answered DEF Reached
  <2>3. remote' = remote /\ (made' = made => Next1' = Next1) /\ pc = "look" /\ made < Len(Target)
    BY <1>1, <1>8 DEF MkdirLook, Next1, Target
  <2>4. Seen(l, ok) = remote[Next1].type
    BY <2>2 DEF Seen, Connected
  <2>5. CASE remote[Next1].type = "absent" /\ pc' = "make" /\ made' = made
    BY <1>1, <1>2, <1>5, <2>2, <2>3, <2>5 DEF ReasonInv, CalmInv, FailsForAReason
  <2>6. CASE remote[Next1].type = "dir" /\ made' = made + 1 /\ pc' = pc
    <3>1. \A n \in 1..(made + 1) : remote[SubSeq(path, 1, n)].type = "dir"
      <4>1. \A n \in 1..(made + 1) : n \in 1..made \/ n = made + 1
        BY <1>6, <2>3
      <4> QED
        BY <1>5, <1>6, <2>3, <2>6, <4>1
    <3> QED
      BY <1>1, <1>2, <1>5, <2>2, <2>3, <2>6, <3>1 DEF ReasonInv, CalmInv, FailsForAReason
  <2>7. CASE remote[Next1].type = "file" /\ pc' = "idle"
    <3>1. was[SubSeq(path, 1, made + 1)].type = "file" /\ made + 1 \in 1..Len(path) /\ (op = "put" => made + 1 < Len(path))
      BY <1>5, <1>6, <2>3, <2>7
    <3>2. CASE made + 1 < Len(path)
      <4>1. made + 1 \in 1..(Len(path) - 1)
        BY <1>2, <3>1, <3>2, PathType
      <4>2. Blocked(path)'
        BY <1>1, <3>1, <4>1 DEF Blocked
      <4> QED
        BY <1>1, <1>2, <2>7, <4>2 DEF ReasonInv, CalmInv, FailsForAReason, Reason
    <3>3. CASE ~(made + 1 < Len(path))
      <4>1. made + 1 = Len(path) /\ op = "mkdir"
        BY <1>2, <3>1, <3>3, PathType
      <4>2. was[path].type = "file"
        BY <1>2, <3>1, <4>1, WholePath
      <4> QED
        BY <1>1, <2>7, <4>1, <4>2 DEF ReasonInv, CalmInv, FailsForAReason, Reason
    <3> QED
      BY <3>2, <3>3
  <2>8. remote[Next1].type \in {"absent", "dir", "file"}
    BY <1>2, <1>6, <2>3, NodeType
  <2> QED
    BY <2>1, <2>4, <2>5, <2>6, <2>7, <2>8
<1>9. CASE MkdirMake
  <2>1. PICK ok \in BOOLEAN :
          /\ Asked(ok)
          /\ IF ok /\ remote[Next1].type = "absent" /\ HasParent(Next1)
             THEN remote' = [remote EXCEPT ![Next1] = Dir] /\ made' = made + 1 /\ pc' = "look"
             ELSE pc' = "idle" /\ remote' = remote
    BY <1>9 DEF MkdirMake, Return, Further
  <2>2. ok /\ link' = "live"
    BY <1>3, <1>5, <2>1, Answered
  <2>3. pc = "make" /\ made < Len(Target)
    BY <1>9 DEF MkdirMake, IInv, Control
  <2>4. HasParent(Next1)
    <3>1. CASE made = 0
      <4>1. Len(Next1) = 1
        BY <1>6, <2>3, <3>1
      <4> QED
        BY <4>1 DEF HasParent
    <3>2. CASE made # 0
      <4>1. made \in 1..made /\ made \in 1..(made + 1) /\ made + 1 - 1 = made
        BY <1>6, <2>3, <3>2
      <4>2. Up(Next1) = SubSeq(path, 1, made)
        BY <1>2, <1>6, <2>3, <4>1, PrefixOfPrefix DEF Up
      <4>3. remote[SubSeq(path, 1, made)].type = "dir"
        BY <1>5, <2>3, <4>1
      <4> QED
        BY <4>2, <4>3 DEF HasParent
    <3> QED
      BY <3>1, <3>2
  <2>5. remote' = [remote EXCEPT ![Next1] = Dir] /\ made' = made + 1 /\ pc' = "look"
    BY <1>5, <2>1, <2>2, <2>3, <2>4
  <2>6. ASSUME NEW q \in Paths
        PROVE  remote'[q].type = was[q].type \/ (remote'[q].type = "dir" /\ (op = "put" => q # path))
    <3>1. Dir.type = "dir"
      BY DEF Dir
    <3>2. CASE q = Next1
      BY <1>2, <1>6, <2>3, <2>5, <3>1, <3>2
    <3>3. CASE q # Next1
      BY <1>2, <1>5, <1>6, <2>3, <2>5, <3>3
    <3> QED
      BY <3>2, <3>3
  <2>7. ASSUME NEW n \in 1..(made + 1) PROVE remote'[SubSeq(path, 1, n)].type = "dir"
    <3>1. Dir.type = "dir" /\ (n \in 1..made \/ n = made + 1) /\ SubSeq(path, 1, n) \in Paths
      BY <1>6, <2>3 DEF Dir
    <3> QED
      BY <1>2, <1>5, <1>6, <2>3, <2>5, <3>1
  <2> QED
    BY <1>1, <1>2, <2>2, <2>5, <2>6, <2>7 DEF ReasonInv, CalmInv, FailsForAReason
<1>10. CASE MkdirDone
  <2>1. pc = "look" /\ made = Len(Target) /\ remote' = remote /\ link' = link
        /\ IF op = "mkdir" THEN pc' = "idle" /\ result' = "true" ELSE pc' = "open"
    BY <1>10 DEF MkdirDone, Return
  <2>2. op = "put" => HasParent(path)
    <3>1. ASSUME op = "put", Len(path) > 1 PROVE remote[Up(path)].type = "dir"
      <4>1. made = Len(path) - 1 /\ made \in 1..made /\ Up(path) = SubSeq(path, 1, made)
        BY <1>2, <2>1, <3>1, PathType DEF Target, Up
      <4> QED
        BY <1>5, <2>1, <4>1
    <3> QED
      BY <3>1 DEF HasParent
  <2>3. HasParent(path)' = HasParent(path)
    BY <1>1, <2>1 DEF HasParent
  <2> QED
    BY <1>1, <1>2, <1>5, <2>1, <2>2, <2>3 DEF ReasonInv, CalmInv, FailsForAReason
<1> QED
  BY <1>7, <1>8, <1>9, <1>10

LEMMA PutReason ==
  ASSUME IInv, TransferInv, ReasonInv, PutOpen \/ PutWrites \/ PutWriteFails \/ PutDone
  PROVE  ReasonInv'
<1>1. /\ op' = op /\ path' = path /\ meddled' = meddled /\ was' = was /\ op = "put"
      /\ pc \in {"open", "write"} /\ pc' \in {"write", "idle"}
  BY DEF PutOpen, PutWrites, PutWriteFails, PutDone, Return, history, TransferInv, OpFits
<1>2. path \in Paths /\ remote \in [Paths -> Node] /\ faulted \in BOOLEAN /\ faults \in 0..MaxFaults
  BY TreesTypes
<1>3. SUFFICES ASSUME ~faulted', ~meddled PROVE ReasonInv'
  BY <1>1 DEF ReasonInv, CalmInv, FailsForAReason, Calm
<1>4. CASE PutOpen
  <2>1. PICK ok \in BOOLEAN :
          /\ Asked(ok)
          /\ IF ok /\ HasParent(path) /\ remote[path].type # "dir" THEN pc' = "write" ELSE pc' = "idle"
    BY <1>4 DEF PutOpen, Return
  <2>2. ~faulted
    BY <1>2, <1>3, <2>1, AskedType
  <2>3. /\ link = "live" /\ HasParent(path)
        /\ remote[path].type = was[path].type
    BY <1>1, <1>2, <1>3, <1>4, <2>2 DEF PutOpen, ReasonInv, CalmInv, Calm
  <2>4. ok /\ link' = "live"
    BY <1>3, <2>1, <2>3, Answered
  <2>5. pc' = "idle" => Reason'
    BY <1>1, <2>1, <2>3, <2>4 DEF Reason
  <2> QED
    BY <1>1, <2>4, <2>5 DEF ReasonInv, CalmInv, FailsForAReason
<1>5. CASE PutWrites \/ PutWriteFails \/ PutDone
  <2>1. pc = "write"
    BY <1>5 DEF PutWrites, PutWriteFails, PutDone
  <2>2. ~faulted => link = "live" /\ fh /\ wsize = pos /\ pos \in Nat
    BY <1>1, <1>3, <2>1, TransferTypes DEF TransferInv, StoreInv
  <2>3. CASE PutWrites
    <3>1. link = "live" /\ link' = link /\ pc' = "write"
      BY <2>1, <2>3 DEF PutWrites
    <3> QED
      BY <1>1, <3>1 DEF ReasonInv, CalmInv, FailsForAReason
  <2>4. CASE PutWriteFails
    <3>1. Failing(faulted, IF link = "live" /\ fh THEN 1 ELSE 0)
      BY <2>4 DEF PutWriteFails
    <3>2. ~faulted
      BY <1>2, <1>3, <3>1, FailingType
    <3>3. (IF link = "live" /\ fh THEN 1 ELSE 0) = 1
      BY <2>2, <3>2
    <3> QED
      BY <1>2, <1>3, <3>1, <3>3, FailingType
  <2>5. CASE PutDone
    <3>1. result' = Told(wsize >= 0) /\ pc' = "idle" /\ faulted' = faulted
      BY <2>5 DEF PutDone, Return, history
    <3>2. result' = "true"
      BY <1>3, <2>2, <3>1 DEF Told
    <3> QED
      BY <3>1, <3>2 DEF ReasonInv, CalmInv, FailsForAReason
  <2> QED
    BY <1>5, <2>3, <2>4, <2>5
<1> QED
  BY <1>4, <1>5

LEMMA GetReason ==
  ASSUME IInv, TransferInv, TransferInv', ReasonInv, GetOpen \/ GetReads \/ GetEnds
  PROVE  ReasonInv'
<1>1. /\ op' = op /\ path' = path /\ meddled' = meddled /\ was' = was /\ remote' = remote
      /\ op \in {"get", "bytes"} /\ pc \in {"open", "read"} /\ pc' \in {"read", "idle"}
  BY DEF GetOpen, GetReads, GetEnds, Return, history, TransferInv, OpFits
<1>2. path \in Paths /\ remote \in [Paths -> Node] /\ faulted \in BOOLEAN /\ faults \in 0..MaxFaults
  BY TreesTypes
<1>3. SUFFICES ASSUME ~faulted', ~meddled PROVE ReasonInv'
  BY <1>1 DEF ReasonInv, CalmInv, FailsForAReason, Calm
<1>4. CASE GetOpen
  <2>1. PICK l \in Links, ok \in BOOLEAN :
          Reached(faulted, l, ok) /\ IF ok /\ remote[path].type = "file" THEN pc' = "read" ELSE pc' = "idle"
    BY <1>4 DEF GetOpen, Return
  <2>2. ok /\ link' = "live" /\ ~faulted
    BY <1>1, <1>2, <1>3, <2>1, Answered
  <2>3. remote = was
    BY <1>1, <1>3, <2>2 DEF ReasonInv, CalmInv, Calm
  <2>4. remote[path].type # "file" => remote[path].data = << >>
    BY <1>2, NodeType
  <2>5. pc' = "idle" => Reason'
    BY <1>1, <2>1, <2>2, <2>3, <2>4 DEF Reason
  <2> QED
    BY <1>1, <2>2, <2>3, <2>5 DEF ReasonInv, CalmInv, FailsForAReason
<1>5. CASE GetReads
  <2>1. link = "live" /\ link' = link /\ pc = "read" /\ pc' = "read"
    BY <1>5 DEF GetReads
  <2>2. ~faulted
    <3>1. TRUE \in BOOLEAN
      OBVIOUS
    <3> QED
      BY <1>2, <1>3, <1>5, <3>1, FailingType DEF GetReads
  <2>3. remote = was
    BY <1>1, <1>3, <2>1, <2>2 DEF ReasonInv, CalmInv, Calm
  <2> QED
    BY <1>1, <2>1, <2>3 DEF ReasonInv, CalmInv, FailsForAReason
<1>6. CASE GetEnds
  <2>1. pc' = "idle" /\ Failing(faulted, IF link = "live" /\ fh /\ pos < Len(remote[path].data) THEN 1 ELSE 0)
    BY <1>6 DEF GetEnds, Return
  <2>2. ~faulted
    BY <1>2, <1>3, <2>1, FailingType
  <2>3. remote = was
    BY <1>1, <1>3, <2>2 DEF ReasonInv, CalmInv, Calm
  <2>4. disk' = "ok"
    <3>1. disk' = disk /\ disk \in {"ok", "closed", "full"}
      BY <1>6 DEF GetEnds, locally, IInv, TypeOK
    <3> QED
      BY <1>1, <1>3, <2>2, <3>1 DEF TransferInv, FetchInv, BadDisk
  <2>5. (result' = "true" <=> pos' > 0) /\ pos' = Len(Remote')
    BY <1>1, <1>3, <2>1, <2>4 DEF TransferInv, FetchInv, GoodDisk
  <2>6. Remote' = was[path].data /\ was[path].data \in Seq(Unit)
    BY <1>1, <2>3, TransferTypes DEF Remote
  <2>7. result' = "false" => was[path].data = << >>
    BY <2>5, <2>6, EmptySeq, LenProperties
  <2> QED
    BY <1>1, <2>1, <2>7 DEF ReasonInv, CalmInv, FailsForAReason, Reason
<1> QED
  BY <1>4, <1>5, <1>6

LEMMA OtherReason ==
  ASSUME IInv, TransferInv, ReasonInv,
         \/ RmdirMisuse \/ RmdirLeave
         \/ pc = "rmdir" /\ \E e \in Top.rest : RmdirEnter(e) \/ RmdirUnlink(e)
         \/ LinkBreaks \/ LinkNoticed
         \/ \E p \in Paths, n \in Foreign : Meddle(p, n)
         \/ UNCHANGED vars
  PROVE  ReasonInv'
<1>1. faulted \in BOOLEAN /\ faults \in 0..MaxFaults /\ CalmInv /\ FailsForAReason
  BY TreesTypes DEF ReasonInv
<1>2. CASE RmdirLeave \/ (pc = "rmdir" /\ \E e \in Top.rest : RmdirEnter(e) \/ RmdirUnlink(e))
  <2>1. pc = "rmdir" /\ op = "rmdir" /\ op' = op /\ (pc' = pc \/ (pc' = "idle" /\ result' = "true"))
    BY <1>2 DEF RmdirLeave, RmdirEnter, RmdirUnlink, Return, TransferInv, OpFits
  <2>2. PICK ok \in BOOLEAN : Asked(ok) \/ \E l \in Links : Reached(faulted, l, ok)
    BY <1>2 DEF RmdirLeave, RmdirEnter, RmdirUnlink
  <2>3. ~faulted' => link' = "live"
    <3>1. link = "live" \/ faulted
      BY <2>1 DEF IInv, Control
    <3> QED
      BY <1>1, <2>2, <3>1, Answered
  <2> QED
    BY <2>1, <2>3 DEF ReasonInv, CalmInv, FailsForAReason, Calm
<1>3. CASE RmdirMisuse
  <2>1. pc = "rmdir" /\ op = "rmdir" /\ op' = op /\ pc' = "misuse" /\ link' = link /\ Calm' = Calm
    BY <1>3 DEF RmdirMisuse, TransferInv, OpFits, history, Calm
  <2> QED
    BY <1>1, <2>1 DEF ReasonInv, CalmInv, FailsForAReason
<1>4. CASE LinkBreaks
  <2>1. /\ pc' = pc /\ op' = op /\ path' = path /\ result' = result /\ was' = was /\ local' = local
        /\ meddled' = meddled /\ faulted' = (faulted \/ pc # "idle")
    BY <1>4 DEF LinkBreaks
  <2>2. (faulted => faulted') /\ (pc # "idle" => faulted')
    BY <1>1, <2>1
  <2>3. Reason' = Reason
    BY <2>1 DEF Reason, Blocked
  <2> QED
    BY <1>1, <2>1, <2>2, <2>3 DEF ReasonInv, CalmInv, FailsForAReason, Calm
<1>5. CASE \E p \in Paths, n \in Foreign : Meddle(p, n)
  <2>1. meddled' = TRUE
    BY <1>5 DEF Meddle
  <2> QED
    BY <2>1 DEF ReasonInv, CalmInv, FailsForAReason, Calm
<1>6. CASE LinkNoticed \/ UNCHANGED vars
  <2>1. Reason' = Reason
    BY <1>6 DEF LinkNoticed, vars, history, Reason, Blocked
  <2>2. Next1' = Next1 /\ HasParent(path)' = HasParent(path)
    BY <1>6 DEF LinkNoticed, vars, Next1, Target, HasParent
  <2>3. /\ pc' = pc /\ op' = op /\ path' = path /\ (link' = link \/ link # "live") /\ made' = made /\ remote' = remote /\ was' = was
        /\ result' = result /\ faulted' = faulted /\ meddled' = meddled
    BY <1>6 DEF LinkNoticed, vars, history
  <2>4. CalmInv'
    BY <1>1, <2>2, <2>3 DEF CalmInv, Calm
  <2>5. FailsForAReason'
    BY <1>1, <2>1, <2>3 DEF FailsForAReason, Calm
  <2> QED
    BY <2>4, <2>5 DEF ReasonInv
<1> QED
  BY <1>2, <1>3, <1>4, <1>5, <1>6

(* A call that meets no failure of its own and no other client fails only for a
   reason in the share or the local file, whatever state an earlier failure left
   the connection, the context and half made directories in: for every share
   and any number of calls. *)
THEOREM ReasonCorrect == Spec => []FailsForAReason
<1>1. Init => ReasonInv
  BY DEF Init, ReasonInv, CalmInv, FailsForAReason
<1>2. IInv /\ TransferInv /\ TransferInv' /\ ReasonInv /\ [Next]_vars => ReasonInv'
  BY BeginsReason, MkdirReason, PutReason, GetReason, OtherReason DEF Next, Running
<1>3. Spec => []ReasonInv
  BY <1>1, <1>2, Transferred, PTL DEF Spec
<1>4. ReasonInv => FailsForAReason
  BY DEF ReasonInv
<1> QED
  BY <1>3, <1>4, PTL
=============================================================================
