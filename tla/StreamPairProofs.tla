-------------------------- MODULE StreamPairProofs --------------------------
(***************************************************************************)
(* What holds of the stream clients and servers of comex_socket.cpp for    *)
(* any number of connections, starts, stops and calls of sendData, and any *)
(* number of threads in the pool.                                          *)
(***************************************************************************)
EXTENDS StreamPair, SequenceTheorems, FiniteSetTheorems, TLAPS

-----------------------------------------------------------------------------
(* The inductive invariant. *)

(* The client's handle: there is a connection while it connects or is open,
   nothing waits in it once it is open, and the timer of reconnect() runs only
   behind a closed one.  Without a running loop nothing is active. *)
HandleInv ==
  /\ conn = attempts
  /\ handle \in {"connecting", "open"} => conn \in Conn
  /\ handle = "open" => writes = << >>
  /\ timers > 0 => timers = 1 /\ handle = "closed"
  /\ cloop = "starting" => handle = "fresh"
  /\ cloop \in {"none", "ended"} => timers = 0 /\ ~Active
  /\ cowner \in {"none", "stopped"} <=> cloop = "none"

(* Every start pays for one notification of a connection: between two of them
   the end is told, or the client was stopped and started. *)
UpsInv ==
  /\ handle # "none" => cstarts > 0
  /\ ups <= cstarts
  /\ handle \in {"fresh", "idle", "connecting", "closed"} => ups < cstarts

(* The pool has work only while the server's loop runs. *)
LoopInv ==
  /\ sloop # "running" => PoolIdle
  /\ sowner \in {"none", "stopped"} <=> sloop = "none"

(* The data of the connections, of the handle that connects and of the
   asynchronous handles come one after the other, and nothing is on a
   connection that was not asked for or is not yet made. *)
Sending == {i \in DOMAIN casyncs : casyncs[i].op = "send"}

Below(s, n) == \A x \in Range(s) : x < n

OrderInv ==
  /\ \A c \in Conn : /\ Increasing(Carried(c)) /\ Before(Carried(c), writes)
                     /\ Below(Carried(c), sends + 1)
                     /\ \A i \in Sending : Below(Carried(c), casyncs[i].chunk)
                     /\ c > conn \/ (c = conn /\ handle = "connecting") => Carried(c) = << >>
  /\ \A c, d \in Conn : c < d => Before(Carried(c), Carried(d))
  /\ Increasing(writes) /\ Below(writes, sends + 1)
  /\ \A i \in Sending : /\ Below(writes, casyncs[i].chunk)
                        /\ casyncs[i].chunk <= sends
                        /\ \A j \in Sending : i < j => casyncs[i].chunk < casyncs[j].chunk

(* What waits for the pool is behind what a thread has and what onRecv is
   through with, and in order itself. *)
PoolInv ==
  /\ IsFiniteSet(running) /\ Cardinality(running) <= PoolSize
  /\ \A c \in Conn : Range(read[c]) = Range(handled[c]) \cup Held(c)
  /\ \A i \in DOMAIN swork :
       /\ \A x \in Range(handled[swork[i].conn]), y \in Range(swork[i].data) : x < y
       /\ \A w \in running : w.conn = swork[i].conn => Before(w.data, swork[i].data)
       /\ \A j \in DOMAIN swork :
            i < j /\ swork[j].conn = swork[i].conn => Before(swork[i].data, swork[j].data)
  /\ \A c \in Conn : Cardinality({w \in running : w.conn = c /\ Behind(w)}) < PoolSize

IInv == TypeOK /\ HandleInv /\ UpsInv /\ LoopInv /\ OrderInv /\ PoolInv

-----------------------------------------------------------------------------
(* Sequences. *)

LEMMA InSeq ==
  ASSUME NEW S, NEW s \in Seq(S)
  PROVE  /\ Len(s) \in Nat /\ DOMAIN s = 1..Len(s)
         /\ \A i \in DOMAIN s : s[i] \in S /\ s[i] \in Range(s)
         /\ \A x \in Range(s) : x \in S /\ \E i \in DOMAIN s : x = s[i]
<1>1. Len(s) \in Nat /\ DOMAIN s = 1..Len(s)
  BY LenProperties
<1>2. \A i \in DOMAIN s : s[i] \in S
  BY <1>1, ElementOfSeq
<1> QED
  BY <1>1, <1>2 DEF Range

LEMMA EmptyRange ==
  ASSUME NEW S
  PROVE  << >> \in Seq(S) /\ Range(<< >>) = {} /\ DOMAIN << >> = {}
<1>1. << >> \in Seq(S) /\ Len(<< >>) = 0
  BY EmptySeq
<1>2. DOMAIN << >> = {}
  BY <1>1, InSeq
<1> QED
  BY <1>1, <1>2 DEF Range

LEMMA OneRange ==
  ASSUME NEW S, NEW x \in S
  PROVE  <<x>> \in Seq(S) /\ Range(<<x>>) = {x} /\ Len(<<x>>) = 1 /\ <<x>>[1] = x
  BY DEF Range

LEMMA AppendRange ==
  ASSUME NEW S, NEW s \in Seq(S), NEW x \in S
  PROVE  /\ Append(s, x) \in Seq(S) /\ Append(s, x) = s \o <<x>>
         /\ Range(Append(s, x)) = Range(s) \cup {x}
         /\ DOMAIN Append(s, x) = DOMAIN s \cup {Len(s) + 1}
         /\ \A i \in DOMAIN s : i < Len(s) + 1 /\ Append(s, x)[i] = s[i]
         /\ Append(s, x)[Len(s) + 1] = x
<1>1. Append(s, x) \in Seq(S) /\ Append(s, x) = s \o <<x>>
  BY AppendProperties, AppendIsConcat
<1>2. Range(Append(s, x)) = Range(s) \cup {x}
  <2>1. <<x>> \in Seq(S) /\ Range(<<x>>) = {x}
    BY OneRange
  <2>2. Range(s \o <<x>>) = Range(s) \cup Range(<<x>>)
    BY <2>1, RangeConcatenation
  <2> QED
    BY <1>1, <2>1, <2>2
<1>3. /\ Len(s) \in Nat /\ DOMAIN s = 1..Len(s)
      /\ DOMAIN Append(s, x) = 1..Len(Append(s, x)) /\ Len(Append(s, x)) = Len(s) + 1
  BY <1>1, InSeq, AppendProperties
<1>4. \A i \in 1..Len(s) : Append(s, x)[i] = s[i]
  BY AppendProperties
<1>5. Append(s, x)[Len(s) + 1] = x
  BY AppendProperties
<1> QED
  BY <1>1, <1>2, <1>3, <1>4, <1>5

LEMMA TailRange ==
  ASSUME NEW S, NEW s \in Seq(S), s # << >>
  PROVE  /\ Tail(s) \in Seq(S) /\ Head(s) = s[1] /\ 1 \in DOMAIN s
         /\ \A i \in DOMAIN Tail(s) : i + 1 \in DOMAIN s /\ 1 < i + 1 /\ Tail(s)[i] = s[i + 1]
         /\ Range(s) = Range(Tail(s)) \cup {Head(s)}
<1>1. Tail(s) \in Seq(S) /\ Len(Tail(s)) = Len(s) - 1 /\ Head(s) = s[1]
  BY HeadTailProperties
<1>2. \A i \in 1..Len(Tail(s)) : Tail(s)[i] = s[i + 1]
  BY HeadTailProperties
<1>3. /\ Len(s) \in Nat \ {0} /\ DOMAIN s = 1..Len(s)
      /\ Len(Tail(s)) \in Nat /\ DOMAIN Tail(s) = 1..Len(Tail(s))
  BY <1>1, InSeq, EmptySeq
<1>4. /\ 1 \in DOMAIN s
      /\ \A i \in DOMAIN Tail(s) : i + 1 \in DOMAIN s /\ 1 < i + 1 /\ Tail(s)[i] = s[i + 1]
  BY <1>1, <1>2, <1>3
<1>5. \A i \in DOMAIN s : i = 1 \/ (i - 1 \in DOMAIN Tail(s) /\ Tail(s)[i - 1] = s[i])
  BY <1>1, <1>2, <1>3
<1>6. Range(s) = Range(Tail(s)) \cup {Head(s)}
  <2>1. ASSUME NEW x \in Range(s) PROVE x \in Range(Tail(s)) \cup {Head(s)}
    <3>1. PICK i \in DOMAIN s : x = s[i]
      BY DEF Range
    <3>2. CASE i = 1
      BY <1>1, <3>1, <3>2
    <3>3. CASE i - 1 \in DOMAIN Tail(s) /\ Tail(s)[i - 1] = s[i]
      BY <3>1, <3>3 DEF Range
    <3> QED
      BY <1>5, <3>2, <3>3
  <2>2. Head(s) \in Range(s)
    BY <1>1, <1>4 DEF Range
  <2>3. ASSUME NEW x \in Range(Tail(s)) PROVE x \in Range(s)
    <3>1. PICK i \in DOMAIN Tail(s) : x = Tail(s)[i]
      BY DEF Range
    <3>2. i + 1 \in DOMAIN s /\ x = s[i + 1]
      BY <1>4, <3>1
    <3> QED
      BY <3>2 DEF Range
  <2> QED
    BY <2>1, <2>2, <2>3
<1> QED
  BY <1>1, <1>4, <1>6

LEMMA Halves ==
  ASSUME NEW S, NEW s \in Seq(S), NEW n \in 1..Len(s)
  PROVE  /\ SubSeq(s, 1, n) \in Seq(S) /\ SubSeq(s, n + 1, Len(s)) \in Seq(S)
         /\ SubSeq(s, 1, n) \o SubSeq(s, n + 1, Len(s)) = s
<1>1. Len(s) \in Nat /\ DOMAIN s = 1..Len(s) /\ \A i \in 1..Len(s) : s[i] \in S
  BY InSeq
<1>2. SubSeq(s, 1, n) \in Seq(S)
  BY <1>1, SubSeqProperties
<1>3. SubSeq(s, n + 1, Len(s)) \in Seq(S)
  <2>1. n + 1 \in Int /\ Len(s) \in Int /\ \A i \in (n + 1)..Len(s) : s[i] \in S
    BY <1>1
  <2> QED
    BY <2>1, SubSeqProperties
<1>4. SubSeq(s, 1, n) \o SubSeq(s, n + 1, Len(s)) = SubSeq(s, 1, Len(s))
  <2>1. 1 \in 1..Len(s) + 1 /\ n \in 1 - 1..Len(s) /\ Len(s) \in n..Len(s)
    BY <1>1
  <2> QED
    BY <2>1, ConcatAdjacentSubSeq
<1> QED
  BY <1>2, <1>3, <1>4, SubSeqFull

LEMMA IncreasingConcat ==
  ASSUME NEW s \in Seq(Chunk), NEW t \in Seq(Chunk)
  PROVE  /\ s \o t \in Seq(Chunk)
         /\ Range(s \o t) = Range(s) \cup Range(t)
         /\ Increasing(s \o t) <=> Increasing(s) /\ Increasing(t) /\ Before(s, t)
<1>1. /\ Len(s) \in Nat /\ DOMAIN s = 1..Len(s)
      /\ Len(t) \in Nat /\ DOMAIN t = 1..Len(t)
      /\ \A i \in DOMAIN s : s[i] \in Range(s)
      /\ \A i \in DOMAIN t : t[i] \in Range(t)
      /\ \A x \in Range(s) : \E i \in DOMAIN s : x = s[i]
      /\ \A x \in Range(t) : \E i \in DOMAIN t : x = t[i]
  BY InSeq
<1>2. s \o t \in Seq(Chunk) /\ Len(s \o t) = Len(s) + Len(t)
  BY ConcatProperties
<1>3. \A i \in 1..Len(s) + Len(t) : (s \o t)[i] = IF i <= Len(s) THEN s[i] ELSE t[i - Len(s)]
  BY ConcatProperties
<1>4. DOMAIN (s \o t) = 1..Len(s) + Len(t)
  BY <1>2, InSeq
<1>5. /\ \A i \in DOMAIN s : i \in DOMAIN (s \o t) /\ (s \o t)[i] = s[i]
      /\ \A i \in DOMAIN t : Len(s) + i \in DOMAIN (s \o t) /\ (s \o t)[Len(s) + i] = t[i]
      /\ \A i \in DOMAIN (s \o t) : \/ i \in DOMAIN s
                                     \/ (i - Len(s) \in DOMAIN t /\ i > Len(s))
  BY <1>1, <1>3, <1>4
<1>6. ASSUME Increasing(s \o t) PROVE Increasing(s) /\ Increasing(t) /\ Before(s, t)
  <2>1. Increasing(s)
    BY <1>5, <1>6 DEF Increasing
  <2>2. Increasing(t)
    <3>1. ASSUME NEW i \in DOMAIN t, NEW j \in DOMAIN t, i < j PROVE t[i] < t[j]
      <4>1. Len(s) + i < Len(s) + j
        BY <1>1, <3>1
      <4> QED
        BY <1>5, <1>6, <4>1 DEF Increasing
    <3> QED
      BY <3>1 DEF Increasing
  <2>3. ASSUME NEW x \in Range(s), NEW y \in Range(t) PROVE x < y
    <3>1. PICK i \in DOMAIN s : x = s[i]
      BY <1>1
    <3>2. PICK j \in DOMAIN t : y = t[j]
      BY <1>1
    <3>3. i < Len(s) + j
      BY <1>1
    <3> QED
      BY <1>5, <1>6, <3>1, <3>2, <3>3 DEF Increasing
  <2> QED
    BY <2>1, <2>2, <2>3 DEF Before
<1>7. ASSUME Increasing(s), Increasing(t), Before(s, t) PROVE Increasing(s \o t)
  <2>1. ASSUME NEW i \in DOMAIN (s \o t), NEW j \in DOMAIN (s \o t), i < j
        PROVE  (s \o t)[i] < (s \o t)[j]
    <3>0. i \in Nat /\ j \in Nat
      BY <1>1, <1>4
    <3>1. CASE j \in DOMAIN s
      <4>1. i \in DOMAIN s
        BY <1>1, <1>4, <2>1, <3>1
      <4> QED
        BY <1>5, <1>7, <2>1, <3>1, <4>1 DEF Increasing
    <3>2. CASE j - Len(s) \in DOMAIN t /\ j > Len(s)
      <4>1. (s \o t)[j] = t[j - Len(s)]
        BY <1>1, <1>3, <1>4, <3>0, <3>2
      <4>2. CASE i \in DOMAIN s
        BY <1>1, <1>5, <1>7, <3>2, <4>1, <4>2 DEF Before
      <4>3. CASE i - Len(s) \in DOMAIN t /\ i > Len(s)
        <5>1. (s \o t)[i] = t[i - Len(s)]
          BY <1>1, <1>3, <1>4, <3>0, <4>3
        <5>2. i - Len(s) < j - Len(s)
          BY <1>1, <2>1, <3>0
        <5> QED
          BY <1>7, <3>2, <4>1, <4>3, <5>1, <5>2 DEF Increasing
      <4> QED
        BY <1>5, <4>2, <4>3
    <3> QED
      BY <1>5, <3>1, <3>2
  <2> QED
    BY <2>1 DEF Increasing
<1> QED
  BY <1>2, <1>6, <1>7, RangeConcatenation

-----------------------------------------------------------------------------
(* The connections: what their operators keep. *)

NetType == net \in [Conn -> Connection]

LEMMA EndSteps ==
  ASSUME NetType, NEW c \in Conn
  PROVE  /\ \A s \in {"none", "connecting", "open", "closed"} :
              /\ ClientEnd(c, s) \in [Conn -> Connection]
              /\ \A d \in Conn : ClientEnd(c, s)[d].up = net[d].up
         /\ \A s \in {"none", "open", "closed"} :
              /\ ServerEnd(c, s) \in [Conn -> Connection]
              /\ \A d \in Conn : ServerEnd(c, s)[d].up = net[d].up
         /\ Refused(c) \in [Conn -> Connection]
         /\ \A d \in Conn : Refused(c)[d].up = net[d].up
BY DEF NetType, ClientEnd, ServerEnd, Refused, Connection

LEMMA DataSteps ==
  ASSUME NetType, NEW c \in Conn
  PROVE  /\ \A data \in Seq(Chunk) :
              /\ Upward(c, data) \in [Conn -> Connection]
              /\ \A d \in Conn \ {c} : Upward(c, data)[d].up = net[d].up
              /\ Upward(c, data)[c].up \in {net[c].up, net[c].up \o data}
         /\ \A data \in Seq(Reply) :
              /\ Downward(c, data) \in [Conn -> Connection]
              /\ \A d \in Conn : Downward(c, data)[d].up = net[d].up
<1>1. net[c] \in Connection
  BY DEF NetType
<1>2. ASSUME NEW data \in Seq(Chunk) PROVE net[c].up \o data \in Seq(Chunk)
  BY <1>1, ConcatProperties DEF Connection
<1>3. ASSUME NEW data \in Seq(Reply) PROVE net[c].down \o data \in Seq(Reply)
  BY <1>1, ConcatProperties DEF Connection
<1>4. ASSUME NEW data \in Seq(Chunk)
      PROVE  /\ Upward(c, data) \in [Conn -> Connection]
             /\ \A d \in Conn \ {c} : Upward(c, data)[d].up = net[d].up
             /\ Upward(c, data)[c].up \in {net[c].up, net[c].up \o data}
  BY <1>1, <1>2 DEF NetType, Upward, Connection
<1>5. ASSUME NEW data \in Seq(Reply)
      PROVE  /\ Downward(c, data) \in [Conn -> Connection]
             /\ \A d \in Conn : Downward(c, data)[d].up = net[d].up
  BY <1>1, <1>3 DEF NetType, Downward, Connection
<1> QED
  BY <1>4, <1>5

(* What is under way is never invented: a step that does not write keeps it,
   takes from its beginning or loses it. *)
LEMMA BacklogType ==
  ASSUME NetType
  PROVE  /\ WithoutBacklog \in [Conn -> Connection]
         /\ \A c \in Conn : WithoutBacklog[c].up \in {net[c].up, << >>}
<1>1. << >> \in Seq(Chunk)
  BY EmptyRange
<1> QED
  BY <1>1 DEF NetType, WithoutBacklog, Connection

LEMMA BreakType ==
  ASSUME NetType, NEW c \in Conn, NetBreaks(c)
  PROVE  /\ net' \in [Conn -> Connection]
         /\ \A d \in Conn : net'[d].up \in {net[d].up, << >>}
<1> DEFINE r == [client |-> net[c].client, server |-> net[c].server, broken |-> TRUE,
                 up |-> << >>, down |-> << >>]
<1>1. << >> \in Seq(Chunk) /\ << >> \in Seq(Reply)
  BY EmptyRange
<1>2. net[c] \in Connection
  BY DEF NetType
<1>3. r \in Connection /\ r.up = << >>
  BY <1>1, <1>2 DEF Connection
<1>4. net' = [net EXCEPT ![c] = r]
  BY DEF NetBreaks
<1> HIDE DEF r
<1> QED
  BY <1>3, <1>4 DEF NetType

-----------------------------------------------------------------------------
(* The types. *)

(* What a connect() leaves: a connection that is new, or none. *)
LEMMA Connects ==
  ASSUME NetType, ClientTypeOK, HandleInv, Request \/ TcpConnect
  PROVE  /\ net' \in [Conn -> Connection] /\ \A c \in Conn : net'[c].up = net[c].up
         /\ attempts' \in 0..MaxConnections /\ conn' = attempts' /\ gaveUp' \in BOOLEAN
         /\ \/ handle' = "connecting" /\ conn' \in Conn /\ conn' = conn + 1
            \/ handle' \in {handle, "idle"} /\ conn' = conn
<1>1. CASE Request
  <2>1. attempts' \in Conn /\ attempts' \in 0..MaxConnections /\ conn' = conn + 1 /\ conn' = attempts'
    BY <1>1, StreamNetAssumption DEF Request, ClientTypeOK, HandleInv, Conn
  <2>2. /\ net' = ClientEnd(attempts', "connecting") /\ handle' = "connecting" /\ gaveUp' \in BOOLEAN
    BY <1>1 DEF Request, ClientTypeOK
  <2>3. /\ ClientEnd(attempts', "connecting") \in [Conn -> Connection]
        /\ \A d \in Conn : ClientEnd(attempts', "connecting")[d].up = net[d].up
    BY <2>1, EndSteps
  <2> QED
    BY <2>1, <2>2, <2>3
<1>2. CASE TcpConnect /\ ~Request
  BY <1>2 DEF TcpConnect, ClientTypeOK, HandleInv, NetType
<1> QED
  BY <1>1, <1>2
LEMMA ConnectCases == Connect => Request \/ TcpConnect
BY DEF Connect, PipeConnect

LEMMA ClientTypes ==
  ASSUME NetTypeOK, ClientTypeOK, HandleInv, ClientNext
  PROVE  NetTypeOK' /\ ClientTypeOK'
<1>n. /\ MaxStarts \in Nat /\ MaxStops \in Nat /\ MaxConnections \in Nat /\ MaxSends \in Nat
      /\ << >> \in Seq(Chunk) /\ << >> \in Seq(Async)
  BY StreamNetAssumption, StreamClientAssumption, EmptyRange
<1>t. NetType
  BY DEF NetTypeOK, NetType
<1>1. CASE StartClient
  <2>0. /\ unusable' \subseteq 0..MaxStarts /\ cstarts' \in 0..MaxStarts /\ writes' \in Seq(Chunk)
        /\ cowner' = "started" /\ walked' = FALSE
        /\ UNCHANGED <<kind, listening, cstops, timers, casyncs, cclosing, ups, received, misuse, sends>>
    BY <1>n, <1>1 DEF StartClient, ClientTypeOK
  <2>1. CASE StartTcpClient
    BY <1>n, <2>0, <2>1 DEF StartTcpClient, NetTypeOK, ClientTypeOK, Handle
  <2>2. CASE StartPipeClient
    <3>1. Request /\ cloop' = "running"
      BY <2>2 DEF StartPipeClient
    <3>2. /\ net' \in [Conn -> Connection] /\ attempts' \in 0..MaxConnections
          /\ conn' = attempts' /\ gaveUp' \in BOOLEAN /\ handle' \in Handle
      BY <1>t, <3>1, Connects DEF Handle, ClientTypeOK
    <3> QED
      BY <1>n, <2>0, <3>1, <3>2 DEF NetTypeOK, ClientTypeOK
  <2> QED
    BY <1>1, <2>1, <2>2 DEF StartClient
<1>2. CASE FirstConnect
  <2>1. /\ net' \in [Conn -> Connection] /\ attempts' \in 0..MaxConnections
        /\ conn' = attempts' /\ gaveUp' \in BOOLEAN /\ handle' \in Handle
    BY <1>t, <1>2, Connects DEF Handle, ClientTypeOK, FirstConnect
  <2> QED
    BY <1>n, <1>2, <2>1 DEF FirstConnect, NetTypeOK, ClientTypeOK, ownerVars
<1>3. CASE TimerFires
  <2>1. /\ net' \in [Conn -> Connection] /\ attempts' \in 0..MaxConnections
        /\ conn' = attempts' /\ gaveUp' \in BOOLEAN /\ handle' \in Handle
    BY <1>t, <1>3, Connects, ConnectCases DEF Handle, ClientTypeOK, TimerFires
  <2> QED
    BY <1>n, <1>3, <2>1 DEF TimerFires, NetTypeOK, ClientTypeOK, ownerVars
<1>4. CASE Connected
  <2>1. conn \in Conn /\ writes \in Seq(Chunk)
    BY <1>4 DEF Connected, HandleInv, ClientTypeOK
  <2>2. net' \in [Conn -> Connection]
    BY <1>t, <1>4, <2>1 DEF Connected, Flushed, NetType, Connection
  <2> QED
    BY <1>n, <1>4, <2>2 DEF Connected, NetTypeOK, ClientTypeOK, ownerVars, Handle
<1>5. CASE ConnectRefused
  <2>1. conn \in Conn
    BY <1>5 DEF ConnectRefused, HandleInv
  <2>2. net' \in [Conn -> Connection]
    BY <1>t, <1>5, <2>1, EndSteps DEF ConnectRefused
  <2> QED
    BY <1>n, <1>5, <2>2 DEF ConnectRefused, NetTypeOK, ClientTypeOK, ownerVars, Handle
<1>6. CASE ReadData
  <2>1. conn \in Conn
    BY <1>6 DEF ReadData, HandleInv
  <2>2. PICK n \in 1..Len(net[conn].down) :
          /\ received' = received \o SubSeq(net[conn].down, 1, n)
          /\ net' = [net EXCEPT ![conn].down = SubSeq(@, n + 1, Len(@))]
    BY <1>6 DEF ReadData
  <2>3. net[conn] \in Connection /\ net[conn].down \in Seq(Reply)
    BY <1>t, <2>1 DEF NetType, Connection
  <2>4. /\ SubSeq(net[conn].down, 1, n) \in Seq(Reply)
        /\ SubSeq(net[conn].down, n + 1, Len(net[conn].down)) \in Seq(Reply)
    BY <2>3, Halves
  <2>5. net' \in [Conn -> Connection]
    BY <1>t, <2>1, <2>2, <2>3, <2>4 DEF NetType, Connection
  <2>6. received' \in Seq(Reply)
    BY <2>2, <2>4, ConcatProperties DEF ClientTypeOK
  <2> QED
    BY <1>n, <1>6, <2>5, <2>6 DEF ReadData, NetTypeOK, ClientTypeOK, ownerVars, streamVars
<1>7. CASE ReadEnd
  <2>1. conn \in Conn
    BY <1>7 DEF ReadEnd, HandleInv
  <2>2. net' \in [Conn -> Connection]
    BY <1>t, <1>7, <2>1, EndSteps DEF ReadEnd
  <2> QED
    BY <1>n, <1>7, <2>2 DEF ReadEnd, NetTypeOK, ClientTypeOK, ownerVars, Handle
<1>8. CASE SendData
  <2>1. sends' \in 0..MaxSends /\ sends' \in Chunk /\ cstarts \in 0..MaxStarts
    BY <1>n, <1>8 DEF SendData, ClientTypeOK, Chunk
  <2>2. [op |-> "send", chunk |-> sends', start |-> cstarts] \in Async
    BY <2>1 DEF Async
  <2>3. casyncs' \in Seq(Async)
    <3> DEFINE a == [op |-> "send", chunk |-> sends', start |-> cstarts]
    <3>1. casyncs' = Append(casyncs, a) \/ casyncs' = casyncs
      BY <1>8 DEF SendData
    <3>2. casyncs \in Seq(Async)
      BY DEF ClientTypeOK
    <3>3. a \in Async
      BY <2>2
    <3> HIDE DEF a
    <3> QED
      BY <3>1, <3>2, <3>3, AppendProperties
  <2> QED
    BY <1>n, <1>8, <2>1, <2>3 DEF SendData, NetTypeOK, ClientTypeOK, ownerVars, streamVars
<1>9. CASE SendRuns
  <2> DEFINE a == Head(casyncs)
  <2>1. a \in Async /\ Tail(casyncs) \in Seq(Async)
    BY <1>9, HeadTailProperties DEF SendRuns, ClientTypeOK
  <2>2. a.op = "send" /\ misuse' = (a.start \in unusable \/ (a.start = cstarts /\ handle = "fresh"))
    BY <1>9 DEF SendRuns
  <2>3. a.chunk \in Chunk
    BY <2>1, <2>2 DEF Async
  <2>4. \/ handle = "connecting" /\ writes' = Append(writes, a.chunk) /\ net' = net
        \/ handle = "open" /\ net' = Upward(conn, <<a.chunk>>) /\ writes' = writes
        \/ net' = net /\ writes' = writes
    BY <1>9 DEF SendRuns
  <2> HIDE DEF a
  <2>5. <<a.chunk>> \in Seq(Chunk)
    BY <2>3, OneRange
  <2>6. writes \in Seq(Chunk)
    BY DEF ClientTypeOK
  <2>7. writes' \in Seq(Chunk)
    BY <2>3, <2>4, <2>6, AppendProperties
  <2>8. handle = "open" => Upward(conn, <<a.chunk>>) \in [Conn -> Connection]
    BY <1>t, <2>5, DataSteps DEF HandleInv
  <2>9. net' \in [Conn -> Connection]
    BY <1>t, <2>4, <2>8 DEF NetType
  <2> QED
    BY <1>n, <1>9, <2>1, <2>2, <2>7, <2>9 DEF SendRuns, NetTypeOK, ClientTypeOK, ownerVars
<1>10. CASE StopClient
  <2>1. [op |-> "stop"] \in Async
    BY DEF Async
  <2>2. casyncs' \in Seq(Async)
    BY <1>10, <2>1, AppendProperties DEF StopClient, ClientTypeOK
  <2> QED
    BY <1>n, <1>10, <2>2 DEF StopClient, NetTypeOK, ClientTypeOK, streamVars
<1>11. CASE StopRuns
  <2>1. net' \in [Conn -> Connection]
    BY <1>t, <1>11, EndSteps DEF StopRuns, HandleInv, NetType
  <2> QED
    BY <1>n, <1>11, <2>1 DEF StopRuns, TimersAfter, NetTypeOK, ClientTypeOK, ownerVars, Handle
<1>12. CASE RunClosing
  <2>1. handle' \in Handle /\ ups' \in Nat /\ timers' \in Nat /\ unusable' \subseteq 0..MaxStarts
    BY <1>n, <1>12 DEF RunClosing, ClientTypeOK, Handle, UpsAfter, TimerAdded
  <2> QED
    BY <1>n, <1>12, <2>1 DEF RunClosing, NetTypeOK, ClientTypeOK, ownerVars
<1>13. CASE LoopEnds
  BY <1>n, <1>13 DEF LoopEnds, NetTypeOK, ClientTypeOK, ownerVars, streamVars
<1>14. CASE Joined
  BY <1>n, <1>14 DEF Joined, NetTypeOK, ClientTypeOK, streamVars
<1> QED
  BY <1>1, <1>2, <1>3, <1>4, <1>5, <1>6, <1>7, <1>8, <1>9, <1>10, <1>11, <1>12, <1>13, <1>14
  DEF ClientNext, ClientLoop, ConnectDone
LEMMA ServerTypes ==
  ASSUME NetTypeOK, ServerTypeOK, ServerNext
  PROVE  NetTypeOK' /\ ServerTypeOK'
<1>n. /\ MaxConnections \in Nat /\ MaxReplies \in Nat /\ MaxServerStarts \in Nat
      /\ << >> \in Seq(Chunk) /\ << >> \in Seq(ServerAsync) /\ << >> \in Seq(Work)
  BY StreamNetAssumption, StreamServerAssumption, EmptyRange
<1>t. NetType
  BY DEF NetTypeOK, NetType
<1>1. CASE StartServer
  BY <1>n, <1>1 DEF StartServer, NetTypeOK, ServerTypeOK, poolVars
<1>2. CASE StopServer
  <2>1. [op |-> "stop"] \in ServerAsync
    BY DEF ServerAsync
  <2>2. sasyncs' \in Seq(ServerAsync)
    BY <1>2, <2>1, AppendProperties DEF StopServer, ServerTypeOK
  <2> QED
    BY <1>n, <1>2, <2>2 DEF StopServer, NetTypeOK, ServerTypeOK, poolVars
<1>3. CASE ServerJoined
  BY <1>n, <1>3 DEF ServerJoined, NetTypeOK, ServerTypeOK, poolVars
<1>4. ASSUME NEW c \in Conn, ServerSendData(c) PROVE NetTypeOK' /\ ServerTypeOK'
  <2> DEFINE a == [op |-> "send", conn |-> c, reply |-> replies']
  <2>1. replies' \in 0..MaxReplies /\ replies' \in Reply
    BY <1>n, <1>4 DEF ServerSendData, ServerTypeOK, Reply
  <2>2. a \in ServerAsync
    BY <2>1 DEF ServerAsync
  <2>3. sasyncs' = Append(sasyncs, a) /\ sasyncs \in Seq(ServerAsync)
    BY <1>4 DEF ServerSendData, ServerTypeOK
  <2> HIDE DEF a
  <2>4. sasyncs' \in Seq(ServerAsync)
    BY <2>2, <2>3, AppendProperties
  <2> QED
    BY <1>n, <1>4, <2>1, <2>4 DEF ServerSendData, NetTypeOK, ServerTypeOK, poolVars
<1>5. ASSUME NEW c \in Conn, Accept(c) PROVE NetTypeOK' /\ ServerTypeOK'
  <2>1. net' \in [Conn -> Connection]
    BY <1>t, <1>5, EndSteps DEF Accept
  <2> QED
    BY <1>n, <1>5, <2>1 DEF Accept, NetTypeOK, ServerTypeOK, poolVars, ClientHandle
<1>6. ASSUME NEW c \in Conn, ServerReadData(c) PROVE NetTypeOK' /\ ServerTypeOK'
  <2>1. net[c] \in Connection /\ net[c].up \in Seq(Chunk) /\ read[c] \in Seq(Chunk)
    BY <1>t DEF NetType, Connection, ServerTypeOK
  <2>2. PICK n \in 1..Len(net[c].up) :
          /\ swork' = Append(swork, [conn |-> c, data |-> SubSeq(net[c].up, 1, n)])
          /\ read' = [read EXCEPT ![c] = @ \o SubSeq(net[c].up, 1, n)]
          /\ net' = [net EXCEPT ![c].up = SubSeq(@, n + 1, Len(@))]
    BY <1>6 DEF ServerReadData, Queued
  <2> DEFINE data == SubSeq(net[c].up, 1, n)
             rest == SubSeq(net[c].up, n + 1, Len(net[c].up))
             w == [conn |-> c, data |-> data]
  <2>3. data \in Seq(Chunk) /\ rest \in Seq(Chunk)
    BY <2>1, Halves
  <2>4. swork' = Append(swork, w) /\ read' = [read EXCEPT ![c] = @ \o data] /\ net' = [net EXCEPT ![c].up = rest]
    BY <2>2
  <2> HIDE DEF data, rest
  <2>5. w \in Work /\ swork \in Seq(Work)
    BY <2>3 DEF Work, ServerTypeOK
  <2> HIDE DEF w
  <2>6. swork' \in Seq(Work)
    BY <2>4, <2>5, AppendProperties
  <2>7. read[c] \o data \in Seq(Chunk)
    BY <2>1, <2>3, ConcatProperties
  <2>8. read' \in [Conn -> Seq(Chunk)]
    BY <2>4, <2>7 DEF ServerTypeOK
  <2>9. net' \in [Conn -> Connection]
    BY <1>t, <2>1, <2>3, <2>4 DEF NetType, Connection
  <2> QED
    BY <1>n, <1>6, <2>6, <2>8, <2>9 DEF ServerReadData, NetTypeOK, ServerTypeOK
<1>7. ASSUME NEW c \in Conn, ServerReadEnd(c) PROVE NetTypeOK' /\ ServerTypeOK'
  <2>1. net' \in [Conn -> Connection]
    BY <1>t, <1>7, EndSteps DEF ServerReadEnd
  <2> QED
    BY <1>n, <1>7, <2>1 DEF ServerReadEnd, NetTypeOK, ServerTypeOK, poolVars, ClientHandle
<1>8. CASE ServerSendRuns
  <2> DEFINE a == Head(sasyncs)
  <2>1. a \in ServerAsync /\ Tail(sasyncs) \in Seq(ServerAsync)
    BY <1>8, HeadTailProperties DEF ServerSendRuns, ServerTypeOK
  <2>2. /\ a.op = "send" /\ smisuse' \in BOOLEAN
        /\ net' = IF client[a.conn] = "open" THEN Downward(a.conn, <<a.reply>>) ELSE net
    BY <1>8 DEF ServerSendRuns
  <2>3. a.conn \in Conn /\ a.reply \in Reply
    BY <2>1, <2>2 DEF ServerAsync
  <2> HIDE DEF a
  <2>4. <<a.reply>> \in Seq(Reply)
    BY <2>3, OneRange
  <2>5. net' \in [Conn -> Connection]
    BY <1>t, <2>2, <2>3, <2>4, DataSteps DEF NetType
  <2> QED
    BY <1>n, <1>8, <2>1, <2>2, <2>5 DEF a, ServerSendRuns, AsyncClosed, NetTypeOK, ServerTypeOK, poolVars
<1>9. CASE ServerStopRuns
  <2>1. client' \in [Conn -> ClientHandle] /\ smisuse' \in BOOLEAN
    BY <1>9 DEF ServerStopRuns, EveryoneClosed, ServerTypeOK, ClientHandle
  <2>2. \A c \in Conn : [net[c] EXCEPT !.server = "closed"] \in Connection /\ WithoutBacklog[c] \in Connection
    BY <1>t, BacklogType DEF NetType, Connection
  <2>3. net' \in [Conn -> Connection]
    BY <1>9, <2>2 DEF ServerStopRuns
  <2> QED
    BY <1>n, <1>9, <2>1, <2>3 DEF ServerStopRuns, NetTypeOK, ServerTypeOK, poolVars
<1>10. CASE ServerClosing
  BY <1>n, <1>10 DEF ServerClosing, ToldDown, NetTypeOK, ServerTypeOK, poolVars, ClientHandle
<1>11. CASE ServerLoopEnds
  BY <1>n, <1>11 DEF ServerLoopEnds, NetTypeOK, ServerTypeOK, poolVars
<1>12. CASE WorkStarts
  <2>1. Head(swork) \in Work /\ Tail(swork) \in Seq(Work)
    BY <1>12, HeadTailProperties DEF WorkStarts, ServerTypeOK
  <2> QED
    BY <1>n, <1>12, <2>1 DEF WorkStarts, NetTypeOK, ServerTypeOK
<1>13. ASSUME NEW w \in running, WorkEnds(w) PROVE NetTypeOK' /\ ServerTypeOK'
  <2>1. w.conn \in Conn /\ w.data \in Seq(Chunk) /\ handled[w.conn] \in Seq(Chunk)
    BY DEF ServerTypeOK, Work
  <2>2. handled[w.conn] \o w.data \in Seq(Chunk)
    BY <2>1, ConcatProperties
  <2>3. handled' \in [Conn -> Seq(Chunk)] /\ running' \subseteq Work
    BY <1>13, <2>1, <2>2 DEF WorkEnds, ServerTypeOK
  <2> QED
    BY <1>n, <1>13, <2>3 DEF WorkEnds, NetTypeOK, ServerTypeOK
<1> QED
  BY <1>1, <1>2, <1>3, <1>4, <1>5, <1>6, <1>7, <1>8, <1>9, <1>10, <1>11, <1>12, <1>13
  DEF ServerNext, ServerLoop, Pool

LEMMA TypeKeeps ==
  ASSUME TypeOK, HandleInv, [Next]_vars
  PROVE  TypeOK'
<1>1. CASE ByClient(ClientNext)
  BY <1>1, ClientTypes DEF ByClient, TypeOK, ServerTypeOK, serverVars, poolVars
<1>2. CASE ByServer(ServerNext)
  BY <1>2, ServerTypes DEF ByServer, TypeOK, ClientTypeOK, clientVars, ownerVars, streamVars
<1>3. ASSUME NEW c \in Conn, NetBreaks(c), UNCHANGED <<clientVars, serverVars>> PROVE TypeOK'
  <2>1. net' \in [Conn -> Connection]
    BY <1>3, BreakType DEF TypeOK, NetTypeOK, NetType
  <2> QED
    BY <1>3, <2>1 DEF NetBreaks, TypeOK, NetTypeOK, ClientTypeOK, ServerTypeOK, clientVars, ownerVars,
                      streamVars, serverVars, poolVars
<1>4. CASE UNCHANGED vars
  BY <1>4 DEF vars, TypeOK, NetTypeOK, ClientTypeOK, ServerTypeOK, clientVars, ownerVars, streamVars,
              serverVars, poolVars
<1> QED
  BY <1>1, <1>2, <1>3, <1>4 DEF Next
-----------------------------------------------------------------------------
(* The loops, the timer and the notifications. *)

LEMMA HandleKeeps ==
  ASSUME TypeOK, HandleInv, UpsInv, [Next]_vars
  PROVE  HandleInv' /\ UpsInv'
<1>n. /\ attempts \in Nat /\ conn \in Nat /\ cstarts \in Nat /\ ups \in Nat /\ timers \in Nat
      /\ MaxConnections \in Nat
      /\ handle \in Handle /\ cloop \in {"none", "starting", "running", "ended"}
      /\ cowner \in {"none", "started", "joining", "stopped"}
  BY StreamNetAssumption DEF TypeOK, ClientTypeOK
<1>t. NetType /\ ClientTypeOK
  BY DEF TypeOK, NetTypeOK, NetType
<1> DEFINE Kept == HandleInv' /\ UpsInv'
<1>1. ASSUME StartClient PROVE Kept
  <2>1. handle' \in {"fresh", "connecting"} /\ (handle' = "connecting" => conn' \in Conn) /\ conn' = attempts'
    BY <1>t, <1>1, Connects DEF StartClient, StartTcpClient, StartPipeClient, Request, HandleInv
  <2>2. timers' = 0 /\ cloop' \in {"starting", "running"} /\ (cloop' = "starting" => handle' = "fresh")
    BY <1>n, <1>1 DEF StartClient, StartTcpClient, StartPipeClient, Request, HandleInv
  <2>3. ups' = ups /\ cstarts' = cstarts + 1 /\ cowner' = "started"
    BY <1>1 DEF StartClient
  <2> QED
    BY <1>n, <2>1, <2>2, <2>3 DEF HandleInv, UpsInv, Active
<1>2. ASSUME FirstConnect \/ TimerFires PROVE Kept
  <2>1. /\ conn' = attempts'
        /\ \/ handle' = "connecting" /\ conn' \in Conn
           \/ handle' \in {handle, "idle"}
    BY <1>t, <1>2, Connects, ConnectCases DEF FirstConnect, TimerFires
  <2>2. /\ handle \in {"fresh", "closed"} /\ timers' = 0 /\ cloop' = "running"
        /\ UNCHANGED <<ups, cstarts, cowner>> /\ cloop # "none"
    BY <1>n, <1>2 DEF FirstConnect, TimerFires, Running, HandleInv, ownerVars
  <2> QED
    BY <1>n, <2>1, <2>2 DEF HandleInv, UpsInv, Active
<1>3. ASSUME Connected PROVE Kept
  BY <1>n, <1>3 DEF Connected, Running, HandleInv, UpsInv, Active, ownerVars
<1>4. ASSUME ConnectRefused PROVE Kept
  BY <1>n, <1>4 DEF ConnectRefused, Running, HandleInv, UpsInv, Active, ownerVars
<1>5. ASSUME ReadEnd PROVE Kept
  BY <1>n, <1>5 DEF ReadEnd, Running, HandleInv, UpsInv, Active, ownerVars
<1>6. ASSUME SendRuns PROVE Kept
  <2>1. handle = "open" => writes' = writes
    BY <1>6 DEF SendRuns
  <2> QED
    BY <1>n, <1>6, <2>1 DEF SendRuns, Running, HandleInv, UpsInv, Active, ownerVars
<1>7. ASSUME StopRuns PROVE Kept
  BY <1>n, <1>7 DEF StopRuns, TimersAfter, Running, HandleInv, UpsInv, Active, ownerVars
<1>8. ASSUME RunClosing PROVE Kept
  BY <1>n, <1>8 DEF RunClosing, UpsAfter, TimerAdded, Running, HandleInv, UpsInv, Active, ownerVars
<1>9. ASSUME StopClient PROVE Kept
  BY <1>n, <1>9 DEF StopClient, HandleInv, UpsInv, Active, streamVars
<1>10. ASSUME LoopEnds PROVE Kept
  BY <1>n, <1>10 DEF LoopEnds, Running, HandleInv, UpsInv, Active, ownerVars, streamVars
<1>11. ASSUME Joined PROVE Kept
  BY <1>n, <1>11 DEF Joined, HandleInv, UpsInv, Active, streamVars
<1>12. ASSUME UNCHANGED <<ownerVars, cloop, streamVars, timers, ups>> PROVE Kept
  BY <1>12 DEF HandleInv, UpsInv, Active, ownerVars, streamVars
<1>13. ReadData \/ SendData => UNCHANGED <<ownerVars, cloop, streamVars, timers, ups>>
  BY DEF ReadData, SendData
<1>14. UNCHANGED clientVars => UNCHANGED <<ownerVars, cloop, streamVars, timers, ups>>
  BY DEF clientVars
<1> HIDE DEF Kept
<1>15. ASSUME ClientNext PROVE Kept
  BY <1>1, <1>2, <1>3, <1>4, <1>5, <1>6, <1>7, <1>8, <1>9, <1>10, <1>11, <1>12, <1>13, <1>15
  DEF ClientNext, ClientLoop, ConnectDone
<1>16. Kept
  BY <1>12, <1>14, <1>15 DEF Next, ByClient, ByServer, vars
<1> QED
  BY <1>16 DEF Kept

LEMMA LoopKeeps ==
  ASSUME TypeOK, LoopInv, [Next]_vars
  PROVE  LoopInv'
<1>n. /\ sowner \in {"none", "started", "joining", "stopped"} /\ sloop \in {"none", "running", "ended"}
  BY DEF TypeOK, ServerTypeOK
<1> DEFINE Kept == LoopInv'
<1>1. ASSUME StartServer \/ StopServer \/ ServerJoined PROVE Kept
  BY <1>n, <1>1 DEF StartServer, StopServer, ServerJoined, LoopInv, PoolIdle, poolVars
<1>2. ASSUME ServerLoopEnds PROVE Kept
  BY <1>n, <1>2 DEF ServerLoopEnds, ServerRunning, LoopInv, PoolIdle, poolVars
<1>3. ASSUME NEW c \in Conn, ServerReadData(c) PROVE Kept
  BY <1>3 DEF ServerReadData, ServerRunning, LoopInv
<1>4. ASSUME WorkStarts PROVE Kept
  BY <1>4 DEF WorkStarts, LoopInv, PoolIdle
<1>5. ASSUME NEW w \in running, WorkEnds(w) PROVE Kept
  BY <1>5 DEF WorkEnds, LoopInv, PoolIdle
<1>6. ASSUME UNCHANGED <<sowner, sloop, swork, running>> PROVE Kept
  BY <1>6 DEF LoopInv, PoolIdle
<1>7. ASSUME NEW c \in Conn, Accept(c) \/ ServerReadEnd(c) \/ ServerSendData(c)
      PROVE  UNCHANGED <<sowner, sloop, swork, running>>
  BY <1>7 DEF Accept, ServerReadEnd, ServerSendData, poolVars
<1>8. ServerSendRuns \/ ServerStopRuns \/ ServerClosing => UNCHANGED <<sowner, sloop, swork, running>>
  BY DEF ServerSendRuns, ServerStopRuns, ServerClosing, poolVars
<1>9. UNCHANGED serverVars => UNCHANGED <<sowner, sloop, swork, running>>
  BY DEF serverVars, poolVars
<1> HIDE DEF Kept
<1>10. ASSUME ServerNext PROVE Kept
  BY <1>1, <1>2, <1>3, <1>4, <1>5, <1>6, <1>7, <1>8, <1>10 DEF ServerNext, ServerLoop, Pool
<1>11. Kept
  BY <1>6, <1>9, <1>10 DEF Next, ByClient, ByServer, vars
<1> QED
  BY <1>11 DEF Kept
-----------------------------------------------------------------------------
(* The order of what is sent. *)

LEMMA CarriedType ==
  ASSUME TypeOK, NEW c \in Conn
  PROVE  /\ read[c] \in Seq(Chunk) /\ net[c].up \in Seq(Chunk) /\ Carried(c) \in Seq(Chunk)
         /\ Range(Carried(c)) \subseteq Int /\ Range(writes) \subseteq Int
         /\ Range(read[c]) \subseteq Range(Carried(c))
         /\ Increasing(Carried(c)) => Increasing(read[c])
         /\ Carried(c) = << >> => read[c] = << >>
<1>1. read[c] \in Seq(Chunk) /\ net[c].up \in Seq(Chunk) /\ writes \in Seq(Chunk)
  BY DEF TypeOK, NetTypeOK, ServerTypeOK, ClientTypeOK, Connection
<1>2. /\ Carried(c) \in Seq(Chunk) /\ Range(Carried(c)) = Range(read[c]) \cup Range(net[c].up)
      /\ Increasing(Carried(c)) => Increasing(read[c])
  BY <1>1, IncreasingConcat DEF Carried
<1>3. Carried(c) = << >> => read[c] = << >>
  BY <1>1, ConcatEqualIffEmpty DEF Carried
<1>4. Range(Carried(c)) \subseteq Chunk /\ Range(writes) \subseteq Chunk
  BY <1>1, <1>2, RangeOfSeq
<1>5. Chunk \subseteq Int
  BY DEF Chunk
<1> QED
  BY <1>1, <1>2, <1>3, <1>4, <1>5

(* A step that writes nothing and reads nothing. *)
LEMMA CarriedKept ==
  ASSUME TypeOK, read' = read, NEW c \in Conn, net'[c].up \in {net[c].up, << >>}
  PROVE  Carried(c)' \in {Carried(c), read[c]}
<1>1. read[c] \o << >> = read[c]
  BY CarriedType, ConcatEmptySeq
<1> QED
  BY <1>1 DEF Carried

(* Nothing is sent: what is on the connections stays or is lost, what waited
   may be dropped and asynchronous handles may have run. *)
LEMMA OrderFrame ==
  ASSUME TypeOK, TypeOK', OrderInv,
         \A c \in Conn : Carried(c)' \in {Carried(c), read[c]},
         writes' \in {writes, << >>}, sends' >= sends,
         conn' >= conn, conn' = conn /\ handle' = "connecting" => handle = "connecting",
         NEW k \in Nat,
         \A i \in Sending' : i + k \in Sending /\ casyncs'[i] = casyncs[i + k]
  PROVE  OrderInv'
<1>t. /\ sends \in Nat /\ sends' \in Nat /\ conn \in Nat /\ conn' \in Nat /\ Conn \subseteq Nat
      /\ \A i \in Sending' : i \in Nat
      /\ \A i \in Sending : casyncs[i].chunk \in Int
  <2>1. casyncs \in Seq(Async) /\ casyncs' \in Seq(Async)
    BY DEF TypeOK, ClientTypeOK
  <2>2. \A i \in DOMAIN casyncs : casyncs[i] \in Async
    BY <2>1, InSeq
  <2>3. \A i \in Sending : casyncs[i].chunk \in Int
    BY <2>2 DEF Sending, Async, Chunk
  <2>4. \A i \in DOMAIN casyncs' : i \in Nat
    BY <2>1, InSeq
  <2>5. \A i \in Sending' : i \in Nat
    BY <2>4 DEF Sending
  <2> QED
    BY <2>3, <2>5, StreamNetAssumption DEF TypeOK, ClientTypeOK, Conn
<1>1. ASSUME NEW c \in Conn
      PROVE  /\ Increasing(Carried(c))' /\ Range(Carried(c))' \subseteq Range(Carried(c))
             /\ Range(Carried(c)) \subseteq Int
             /\ Carried(c) = << >> => Carried(c)' = << >>
  BY CarriedType DEF OrderInv
<1>2. /\ Increasing(writes)' /\ Range(writes)' \subseteq Range(writes) /\ Range(writes) \subseteq Int
  <2>1. Increasing(<< >>) /\ Range(<< >>) = {}
    BY EmptyRange DEF Increasing
  <2>2. Range(writes) \subseteq Int
    <3>1. writes \in Seq(Chunk)
      BY DEF TypeOK, ClientTypeOK
    <3>2. Range(writes) \subseteq Chunk
      BY <3>1, RangeOfSeq
    <3> QED
      BY <3>2 DEF Chunk
  <2> QED
    BY <2>1, <2>2 DEF OrderInv
<1>3. ASSUME NEW c \in Conn
      PROVE  /\ Before(Carried(c), writes)' /\ Below(Carried(c), sends + 1)'
             /\ \A i \in Sending' : Below(Carried(c), casyncs[i].chunk)'
             /\ \A d \in Conn : c < d => Before(Carried(c), Carried(d))'
             /\ (c > conn \/ (c = conn /\ handle = "connecting") => Carried(c) = << >>)'
  <2>1. Before(Carried(c), writes)'
    BY <1>1, <1>2 DEF OrderInv, Before
  <2>2. Below(Carried(c), sends + 1)'
    BY <1>1, <1>t DEF OrderInv, Below
  <2>3. \A i \in Sending' : Below(Carried(c), casyncs[i].chunk)'
    BY <1>1, <1>t DEF OrderInv, Below
  <2>4. ASSUME NEW d \in Conn, c < d PROVE Before(Carried(c), Carried(d))'
    BY <1>1, <2>4 DEF OrderInv, Before
  <2>5. c > conn' \/ (c = conn' /\ handle' = "connecting") => Carried(c)' = << >>
    BY <1>1, <1>t DEF OrderInv
  <2> QED
    BY <2>1, <2>2, <2>3, <2>4, <2>5
<1>4. Below(writes, sends + 1)'
  BY <1>2, <1>t DEF OrderInv, Below
<1>5. ASSUME NEW i \in Sending'
      PROVE  /\ Below(writes, casyncs[i].chunk)' /\ casyncs'[i].chunk <= sends'
             /\ \A j \in Sending' : i < j => casyncs'[i].chunk < casyncs'[j].chunk
  <2>1. i + k \in Sending /\ casyncs'[i] = casyncs[i + k]
    OBVIOUS
  <2>2. Below(writes, casyncs[i].chunk)'
    BY <1>2, <2>1 DEF OrderInv, Below
  <2>3. casyncs'[i].chunk <= sends'
    BY <1>t, <2>1 DEF OrderInv
  <2>4. ASSUME NEW j \in Sending', i < j PROVE casyncs'[i].chunk < casyncs'[j].chunk
    <3>1. j + k \in Sending /\ casyncs'[j] = casyncs[j + k] /\ i + k < j + k
      BY <1>t, <2>4
    <3> QED
      BY <2>1, <3>1 DEF OrderInv
  <2> QED
    BY <2>2, <2>3, <2>4
<1> QED
  BY <1>1, <1>2, <1>3, <1>4, <1>5 DEF OrderInv
LEMMA AsyncTypes ==
  ASSUME TypeOK
  PROVE  /\ casyncs \in Seq(Async) /\ Sending \subseteq DOMAIN casyncs
         /\ Len(casyncs) \in Nat /\ DOMAIN casyncs = 1..Len(casyncs)
         /\ \A i \in Sending : casyncs[i].chunk \in Chunk /\ casyncs[i].op = "send" /\ i \in Nat
         /\ \A i \in DOMAIN casyncs : casyncs[i].op = "send" => i \in Sending
<1>1. casyncs \in Seq(Async) /\ Sending \subseteq DOMAIN casyncs
  BY DEF TypeOK, ClientTypeOK, Sending
<1>2. /\ Len(casyncs) \in Nat /\ DOMAIN casyncs = 1..Len(casyncs)
      /\ \A i \in DOMAIN casyncs : casyncs[i] \in Async
  BY <1>1, InSeq
<1>3. \A i \in Sending : casyncs[i].chunk \in Chunk /\ casyncs[i].op = "send" /\ i \in Nat
  BY <1>1, <1>2 DEF Sending, Async
<1> QED
  BY <1>1, <1>2, <1>3 DEF Sending

(* An asynchronous handle that ran is gone, the others move up. *)
LEMMA AsyncsMove ==
  ASSUME TypeOK, casyncs # << >>, casyncs' = Tail(casyncs)
  PROVE  /\ \A i \in Sending' : /\ i + 1 \in Sending /\ casyncs'[i] = casyncs[i + 1]
                                /\ 1 < i + 1 /\ i \in Nat
         /\ Head(casyncs).op = "send" => 1 \in Sending /\ casyncs[1] = Head(casyncs)
<1>1. /\ Head(casyncs) = casyncs[1] /\ 1 \in DOMAIN casyncs
      /\ \A i \in DOMAIN Tail(casyncs) :
           i + 1 \in DOMAIN casyncs /\ 1 < i + 1 /\ Tail(casyncs)[i] = casyncs[i + 1]
      /\ Tail(casyncs) \in Seq(Async)
  BY AsyncTypes, TailRange
<1>2. \A i \in DOMAIN Tail(casyncs) : i \in Nat
  BY <1>1, InSeq
<1> QED
  BY <1>1, <1>2 DEF Sending

(* sendData: a later chunk than any, behind the others. *)
LEMMA OrderAsked ==
  ASSUME TypeOK, TypeOK', OrderInv, SendData, read' = read
  PROVE  OrderInv'
<1>1. /\ \A c \in Conn : Carried(c)' = Carried(c)
      /\ writes' = writes /\ conn' = conn /\ handle' = handle /\ sends' = sends + 1
  BY DEF SendData, streamVars, Carried
<1>t. sends \in Nat /\ conn \in Nat /\ casyncs \in Seq(Async)
  BY DEF TypeOK, ClientTypeOK
<1>2. CASE casyncs' = casyncs
  <2>1. \A i \in Sending' : i + 0 \in Sending /\ casyncs'[i] = casyncs[i + 0]
    BY <1>2, AsyncTypes DEF Sending
  <2>2. /\ \A c \in Conn : Carried(c)' \in {Carried(c), read[c]}
        /\ writes' \in {writes, << >>} /\ sends' >= sends
        /\ conn' >= conn /\ (conn' = conn /\ handle' = "connecting" => handle = "connecting")
        /\ 0 \in Nat
    BY <1>1, <1>t
  <2> QED
    BY <2>1, <2>2, OrderFrame
<1>3. CASE casyncs' # casyncs
  <2> DEFINE a == [op |-> "send", chunk |-> sends', start |-> cstarts]
             n == Len(casyncs) + 1
  <2>1. casyncs' = Append(casyncs, a)
    BY <1>3 DEF SendData
  <2>2. a \in Async
    <3>1. sends' \in Chunk /\ cstarts \in 0..MaxStarts
      BY <1>1, <1>t DEF TypeOK, ClientTypeOK, Chunk
    <3> QED
      BY <3>1 DEF Async
  <2>3. a.chunk = sends + 1 /\ a.op = "send"
    BY <1>1
  <2> HIDE DEF a
  <2>4. /\ DOMAIN Append(casyncs, a) = DOMAIN casyncs \cup {n}
        /\ \A i \in DOMAIN casyncs : i < n /\ Append(casyncs, a)[i] = casyncs[i]
        /\ Append(casyncs, a)[n] = a
    BY <1>t, <2>2, AppendRange
  <2>5. n \in Nat
    BY AsyncTypes
  <2> HIDE DEF n
  <2>6. /\ Sending' = Sending \cup {n}
        /\ \A i \in Sending : i < n /\ i \in Nat /\ casyncs'[i] = casyncs[i]
        /\ casyncs'[n].chunk = sends + 1
        /\ \A i \in Sending : casyncs[i].chunk \in Int
    BY <2>1, <2>3, <2>4, AsyncTypes DEF Sending, Chunk
  <2>7. Range(writes) \subseteq Int /\ \A c \in Conn : Range(Carried(c)) \subseteq Int
    <3>1. Range(writes) \subseteq Chunk
      BY RangeOfSeq DEF TypeOK, ClientTypeOK
    <3>2. Chunk \subseteq Int
      BY DEF Chunk
    <3> QED
      BY <3>1, <3>2, CarriedType
  <2>8. ASSUME NEW c \in Conn
        PROVE  /\ Below(Carried(c), sends + 1)'
               /\ \A i \in Sending' : Below(Carried(c), casyncs[i].chunk)'
    <3>1. Below(Carried(c), sends + 1)
      BY DEF OrderInv
    <3>2. Below(Carried(c), sends + 1)'
      BY <1>1, <1>t, <2>7, <3>1 DEF Below
    <3>3. ASSUME NEW i \in Sending' PROVE Below(Carried(c), casyncs[i].chunk)'
      <4>1. CASE i = n
        BY <1>1, <2>6, <3>1, <4>1 DEF Below
      <4>2. CASE i \in Sending
        BY <1>1, <2>6, <4>2 DEF OrderInv, Below
      <4> QED
        BY <2>6, <4>1, <4>2
    <3> QED
      BY <3>2, <3>3
  <2>9. Below(writes, sends + 1)'
    BY <1>1, <1>t, <2>7 DEF OrderInv, Below
  <2>10. ASSUME NEW i \in Sending'
         PROVE  /\ Below(writes, casyncs[i].chunk)' /\ casyncs'[i].chunk <= sends'
                /\ \A j \in Sending' : i < j => casyncs'[i].chunk < casyncs'[j].chunk
    <3>1. CASE i = n
      <4>1. Below(writes, casyncs[i].chunk)'
        BY <1>1, <2>6, <3>1 DEF OrderInv, Below
      <4>2. \A j \in Sending' : ~(i < j)
        BY <2>5, <2>6, <3>1
      <4> QED
        BY <1>1, <1>t, <2>6, <3>1, <4>1, <4>2
    <3>2. CASE i \in Sending
      <4>1. Below(writes, casyncs[i].chunk)'
        BY <1>1, <2>6, <3>2 DEF OrderInv, Below
      <4>2. casyncs[i].chunk <= sends /\ \A j \in Sending : i < j => casyncs[i].chunk < casyncs[j].chunk
        BY <3>2 DEF OrderInv
      <4>3. casyncs'[i].chunk <= sends'
        BY <1>1, <1>t, <2>6, <3>2, <4>2
      <4>4. ASSUME NEW j \in Sending', i < j PROVE casyncs'[i].chunk < casyncs'[j].chunk
        <5>1. CASE j = n
          BY <1>t, <2>6, <3>2, <4>2, <5>1
        <5>2. CASE j \in Sending
          BY <2>6, <3>2, <4>2, <4>4, <5>2
        <5> QED
          BY <2>6, <5>1, <5>2
      <4> QED
        BY <4>1, <4>3, <4>4
    <3> QED
      BY <2>6, <3>1, <3>2
  <2> QED
    BY <1>1, <2>8, <2>9, <2>10 DEF OrderInv, Before
<1> QED
  BY <1>2, <1>3
(* The callback of sendData writes: to the handle that connects, or to the
   connection. *)
LEMMA OrderWritten ==
  ASSUME TypeOK, TypeOK', HandleInv, OrderInv, SendRuns, read' = read,
         ~(net' = net /\ writes' = writes)
  PROVE  OrderInv'
<1> DEFINE a == Head(casyncs)
           m == a.chunk
<1>1. /\ casyncs # << >> /\ casyncs' = Tail(casyncs) /\ a.op = "send"
      /\ UNCHANGED <<handle, conn, sends>>
  BY DEF SendRuns
<1>2. \/ handle = "connecting" /\ writes' = Append(writes, m) /\ net' = net
      \/ handle = "open" /\ net' = Upward(conn, <<m>>) /\ writes' = writes
  BY DEF SendRuns
<1>3. /\ \A i \in Sending' : /\ i + 1 \in Sending /\ casyncs'[i] = casyncs[i + 1]
                             /\ 1 < i + 1 /\ i \in Nat
      /\ 1 \in Sending /\ casyncs[1] = a
  BY <1>1, AsyncsMove
<1>4. m \in Chunk /\ m \in Int /\ sends \in Nat /\ conn \in Nat
  <2>1. m \in Chunk
    BY <1>3, AsyncTypes
  <2> QED
    BY <2>1 DEF Chunk, TypeOK, ClientTypeOK
<1> HIDE DEF a
<1>5. /\ m <= sends /\ Below(writes, m) /\ \A c \in Conn : Below(Carried(c), m)
      /\ \A i \in Sending' : m < casyncs'[i].chunk
  BY <1>3 DEF OrderInv
<1> HIDE DEF m
<1>t. /\ writes \in Seq(Chunk) /\ Range(writes) \subseteq Int
      /\ \A c \in Conn : Range(Carried(c)) \subseteq Int /\ Carried(c) \in Seq(Chunk)
      /\ \A i \in Sending' : casyncs'[i].chunk \in Int
  <2>1. writes \in Seq(Chunk)
    BY DEF TypeOK, ClientTypeOK
  <2>2. Range(writes) \subseteq Chunk
    BY <2>1, RangeOfSeq
  <2>3. Range(writes) \subseteq Int
    BY <2>2 DEF Chunk
  <2>4. \A i \in Sending' : casyncs'[i].chunk \in Int
    BY <1>3, AsyncTypes DEF Chunk
  <2> QED
    BY <2>1, <2>3, <2>4, CarriedType
<1>6. <<m>> \in Seq(Chunk) /\ Range(<<m>>) = {m}
  BY <1>4, OneRange
<1>7. Increasing(<<m>>)
  BY <1>4, OneRange, InSeq DEF Increasing
<1>8. ASSUME NEW s \in Seq(Chunk), Increasing(s), Below(s, m)
      PROVE  Increasing(s \o <<m>>) /\ Range(s \o <<m>>) = Range(s) \cup {m}
  <2>1. Before(s, <<m>>)
    BY <1>6, <1>8 DEF Before, Below
  <2> QED
    BY <1>6, <1>7, <1>8, <2>1, IncreasingConcat
<1>9. \/ /\ handle = "connecting"
         /\ \A c \in Conn : Carried(c)' = Carried(c)
         /\ Increasing(writes)' /\ Range(writes)' = Range(writes) \cup {m}
      \/ /\ handle = "open" /\ conn \in Conn /\ writes = << >> /\ writes' = << >>
         /\ \A c \in Conn \ {conn} : Carried(c)' = Carried(c)
         /\ Increasing(Carried(conn))' /\ Range(Carried(conn))' \subseteq Range(Carried(conn)) \cup {m}
  <2>1. CASE handle = "connecting" /\ writes' = Append(writes, m) /\ net' = net
    <3>1. Increasing(writes) /\ Below(writes, m)
      BY <1>5 DEF OrderInv
    <3>2. writes' = writes \o <<m>>
      BY <1>t, <1>4, <2>1, AppendRange
    <3> QED
      BY <1>8, <1>t, <2>1, <3>1, <3>2 DEF Carried
  <2>2. CASE handle = "open" /\ net' = Upward(conn, <<m>>) /\ writes' = writes
    <3>1. conn \in Conn /\ writes = << >>
      BY <2>2 DEF HandleInv
    <3>2. NetType
      BY DEF TypeOK, NetTypeOK, NetType
    <3>3. /\ \A c \in Conn \ {conn} : net'[c].up = net[c].up
          /\ net'[conn].up \in {net[conn].up, net[conn].up \o <<m>>}
      BY <1>6, <2>2, <3>1, <3>2, DataSteps
    <3>4. read[conn] \o (net[conn].up \o <<m>>) = Carried(conn) \o <<m>>
      <4> DEFINE r == read[conn]
                 u == net[conn].up
      <4>1. r \in Seq(Chunk) /\ u \in Seq(Chunk)
        BY <3>1, CarriedType
      <4> HIDE DEF r, u
      <4>2. (r \o u) \o <<m>> = r \o (u \o <<m>>)
        BY <1>6, <4>1, ConcatAssociative
      <4> QED
        BY <4>2 DEF Carried, r, u
    <3>5. Carried(conn)' \in {Carried(conn), Carried(conn) \o <<m>>}
      BY <1>1, <3>3, <3>4 DEF Carried
    <3>6. Increasing(Carried(conn)) /\ Below(Carried(conn), m)
      BY <1>5, <3>1 DEF OrderInv
    <3>7. Increasing(Carried(conn))' /\ Range(Carried(conn))' \subseteq Range(Carried(conn)) \cup {m}
      BY <1>8, <1>t, <3>1, <3>5, <3>6
    <3> QED
      BY <2>2, <3>1, <3>3, <3>7 DEF Carried
  <2> QED
    BY <1>2, <2>1, <2>2
<1>10. /\ Range(writes)' \subseteq Range(writes) \cup {m}
       /\ \A c \in Conn : Range(Carried(c))' \subseteq Range(Carried(c)) \cup {m}
       /\ \A c \in Conn : Increasing(Carried(c))'
       /\ Increasing(writes)'
  BY <1>1, <1>9 DEF OrderInv
<1>11. ASSUME NEW s, Range(s) \subseteq Int, Below(s, m), Below(s, sends + 1),
              \A i \in Sending : Below(s, casyncs[i].chunk),
              NEW t, Range(t) \subseteq Range(s) \cup {m}
       PROVE  Below(t, sends + 1) /\ \A i \in Sending' : Below(t, casyncs'[i].chunk)
  <2>1. Below(t, sends + 1)
    BY <1>4, <1>5, <1>11 DEF Below
  <2>2. ASSUME NEW i \in Sending' PROVE Below(t, casyncs'[i].chunk)
    BY <1>3, <1>5, <1>11 DEF Below
  <2> QED
    BY <2>1, <2>2
<1>12. ASSUME NEW c \in Conn
       PROVE  /\ Below(Carried(c), sends + 1)' /\ \A i \in Sending' : Below(Carried(c), casyncs[i].chunk)'
  <2>1. /\ Range(Carried(c)) \subseteq Int /\ Below(Carried(c), m) /\ Below(Carried(c), sends + 1)
        /\ \A i \in Sending : Below(Carried(c), casyncs[i].chunk)
    BY <1>5, <1>t DEF OrderInv
  <2> QED
    BY <1>1, <1>10, <1>11, <2>1
<1>13. Below(writes, sends + 1)' /\ \A i \in Sending' : Below(writes, casyncs[i].chunk)'
  <2>1. /\ Range(writes) \subseteq Int /\ Below(writes, m) /\ Below(writes, sends + 1)
        /\ \A i \in Sending : Below(writes, casyncs[i].chunk)
    BY <1>5, <1>t DEF OrderInv
  <2> QED
    BY <1>1, <1>10, <1>11, <2>1
<1>14. ASSUME NEW i \in Sending'
       PROVE  /\ casyncs'[i].chunk <= sends'
              /\ \A j \in Sending' : i < j => casyncs'[i].chunk < casyncs'[j].chunk
  <2>1. casyncs'[i].chunk <= sends'
    BY <1>1, <1>3 DEF OrderInv
  <2>2. ASSUME NEW j \in Sending', i < j PROVE casyncs'[i].chunk < casyncs'[j].chunk
    <3>1. i + 1 < j + 1
      BY <1>3, <2>2
    <3> QED
      BY <1>3, <3>1 DEF OrderInv
  <2> QED
    BY <2>1, <2>2
<1>15. ASSUME NEW c \in Conn
       PROVE  /\ Before(Carried(c), writes)'
              /\ \A d \in Conn : c < d => Before(Carried(c), Carried(d))'
              /\ (c > conn \/ (c = conn /\ handle = "connecting") => Carried(c) = << >>)'
  <2>0. Range(<< >>) = {}
    BY EmptyRange
  <2>1. CASE handle = "connecting"
    BY <1>1, <1>5, <1>9, <2>1 DEF OrderInv, Before, Below
  <2>2. CASE handle = "open"
    <3>1. Before(Carried(c), writes)'
      BY <1>9, <2>0, <2>2 DEF Before
    <3>2. ASSUME NEW d \in Conn, c < d PROVE Before(Carried(c), Carried(d))'
      <4>1. CASE c # conn /\ d # conn
        BY <1>9, <2>2, <3>2, <4>1 DEF OrderInv, Before
      <4>2. CASE d = conn
        <5>1. c # conn
          BY <1>4, <3>2, <4>2
        <5>2. Carried(c)' = Carried(c) /\ Range(Carried(d))' \subseteq Range(Carried(d)) \cup {m}
          BY <1>10, <1>9, <2>2, <5>1
        <5>3. Before(Carried(c), Carried(d)) /\ Below(Carried(c), m)
          BY <1>5, <3>2 DEF OrderInv
        <5> QED
          BY <5>2, <5>3 DEF Before, Below
      <4>3. CASE c = conn
        <5>1. d > conn /\ d # conn
          BY <1>4, <3>2, <4>3 DEF Conn
        <5>2. Carried(d) = << >>
          BY <5>1 DEF OrderInv
        <5> QED
          BY <1>9, <2>0, <2>2, <5>1, <5>2 DEF Before
      <4> QED
        BY <4>1, <4>2, <4>3
    <3>3. c > conn' \/ (c = conn' /\ handle' = "connecting") => Carried(c)' = << >>
      <4>1. c > conn => c # conn
        BY <1>4 DEF Conn
      <4> QED
        BY <1>1, <1>9, <2>2, <4>1 DEF OrderInv
    <3> QED
      BY <3>1, <3>2, <3>3
  <2> QED
    BY <1>9, <2>1, <2>2
<1> QED
  BY <1>10, <1>12, <1>13, <1>14, <1>15 DEF OrderInv

(* What waited goes out when the connection is there. *)
LEMMA OrderFlushed ==
  ASSUME TypeOK, TypeOK', HandleInv, OrderInv, Connected, read' = read
  PROVE  OrderInv'
<1>0. << >> \in Seq(Chunk) /\ Range(<< >>) = {} /\ Increasing(<< >>)
  BY EmptyRange DEF Increasing
<1>1. /\ handle = "connecting" /\ handle' = "open" /\ conn \in Conn /\ conn \in Nat
      /\ UNCHANGED <<conn, casyncs, sends>> /\ writes' = << >>
      /\ net' = [net EXCEPT ![conn].client = "open", ![conn].up = writes]
  BY StreamNetAssumption DEF Connected, HandleInv, Flushed, Conn
<1>2. net \in [Conn -> Connection] /\ writes \in Seq(Chunk)
  BY DEF TypeOK, NetTypeOK, ClientTypeOK
<1>3. /\ net'[conn].up = writes /\ \A c \in Conn \ {conn} : net'[c].up = net[c].up
  BY <1>1, <1>2 DEF Connection
<1>4. read[conn] = << >>
  BY <1>1, CarriedType DEF OrderInv
<1>5. Carried(conn)' = writes
  BY <1>1, <1>2, <1>3, <1>4, ConcatEmptySeq DEF Carried
<1>6. \A c \in Conn \ {conn} : Carried(c)' = Carried(c)
  BY <1>3 DEF Carried
<1>7. \A c \in Conn : c > conn => c # conn /\ Carried(c) = << >>
  BY <1>1 DEF OrderInv, Conn
<1>8. ASSUME NEW c \in Conn
      PROVE  /\ Increasing(Carried(c))' /\ Before(Carried(c), writes)' /\ Below(Carried(c), sends + 1)'
             /\ \A i \in Sending' : Below(Carried(c), casyncs[i].chunk)'
             /\ (c > conn \/ (c = conn /\ handle = "connecting") => Carried(c) = << >>)'
  <2>1. Before(Carried(c), writes)'
    BY <1>0, <1>1 DEF Before
  <2>2. CASE c = conn
    BY <1>1, <1>5, <2>1, <2>2 DEF OrderInv, Sending
  <2>3. CASE c # conn
    BY <1>1, <1>6, <2>1, <2>3 DEF OrderInv, Sending
  <2> QED
    BY <2>2, <2>3
<1>9. ASSUME NEW c \in Conn, NEW d \in Conn, c < d PROVE Before(Carried(c), Carried(d))'
  <2>1. CASE c # conn /\ d # conn
    BY <1>6, <1>9, <2>1 DEF OrderInv
  <2>2. CASE d = conn
    <3>1. c # conn
      BY <1>1, <1>9, <2>2
    <3>2. Carried(c)' = Carried(c) /\ Carried(d)' = writes
      BY <1>1, <1>5, <1>6, <2>2, <3>1
    <3>3. Before(Carried(c), writes)
      BY DEF OrderInv
    <3> QED
      BY <3>2, <3>3 DEF Before
  <2>3. CASE c = conn
    <3>1. d > conn
      BY <1>9, <2>3 DEF Conn
    <3> QED
      BY <1>0, <1>6, <1>7, <3>1 DEF Before
  <2> QED
    BY <2>1, <2>2, <2>3
<1>10. /\ Increasing(writes)' /\ Below(writes, sends + 1)'
       /\ \A i \in Sending' : Below(writes, casyncs[i].chunk)'
  BY <1>0, <1>1 DEF Below
<1>11. \A i \in Sending' : /\ casyncs'[i].chunk <= sends'
                           /\ \A j \in Sending' : i < j => casyncs'[i].chunk < casyncs'[j].chunk
  BY <1>1 DEF OrderInv, Sending
<1> QED
  BY <1>8, <1>9, <1>10, <1>11 DEF OrderInv
(* The steps of the client. *)
LEMMA ClientOrder ==
  ASSUME TypeOK, TypeOK', HandleInv, OrderInv, ClientNext, read' = read
  PROVE  OrderInv'
<1>t. /\ NetType /\ ClientTypeOK /\ sends \in Nat /\ conn \in Nat /\ sends >= sends /\ conn >= conn
      /\ attempts = conn
  <2>1. NetType /\ ClientTypeOK
    BY DEF TypeOK, NetTypeOK, NetType
  <2>2. sends \in Nat /\ conn \in Nat /\ attempts = conn
    BY <2>1 DEF ClientTypeOK, HandleInv
  <2> QED
    BY <2>1, <2>2
<1> DEFINE Moves(k) == \A i \in Sending' : i + k \in Sending /\ casyncs'[i] = casyncs[i + k]
           Quiet == /\ \A c \in Conn : net'[c].up \in {net[c].up, << >>}
                    /\ writes' \in {writes, << >>} /\ sends' = sends
                    /\ conn' >= conn /\ (conn' = conn /\ handle' = "connecting" => handle = "connecting")
<1>q. ASSUME Quiet, NEW k \in Nat, Moves(k) PROVE OrderInv'
  <2>1. \A c \in Conn : Carried(c)' \in {Carried(c), read[c]}
    BY <1>q, CarriedKept
  <2> QED
    BY <1>t, <1>q, <2>1, OrderFrame
<1>s. casyncs' = casyncs => Moves(0)
  BY AsyncTypes DEF Sending
<1>r. Request \/ TcpConnect => /\ \A c \in Conn : net'[c].up = net[c].up
                               /\ conn' >= conn
                               /\ (conn' = conn /\ handle' = "connecting" => handle = "connecting")
  <2>1. ASSUME Request \/ TcpConnect
        PROVE  /\ \A c \in Conn : net'[c].up = net[c].up
               /\ \/ handle' = "connecting" /\ conn' = conn + 1
                  \/ handle' \in {handle, "idle"} /\ conn' = conn
    BY <1>t, <2>1, Connects
  <2> QED
    BY <1>t, <2>1
<1>0. 0 \in Nat /\ 1 \in Nat
  OBVIOUS
<1>e. \A c \in Conn : \A x \in {"none", "connecting", "open", "closed"} :
        \A d \in Conn : ClientEnd(c, x)[d].up = net[d].up /\ Refused(c)[d].up = net[d].up
  BY <1>t, EndSteps
<1>1. CASE StartClient
  <2>1. Quiet
    <3>1. CASE StartTcpClient
      BY <1>t, <1>1, <3>1 DEF StartClient, StartTcpClient
    <3>2. CASE StartPipeClient
      BY <1>t, <1>r, <1>1, <3>2 DEF StartClient, StartPipeClient
    <3> QED
      BY <1>1, <3>1, <3>2 DEF StartClient
  <2>2. casyncs' = casyncs
    BY <1>1 DEF StartClient
  <2> HIDE DEF Moves, Quiet
  <2> QED
    BY <1>q, <1>s, <1>0, <2>1, <2>2
<1>2. CASE FirstConnect \/ TimerFires
  <2>1. Quiet
    BY <1>t, <1>r, <1>2, ConnectCases DEF FirstConnect, TimerFires
  <2>2. casyncs' = casyncs
    BY <1>2 DEF FirstConnect, TimerFires
  <2> HIDE DEF Moves, Quiet
  <2> QED
    BY <1>q, <1>s, <1>0, <2>1, <2>2
<1>3. CASE ConnectRefused
  <2>1. Quiet
    BY <1>t, <1>e, <1>3 DEF ConnectRefused, HandleInv
  <2>2. casyncs' = casyncs
    BY <1>3 DEF ConnectRefused
  <2> HIDE DEF Moves, Quiet
  <2> QED
    BY <1>q, <1>s, <1>0, <2>1, <2>2
<1>4. CASE ReadData
  <2>1. \A c \in Conn : net'[c].up = net[c].up
    BY <1>t, <1>4 DEF ReadData, NetType, Connection
  <2>2. Quiet
    BY <1>t, <1>4, <2>1 DEF ReadData, streamVars
  <2>3. casyncs' = casyncs
    BY <1>4 DEF ReadData
  <2> HIDE DEF Moves, Quiet
  <2> QED
    BY <1>q, <1>s, <1>0, <2>2, <2>3
<1>5. CASE ReadEnd
  <2>1. Quiet
    BY <1>t, <1>e, <1>5 DEF ReadEnd, HandleInv
  <2>2. casyncs' = casyncs
    BY <1>5 DEF ReadEnd
  <2> HIDE DEF Moves, Quiet
  <2> QED
    BY <1>q, <1>s, <1>0, <2>1, <2>2
<1>6. CASE SendRuns
  <2>1. CASE net' = net /\ writes' = writes
    <3>1. Quiet
      BY <1>t, <1>6, <2>1 DEF SendRuns
    <3>2. casyncs # << >> /\ casyncs' = Tail(casyncs)
      BY <1>6 DEF SendRuns
    <3>3. Moves(1)
      BY <3>2, AsyncsMove
    <3> HIDE DEF Moves, Quiet
    <3> QED
      BY <1>q, <1>0, <3>1, <3>3
  <2> QED
    BY <1>6, <2>1, OrderWritten
<1>7. CASE StopClient
  <2>1. Quiet
    BY <1>t, <1>7 DEF StopClient, streamVars
  <2> DEFINE a == [op |-> "stop"]
  <2>2. a \in Async /\ a.op # "send"
    BY DEF Async
  <2>3. casyncs' = Append(casyncs, a)
    BY <1>7 DEF StopClient
  <2> HIDE DEF a
  <2>4. /\ DOMAIN Append(casyncs, a) = DOMAIN casyncs \cup {Len(casyncs) + 1}
        /\ \A i \in DOMAIN casyncs : Append(casyncs, a)[i] = casyncs[i]
        /\ Append(casyncs, a)[Len(casyncs) + 1] = a
    BY <2>2, AsyncTypes, AppendRange
  <2>5. \A i \in Sending' : i \in Sending /\ casyncs'[i] = casyncs[i]
    BY <2>2, <2>3, <2>4 DEF Sending
  <2>6. Moves(0)
    BY <2>5, AsyncTypes
  <2> HIDE DEF Moves, Quiet
  <2> QED
    BY <1>q, <1>0, <2>1, <2>6
<1>8. CASE StopRuns
  <2>1. handle' = "connecting" => handle = "connecting"
    BY <1>8 DEF StopRuns
  <2>2. \A c \in Conn : net'[c].up = net[c].up
    BY <1>e, <1>8 DEF StopRuns, HandleInv
  <2>3. Quiet
    BY <1>t, <1>8, <2>1, <2>2 DEF StopRuns
  <2>4. Sending' = {}
    BY <1>8, EmptyRange DEF StopRuns, Sending
  <2>5. Moves(0)
    BY <2>4
  <2> HIDE DEF Moves, Quiet
  <2> QED
    BY <1>q, <1>0, <2>3, <2>5
<1>9. CASE RunClosing
  <2>1. handle' = "connecting" => handle = "connecting"
    BY <1>9 DEF RunClosing
  <2>2. Quiet
    BY <1>t, <1>9, <2>1 DEF RunClosing
  <2>3. casyncs' = casyncs
    BY <1>9 DEF RunClosing
  <2> HIDE DEF Moves, Quiet
  <2> QED
    BY <1>q, <1>s, <1>0, <2>2, <2>3
<1>10. CASE LoopEnds \/ Joined
  <2>1. Quiet
    BY <1>t, <1>10 DEF LoopEnds, Joined, streamVars
  <2>2. casyncs' = casyncs
    BY <1>10 DEF LoopEnds, Joined
  <2> HIDE DEF Moves, Quiet
  <2> QED
    BY <1>q, <1>s, <1>0, <2>1, <2>2
<1> QED
  BY <1>1, <1>2, <1>3, <1>4, <1>5, <1>6, <1>7, <1>8, <1>9, <1>10, OrderAsked, OrderFlushed
  DEF ClientNext, ClientLoop, ConnectDone

(* Reading moves data from the connection to what was read. *)
LEMMA ReadMoves ==
  ASSUME TypeOK, NEW c \in Conn, ServerReadData(c)
  PROVE  \E data \in Seq(Chunk) :
           /\ swork' = Append(swork, [conn |-> c, data |-> data])
           /\ read' = [read EXCEPT ![c] = read[c] \o data]
           /\ Range(data) \subseteq Range(net[c].up)
           /\ Increasing(net[c].up) => Increasing(data)
           /\ \A d \in Conn : Carried(d)' = Carried(d)
<1>1. /\ read[c] \in Seq(Chunk) /\ net[c].up \in Seq(Chunk)
      /\ net \in [Conn -> Connection] /\ read \in [Conn -> Seq(Chunk)]
  BY CarriedType DEF TypeOK, NetTypeOK, ServerTypeOK
<1>2. PICK n \in 1..Len(net[c].up) :
        /\ swork' = Append(swork, [conn |-> c, data |-> SubSeq(net[c].up, 1, n)])
        /\ read' = [read EXCEPT ![c] = @ \o SubSeq(net[c].up, 1, n)]
        /\ net' = [net EXCEPT ![c].up = SubSeq(@, n + 1, Len(@))]
  BY DEF ServerReadData, Queued
<1> DEFINE r    == read[c]
           data == SubSeq(net[c].up, 1, n)
           rest == SubSeq(net[c].up, n + 1, Len(net[c].up))
<1>3. data \in Seq(Chunk) /\ rest \in Seq(Chunk) /\ data \o rest = net[c].up
  BY <1>1, Halves
<1>4. /\ swork' = Append(swork, [conn |-> c, data |-> data])
      /\ read' = [read EXCEPT ![c] = r \o data]
      /\ net' = [net EXCEPT ![c].up = rest]
  BY <1>2
<1>5. r \in Seq(Chunk)
  BY <1>1
<1> HIDE DEF r, data, rest
<1>6. (r \o data) \o rest = r \o (data \o rest)
  <2>1. data \in Seq(Chunk) /\ rest \in Seq(Chunk)
    BY <1>3
  <2> QED
    BY <1>5, <2>1, ConcatAssociative
<1>7. Carried(c)' = (r \o data) \o rest
  BY <1>1, <1>4 DEF Carried, Connection
<1>8. Carried(c)' = Carried(c)
  BY <1>3, <1>6, <1>7 DEF Carried, r
<1>9. \A d \in Conn \ {c} : Carried(d)' = Carried(d)
  BY <1>1, <1>4 DEF Carried
<1>10. Range(data) \subseteq Range(net[c].up) /\ (Increasing(net[c].up) => Increasing(data))
  BY <1>3, IncreasingConcat
<1> QED
  BY <1>3, <1>4, <1>8, <1>9, <1>10 DEF r
(* The steps of the server and the connections. *)
LEMMA OrderKeeps ==
  ASSUME TypeOK, TypeOK', HandleInv, OrderInv, [Next]_vars
  PROVE  OrderInv'
<1>t. NetType /\ sends \in Nat /\ conn \in Nat
  BY DEF TypeOK, NetTypeOK, ClientTypeOK, NetType
<1>k. ASSUME UNCHANGED clientVars, \A c \in Conn : Carried(c)' \in {Carried(c), read[c]}
      PROVE  OrderInv'
  <2>1. /\ writes' \in {writes, << >>} /\ sends' >= sends /\ conn' >= conn
        /\ (conn' = conn /\ handle' = "connecting" => handle = "connecting")
        /\ casyncs' = casyncs /\ 0 \in Nat
    BY <1>k, <1>t DEF clientVars, streamVars
  <2>2. \A i \in Sending' : i + 0 \in Sending /\ casyncs'[i] = casyncs[i + 0]
    BY <2>1, AsyncTypes DEF Sending
  <2> QED
    BY <1>k, <2>1, <2>2, OrderFrame
<1>u. ASSUME UNCHANGED clientVars, read' = read, \A c \in Conn : net'[c].up \in {net[c].up, << >>}
      PROVE  OrderInv'
  BY <1>k, <1>u, CarriedKept
<1>1. CASE ByClient(ClientNext)
  BY <1>1, ClientOrder DEF ByClient, serverVars
<1>2. ASSUME UNCHANGED clientVars, NEW c \in Conn, ServerReadData(c) PROVE OrderInv'
  <2>1. \A d \in Conn : Carried(d)' = Carried(d)
    BY <1>2, ReadMoves
  <2> QED
    BY <1>k, <1>2, <2>1
<1>3. ASSUME UNCHANGED clientVars, NEW c \in Conn, Accept(c) \/ ServerReadEnd(c) \/ ServerSendData(c)
      PROVE  OrderInv'
  <2>1. read' = read /\ \A d \in Conn : net'[d].up = net[d].up
    BY <1>3, <1>t, EndSteps DEF Accept, ServerReadEnd, ServerSendData
  <2> QED
    BY <1>u, <1>3, <2>1
<1>4. ASSUME UNCHANGED clientVars, ServerSendRuns PROVE OrderInv'
  <2> DEFINE a == Head(sasyncs)
  <2>1. a \in ServerAsync /\ a.op = "send"
    BY <1>4, HeadTailProperties DEF ServerSendRuns, TypeOK, ServerTypeOK
  <2>2. /\ read' = read
        /\ net' = IF client[a.conn] = "open" THEN Downward(a.conn, <<a.reply>>) ELSE net
    BY <1>4 DEF ServerSendRuns
  <2>3. a.conn \in Conn /\ a.reply \in Reply
    BY <2>1 DEF ServerAsync
  <2> HIDE DEF a
  <2>4. <<a.reply>> \in Seq(Reply)
    BY <2>3, OneRange
  <2>5. \A d \in Conn : net'[d].up = net[d].up
    BY <1>t, <2>2, <2>3, <2>4, DataSteps
  <2> QED
    BY <1>u, <1>4, <2>2, <2>5
<1>5. ASSUME UNCHANGED clientVars, ServerStopRuns PROVE OrderInv'
  <2>1. \A c \in Conn : net'[c].up \in {net[c].up, << >>}
    <3>1. ASSUME NEW c \in Conn PROVE net'[c].up \in {net[c].up, << >>}
      <4>1. net[c] \in Connection /\ WithoutBacklog[c].up \in {net[c].up, << >>}
        BY <1>t, BacklogType DEF NetType
      <4>2. net'[c] \in {[net[c] EXCEPT !.server = "closed"], WithoutBacklog[c]}
        BY <1>5 DEF ServerStopRuns
      <4> QED
        BY <4>1, <4>2 DEF Connection
    <3> QED
      BY <3>1
  <2> QED
    BY <1>u, <1>5, <2>1 DEF ServerStopRuns
<1>6. ASSUME UNCHANGED clientVars, UNCHANGED <<read, net>> PROVE OrderInv'
  BY <1>u, <1>6
<1>7. StartServer \/ StopServer \/ ServerJoined \/ ServerClosing \/ ServerLoopEnds \/ WorkStarts
      => UNCHANGED <<read, net>>
  BY DEF StartServer, StopServer, ServerJoined, ServerClosing, ServerLoopEnds, WorkStarts
<1>8. ASSUME NEW w \in running, WorkEnds(w) PROVE UNCHANGED <<read, net>>
  BY <1>8 DEF WorkEnds
<1>9. CASE ByServer(ServerNext)
  <2>1. UNCHANGED clientVars /\ ServerNext
    BY <1>9 DEF ByServer
  <2> QED
    BY <1>2, <1>3, <1>4, <1>5, <1>6, <1>7, <1>8, <2>1 DEF ServerNext, ServerLoop, Pool
<1>10. ASSUME NEW c \in Conn, NetBreaks(c), UNCHANGED <<clientVars, serverVars>> PROVE OrderInv'
  <2>1. \A d \in Conn : net'[d].up \in {net[d].up, << >>}
    BY <1>10, <1>t, BreakType
  <2> QED
    BY <1>u, <1>10, <2>1 DEF serverVars
<1>11. CASE UNCHANGED vars
  BY <1>6, <1>11 DEF vars, serverVars
<1> QED
  BY <1>1, <1>9, <1>10, <1>11 DEF Next

-----------------------------------------------------------------------------
(* The pool. *)

LEMMA WorkTypes ==
  ASSUME TypeOK
  PROVE  /\ swork \in Seq(Work) /\ running \subseteq Work
         /\ DOMAIN swork = 1..Len(swork) /\ Len(swork) \in Nat
         /\ \A i \in DOMAIN swork : swork[i] \in Range(swork) /\ swork[i] \in Work
         /\ \A w \in running \cup Range(swork) :
              w \in Work /\ w.conn \in Conn /\ w.data \in Seq(Chunk) /\ Range(w.data) \subseteq Int
         /\ \A c \in Conn : handled[c] \in Seq(Chunk) /\ Range(handled[c]) \subseteq Int
<1>1. swork \in Seq(Work) /\ running \subseteq Work /\ handled \in [Conn -> Seq(Chunk)]
  BY DEF TypeOK, ServerTypeOK
<1>2. /\ DOMAIN swork = 1..Len(swork) /\ Len(swork) \in Nat
      /\ \A i \in DOMAIN swork : swork[i] \in Range(swork) /\ swork[i] \in Work
      /\ Range(swork) \subseteq Work
  BY <1>1, InSeq, RangeOfSeq
<1>3. ASSUME NEW s \in Seq(Chunk) PROVE Range(s) \subseteq Int
  <2>1. Range(s) \subseteq Chunk
    BY RangeOfSeq
  <2> QED
    BY <2>1 DEF Chunk
<1>4. ASSUME NEW w \in running \cup Range(swork)
      PROVE  w \in Work /\ w.conn \in Conn /\ w.data \in Seq(Chunk)
  BY <1>1, <1>2 DEF Work
<1> QED
  BY <1>1, <1>2, <1>3, <1>4

(* What is held or handled was read. *)
LEMMA OnlyRead ==
  ASSUME PoolInv, NEW c \in Conn
  PROVE  /\ Range(handled[c]) \subseteq Range(read[c])
         /\ \A w \in running \cup Range(swork) : w.conn = c => Range(w.data) \subseteq Range(read[c])
<1>1. Range(read[c]) = Range(handled[c]) \cup Held(c)
  BY DEF PoolInv
<1>2. \A w \in running \cup Range(swork) : w.conn = c => Range(w.data) \subseteq Held(c)
  BY DEF Held
<1> QED
  BY <1>1, <1>2

LEMMA PoolReads ==
  ASSUME TypeOK, OrderInv, PoolInv, NEW c \in Conn, ServerReadData(c)
  PROVE  PoolInv'
<1>1. PICK data \in Seq(Chunk) :
        /\ swork' = Append(swork, [conn |-> c, data |-> data])
        /\ read' = [read EXCEPT ![c] = read[c] \o data]
        /\ Range(data) \subseteq Range(net[c].up)
  BY ReadMoves
<1> DEFINE w == [conn |-> c, data |-> data]
           n == Len(swork) + 1
<1>2. w \in Work /\ w.conn = c /\ w.data = data /\ swork' = Append(swork, w)
  BY <1>1 DEF Work
<1> HIDE DEF w
<1>3. UNCHANGED <<running, handled>>
  BY DEF ServerReadData
<1>4. /\ Range(swork') = Range(swork) \cup {w} /\ DOMAIN swork' = DOMAIN swork \cup {n}
      /\ \A i \in DOMAIN swork : i < n /\ i \in Nat /\ swork'[i] = swork[i]
      /\ swork'[n] = w /\ n \in Nat
  <2>1. swork \in Seq(Work) /\ DOMAIN swork = 1..Len(swork) /\ Len(swork) \in Nat
    BY WorkTypes
  <2>2. /\ Range(Append(swork, w)) = Range(swork) \cup {w}
        /\ DOMAIN Append(swork, w) = DOMAIN swork \cup {n}
        /\ \A i \in DOMAIN swork : i < n /\ Append(swork, w)[i] = swork[i]
        /\ Append(swork, w)[n] = w
    <3>1. w \in Work /\ swork \in Seq(Work)
      BY <1>2, <2>1
    <3>2. Range(Append(swork, w)) = Range(swork) \cup {w}
      <4> HIDE DEF n
      <4>1. Append(swork, w) = swork \o <<w>>
        BY <3>1, AppendIsConcat
      <4>2. <<w>> \in Seq(Work) /\ Range(<<w>>) = {w}
        BY <3>1, OneRange
      <4>3. Range(swork \o <<w>>) = Range(swork) \cup Range(<<w>>)
        BY <3>1, <4>2, RangeConcatenation
      <4> QED
        BY <4>1, <4>2, <4>3
    <3>3. /\ DOMAIN Append(swork, w) = DOMAIN swork \cup {n}
          /\ Append(swork, w)[n] = w
      BY <3>1, AppendRange
    <3>4. \A i \in DOMAIN swork : i < n /\ Append(swork, w)[i] = swork[i]
      BY <3>1, AppendRange
    <3> QED
      BY <3>2, <3>3, <3>4
  <2> QED
    BY <1>2, <2>1, <2>2
<1> HIDE DEF n
<1>5. Before(read[c], data)
  <2>1. read[c] \in Seq(Chunk) /\ net[c].up \in Seq(Chunk) /\ Increasing(read[c] \o net[c].up)
    BY CarriedType DEF OrderInv, Carried
  <2>2. Before(read[c], net[c].up)
    BY <2>1, IncreasingConcat
  <2> QED
    BY <1>1, <2>2 DEF Before
<1>6. ASSUME NEW d \in Conn PROVE Range(read[d])' = Range(handled[d])' \cup Held(d)'
  <2>1. Range(read[d]) = Range(handled[d]) \cup Held(d)
    BY DEF PoolInv
  <2>2. Held(d)' = UNION {Range(v.data) : v \in {x \in running \cup Range(swork) \cup {w} : x.conn = d}}
    BY <1>3, <1>4 DEF Held
  <2>3. CASE d = c
    <3>1. Held(d)' = Held(d) \cup Range(data)
      BY <1>2, <2>2, <2>3 DEF Held
    <3>2. Range(read[d] \o data) = Range(read[d]) \cup Range(data)
      BY CarriedType, RangeConcatenation
    <3>3. read'[d] = read[d] \o data
      BY <1>1, <2>3 DEF TypeOK, ServerTypeOK
    <3> QED
      BY <1>3, <2>1, <3>1, <3>2, <3>3
  <2>4. CASE d # c
    <3>1. Held(d)' = Held(d)
      BY <1>2, <2>2, <2>4 DEF Held
    <3>2. read'[d] = read[d]
      BY <1>1, <2>4 DEF TypeOK, ServerTypeOK
    <3> QED
      BY <1>3, <2>1, <3>1, <3>2
  <2> QED
    BY <2>3, <2>4
<1>7. ASSUME NEW i \in DOMAIN swork'
      PROVE  /\ \A x \in Range(handled'[swork'[i].conn]), y \in Range(swork'[i].data) : x < y
             /\ \A v \in running' : v.conn = swork'[i].conn => Before(v.data, swork'[i].data)
             /\ \A j \in DOMAIN swork' :
                  i < j /\ swork'[j].conn = swork'[i].conn => Before(swork'[i].data, swork'[j].data)
  <2>1. CASE i = n
    <3>1. \A x \in Range(handled[c]), y \in Range(data) : x < y
      BY <1>5, OnlyRead DEF Before
    <3>2. ASSUME NEW v \in running, v.conn = c PROVE Before(v.data, data)
      BY <1>5, <3>2, OnlyRead DEF Before
    <3>3. \A j \in DOMAIN swork' : ~(i < j)
      BY <1>4, <2>1
    <3> QED
      BY <1>2, <1>3, <1>4, <2>1, <3>1, <3>2, <3>3
  <2>2. CASE i \in DOMAIN swork
    <3>1. ASSUME swork[i].conn = c PROVE Before(swork[i].data, data)
      <4>1. Range(swork[i].data) \subseteq Range(read[c])
        BY <2>2, <3>1, OnlyRead, WorkTypes
      <4> QED
        BY <1>5, <4>1 DEF Before
    <3>2. ASSUME NEW j \in DOMAIN swork', i < j, swork'[j].conn = swork'[i].conn
          PROVE  Before(swork'[i].data, swork'[j].data)
      <4>1. CASE j = n
        BY <1>2, <1>4, <2>2, <3>1, <3>2, <4>1
      <4>2. CASE j \in DOMAIN swork
        BY <1>4, <2>2, <3>2, <4>2 DEF PoolInv
      <4> QED
        BY <1>4, <4>1, <4>2
    <3>3. /\ \A x \in Range(handled[swork[i].conn]), y \in Range(swork[i].data) : x < y
          /\ \A v \in running : v.conn = swork[i].conn => Before(v.data, swork[i].data)
      BY <2>2 DEF PoolInv
    <3> QED
      BY <1>3, <1>4, <2>2, <3>2, <3>3
  <2> QED
    BY <1>4, <2>1, <2>2
<1>8. \A d \in Conn : Cardinality({v \in running : v.conn = d /\ Behind(v)})' < PoolSize
  BY <1>3 DEF PoolInv, Behind
<1>9. IsFiniteSet(running)' /\ Cardinality(running)' <= PoolSize
  BY <1>3 DEF PoolInv
<1> QED
  BY <1>6, <1>7, <1>8, <1>9 DEF PoolInv
LEMMA PoolStarts ==
  ASSUME TypeOK, PoolInv, WorkStarts
  PROVE  PoolInv'
<1> DEFINE h == Head(swork)
<1>1. /\ swork # << >> /\ Cardinality(running) < PoolSize
      /\ running' = running \cup {h} /\ swork' = Tail(swork)
      /\ UNCHANGED <<read, handled>>
  BY DEF WorkStarts
<1>2. swork \in Seq(Work)
  BY WorkTypes
<1>3. /\ h = swork[1] /\ 1 \in DOMAIN swork
      /\ \A i \in DOMAIN swork' : i + 1 \in DOMAIN swork /\ 1 < i + 1 /\ swork'[i] = swork[i + 1]
      /\ Range(swork) = Range(swork') \cup {h}
  BY <1>1, <1>2, TailRange
<1> HIDE DEF h
<1>4. IsFiniteSet(running) /\ Cardinality(running) \in Nat
  BY FS_CardinalityType DEF PoolInv
<1>5. IsFiniteSet(running)' /\ Cardinality(running)' <= PoolSize
  <2>1. /\ IsFiniteSet(running \cup {h})
        /\ Cardinality(running \cup {h}) \in {Cardinality(running), Cardinality(running) + 1}
    BY <1>4, FS_AddElement
  <2> QED
    BY <1>1, <1>4, <2>1, StreamServerAssumption
<1>6. ASSUME NEW d \in Conn PROVE Range(read[d])' = Range(handled[d])' \cup Held(d)'
  <2>1. running' \cup Range(swork') = running \cup Range(swork)
    BY <1>1, <1>3
  <2>2. Held(d)' = Held(d)
    BY <2>1 DEF Held
  <2> QED
    BY <1>1, <2>2 DEF PoolInv
<1>7. ASSUME NEW i \in DOMAIN swork'
      PROVE  /\ \A x \in Range(handled'[swork'[i].conn]), y \in Range(swork'[i].data) : x < y
             /\ \A v \in running' : v.conn = swork'[i].conn => Before(v.data, swork'[i].data)
             /\ \A j \in DOMAIN swork' :
                  i < j /\ swork'[j].conn = swork'[i].conn => Before(swork'[i].data, swork'[j].data)
  <2>1. i + 1 \in DOMAIN swork /\ 1 < i + 1 /\ swork'[i] = swork[i + 1]
    BY <1>3
  <2>2. /\ \A x \in Range(handled[swork[i + 1].conn]), y \in Range(swork[i + 1].data) : x < y
        /\ \A v \in running : v.conn = swork[i + 1].conn => Before(v.data, swork[i + 1].data)
    BY <2>1 DEF PoolInv
  <2>3. h.conn = swork[i + 1].conn => Before(h.data, swork[i + 1].data)
    BY <1>3, <2>1 DEF PoolInv
  <2>4. ASSUME NEW j \in DOMAIN swork', i < j, swork'[j].conn = swork'[i].conn
        PROVE  Before(swork'[i].data, swork'[j].data)
    <3>1. j + 1 \in DOMAIN swork /\ swork'[j] = swork[j + 1]
      BY <1>3
    <3>2. i + 1 < j + 1
      <4>1. i \in Nat /\ j \in Nat
        <5>1. swork' \in Seq(Work)
          BY <1>1, <1>2, TailRange
        <5>2. DOMAIN swork' = 1..Len(swork') /\ Len(swork') \in Nat
          BY <5>1, InSeq
        <5> QED
          BY <5>2
      <4> QED
        BY <2>4, <4>1
    <3> QED
      BY <2>1, <2>4, <3>1, <3>2 DEF PoolInv
  <2> QED
    BY <1>1, <2>1, <2>2, <2>3, <2>4
<1>8. ASSUME NEW d \in Conn
      PROVE  Cardinality({v \in running : v.conn = d /\ Behind(v)})' < PoolSize
  <2>1. \A v : Behind(v)' <=> Behind(v)
    BY <1>1 DEF Behind
  <2>2. ~Behind(h)
    <3>1. \A x \in Range(handled[h.conn]), y \in Range(h.data) : x < y
      BY <1>3 DEF PoolInv
    <3>2. Range(handled[h.conn]) \subseteq Int /\ Range(h.data) \subseteq Int
      BY <1>3, WorkTypes
    <3> QED
      BY <3>1, <3>2 DEF Behind
  <2>3. {v \in running' : v.conn = d /\ Behind(v)'} = {v \in running : v.conn = d /\ Behind(v)}
    BY <1>1, <2>1, <2>2
  <2> QED
    BY <2>3 DEF PoolInv
<1> QED
  BY <1>5, <1>6, <1>7, <1>8 DEF PoolInv

LEMMA PoolEnds ==
  ASSUME TypeOK, PoolInv, NEW w \in running, WorkEnds(w)
  PROVE  PoolInv'
<1>1. /\ running' = running \ {w} /\ UNCHANGED <<read, swork>>
      /\ handled' = [handled EXCEPT ![w.conn] = @ \o w.data]
  BY DEF WorkEnds
<1>2. /\ w.conn \in Conn /\ w.data \in Seq(Chunk) /\ handled[w.conn] \in Seq(Chunk)
      /\ handled \in [Conn -> Seq(Chunk)]
  BY WorkTypes DEF TypeOK, ServerTypeOK
<1>3. Range(handled[w.conn] \o w.data) = Range(handled[w.conn]) \cup Range(w.data)
  BY <1>2, RangeConcatenation
<1>4. /\ Range(handled'[w.conn]) = Range(handled[w.conn]) \cup Range(w.data)
      /\ \A d \in Conn \ {w.conn} : handled'[d] = handled[d]
  BY <1>1, <1>2, <1>3
<1>5. /\ IsFiniteSet(running) /\ Cardinality(running) \in Nat /\ Cardinality(running) <= PoolSize
      /\ IsFiniteSet(running') /\ Cardinality(running') \in Nat
      /\ Cardinality(running') = Cardinality(running) - 1
  <2>1. IsFiniteSet(running) /\ Cardinality(running) <= PoolSize
    BY DEF PoolInv
  <2>2. IsFiniteSet(running \ {w}) /\ Cardinality(running \ {w}) = Cardinality(running) - 1
    BY <2>1, FS_RemoveElement
  <2> QED
    BY <1>1, <2>1, <2>2, FS_CardinalityType
<1>6. ASSUME NEW d \in Conn PROVE Range(read[d])' = Range(handled[d])' \cup Held(d)'
  <2>1. Range(read[d]) = Range(handled[d]) \cup Held(d)
    BY DEF PoolInv
  <2>2. /\ \A v \in running' \cup Range(swork') : v \in running \cup Range(swork)
        /\ \A v \in running \cup Range(swork) : v = w \/ v \in running' \cup Range(swork')
    BY <1>1
  <2>3. CASE d = w.conn
    <3>1. Range(w.data) \subseteq Held(d)
      BY <2>3 DEF Held
    <3>2. Held(d)' \subseteq Held(d) /\ Held(d) \subseteq Held(d)' \cup Range(w.data)
      BY <2>2 DEF Held
    <3> QED
      BY <1>1, <1>4, <2>1, <2>3, <3>1, <3>2
  <2>4. CASE d # w.conn
    <3>1. Held(d)' = Held(d)
      BY <2>2, <2>4 DEF Held
    <3> QED
      BY <1>1, <1>4, <2>1, <2>4, <3>1
  <2> QED
    BY <2>3, <2>4
<1>7. ASSUME NEW i \in DOMAIN swork'
      PROVE  /\ \A x \in Range(handled'[swork'[i].conn]), y \in Range(swork'[i].data) : x < y
             /\ \A v \in running' : v.conn = swork'[i].conn => Before(v.data, swork'[i].data)
             /\ \A j \in DOMAIN swork' :
                  i < j /\ swork'[j].conn = swork'[i].conn => Before(swork'[i].data, swork'[j].data)
  <2>1. i \in DOMAIN swork /\ swork' = swork /\ swork[i].conn \in Conn
    BY <1>1, WorkTypes
  <2>2. /\ \A x \in Range(handled[swork[i].conn]), y \in Range(swork[i].data) : x < y
        /\ \A v \in running : v.conn = swork[i].conn => Before(v.data, swork[i].data)
        /\ \A j \in DOMAIN swork :
             i < j /\ swork[j].conn = swork[i].conn => Before(swork[i].data, swork[j].data)
    BY <2>1 DEF PoolInv
  <2>3. \A x \in Range(handled'[swork[i].conn]), y \in Range(swork[i].data) : x < y
    <3>1. CASE swork[i].conn = w.conn
      BY <1>4, <2>2, <3>1 DEF Before
    <3>2. CASE swork[i].conn # w.conn
      BY <1>4, <2>1, <2>2, <3>2
    <3> QED
      BY <3>1, <3>2
  <2> QED
    BY <1>1, <2>1, <2>2, <2>3
<1>8. ASSUME NEW d \in Conn
      PROVE  Cardinality({v \in running : v.conn = d /\ Behind(v)})' < PoolSize
  <2> DEFINE B == {v \in running' : v.conn = d /\ Behind(v)'}
  <2>1. B \subseteq running'
    OBVIOUS
  <2> HIDE DEF B
  <2>2. Cardinality(B) <= Cardinality(running') /\ Cardinality(B) \in Nat
    BY <1>5, <2>1, FS_Subset, FS_CardinalityType
  <2>3. Cardinality(B) < PoolSize
    BY <1>5, <2>2, StreamServerAssumption
  <2> QED
    BY <2>3 DEF B
<1> QED
  BY <1>5, <1>6, <1>7, <1>8, StreamServerAssumption DEF PoolInv

LEMMA PoolKeeps ==
  ASSUME TypeOK, OrderInv, PoolInv, [Next]_vars
  PROVE  PoolInv'
<1>1. ASSUME UNCHANGED <<read, poolVars>> PROVE PoolInv'
  BY <1>1 DEF PoolInv, Held, Behind, poolVars
<1>2. ASSUME NEW c \in Conn, Accept(c) \/ ServerReadEnd(c) \/ ServerSendData(c)
      PROVE  UNCHANGED <<read, poolVars>>
  BY <1>2 DEF Accept, ServerReadEnd, ServerSendData
<1>3. StartServer \/ StopServer \/ ServerJoined \/ ServerSendRuns \/ ServerStopRuns \/ ServerClosing
      \/ ServerLoopEnds => UNCHANGED <<read, poolVars>>
  BY DEF StartServer, StopServer, ServerJoined, ServerSendRuns, ServerStopRuns, ServerClosing,
         ServerLoopEnds
<1>4. UNCHANGED serverVars => UNCHANGED <<read, poolVars>>
  BY DEF serverVars
<1>5. ASSUME ServerNext PROVE PoolInv'
  BY <1>1, <1>2, <1>3, <1>5, PoolReads, PoolStarts, PoolEnds DEF ServerNext, ServerLoop, Pool
<1> QED
  BY <1>1, <1>4, <1>5 DEF Next, ByClient, ByServer, vars

-----------------------------------------------------------------------------
(* The theorems. *)

LEMMA InitHolds == Init => IInv
<1> SUFFICES ASSUME Init PROVE IInv
  OBVIOUS
<1>n. /\ MaxConnections \in Nat /\ MaxSends \in Nat /\ MaxReplies \in Nat /\ MaxStarts \in Nat
      /\ MaxStops \in Nat /\ MaxServerStarts \in Nat /\ PoolSize \in Nat \ {0}
      /\ Conn \subseteq Nat \ {0}
  BY StreamNetAssumption, StreamClientAssumption, StreamServerAssumption DEF Conn
<1>e. /\ << >> \in Seq(Chunk) /\ << >> \in Seq(Reply) /\ << >> \in Seq(Async)
      /\ << >> \in Seq(Work) /\ << >> \in Seq(ServerAsync)
      /\ Range(<< >>) = {} /\ DOMAIN << >> = {}
  BY EmptyRange
<1>1. NoConnection \in Connection
  BY <1>e DEF NoConnection, Connection
<1>2. NetTypeOK
  BY <1>1 DEF Init, NetInit, NetTypeOK
<1>3. ClientTypeOK
  <2>1. 0 \in 0..MaxStarts /\ 0 \in 0..MaxStops /\ 0 \in 0..MaxConnections /\ 0 \in 0..MaxSends
    BY <1>n
  <2>2. "none" \in Handle
    BY DEF Handle
  <2> QED
    BY <1>e, <2>1, <2>2 DEF Init, ClientInit, ClientTypeOK
<1>4. ServerTypeOK
  <2>1. 0 \in 0..MaxServerStarts /\ 0 \in 0..MaxReplies
    BY <1>n
  <2>2. "none" \in ClientHandle
    BY DEF ClientHandle
  <2> QED
    BY <1>e, <2>1, <2>2 DEF Init, ServerInit, ServerTypeOK
<1>5. HandleInv /\ UpsInv /\ LoopInv
  BY DEF Init, ClientInit, ServerInit, HandleInv, UpsInv, LoopInv, Active, PoolIdle
<1>6. \A c \in Conn : Carried(c) = << >>
  <2>1. << >> \o << >> = << >>
    BY <1>e, ConcatEmptySeq
  <2>2. \A c \in Conn : read[c] = << >> /\ net[c].up = << >>
    BY DEF Init, NetInit, ServerInit, NoConnection
  <2> QED
    BY <2>1, <2>2 DEF Carried
<1>7. OrderInv
  <2>1. writes = << >> /\ Sending = {} /\ Increasing(<< >>)
    BY <1>e DEF Init, ClientInit, Sending, Increasing
  <2> QED
    BY <1>6, <1>e, <2>1 DEF OrderInv, Before, Below
<1>8. PoolInv
  <2>1. swork = << >> /\ running = {} /\ \A c \in Conn : read[c] = << >> /\ handled[c] = << >>
    BY DEF Init, ServerInit
  <2>2. IsFiniteSet({}) /\ Cardinality({}) = 0
    BY FS_EmptySet
  <2>3. \A c \in Conn : Held(c) = {} /\ {w \in running : w.conn = c /\ Behind(w)} = {}
    BY <1>e, <2>1 DEF Held
  <2> QED
    BY <1>n, <1>e, <2>1, <2>2, <2>3 DEF PoolInv
<1> QED
  BY <1>2, <1>3, <1>4, <1>5, <1>7, <1>8 DEF IInv, TypeOK

LEMMA StepKeeps == IInv /\ [Next]_vars => IInv'
<1> SUFFICES ASSUME IInv, [Next]_vars PROVE IInv'
  OBVIOUS
<1>1. TypeOK'
  BY TypeKeeps DEF IInv
<1>2. HandleInv' /\ UpsInv'
  BY HandleKeeps DEF IInv
<1>3. LoopInv'
  BY LoopKeeps DEF IInv
<1>4. OrderInv'
  BY <1>1, OrderKeeps DEF IInv
<1>5. PoolInv'
  BY PoolKeeps DEF IInv
<1> QED
  BY <1>1, <1>2, <1>3, <1>4, <1>5 DEF IInv

(* Every variable of the client, the server and the connections between them
   has its type, in every state. *)
THEOREM TypeCorrect == Spec => []TypeOK
<1>1. IInv => TypeOK
  BY DEF IInv
<1> QED
  BY <1>1, InitHolds, StepKeeps, PTL DEF Spec

(* From sendData to onRecv the order of the calls is kept, over any number of
   lost connections, but for what a thread of the pool is busy with; nothing
   comes twice and nothing that was read is lost. *)
THEOREM OrderCorrect == Spec => []InOrder
<1>1. IInv => InOrder
  <2> SUFFICES ASSUME IInv PROVE InOrder
    OBVIOUS
  <2>1. ASSUME NEW c \in Conn PROVE Increasing(Carried(c) \o writes)
    <3>1. Carried(c) \in Seq(Chunk) /\ writes \in Seq(Chunk)
      BY CarriedType DEF IInv, TypeOK, ClientTypeOK
    <3>2. Increasing(Carried(c)) /\ Increasing(writes) /\ Before(Carried(c), writes)
      BY DEF IInv, OrderInv
    <3> QED
      BY <3>1, <3>2, IncreasingConcat
  <2>2. SentInOrder
    BY <2>1 DEF IInv, OrderInv, SentInOrder
  <2>3. ASSUME NEW w \in Range(swork) PROVE ~Behind(w)
    <3>1. TypeOK /\ PoolInv
      BY DEF IInv
    <3>2. PICK i \in DOMAIN swork : w = swork[i]
      BY DEF Range
    <3>3. \A x \in Range(handled[w.conn]), y \in Range(w.data) : x < y
      BY <3>1, <3>2 DEF PoolInv
    <3>4. Range(handled[w.conn]) \subseteq Int /\ Range(w.data) \subseteq Int
      BY <3>1, WorkTypes
    <3> QED
      BY <3>3, <3>4 DEF Behind
  <2>4. OvertakenOnlyInPool
    BY <2>3 DEF IInv, PoolInv, OvertakenOnlyInPool
  <2> QED
    BY <2>2, <2>4 DEF InOrder
<1> QED
  BY <1>1, InitHolds, StepKeeps, PTL DEF Spec

(* onConnectionChanged(true) does not come twice without a call with FALSE or a
   start between, and a client or server that was stopped is not called any
   more, whatever stop, loss and failure interleave. *)
THEOREM CallbacksCorrect == Spec => []CallbacksInOrder
<1>1. IInv => CallbacksInOrder
  BY DEF IInv, HandleInv, UpsInv, LoopInv, PoolIdle, CallbacksInOrder, ConnectedOnceEach, QuietAfterStop
<1> QED
  BY <1>1, InitHolds, StepKeeps, PTL DEF Spec
=============================================================================
