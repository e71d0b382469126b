------------------------- MODULE CurlDownloadProofs -------------------------
(***************************************************************************)
(* What holds of CurlDownload for every size of the remote file, any       *)
(* number of retries and any width of int.                                 *)
(***************************************************************************)
EXTENDS CurlDownload, SequenceTheorems, TLAPS

(* Before the first transfer the target is as the call found it; a file is
   emptied by Open. *)
BeforeInv ==
  /\ pc \in {"query", "open"} => ~refetched /\ before = IF kind = "file" THEN << >> ELSE bytes
  /\ pc \in {"idle", "query", "open"} => attempts = 0
  /\ pc = "query" => kind # "slice"
  /\ kind = "file" => before = << >>

(* A transfer adds what came of its reply; one that ends in time adds nothing
   unless it is the last. *)
TransferInv ==
  /\ pc = "connect" /\ ~refetched => Target = before
  /\ pc = "transfer" => reply \in Replies
  /\ pc = "transfer" /\ ~refetched => Target = before \o SubSeq(reply, 1, got)

(* A download to memory goes on where the buffer ends, one to a file begins at
   the start. *)
Resumed == begin = Len(before) /\ end = RemoteSize - 1 /\ Len(before) < RemoteSize
ResumeInv == kind # "slice" /\ pc \in {"open", "connect", "transfer"} => Resumed

(* The base of the progress is never behind what the call found, nor what
   remains behind what the progress callback was told. *)
ProgressInv ==
  /\ kind = "slice" /\ pc = "open" => Len(before) <= base
  /\ kind # "file" /\ pc \in {"connect", "transfer"} => Len(before) <= base
  /\ pc = "transfer" => told <= remain

(* A positive result was earned by the last transfer, or there was nothing
   left to transfer. *)
Nothing == kind # "file" /\ bytes = before /\ Len(before) = RemoteSize /\ begin >= RemoteSize /\ attempts = 0
Earned  == /\ reply \in Replies /\ reply # <<Page>>
           /\ ~lost \/ kind # "file" => Target = before \o reply
           /\ Len(Target) <= base + remain
           /\ kind # "slice" => Resumed
ResultInv == Downloaded /\ ~refetched => Nothing \/ Earned

IInv == TypeOK /\ BeforeInv /\ TransferInv /\ ResumeInv /\ ProgressInv /\ ResultInv

-----------------------------------------------------------------------------
(* The bytes of the remote file. *)

LEMMA RemoteType ==
  ASSUME NEW first \in Nat, NEW last \in Int, first <= last + 1, last < RemoteSize
  PROVE  /\ Remote(first, last) \in Seq(Byte)
         /\ Len(Remote(first, last)) = last - first + 1
         /\ \A i \in 1..(last - first + 1) : Remote(first, last)[i] = first + i - 1
<1> DEFINE n == last - first + 1
           s == Remote(first, last)
<1>1. n \in Nat /\ RemoteSize \in Nat
  BY CurlAssumption
<1>2. \A i \in 1..n : first + i - 1 \in 0..(RemoteSize - 1)
  BY <1>1
<1>3. s = [i \in 1..n |-> first + i - 1]
  BY DEF Remote
<1>4. s \in [1..n -> Byte] /\ \A i \in 1..n : s[i] = first + i - 1
  BY <1>2, <1>3 DEF Byte
<1> HIDE DEF s, n
<1>5. s \in Seq(Byte) /\ Len(s) = n
  BY <1>1, <1>4
<1> QED
  BY <1>4, <1>5 DEF s, n

LEMMA RemoteJoins ==
  ASSUME NEW a \in 0..RemoteSize
  PROVE  Remote(0, a - 1) \o Remote(a, RemoteSize - 1) = Remote(0, RemoteSize - 1)
<1> DEFINE p == Remote(0, a - 1)
           q == Remote(a, RemoteSize - 1)
           r == Remote(0, RemoteSize - 1)
<1>1. RemoteSize \in Nat /\ a \in Nat /\ a <= RemoteSize
  BY CurlAssumption
<1>2. p \in Seq(Byte) /\ Len(p) = a /\ \A i \in 1..a : p[i] = i - 1
  BY <1>1, RemoteType
<1>3. q \in Seq(Byte) /\ Len(q) = RemoteSize - a /\ \A i \in 1..(RemoteSize - a) : q[i] = a + i - 1
  BY <1>1, RemoteType
<1>4. r \in Seq(Byte) /\ Len(r) = RemoteSize /\ \A i \in 1..RemoteSize : r[i] = i - 1
  BY <1>1, RemoteType
<1> HIDE DEF p, q, r
<1>5. /\ p \o q \in Seq(Byte) /\ Len(p \o q) = RemoteSize
      /\ \A i \in 1..RemoteSize : (p \o q)[i] = IF i <= a THEN p[i] ELSE q[i - a]
  BY <1>1, <1>2, <1>3, ConcatProperties
<1>6. ASSUME NEW i \in 1..RemoteSize PROVE (p \o q)[i] = r[i]
  <2>1. CASE i <= a
    BY <1>1, <1>2, <1>4, <1>5, <2>1
  <2>2. CASE ~(i <= a)
    <3>1. i - a \in 1..(RemoteSize - a) /\ a + (i - a) - 1 = i - 1
      BY <1>1, <2>2
    <3>2. q[i - a] = a + (i - a) - 1
      BY <1>3, <3>1
    <3> QED
      BY <1>4, <1>5, <2>2, <3>1, <3>2
  <2> QED
    BY <2>1, <2>2
<1> QED
  BY <1>4, <1>5, <1>6, SeqEqual DEF p, q, r

LEMMA ReplyType ==
  ASSUME begin \in Nat, end \in Int
  PROVE  \A s \in Replies : s \in Seq(Byte)
<1>1. RemoteSize \in Nat
  BY CurlAssumption
<1>2. LastByte \in Int /\ LastByte <= RemoteSize - 1
  BY <1>1 DEF LastByte, Smaller
<1>3. Whole \in Seq(Byte)
  BY <1>1, RemoteType DEF Whole
<1>4. ASSUME begin <= LastByte PROVE Asked \in Seq(Byte)
  <2>1. begin <= LastByte + 1 /\ LastByte < RemoteSize
    BY <1>1, <1>2, <1>4
  <2> QED
    BY <1>2, <2>1, RemoteType DEF Asked
<1>5. <<Page>> \in Seq(Byte)
  BY DEF Byte
<1> QED
  BY <1>3, <1>4, <1>5 DEF Replies

(* A download to memory or to a file is sent the rest, or an error page. *)
LEMMA RestIsSent ==
  ASSUME Resumed, kind \in {"memory", "file"}, reply \in Replies, reply # <<Page>>,
         before \in Seq(Byte), kind = "file" => before = << >>
  PROVE  reply = Asked /\ Asked = Remote(Len(before), RemoteSize - 1) /\ begin <= LastByte
<1>1. RemoteSize \in Nat /\ Len(before) \in Nat
  BY CurlAssumption
<1>2. begin = Len(before) /\ LastByte = RemoteSize - 1 /\ begin <= LastByte
  BY <1>1 DEF Resumed, LastByte, Smaller
<1>3. Asked = Remote(Len(before), RemoteSize - 1)
  BY <1>2 DEF Asked
<1>4. CASE reply = Asked
  BY <1>2, <1>3, <1>4
<1>5. CASE reply # Asked
  <2>1. reply = Whole /\ ~(kind = "memory" /\ begin > 0)
    BY <1>5 DEF Replies
  <2>2. CASE begin = 0
    BY <1>2, <1>3, <2>1, <2>2 DEF Whole
  <2>3. CASE begin # 0
    <3>1. kind = "file"
      BY <1>1, <1>2, <2>1, <2>3
    <3>2. Len(before) = 0
      BY <3>1
    <3> QED
      BY <1>2, <2>3, <3>2
  <2> QED
    BY <2>2, <2>3
<1> QED
  BY <1>4, <1>5

(* One more byte of the reply in the target. *)
LEMMA OneMore ==
  ASSUME NEW b \in Seq(Byte), NEW r \in Seq(Byte), NEW n \in 0..(Len(r) - 1)
  PROVE  Append(b \o SubSeq(r, 1, n), r[n + 1]) = b \o SubSeq(r, 1, n + 1)
<1> DEFINE p == SubSeq(r, 1, n)
           q == SubSeq(r, 1, n + 1)
<1>0. Len(r) \in Nat /\ n + 1 \in 1..Len(r) /\ r[n + 1] \in Byte /\ n \in Nat
  BY ElementOfSeq
<1>1. p \in Seq(Byte) /\ Len(p) = n /\ \A i \in 1..n : p[i] = r[i]
  BY <1>0, SubSeqProperties
<1>2. q \in Seq(Byte) /\ Len(q) = n + 1 /\ \A i \in 1..(n + 1) : q[i] = r[i]
  BY <1>0, SubSeqProperties
<1> HIDE DEF p, q
<1>3. q = Append(p, r[n + 1])
  <2>1. /\ Append(p, r[n + 1]) \in Seq(Byte) /\ Len(Append(p, r[n + 1])) = n + 1
        /\ \A i \in 1..n : Append(p, r[n + 1])[i] = p[i]
        /\ Append(p, r[n + 1])[n + 1] = r[n + 1]
    BY <1>0, <1>1, AppendProperties
  <2>2. \A i \in 1..(n + 1) : q[i] = Append(p, r[n + 1])[i]
    BY <1>0, <1>1, <1>2, <2>1
  <2> QED
    BY <1>2, <2>1, <2>2, SeqEqual
<1>4. Append(b \o p, r[n + 1]) = b \o Append(p, r[n + 1])
  <2>1. b \o p \in Seq(Byte) /\ <<r[n + 1]>> \in Seq(Byte)
    BY <1>0, <1>1, ConcatProperties
  <2>2. /\ Append(b \o p, r[n + 1]) = (b \o p) \o <<r[n + 1]>>
        /\ Append(p, r[n + 1]) = p \o <<r[n + 1]>>
    BY <1>0, <1>1, <2>1, AppendIsConcat
  <2>3. (b \o p) \o <<r[n + 1]>> = b \o (p \o <<r[n + 1]>>)
    BY <1>1, <2>1, ConcatAssociative
  <2> QED
    BY <2>2, <2>3
<1> QED
  BY <1>3, <1>4 DEF p, q

LEMMA ResultType == ASSUME NEW n \in Nat PROVE ToInt(n) \in Int
BY CurlAssumption DEF ToInt

LEMMA TypeKeeps == TypeOK /\ TransferInv /\ [Next]_vars => TypeOK'
<1> SUFFICES ASSUME TypeOK, TransferInv, [Next]_vars PROVE TypeOK'
  OBVIOUS
<1> USE DEF TypeOK, callVars, bufVars, tryVars, progVars, handles, Kinds
<1>k. /\ RemoteSize \in Nat /\ RetryCount \in Nat
      /\ Len(bytes) \in Nat /\ Len(file) \in Nat /\ Len(reply) \in Nat
      /\ << >> \in Seq(Byte)
  BY CurlAssumption
<1>1. CASE CallMemory
  BY <1>1, <1>k DEF CallMemory
<1>2. CASE CallFile
  BY <1>2, <1>k DEF CallFile
<1>3. ASSUME NEW from \in 0..RemoteSize, NEW to \in 0..RemoteSize, CallSlice(from, to) PROVE TypeOK'
  <2>1. begin' \in Nat /\ end' \in Int /\ base' \in Nat
    BY <1>3, <1>k DEF CallSlice, SetCurrentSizeBase, First, Larger, Smaller
  <2>2. pc' \in {"returned", "open"} /\ result' \in Int
    BY <1>3, <1>k DEF CallSlice
  <2> QED
    BY <1>3, <1>k, <2>1, <2>2 DEF CallSlice
<1>4. CASE NewBuffer
  BY <1>4, <1>k DEF NewBuffer
<1>5. CASE NewProgress
  BY <1>5, <1>k DEF NewProgress
<1>6. CASE QueryFails
  BY <1>6 DEF QueryFails, Failed, NotFound
<1>7. CASE QuerySize
  <2>1. begin' \in Nat /\ end' \in Int
    BY <1>7, <1>k DEF QuerySize, First, Larger
  <2>2. pc' \in {"returned", "open"} /\ result' \in Int
    BY <1>7, <1>k DEF QuerySize
  <2> QED
    BY <1>7, <1>k, <2>1, <2>2 DEF QuerySize
<1>8. CASE OpenFails
  <2>1. file' \in {<< >>, file}
    BY <1>8 DEF OpenFails
  <2>2. result' \in {-103, -105}
    BY <1>8 DEF OpenFails
  <2>3. file' \in Seq(Byte)
    BY <2>1, <1>k
  <2>4. result' \in Int
    BY <2>2
  <2> QED
    BY <1>8, <1>k, <2>3, <2>4 DEF OpenFails
<1>9. CASE Open
  <2>1. base' \in Nat
    BY <1>9, <1>k DEF Open, SetCurrentSizeBase
  <2>2. file' \in Seq(Byte)
    BY <1>9, <1>k DEF Open, Emptied
  <2> QED
    BY <1>9, <1>k, <2>1, <2>2 DEF Open
<1>r. ASSUME NEW ret \in {0, Failed, TimedOut}, NEW code \in {0, NotFound, 200}, Returns(ret, code),
             file' \in Seq(Byte), bytes' = bytes
      PROVE  /\ pc' = "returned" /\ curl_open' = FALSE /\ file_open' = FALSE
             /\ result' \in Int
  <2>1. ToInt(Len(file')) \in Int
    BY <1>r, ResultType
  <2> QED
    BY <1>r, <1>k, <2>1 DEF Returns, Cleaned, Failed, TimedOut, NotFound
<1>a. AfterTimeout /\ UNCHANGED bufVars
                   => /\ pc' \in {"returned", "connect"}
                      /\ retry' \in 0..RetryCount /\ attempts' \in Nat
                      /\ curl_open' \in BOOLEAN /\ file_open' \in BOOLEAN
                      /\ result' \in Int
  <2> SUFFICES ASSUME AfterTimeout, UNCHANGED bufVars
               PROVE  /\ pc' \in {"returned", "connect"}
                      /\ retry' \in 0..RetryCount /\ attempts' \in Nat
                      /\ curl_open' \in BOOLEAN /\ file_open' \in BOOLEAN
                      /\ result' \in Int
    OBVIOUS
  <2>1. CASE retry = 0
    BY <2>1, <1>r, <1>k DEF AfterTimeout
  <2>2. CASE retry # 0
    BY <2>2, <1>k DEF AfterTimeout, RetryNext, Smaller
  <2> QED
    BY <2>1, <2>2
<1>10. CASE ConnectFails
  BY <1>10, <1>k, <1>r DEF ConnectFails
<1>11. CASE TransferDone
  <2>1. file' \in Seq(Byte) /\ lost' \in BOOLEAN /\ bytes' = bytes
    <3>1. PICK n \in 0..Len(file) : file' = SubSeq(file, 1, n) /\ lost' = (n < Len(file))
      BY <1>11 DEF TransferDone
    <3>2. SubSeq(file, 1, n) \in Seq(Byte)
      BY <1>k, SubSeqProperties
    <3> QED
      BY <1>11, <3>1, <3>2 DEF TransferDone
  <2>2. pc' = "returned" /\ curl_open' = FALSE /\ file_open' = FALSE /\ result' \in Int
    BY <1>11, <1>r, <2>1 DEF TransferDone
  <2> QED
    BY <1>11, <2>1, <2>2 DEF TransferDone
<1>12. CASE TransferBreaks
  BY <1>12, <1>k, <1>r DEF TransferBreaks
<1>13. CASE ConnectTimesOut
  BY <1>13, <1>k, <1>a DEF ConnectTimesOut
<1>14. CASE TransferTimesOut
  BY <1>14, <1>k, <1>a DEF TransferTimesOut
<1>15. CASE ReplyBegins
  <2>1. reply' \in Seq(Byte) /\ got' \in 0..Len(reply') /\ told' \in 0..got'
    BY <1>15, ReplyType DEF ReplyBegins
  <2> QED
    BY <1>15, <2>1 DEF ReplyBegins
<1>16. CASE Receive
  <2>1. reply[got + 1] \in Byte /\ got + 1 \in 0..Len(reply) /\ got + 1 \in Nat
    BY <1>16, <1>k, ElementOfSeq DEF Receive
  <2>2. Append(file, reply[got + 1]) \in Seq(Byte) /\ Append(bytes, reply[got + 1]) \in Seq(Byte)
    BY <2>1, AppendProperties
  <2>3. bytes' \in Seq(Byte) /\ file' \in Seq(Byte)
    BY <1>16, <2>2 DEF Receive
  <2>4. told \in 0..(got + 1)
    BY <1>k
  <2> QED
    BY <1>16, <2>1, <2>3, <2>4 DEF Receive
<1>19. CASE Progress
  <2>1. got \in Nat /\ got \in 0..got
    BY <1>k
  <2>2. remain' \in Nat
    BY <1>19, <2>1 DEF Progress, SetCurrentSizeRemain
  <2> QED
    BY <1>19, <2>1, <2>2 DEF Progress
<1>17. CASE Return
  <2>1. reply' = << >> /\ got' = 0 /\ Len(reply') = 0 /\ got' \in 0..Len(reply')
        /\ told' \in 0..got'
    BY <1>17 DEF Return
  <2>2. before' \in Seq(Byte) /\ reply' \in Seq(Byte)
    BY <1>17, <1>k, <2>1 DEF Return
  <2>3. /\ pc' = "idle" /\ kind' = "memory" /\ begin' \in Nat /\ end' \in Int
        /\ retry' \in 0..RetryCount /\ attempts' \in Nat
        /\ refetched' = FALSE /\ lost' = FALSE /\ result' \in Int
    BY <1>17, <1>k DEF Return
  <2>4. UNCHANGED <<bytes, file, base, remain, curl_open, file_open>>
    BY <1>17 DEF Return
  <2> QED
    BY <2>1, <2>2, <2>3, <2>4
<1>18. CASE UNCHANGED vars
  <2>1. /\ UNCHANGED <<pc, kind, begin, end, before, refetched, lost, bytes, file, retry, attempts>>
        /\ UNCHANGED <<reply, got, told, base, remain, curl_open, file_open, result>>
    BY <1>18 DEF vars
  <2> QED
    BY <2>1
<1> QED
  BY <1>1, <1>2, <1>3, <1>4, <1>5, <1>6, <1>7, <1>8, <1>9, <1>10, <1>11, <1>12, <1>13, <1>14, <1>15,
     <1>16, <1>17, <1>18, <1>19
  DEF Next, Call, Attempt

(* The rest of the inductive invariant. *)
DataInv == BeforeInv /\ TransferInv /\ ResumeInv /\ ProgressInv /\ ResultInv

LEMMA NegativeResults ==
  ASSUME NEW ret \in {0, Failed, TimedOut}, NEW code \in {0, NotFound, 200}, Returns(ret, code),
         ret # 0 \/ code = NotFound
  PROVE  pc' = "returned" /\ ~(result' > 0)
BY DEF Returns, Failed, TimedOut, NotFound

LEMMA CallsKeep ==
  ASSUME TypeOK, DataInv,
         Call \/ NewBuffer \/ NewProgress \/ QueryFails \/ QuerySize \/ OpenFails \/ Open
  PROVE  DataInv'
<1> USE DEF DataInv, callVars, bufVars, tryVars, progVars, handles
<1>k. RemoteSize \in Nat /\ Len(bytes) \in Nat /\ base \in Nat /\ begin \in Nat
  BY CurlAssumption DEF TypeOK
<1>1. CASE CallMemory
  BY <1>1 DEF CallMemory, BeforeInv, TransferInv, ResumeInv, ProgressInv, ResultInv, Downloaded
<1>2. CASE CallFile
  BY <1>2 DEF CallFile, BeforeInv, TransferInv, ResumeInv, ProgressInv, ResultInv, Downloaded
<1>3. ASSUME NEW from \in 0..RemoteSize, NEW to \in 0..RemoteSize, CallSlice(from, to) PROVE DataInv'
  <2>1. /\ kind' = "slice" /\ before' = bytes /\ bytes' = bytes /\ refetched' = FALSE
        /\ pc' \in {"returned", "open"}
        /\ Len(bytes) <= base' /\ begin' \in Int /\ Len(bytes) <= begin' /\ attempts' = 0
    BY <1>3, <1>k DEF CallSlice, SetCurrentSizeBase, First, Larger, BeforeInv
  <2>2. pc' = "returned" /\ result' > 0 => Len(bytes) = RemoteSize
    BY <1>3, <1>k DEF CallSlice
  <2>3. BeforeInv' /\ TransferInv' /\ ResumeInv' /\ ProgressInv'
    BY <2>1 DEF BeforeInv, TransferInv, ResumeInv, ProgressInv
  <2>4. ResultInv'
    BY <1>k, <2>1, <2>2 DEF ResultInv, Downloaded, Nothing
  <2> QED
    BY <2>3, <2>4
<1>4. CASE NewBuffer
  BY <1>4 DEF NewBuffer, BeforeInv, TransferInv, ResumeInv, ProgressInv, ResultInv, Downloaded
<1>5. CASE NewProgress
  BY <1>5 DEF NewProgress, BeforeInv, TransferInv, ResumeInv, ProgressInv, ResultInv, Downloaded
<1>6. CASE QueryFails
  <2>1. pc' = "returned" /\ ~(result' > 0) /\ UNCHANGED <<kind, before>>
    BY <1>6 DEF QueryFails, Failed, NotFound
  <2> QED
    BY <2>1 DEF BeforeInv, TransferInv, ResumeInv, ProgressInv, ResultInv, Downloaded
<1>7. CASE QuerySize
  <2>1. /\ kind # "slice" /\ kind' = kind /\ bytes' = bytes /\ refetched' = FALSE
        /\ before' = before /\ before = IF kind = "file" THEN << >> ELSE bytes
        /\ pc' \in {"returned", "open"} /\ attempts' = 0
    BY <1>7 DEF QuerySize, BeforeInv
  <2>2. begin' = (IF kind = "memory" THEN Len(bytes) ELSE 0) /\ end' = RemoteSize - 1 /\ RemoteSize > 0
    BY <1>7, <1>k DEF QuerySize, First, Larger
  <2>3. /\ pc' = "returned" /\ result' > 0 => kind = "memory" /\ Len(bytes) = RemoteSize
        /\ kind = "memory" /\ pc' = "open" => Len(bytes) < RemoteSize
    BY <1>7, <1>k DEF QuerySize
  <2>4. BeforeInv' /\ TransferInv' /\ ProgressInv'
    BY <2>1 DEF BeforeInv, TransferInv, ProgressInv
  <2>5. ResumeInv'
    BY <1>k, <2>1, <2>2, <2>3 DEF ResumeInv, Resumed, TypeOK, Kinds
  <2>6. ResultInv'
    BY <1>k, <2>1, <2>2, <2>3 DEF ResultInv, Downloaded, Nothing
  <2> QED
    BY <2>4, <2>5, <2>6
<1>8. CASE OpenFails
  <2>1. pc' = "returned" /\ ~(result' > 0) /\ UNCHANGED <<kind, before>>
    BY <1>8 DEF OpenFails
  <2> QED
    BY <2>1 DEF BeforeInv, TransferInv, ResumeInv, ProgressInv, ResultInv, Downloaded
<1>9. CASE Open
  <2>1. /\ pc = "open" /\ pc' = "connect" /\ kind' = kind /\ bytes' = bytes /\ before' = before
        /\ kind = "file" => file' = << >>
        /\ UNCHANGED <<begin, end, refetched>>
    BY <1>9 DEF Open, Emptied
  <2>2. BeforeInv' /\ TransferInv'
    BY <2>1 DEF BeforeInv, TransferInv, Target
  <2>3. ResumeInv'
    BY <2>1 DEF ResumeInv, Resumed
  <2>4. ProgressInv'
    <3>1. kind = "memory" => Len(before) <= base'
      BY <1>9, <1>k, <2>1 DEF Open, SetCurrentSizeBase, BeforeInv
    <3>2. kind = "slice" => Len(before) <= base'
      BY <1>9, <2>1 DEF Open, ProgressInv
    <3>3. kind \in {"slice", "memory", "file"}
      BY DEF TypeOK, Kinds
    <3> QED
      BY <2>1, <3>1, <3>2, <3>3 DEF ProgressInv
  <2>5. ResultInv'
    BY <2>1 DEF ResultInv, Downloaded
  <2> QED
    BY <2>2, <2>3, <2>4, <2>5
<1> QED
  BY <1>1, <1>2, <1>3, <1>4, <1>5, <1>6, <1>7, <1>8, <1>9 DEF Call

LEMMA AttemptsKeep ==
  ASSUME TypeOK, DataInv, Attempt \/ Receive \/ Return \/ UNCHANGED vars
  PROVE  DataInv'
<1> USE DEF DataInv, callVars, bufVars, tryVars, progVars, handles
<1>k. /\ RemoteSize \in Nat /\ begin \in Nat /\ end \in Int
      /\ bytes \in Seq(Byte) /\ file \in Seq(Byte) /\ before \in Seq(Byte) /\ reply \in Seq(Byte)
      /\ Len(reply) \in Nat /\ got \in 0..Len(reply) /\ told \in 0..got
      /\ base \in Nat /\ remain \in Nat
  BY CurlAssumption DEF TypeOK
<1>f. ASSUME UNCHANGED <<kind, before>>, pc' = "returned", ~(result' > 0) PROVE DataInv'
  BY <1>f DEF BeforeInv, TransferInv, ResumeInv, ProgressInv, ResultInv, Downloaded
<1>1. CASE ConnectFails \/ TransferBreaks
  <2>1. Returns(Failed, 0)
    BY <1>1 DEF ConnectFails, TransferBreaks
  <2>2. pc' = "returned" /\ ~(result' > 0)
    BY <2>1, NegativeResults DEF Failed
  <2> QED
    BY <1>1, <1>f, <2>2 DEF ConnectFails, TransferBreaks
<1>2. CASE TransferDone
  <2>1. /\ pc = "transfer" /\ got = Len(reply) /\ told = got /\ reply \in Replies
        /\ UNCHANGED <<kind, begin, end, before, refetched, bytes, reply, base, remain>>
    BY <1>2 DEF TransferDone, TransferInv
  <2>2. CASE reply = <<Page>>
    <3>1. Returns(0, NotFound)
      BY <1>2, <2>2 DEF TransferDone
    <3> QED
      BY <1>f, <2>1, <3>1, NegativeResults DEF NotFound
  <2>3. CASE reply # <<Page>>
    <3>1. pc' = "returned"
      BY <1>2, <2>3 DEF TransferDone, Returns
    <3>2. SubSeq(reply, 1, got) = reply
      BY <1>k, <2>1, SubSeqFull
    <3>3. PICK n \in 0..Len(file) : /\ n = Len(file) \/ kind = "file"
                                    /\ file' = SubSeq(file, 1, n) /\ lost' = (n < Len(file))
      BY <1>2 DEF TransferDone
    <3>4. ~refetched => Target = before \o reply /\ Len(Target) = Len(before) + Len(reply)
      <4>1. Len(before \o reply) = Len(before) + Len(reply)
        BY <1>k, ConcatProperties
      <4> QED
        BY <2>1, <3>2, <4>1 DEF TransferInv
    <3>5. Len(Target') <= Len(Target) /\ (~lost' \/ kind # "file" => Target' = Target)
      <4>1. Len(SubSeq(file, 1, n)) = n /\ Len(file) \in Nat /\ Len(bytes) \in Nat
        BY <1>k, SubSeqProperties
      <4>2. n = Len(file) => SubSeq(file, 1, n) = file
        BY <1>k, SubSeqFull
      <4>3. CASE kind = "file"
        <5>1. Target' = SubSeq(file, 1, n) /\ Target = file
          BY <2>1, <3>3, <4>3 DEF Target
        <5>2. n <= Len(file) /\ (~(n < Len(file)) => n = Len(file))
          BY <4>1
        <5>3. ~lost' => Target' = Target
          BY <3>3, <4>2, <5>1, <5>2
        <5>4. Len(Target') = n /\ Len(Target) = Len(file)
          BY <4>1, <5>1
        <5> QED
          BY <4>3, <5>2, <5>3, <5>4
      <4>4. CASE kind # "file"
        <5>1. Target' = Target /\ Target = bytes
          BY <2>1, <4>4 DEF Target
        <5> QED
          BY <4>1, <4>4, <5>1
      <4> QED
        BY <4>3, <4>4
    <3>6. Len(before) + Len(reply) <= base + remain
      <4>1. Len(reply) <= remain
        BY <2>1 DEF ProgressInv
      <4>2. Len(before) <= base
        BY <1>k, <2>1 DEF ProgressInv, BeforeInv
      <4> QED
        BY <1>k, <4>1, <4>2
    <3>7. Replies' = Replies
      BY <2>1 DEF Replies, Asked, Whole, LastByte
    <3>8. ~refetched => Len(Target') <= base' + remain'
      <4>1. Len(Target') \in Nat /\ Len(before) \in Nat
        <5>1. SubSeq(file, 1, n) \in Seq(Byte)
          BY <1>k, SubSeqProperties
        <5>2. Target' \in Seq(Byte)
          BY <1>k, <2>1, <3>3, <5>1 DEF Target
        <5> QED
          BY <1>k, <5>2
      <4> QED
        BY <1>k, <2>1, <3>4, <3>5, <3>6, <4>1
    <3>9. kind # "slice" => Resumed'
      BY <2>1 DEF ResumeInv, Resumed
    <3>10. ~refetched => Earned'
      <4>1. ~refetched /\ (~lost' \/ kind # "file") => Target' = before \o reply
        BY <3>4, <3>5
      <4> QED
        BY <2>1, <2>3, <3>7, <3>8, <3>9, <4>1 DEF Earned
    <3>11. ResultInv'
      BY <2>1, <3>10 DEF ResultInv
    <3>12. BeforeInv' /\ TransferInv' /\ ResumeInv' /\ ProgressInv'
      BY <2>1, <3>1 DEF BeforeInv, TransferInv, ResumeInv, ProgressInv
    <3> QED
      BY <3>11, <3>12
  <2> QED
    BY <2>2, <2>3
<1>a. ASSUME AfterTimeout, UNCHANGED <<kind, begin, end, before>>, UNCHANGED bufVars, UNCHANGED base,
             pc \in {"connect", "transfer"}, ~refetched' => Target = before
      PROVE  DataInv'
  <2>1. CASE retry = 0
    <3>1. Returns(TimedOut, 0)
      BY <1>a, <2>1 DEF AfterTimeout
    <3>2. pc' = "returned" /\ ~(result' > 0)
      BY <3>1, NegativeResults DEF TimedOut
    <3> QED
      BY <1>a, <3>2 DEF BeforeInv, TransferInv, ResumeInv, ProgressInv, ResultInv, Downloaded
  <2>2. CASE retry # 0
    <3>1. pc' = "connect"
      BY <1>a, <2>2 DEF AfterTimeout
    <3>2. Target' = Target
      BY <1>a DEF Target
    <3> QED
      BY <1>a, <3>1, <3>2 DEF BeforeInv, TransferInv, ResumeInv, Resumed, ProgressInv, ResultInv, Downloaded
  <2> QED
    BY <2>1, <2>2
<1>3. CASE ConnectTimesOut
  BY <1>3, <1>a DEF ConnectTimesOut, TransferInv
<1>4. CASE TransferTimesOut
  <2>1. ASSUME ~refetched' PROVE Target = before
    <3>0. refetched' = (refetched \/ got > 0)
      BY <1>4 DEF TransferTimesOut
    <3>1. ~refetched /\ ~(got > 0)
      BY <2>1, <3>0
    <3>4. got = 0
      BY <1>k, <3>1
    <3>2. Target = before \o SubSeq(reply, 1, 0)
      BY <1>4, <3>1, <3>4 DEF TransferTimesOut, TransferInv
    <3>3. SubSeq(reply, 1, 0) = << >>
      BY <1>k, SubSeqEmpty
    <3> QED
      BY <1>k, <3>2, <3>3, ConcatEmptySeq
  <2> QED
    BY <1>4, <1>a, <2>1 DEF TransferTimesOut
<1>5. CASE ReplyBegins
  <2>1. /\ pc = "connect" /\ pc' = "transfer" /\ reply' \in Replies /\ got' = 0 /\ told' = 0
        /\ UNCHANGED <<kind, begin, end, before, refetched, bytes, file, base, remain>>
    BY <1>5 DEF ReplyBegins
  <2>2. Target' = Target /\ Replies' = Replies
    BY <2>1 DEF Target, Replies, Asked, Whole, LastByte
  <2>3. before \o SubSeq(reply', 1, got') = before
    <3>1. reply' \in Seq(Byte)
      BY <1>k, <2>1, ReplyType
    <3>2. SubSeq(reply', 1, 0) = << >>
      BY <3>1, SubSeqEmpty
    <3> QED
      BY <1>k, <2>1, <3>2, ConcatEmptySeq
  <2>4. TransferInv'
    BY <2>1, <2>2, <2>3 DEF TransferInv
  <2>5. BeforeInv' /\ ResumeInv' /\ ProgressInv' /\ ResultInv'
    BY <1>k, <2>1 DEF BeforeInv, ResumeInv, Resumed, ProgressInv, ResultInv, Downloaded
  <2> QED
    BY <2>4, <2>5
<1>6. CASE Receive
  <2>1. /\ pc = "transfer" /\ pc' = "transfer" /\ got < Len(reply) /\ got' = got + 1
        /\ UNCHANGED <<kind, begin, end, before, refetched, reply, told, base, remain>>
    BY <1>6 DEF Receive
  <2>2. Target' = Append(Target, reply[got + 1])
    BY <1>6 DEF Receive, Target
  <2>3. reply' \in Replies'
    BY <2>1 DEF TransferInv, Replies, Asked, Whole, LastByte
  <2>4. ~refetched => Target' = before \o SubSeq(reply, 1, got + 1)
    <3>1. got \in 0..(Len(reply) - 1)
      BY <1>k, <2>1
    <3>2. Append(before \o SubSeq(reply, 1, got), reply[got + 1]) = before \o SubSeq(reply, 1, got + 1)
      BY <1>k, <3>1, OneMore
    <3> QED
      BY <2>1, <2>2, <3>2 DEF TransferInv
  <2>5. TransferInv'
    BY <2>1, <2>3, <2>4 DEF TransferInv
  <2>6. BeforeInv' /\ ResumeInv' /\ ProgressInv' /\ ResultInv'
    BY <1>k, <2>1 DEF BeforeInv, ResumeInv, Resumed, ProgressInv, ResultInv, Downloaded
  <2> QED
    BY <2>5, <2>6
<1>9. CASE Progress
  <2>1. /\ pc = "transfer" /\ pc' = "transfer" /\ told' = got
        /\ UNCHANGED <<kind, begin, end, before, refetched, bytes, file, reply, got, base>>
    BY <1>9 DEF Progress
  <2>2. remain' = got
    BY <1>9, <1>k DEF Progress, SetCurrentSizeRemain
  <2>3. Target' = Target /\ Replies' = Replies
    BY <2>1 DEF Target, Replies, Asked, Whole, LastByte
  <2>4. BeforeInv' /\ ResumeInv' /\ ResultInv' /\ TransferInv'
    BY <2>1, <2>3 DEF BeforeInv, TransferInv, ResumeInv, Resumed, ResultInv, Downloaded
  <2>5. ProgressInv'
    BY <1>k, <2>1, <2>2 DEF ProgressInv
  <2> QED
    BY <2>4, <2>5
<1>7. CASE Return
  BY <1>7 DEF Return, BeforeInv, TransferInv, ResumeInv, ProgressInv, ResultInv, Downloaded
<1>8. CASE UNCHANGED vars
  <2>1. Target' = Target /\ Replies' = Replies /\ Resumed' = Resumed
    BY <1>8 DEF vars, Target, Replies, Asked, Whole, LastByte, Resumed
  <2>2. BeforeInv' /\ TransferInv' /\ ResumeInv' /\ ProgressInv'
    BY <1>8, <2>1 DEF vars, BeforeInv, TransferInv, ResumeInv, ProgressInv
  <2>3. Nothing' = Nothing /\ Earned' = Earned
    BY <1>8, <2>1 DEF vars, Nothing, Earned
  <2>4. ResultInv'
    BY <1>8, <2>3 DEF vars, ResultInv, Downloaded
  <2> QED
    BY <2>2, <2>4
<1> QED
  BY <1>1, <1>2, <1>3, <1>4, <1>5, <1>6, <1>7, <1>8, <1>9 DEF Attempt

LEMMA InitHolds == Init => IInv
<1> SUFFICES ASSUME Init PROVE IInv
  OBVIOUS
<1>1. TypeOK
  <2>1. 0 \in 0..RetryCount /\ << >> \in Seq(Byte) /\ Len(<< >>) = 0
    BY CurlAssumption
  <2>2. got \in 0..Len(reply) /\ told \in 0..got /\ retry \in 0..RetryCount
    BY <2>1 DEF Init
  <2>3. bytes \in Seq(Byte) /\ file \in Seq(Byte) /\ before \in Seq(Byte) /\ reply \in Seq(Byte)
    BY <2>1 DEF Init
  <2>4. /\ pc = "idle" /\ kind = "memory" /\ begin \in Nat /\ end \in Int /\ attempts \in Nat
        /\ base \in Nat /\ remain \in Nat /\ result \in Int
        /\ refetched = FALSE /\ lost = FALSE /\ curl_open = FALSE /\ file_open = FALSE
    BY DEF Init
  <2> QED
    BY <2>2, <2>3, <2>4 DEF TypeOK, Kinds
<1>2. BeforeInv /\ TransferInv /\ ResumeInv /\ ProgressInv /\ ResultInv
  BY DEF Init, BeforeInv, TransferInv, ResumeInv, ProgressInv, ResultInv, Downloaded
<1> QED
  BY <1>1, <1>2 DEF IInv

LEMMA StepKeeps == IInv /\ [Next]_vars => IInv'
<1> SUFFICES ASSUME IInv, [Next]_vars PROVE IInv'
  OBVIOUS
<1>1. TypeOK'
  BY TypeKeeps DEF IInv
<1>2. DataInv'
  BY CallsKeep, AttemptsKeep DEF IInv, DataInv, Next
<1> QED
  BY <1>1, <1>2 DEF IInv, DataInv

-----------------------------------------------------------------------------
(* The type invariant of the downloads of ComexCurl. *)
THEOREM TypeCorrect == Spec => []TypeOK
<1>1. IInv => TypeOK
  BY DEF IInv
<1> QED
  BY <1>1, InitHolds, StepKeeps, PTL DEF Spec

(* A download that reports success has added exactly the range it asked for,
   or, of a slice and with a server that ignores ranges, exactly the whole file;
   a resumed download to memory completes what failed calls left; and a
   CurlProgress is never behind what it was told of, nor, after a success,
   behind all that is there: with the exceptions ExactlyTheRange names. *)
THEOREM DownloadCorrect == Spec => []ExactlyTheRange
<1>k. IInv => /\ RemoteSize \in Nat /\ begin \in Nat /\ end \in Int /\ Len(before) \in Nat
              /\ before \in Seq(Byte) /\ kind \in Kinds /\ base \in Nat /\ remain \in Nat
              /\ told \in Nat
              /\ kind = "file" => before = << >>
  BY CurlAssumption DEF IInv, TypeOK, BeforeInv
<1>1. IInv => AddsRange
  <2> SUFFICES ASSUME IInv, Downloaded, ~refetched, ~lost, begin <= LastByte
               PROVE  Target = before \o IF Ignored THEN Whole ELSE Asked
    BY DEF AddsRange
  <2>1. ~(begin >= RemoteSize)
    BY <1>k DEF LastByte, Smaller
  <2>2. Earned
    BY <2>1 DEF IInv, ResultInv, Nothing
  <2>3. Target = before \o reply /\ reply \in Replies /\ reply # <<Page>>
    BY <2>2 DEF Earned
  <2>4. CASE kind = "slice"
    <3>1. reply \in {Asked, Whole}
      BY <2>3 DEF Replies
    <3> QED
      BY <2>3, <2>4, <3>1 DEF Ignored
  <2>5. CASE kind # "slice"
    <3>1. Resumed /\ before \in Seq(Byte) /\ kind \in {"memory", "file"}
      BY <1>k, <2>2, <2>5 DEF Earned, Kinds
    <3>2. kind = "file" => before = << >>
      BY <1>k
    <3>3. reply = Asked
      BY <2>3, <3>1, <3>2, RestIsSent
    <3> QED
      BY <2>3, <2>5, <3>3 DEF Ignored
  <2> QED
    BY <2>4, <2>5
<1>2. IInv => ResumeCompletes
  <2> SUFFICES ASSUME IInv, Downloaded, ~refetched, kind = "memory",
                      before = Remote(0, Len(before) - 1)
               PROVE  bytes = Whole
    BY DEF ResumeCompletes
  <2>1. CASE Nothing
    BY <2>1 DEF Nothing, Whole
  <2>2. CASE Earned
    <3>1. bytes = before \o reply /\ reply \in Replies /\ reply # <<Page>> /\ Resumed
      BY <2>2 DEF Earned, Target
    <3>2. reply = Remote(Len(before), RemoteSize - 1)
      BY <1>k, <3>1, RestIsSent
    <3>3. bytes = Remote(0, Len(before) - 1) \o Remote(Len(before), RemoteSize - 1)
      BY <3>1, <3>2
    <3>4. Len(before) \in 0..RemoteSize
      BY <1>k, <3>1 DEF Resumed
    <3> QED
      BY <3>3, <3>4, RemoteJoins DEF Whole
  <2> QED
    BY <2>1, <2>2 DEF IInv, ResultInv
<1>3. IInv => ProgressNeverBehind
  <2>1. ASSUME IInv, ~refetched, pc = "transfer" PROVE base + remain >= Len(before) + told
    <3>1. told <= remain /\ (kind # "file" => Len(before) <= base)
      BY <2>1 DEF IInv, ProgressInv
    <3>2. base \in Nat /\ remain \in Nat /\ told \in Nat /\ Len(before) \in Nat
      BY <1>k, <2>1
    <3>3. kind = "file" => Len(before) = 0
      <4>1. kind = "file" => before = << >>
        BY <1>k, <2>1
      <4> QED
        BY <4>1
    <3>4. Len(before) <= base
      BY <3>1, <3>2, <3>3
    <3> QED
      BY <3>1, <3>2, <3>4
  <2>2. ASSUME IInv, ~refetched, Downloaded, attempts > 0 PROVE base + remain >= Len(Target)
    <3>1. Earned
      BY <2>2 DEF IInv, ResultInv, Nothing
    <3>2. Len(Target) \in Nat
      BY <2>2 DEF IInv, TypeOK, Target
    <3> QED
      BY <1>k, <2>2, <3>1, <3>2 DEF Earned
  <2> QED
    BY <2>1, <2>2 DEF ProgressNeverBehind
<1> QED
  BY <1>1, <1>2, <1>3, InitHolds, StepKeeps, PTL DEF Spec, ExactlyTheRange

=============================================================================
