--------------------------- MODULE CurlDownload ---------------------------
(***************************************************************************)
(* The downloads of ComexCurl (comex_curl.cpp), one call after the other   *)
(* on one object, one memory buffer, one file and one CurlProgress:        *)
(*   "slice"   download(url, remote_file_size, bytes, begin, end, progress) *)
(*   "memory"  download(url, bytes, progress), resumes what bytes holds     *)
(*   "file"    download(url, file_path, progress), from the start           *)
(* Each asks for a range, writes what comes where it has to go, and tries   *)
(* again after a timeout.                                                   *)
(*                                                                         *)
(* A byte of the remote file is its position; Page is a byte of the page    *)
(* that a server sends with an error status.  A block that libcurl hands to  *)
(* a write callback is one byte here; the progress callback comes apart from *)
(* it, and another thread may ask the CurlProgress between the two.          *)
(***************************************************************************)
EXTENDS Integers, Sequences

CONSTANTS RemoteSize,    \* bytes of the remote file
          RetryCount,    \* setRetryCount
          TotalTimeout,  \* setReceiveTimeout gave a positive time
          IntHalf        \* an int holds -IntHalf..IntHalf-1; 2^31 in the code

ASSUME CurlAssumption ==
  /\ RemoteSize \in Nat /\ RetryCount \in Nat /\ IntHalf \in Nat \ {0}
  /\ TotalTimeout \in BOOLEAN

Kinds == {"slice", "memory", "file"}

VARIABLES
  pc,                   \* "idle", "query", "open", "connect", "transfer", "returned"
  kind, begin, end,     \* the call and its range, -1 for none
  bytes, file,          \* the memory buffer; the file
  retry, attempts,      \* the loop's variable; transfers started
  reply, got, told,     \* what the server sends in this transfer, how much of it came, and
                        \* with how much the progress callback was called last
  base, remain,         \* cur_size_base and cur_size_remain of the CurlProgress
  curl_open, file_open, \* handles this call holds
  result,               \* what the call returns
  before,               \* history: the target when the call began
  refetched,            \* history: a transfer of the call timed out with bytes written
  lost                  \* history: the disk did not take all that was written to the file

bufVars  == <<bytes, file>>
callVars == <<kind, begin, end, before, refetched, lost>>
tryVars  == <<retry, attempts, reply, got, told>>
progVars == <<base, remain>>
handles  == <<curl_open, file_open>>
vars     == <<pc, callVars, bufVars, tryVars, progVars, handles, result>>


Page == -1
Byte == {Page} \cup 0..(RemoteSize - 1)

(* The bytes first..last of the remote file. *)
Remote(first, last) == [i \in 1..(last - first + 1) |-> first + i - 1]

Smaller(x, y) == IF x < y THEN x ELSE y
Larger(x, y)  == IF x < y THEN y ELSE x
Target        == IF kind = "file" THEN file ELSE bytes

(* The codes of CURL and HTTP that the control flow tells apart; the first
   stands for every failure that is not a timeout. *)
Failed   == 7
TimedOut == 28
NotFound == 404

Init ==
  /\ pc = "idle" /\ kind = "memory" /\ begin = 0 /\ end = 0 /\ before = << >>
  /\ refetched = FALSE /\ lost = FALSE
  /\ bytes = << >> /\ file = << >>
  /\ retry = 0 /\ attempts = 0 /\ reply = << >> /\ got = 0 /\ told = 0
  /\ base = 0 /\ remain = 0
  /\ curl_open = FALSE /\ file_open = FALSE
  /\ result = 0

-----------------------------------------------------------------------------
(* CurlProgress: its setters ignore what is not positive. *)

(* (Mutated form: the size at the start of the call is not noted.) *)
BaseIgnored(size)          == base' = base
SetCurrentSizeBase(size)   == base' = IF size > 0 THEN size ELSE base
SetCurrentSizeRemain(size) == remain' = IF size > 0 THEN size ELSE remain

(* The application takes another buffer, or another CurlProgress. *)
NewBuffer ==
  /\ pc = "idle"
  /\ bytes # << >>
  /\ bytes' = << >>
  /\ UNCHANGED <<pc, callVars, file, tryVars, progVars, handles, result>>

NewProgress ==
  /\ pc = "idle"
  /\ progVars # <<0, 0>>
  /\ base' = 0 /\ remain' = 0
  /\ UNCHANGED <<pc, callVars, bufVars, tryVars, handles, result>>

-----------------------------------------------------------------------------
(* The calls, up to the first transfer. *)

(* What the buffer holds decides: too much, everything, or where to go on.
   (Mutated form: the transfer starts at the beginning of the range again.) *)
FirstRestarted(from) == from
First(from)          == Larger(from, Len(bytes))

CallSlice(from, to) ==
  /\ pc = "idle"
  /\ kind' = "slice"
  /\ before' = bytes /\ refetched' = FALSE /\ lost' = FALSE
  /\ SetCurrentSizeBase(Len(bytes))
  /\ begin' = First(from)
  /\ end' = Smaller(to, RemoteSize)
  /\ IF Len(bytes) > RemoteSize THEN pc' = "returned" /\ result' = -101
     ELSE IF Len(bytes) = RemoteSize THEN pc' = "returned" /\ result' = RemoteSize
     ELSE pc' = "open" /\ result' = result
  /\ UNCHANGED <<bufVars, tryVars, remain, handles>>

CallMemory ==
  /\ pc = "idle"
  /\ kind' = "memory"
  /\ before' = bytes /\ refetched' = FALSE /\ lost' = FALSE
  /\ pc' = "query"
  /\ UNCHANGED <<begin, end, bufVars, tryVars, progVars, handles, result>>

CallFile ==
  /\ pc = "idle"
  /\ kind' = "file"
  /\ before' = << >> /\ refetched' = FALSE /\ lost' = FALSE
  /\ pc' = "query"
  /\ UNCHANGED <<begin, end, bufVars, tryVars, progVars, handles, result>>

(* getRemoteFileSize: HEAD, and GET when that does not tell. *)
QueryFails ==
  /\ pc = "query"
  /\ result' \in {-Failed, -NotFound, -200}
  /\ pc' = "returned"
  /\ UNCHANGED <<callVars, bufVars, tryVars, progVars, handles>>

QuerySize ==
  /\ pc = "query"
  /\ RemoteSize > 0
  /\ begin' = IF kind = "memory" THEN First(0) ELSE 0
  /\ end' = RemoteSize - 1
  /\ IF kind = "memory" /\ Len(bytes) > RemoteSize THEN pc' = "returned" /\ result' = -101
     ELSE IF kind = "memory" /\ Len(bytes) = RemoteSize THEN pc' = "returned" /\ result' = RemoteSize
     ELSE pc' = "open" /\ result' = result
  /\ UNCHANGED <<kind, before, refetched, lost, bufVars, tryVars, progVars, handles>>

(* com_file_open with "wb+" or curl_easy_init fails; the file is empty when
   only the latter does. *)
OpenFails ==
  /\ pc = "open"
  /\ \/ result' = -103 /\ file' = IF kind = "file" THEN << >> ELSE file
     \/ kind = "file" /\ result' = -105 /\ file' = file
  /\ pc' = "returned"
  /\ UNCHANGED <<callVars, bytes, tryVars, progVars, handles>>

(* (Mutated form: the file is opened to append.) *)
Reopened == file
Emptied  == << >>

Open ==
  /\ pc = "open"
  /\ file' = IF kind = "file" THEN Emptied ELSE file
  /\ curl_open' = TRUE
  /\ file_open' = (kind = "file")
  /\ IF kind = "memory" THEN SetCurrentSizeBase(Len(bytes)) ELSE base' = base
  /\ retry' = RetryCount
  /\ attempts' = 1
  /\ pc' = "connect"
  /\ UNCHANGED <<callVars, bytes, reply, got, told, remain, result>>

-----------------------------------------------------------------------------
(* The loop of transfers. *)

(* (Mutated form: a failed transfer leaves its handle open.) *)
KeptIfFailed(ret) == ret # 0 /\ curl_open
Cleaned(ret)      == FALSE

ToInt(x) == ((x + IntHalf) % (2 * IntHalf)) - IntHalf

(* The call returns after a transfer that ended with ret and, if that is 0,
   with the HTTP status code; the size of a file is that on the disk. *)
Returns(ret, code) ==
  /\ result' = IF ret # 0 THEN -ret
               ELSE IF code = NotFound THEN -code
               ELSE IF kind = "file" THEN ToInt(Len(file'))
               ELSE Len(bytes)
  /\ curl_open' = Cleaned(ret)
  /\ file_open' = FALSE
  /\ pc' = "returned"

(* (Mutated forms: the loop's variable does not go down, or goes down twice.) *)
RetryKept  == retry
RetryTwice == retry - 2
RetryNext  == retry - 1

(* A timeout, and while(retry--).  Bound: attempts counts to one more than is
   allowed. *)
AfterTimeout ==
  IF retry = 0
  THEN Returns(TimedOut, 0) /\ UNCHANGED <<retry, attempts>>
  ELSE /\ retry' = RetryNext
       /\ attempts' = Smaller(attempts + 1, RetryCount + 2)
       /\ pc' = "connect"
       /\ UNCHANGED <<handles, result>>

ConnectFails ==
  /\ pc = "connect"
  /\ Returns(Failed, 0)
  /\ UNCHANGED <<callVars, bufVars, tryVars, progVars>>

ConnectTimesOut ==
  /\ pc = "connect"
  /\ AfterTimeout
  /\ UNCHANGED <<callVars, bufVars, reply, got, told, progVars>>

(* What a server sends: the range, or the page of an error, or the whole file:
   one that ignores Range, or gets a range that ends before it begins.  A slice
   takes every 2xx (line 740); for a download to memory that resumes libcurl
   itself fails unless the answer is the rest (CURLOPT_RESUME_FROM_LARGE). *)
LastByte == Smaller(end, RemoteSize - 1)
Asked    == Remote(begin, LastByte)
Whole    == Remote(0, RemoteSize - 1)
Replies  == {<<Page>>} \cup (IF begin <= LastByte THEN {Asked} ELSE {})
                       \cup (IF kind = "memory" /\ begin > 0 THEN {} ELSE {Whole})

ReplyBegins ==
  /\ pc = "connect"
  /\ reply' \in Replies
  /\ got' = 0 /\ told' = 0
  /\ pc' = "transfer"
  /\ UNCHANGED <<callVars, bufVars, retry, attempts, progVars, handles, result>>

(* The write callback. *)
Receive ==
  /\ pc = "transfer"
  /\ got < Len(reply)
  /\ IF kind = "file"
     THEN file' = Append(file, reply[got + 1]) /\ bytes' = bytes
     ELSE bytes' = Append(bytes, reply[got + 1]) /\ file' = file
  /\ got' = got + 1
  /\ UNCHANGED <<pc, callVars, retry, attempts, reply, told, progVars, handles, result>>

(* The progress callback, when libcurl likes, a block or more after the write
   callback. *)
Progress ==
  /\ pc = "transfer"
  /\ told < got
  /\ told' = got
  /\ SetCurrentSizeRemain(got)
  /\ UNCHANGED <<pc, callVars, bufVars, retry, attempts, reply, got, base, handles, result>>

(* The transfer is complete; libcurl calls the progress callback for the last
   time before it returns.  What the flush of the last block and the close
   cannot write is not in the file, and nobody asks them (93, 1002, 1003). *)
TransferDone ==
  /\ pc = "transfer"
  /\ got = Len(reply) /\ told = got
  /\ \E n \in 0..Len(file) :
       /\ n = Len(file) \/ kind = "file"
       /\ file' = SubSeq(file, 1, n)
       /\ lost' = (n < Len(file))
  /\ Returns(0, IF reply = <<Page>> THEN NotFound ELSE 200)
  /\ UNCHANGED <<kind, begin, end, before, refetched, bytes, tryVars, progVars>>

TransferBreaks ==
  /\ pc = "transfer"
  /\ Returns(Failed, 0)
  /\ UNCHANGED <<callVars, bufVars, tryVars, progVars>>

TransferTimesOut ==
  /\ pc = "transfer"
  /\ TotalTimeout
  /\ AfterTimeout
  /\ refetched' = (refetched \/ got > 0)
  /\ UNCHANGED <<kind, begin, end, before, lost, bufVars, reply, got, told, progVars>>

(* The call's own variables end with it. *)
Return ==
  /\ pc = "returned"
  /\ pc' = "idle"
  /\ kind' = "memory" /\ begin' = 0 /\ end' = 0 /\ before' = << >>
  /\ refetched' = FALSE /\ lost' = FALSE
  /\ retry' = 0 /\ attempts' = 0 /\ reply' = << >> /\ got' = 0 /\ told' = 0
  /\ result' = 0
  /\ UNCHANGED <<bufVars, progVars, handles>>

Call == CallMemory \/ CallFile \/ \E from, to \in 0..RemoteSize : from <= to /\ from < RemoteSize /\ CallSlice(from, to)

Attempt ==
  ConnectFails \/ ConnectTimesOut \/ ReplyBegins \/ Progress \/ TransferDone \/ TransferBreaks \/ TransferTimesOut

Next == Call \/ NewBuffer \/ NewProgress \/ QueryFails \/ QuerySize \/ OpenFails \/ Open \/ Receive \/ Attempt \/ Return

Spec == Init /\ [][Next]_vars

(* The connection timeout bounds "connect", the receive timeout the transfer;
   nothing bounds the two requests of getRemoteFileSize. *)
FairSpec ==
  /\ Spec
  /\ WF_vars(OpenFails \/ Open) /\ WF_vars(ConnectTimesOut) /\ WF_vars(TransferTimesOut) /\ WF_vars(Return)

-----------------------------------------------------------------------------
TypeOK ==
  /\ pc \in {"idle", "query", "open", "connect", "transfer", "returned"}
  /\ kind \in Kinds /\ begin \in Nat /\ end \in Int
  /\ bytes \in Seq(Byte) /\ file \in Seq(Byte) /\ before \in Seq(Byte)
  /\ retry \in 0..RetryCount /\ attempts \in Nat
  /\ reply \in Seq(Byte) /\ got \in 0..Len(reply) /\ told \in 0..got
  /\ base \in Nat /\ remain \in Nat
  /\ refetched \in BOOLEAN /\ lost \in BOOLEAN /\ curl_open \in BOOLEAN /\ file_open \in BOOLEAN
  /\ result \in Int

Downloaded == pc = "returned" /\ result > 0

(* A download that reports success has added exactly the range it asked for to
   what its target held, in whatever way earlier calls failed and however often
   it timed out: if the server honours the range.  A server that ignores the
   range of a slice makes it add the whole file, neither less nor more.  Not
   said of a call one of whose transfers timed out with bytes written, of a file
   the disk did not take all of, and of a range that has no byte left. *)
Ignored   == kind = "slice" /\ reply = Whole
AddsRange ==
  Downloaded /\ ~refetched /\ ~lost /\ begin <= LastByte =>
    Target = before \o IF Ignored THEN Whole ELSE Asked

(* A buffer that holds the beginning of the remote file is completed by the
   next download that reports success, whatever happened to those before,
   unless one of its own transfers timed out with bytes written. *)
ResumeCompletes ==
  Downloaded /\ ~refetched /\ kind = "memory" /\ before = Remote(0, Len(before) - 1) => bytes = Whole

(* What another thread reads from a CurlProgress, used for any number of calls:
   during a transfer it is never behind what was there when the call began and
   what the progress callback was told of since, and once a download reports
   success after a transfer, never behind all that is there.  Again unless bytes
   were fetched twice. *)
ProgressNeverBehind ==
  /\ ~refetched /\ pc = "transfer" => base + remain >= Len(before) + told
  /\ ~refetched /\ Downloaded /\ attempts > 0 => base + remain >= Len(Target)

(* What a download reports is so: these three. *)
ExactlyTheRange == AddsRange /\ ResumeCompletes /\ ProgressNeverBehind

(* Once the size of the remote file is known, the call returns, with the CURL
   handle cleaned up and the file closed: with a receive timeout, whatever the
   server does. *)
CallReturns ==
  pc \in {"open", "connect", "transfer"} ~> pc = "idle" /\ ~curl_open /\ ~file_open

(* The doc of download to a file says that a positive result is the number of
   bytes downloaded to it: then the file is the remote file, a full disk
   apart. *)
FileIsDownloaded == Downloaded /\ ~lost /\ kind = "file" => file = Whole
=============================================================================
