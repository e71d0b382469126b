---------------------------- MODULE StreamClient ----------------------------
(***************************************************************************)
(* ComexTcpClient and ComexPipeClient (comex_socket.cpp): a stream socket  *)
(* on libuv's default loop, run by a thread of its own, that connects      *)
(* again a second after its connection failed or ended.                    *)
(*                                                                         *)
(* The loop owns every handle.  The owner and the senders reach it only    *)
(* through asynchronous handles, whose callbacks run in the order they     *)
(* were made.  libuv is external: uv_close finishes in a later phase of    *)
(* the loop, the loop ends when no handle is active, and closing a handle  *)
(* twice or using a unusable one breaks a rule that it only asserts: "misuse",*)
(* after which the model says nothing more of the client.                  *)
(***************************************************************************)
EXTENDS StreamNet

CONSTANTS MaxStarts,  \* bound: startClient calls
          MaxStops    \* bound: stopClient calls

ASSUME StreamClientAssumption == MaxStarts \in Nat /\ MaxStops \in Nat

VARIABLES
  cowner,    \* the owner: "none", "started", "joining" (in stopClient), "stopped"
  cloop,     \* thread_loop: "none", "starting", "running", "ended"
  handle,    \* what handle_tcp / handle_pipe points to, see Handle
  conn,      \* the connection of that handle
  writes,    \* chunks that wait in it for the connection
  timers,    \* timers of reconnect() that are set
  casyncs,   \* asynchronous handles sent to the loop
  cclosing,  \* uv_close of a timer or an async has not finished
  ups,       \* onConnectionChanged(true) calls since the last one with false
  received,  \* what onRecv got
  misuse,
  cstarts, cstops, attempts, sends,  \* counters for the bounds
  unusable,  \* history: the starts whose handle was deleted or never initialised
  gaveUp,    \* history: a connect() since the start failed at once
  walked     \* history: the loop closed its handles for a stop since the start

ownerVars  == <<cowner, cstarts, cstops>>
streamVars == <<handle, conn, writes, attempts, gaveUp>>
clientVars == <<ownerVars, cloop, streamVars, timers, casyncs, cclosing, ups, received, misuse,
                sends, unusable, walked>>

(* "none": never set; "fresh": not yet initialised; "idle": initialised and
   inactive; "closing": its callback will reconnect; "dropped": its callback
   will delete it. *)
Handle == {"none", "fresh", "idle", "connecting", "open", "closing", "closed", "dropped",
           "deleted"}
Async  == [op : {"send"}, chunk : Chunk, start : 0..MaxStarts] \cup [op : {"stop"}]

ClientInit ==
  /\ cowner = "none" /\ cloop = "none"
  /\ handle = "none" /\ conn = 0 /\ writes = << >>
  /\ timers = 0 /\ casyncs = << >> /\ cclosing = FALSE
  /\ ups = 0 /\ received = << >> /\ misuse = FALSE
  /\ cstarts = 0 /\ cstops = 0 /\ attempts = 0 /\ sends = 0
  /\ unusable = {0} /\ gaveUp = FALSE /\ walked = FALSE

ClientTypeOK ==
  /\ cowner \in {"none", "started", "joining", "stopped"}
  /\ cloop \in {"none", "starting", "running", "ended"}
  /\ handle \in Handle /\ conn \in 0..MaxConnections /\ writes \in Seq(Chunk)
  /\ timers \in Nat /\ casyncs \in Seq(Async) /\ cclosing \in BOOLEAN
  /\ ups \in Nat /\ received \in Seq(Reply) /\ misuse \in BOOLEAN
  /\ cstarts \in 0..MaxStarts /\ cstops \in 0..MaxStops
  /\ attempts \in 0..MaxConnections /\ sends \in 0..MaxSends
  /\ unusable \subseteq 0..MaxStarts /\ gaveUp \in BOOLEAN /\ walked \in BOOLEAN

Running == cloop = "running" /\ ~misuse

-----------------------------------------------------------------------------
(* Connecting. *)

(* The request is made: uv_tcp_connect, uv_pipe_connect. *)
Request ==
  /\ attempts < MaxConnections
  /\ attempts' = attempts + 1
  /\ conn' = attempts'
  /\ net' = ClientEnd(attempts', "connecting")
  /\ handle' = "connecting"
  /\ UNCHANGED gaveUp

(* ComexTcpClient::connect: the host has no address, before the handle is
   initialised, or uv_tcp_connect fails at once, after it. *)
TcpConnect ==
  \/ Request
  \/ /\ handle' \in {handle, "idle"}
     /\ gaveUp' = TRUE
     /\ UNCHANGED <<net, conn, attempts>>

(* ComexPipeClient::connect: whatever fails is told to the callback. *)
PipeConnect == Request

Connect == IF kind = "tcp" THEN TcpConnect ELSE PipeConnect

(* ComexTcpClient::startClient: the new thread connects. *)
StartTcpClient ==
  /\ kind = "tcp"
  /\ handle' = "fresh"
  /\ cloop' = "starting"
  /\ gaveUp' = FALSE
  /\ UNCHANGED <<net, conn, attempts>>

(* ComexPipeClient::startClient: connects, then starts the thread. *)
StartPipeClient ==
  /\ kind = "pipe"
  /\ Request
  /\ cloop' = "running"

StartClient ==
  /\ ~misuse
  /\ cowner \in {"none", "stopped"}
  /\ cstarts < MaxStarts
  /\ StartTcpClient \/ StartPipeClient
  /\ cstarts' = cstarts + 1
  /\ cowner' = "started"
  /\ writes' = << >>
  /\ walked' = FALSE
  /\ unusable' = IF handle = "fresh" THEN unusable \cup {cstarts} ELSE unusable
  /\ UNCHANGED <<kind, listening, cstops, timers, casyncs, cclosing, ups, received, misuse,
                 sends>>

FirstConnect ==
  /\ ~misuse
  /\ cloop = "starting"
  /\ TcpConnect
  /\ cloop' = "running"
  /\ UNCHANGED <<kind, listening, ownerVars, writes, timers, casyncs, cclosing, ups, received,
                 misuse, sends, unusable, walked>>

(* The timer of reconnect(); timers run when nothing waits to be closed. *)
TimerFires ==
  /\ Running
  /\ timers > 0
  /\ ~cclosing /\ handle \notin {"closing", "dropped"}
  /\ Connect
  /\ timers' = timers - 1
  /\ cclosing' = TRUE
  /\ UNCHANGED <<kind, listening, ownerVars, cloop, writes, casyncs, ups, received, misuse,
                 sends, unusable, walked>>

-----------------------------------------------------------------------------
(* The callbacks of the connection.  (Mutated form: the data that waited is
   sent a second time.) *)
FlushedTwice == writes \o writes
Flushed      == writes

Connected ==
  /\ Running
  /\ handle = "connecting"
  /\ listening = "listening"
  /\ handle' = "open"
  /\ ups' = ups + 1
  /\ net' = [net EXCEPT ![conn].client = "open", ![conn].up = Flushed]
  /\ writes' = << >>
  /\ UNCHANGED <<kind, listening, ownerVars, cloop, conn, attempts, gaveUp, timers, casyncs,
                 cclosing, received, misuse, sends, unusable, walked>>

(* It reports the failure and closes the handle; what waited is cancelled. *)
ConnectRefused ==
  /\ Running
  /\ handle = "connecting"
  /\ kind = "tcp" \/ listening # "listening"
  /\ handle' = "closing"
  /\ ups' = 0
  /\ net' = Refused(conn)
  /\ writes' = << >>
  /\ UNCHANGED <<kind, listening, ownerVars, cloop, conn, attempts, gaveUp, timers, casyncs,
                 cclosing, received, misuse, sends, unusable, walked>>

ReadData ==
  /\ Running
  /\ handle = "open"
  /\ \E n \in 1..Len(net[conn].down) :
       /\ received' = received \o SubSeq(net[conn].down, 1, n)
       /\ net' = [net EXCEPT ![conn].down = SubSeq(@, n + 1, Len(@))]
  /\ UNCHANGED <<kind, listening, ownerVars, cloop, streamVars, timers, casyncs, cclosing, ups,
                 misuse, sends, unusable, walked>>

ReadEnd ==
  /\ Running
  /\ handle = "open"
  /\ ClientSeesEnd(conn)
  /\ handle' = "closing"
  /\ net' = ClientEnd(conn, "closed")
  /\ UNCHANGED <<kind, listening, ownerVars, cloop, conn, writes, attempts, gaveUp, timers,
                 casyncs, cclosing, ups, received, misuse, sends, unusable, walked>>

-----------------------------------------------------------------------------
(* sendData: from any thread.  Before the first start it reads handle_tcp,
   which no constructor sets: it refuses (NULL), or sends to a wild pointer. *)
SendData ==
  /\ ~misuse
  /\ sends < MaxSends
  /\ sends' = sends + 1
  /\ \/ casyncs' = Append(casyncs, [op |-> "send", chunk |-> sends', start |-> cstarts])
     \/ handle = "none" /\ UNCHANGED casyncs
  /\ UNCHANGED <<kind, listening, net, ownerVars, cloop, streamVars, timers, cclosing, ups,
                 received, misuse, unusable, walked>>

(* Its callback on the loop: uv_write to the handle it was given.  A handle
   that connects keeps the data; a closed one, or the handle of an earlier
   start that was never deleted, refuses it. *)
Writable(a) == a.start = cstarts /\ handle # "fresh"

SendRuns ==
  /\ Running
  /\ casyncs # << >>
  /\ LET a == Head(casyncs) IN
       /\ a.op = "send"
       /\ misuse' = (a.start \in unusable \/ (a.start = cstarts /\ handle = "fresh"))
       /\ IF ~misuse' /\ Writable(a) /\ handle = "connecting"
          THEN writes' = Append(writes, a.chunk) /\ UNCHANGED net
          ELSE IF ~misuse' /\ Writable(a) /\ handle = "open"
          THEN net' = Upward(conn, <<a.chunk>>) /\ UNCHANGED writes
          ELSE UNCHANGED <<net, writes>>
  /\ casyncs' = Tail(casyncs)
  /\ cclosing' = TRUE
  /\ UNCHANGED <<kind, listening, ownerVars, cloop, handle, conn, attempts, gaveUp, timers, ups,
                 received, sends, unusable, walked>>

-----------------------------------------------------------------------------
(* stopClient (and the destructor): an async, and a join if a thread was
   started.  Without one the async stays with the default loop. *)
StopClient ==
  /\ ~misuse
  /\ cowner # "joining"
  /\ cstops < MaxStops
  /\ cstops' = cstops + 1
  /\ casyncs' = Append(casyncs, [op |-> "stop"])
  /\ cowner' = IF cowner = "started" THEN "joining" ELSE cowner
  /\ UNCHANGED <<kind, listening, net, cstarts, cloop, streamVars, timers, cclosing, ups,
                 received, misuse, sends, unusable, walked>>

(* Its callback closes every handle of the loop, itself included, without
   asking whether a handle is being closed already.  A handle that still
   connects is closed again by its own callback, with UV_ECANCELED.
   (Mutated form: one timer is closed, set or not.) *)
TimersLess  == timers - 1
TimersAfter == 0

StopRuns ==
  /\ Running
  /\ casyncs # << >>
  /\ Head(casyncs).op = "stop"
  /\ misuse' = (cclosing \/ handle \in {"closing", "dropped", "connecting"})
  /\ handle' = IF handle \in {"open", "idle"} THEN "dropped" ELSE handle
  /\ net' = IF handle = "open" THEN ClientEnd(conn, "closed") ELSE net
  /\ timers' = TimersAfter
  /\ casyncs' = << >>
  /\ cclosing' = TRUE
  /\ walked' = TRUE
  /\ UNCHANGED <<kind, listening, ownerVars, cloop, conn, writes, attempts, gaveUp, ups, received,
                 sends, unusable>>

(* What the callback of a closed connection does.  (Mutated forms: it does not
   report the end; it does not reconnect.) *)
UpsKept    == ups
UpsAfter   == 0
NoTimer    == timers
TimerAdded == timers + 1

(* The closing phase of the loop. *)
RunClosing ==
  /\ Running
  /\ cclosing \/ handle \in {"closing", "dropped"}
  /\ cclosing' = FALSE
  /\ CASE handle = "closing" ->
            /\ handle' = "closed" /\ ups' = UpsAfter /\ timers' = TimerAdded
            /\ UNCHANGED unusable
       [] handle = "dropped" ->
            /\ handle' = "deleted" /\ unusable' = unusable \cup {cstarts}
            /\ UNCHANGED <<ups, timers>>
       [] OTHER -> UNCHANGED <<handle, ups, timers, unusable>>
  /\ UNCHANGED <<kind, listening, net, ownerVars, cloop, conn, writes, attempts, gaveUp, casyncs,
                 received, misuse, sends, walked>>

(* uv_run returns when no handle and no timer is active. *)
Active == timers > 0 \/ handle \in {"connecting", "open", "closing", "dropped"}

LoopEnds ==
  /\ Running
  /\ ~Active /\ casyncs = << >> /\ ~cclosing
  /\ cloop' = "ended"
  /\ UNCHANGED <<kind, listening, net, ownerVars, streamVars, timers, casyncs, cclosing, ups,
                 received, misuse, sends, unusable, walked>>

(* thread_loop.join() *)
Joined ==
  /\ ~misuse
  /\ cowner = "joining"
  /\ cloop = "ended"
  /\ cowner' = "stopped"
  /\ cloop' = "none"
  /\ UNCHANGED <<kind, listening, net, cstarts, cstops, streamVars, timers, casyncs, cclosing,
                 ups, received, misuse, sends, unusable, walked>>

ConnectDone == Connected \/ ConnectRefused

ClientLoop ==
  FirstConnect \/ TimerFires \/ ConnectDone \/ ReadData \/ ReadEnd \/ SendRuns \/ StopRuns
  \/ RunClosing \/ LoopEnds

ClientNext == StartClient \/ SendData \/ StopClient \/ ClientLoop \/ Joined
=============================================================================
