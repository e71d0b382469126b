---------------------------- MODULE StreamServer ----------------------------
(***************************************************************************)
(* ComexTcpServer and ComexPipeServer (comex_socket.cpp): a listening      *)
(* socket on the default loop of its process.  What a connection receives  *)
(* goes to libuv's thread pool, where onRecv runs; notifications of        *)
(* connections come from the loop.  The rules for handles are those of     *)
(* StreamClient.                                                           *)
(***************************************************************************)
EXTENDS StreamNet

CONSTANTS PoolSize,          \* threads of libuv's pool (UV_THREADPOOL_SIZE)
          MaxServerStarts    \* bound: startServer calls

ASSUME StreamServerAssumption == PoolSize \in Nat \ {0} /\ MaxServerStarts \in Nat

VARIABLES
  sowner,    \* the owner: "none", "started", "joining" (in stopServer), "stopped"
  sloop,     \* thread_loop: "none", "running", "ended"
  client,    \* per connection: its handle_client
  told,      \* per connection: the last onConnectionChanged
  read,      \* history, per connection: what the read callback got, in order
  swork,     \* uv_queue_work requests, in order
  running,   \* those a thread of the pool has taken
  handled,   \* per connection: what onRecv is through with, in order
  sasyncs,   \* asynchronous handles sent to the loop
  sclosing,  \* uv_close of an async or a refused connection has not finished
  smisuse,
  sstarts, replies,  \* counters for the bounds
  stopRan            \* history: the loop closed its handles for a stop

poolVars   == <<swork, running, handled>>
serverVars == <<sowner, sloop, client, told, read, poolVars, sasyncs, sclosing, smisuse, sstarts,
                replies, stopRan>>

(* "closing": its callback reports the end; "dropped": it only deletes. *)
ClientHandle == {"none", "open", "closing", "dropped", "deleted"}
Work         == [conn : Conn, data : Seq(Chunk)]
ServerAsync  == [op : {"send"}, conn : Conn, reply : Reply] \cup [op : {"stop"}]

ServerInit ==
  /\ sowner = "none" /\ sloop = "none"
  /\ client = [c \in Conn |-> "none"] /\ told = [c \in Conn |-> "never"]
  /\ read = [c \in Conn |-> << >>] /\ handled = [c \in Conn |-> << >>]
  /\ swork = << >> /\ running = {}
  /\ sasyncs = << >> /\ sclosing = FALSE /\ smisuse = FALSE
  /\ sstarts = 0 /\ replies = 0 /\ stopRan = FALSE

ServerTypeOK ==
  /\ sowner \in {"none", "started", "joining", "stopped"}
  /\ sloop \in {"none", "running", "ended"}
  /\ client \in [Conn -> ClientHandle]
  /\ told \in [Conn -> {"never", "up", "down"}]
  /\ read \in [Conn -> Seq(Chunk)] /\ handled \in [Conn -> Seq(Chunk)]
  /\ swork \in Seq(Work) /\ running \subseteq Work
  /\ sasyncs \in Seq(ServerAsync) /\ sclosing \in BOOLEAN /\ smisuse \in BOOLEAN
  /\ sstarts \in 0..MaxServerStarts /\ replies \in 0..MaxReplies /\ stopRan \in BOOLEAN

ServerRunning == sloop = "running" /\ ~smisuse

-----------------------------------------------------------------------------
(* startServer: bound, listening, and the loop has its thread; or the bind or
   the listen fails and there is no thread. *)
StartServer ==
  /\ ~smisuse
  /\ sowner \in {"none", "stopped"}
  /\ sstarts < MaxServerStarts
  /\ sstarts' = sstarts + 1
  /\ \/ listening' = "listening" /\ sloop' = "running" /\ sowner' = "started"
     \/ UNCHANGED <<listening, sloop, sowner>>
  /\ UNCHANGED <<kind, net, client, told, read, poolVars, sasyncs, sclosing, smisuse, replies,
                 stopRan>>

(* The callback of uv_listen: a connection is accepted, told and read from;
   or uv_accept fails and its handle is closed unseen. *)
Accept(c) ==
  /\ ServerRunning
  /\ listening = "listening"
  /\ net[c].client \in {"open", "closed"} /\ net[c].server = "none" /\ ~net[c].broken
  /\ \/ /\ client' = [client EXCEPT ![c] = "open"]
        /\ told' = [told EXCEPT ![c] = "up"]
        /\ net' = ServerEnd(c, "open")
        /\ UNCHANGED sclosing
     \/ /\ net' = ServerEnd(c, "closed")
        /\ sclosing' = TRUE
        /\ UNCHANGED <<client, told>>
  /\ UNCHANGED <<kind, listening, sowner, sloop, read, poolVars, sasyncs, smisuse, sstarts,
                 replies, stopRan>>

(* The read callback hands what came to the pool.  (Mutated form: only when
   nothing else waits there.) *)
QueuedAlone(w) == IF swork = << >> THEN <<w>> ELSE swork
Queued(w)      == Append(swork, w)

ServerReadData(c) ==
  /\ ServerRunning
  /\ client[c] = "open"
  /\ \E n \in 1..Len(net[c].up) :
       LET data == SubSeq(net[c].up, 1, n) IN
         /\ swork' = Queued([conn |-> c, data |-> data])
         /\ read' = [read EXCEPT ![c] = @ \o data]
         /\ net' = [net EXCEPT ![c].up = SubSeq(@, n + 1, Len(@))]
  /\ UNCHANGED <<kind, listening, sowner, sloop, client, told, running, handled, sasyncs,
                 sclosing, smisuse, sstarts, replies, stopRan>>

ServerReadEnd(c) ==
  /\ ServerRunning
  /\ client[c] = "open"
  /\ ServerSeesEnd(c)
  /\ client' = [client EXCEPT ![c] = "closing"]
  /\ net' = ServerEnd(c, "closed")
  /\ UNCHANGED <<kind, listening, sowner, sloop, told, read, poolVars, sasyncs, sclosing,
                 smisuse, sstarts, replies, stopRan>>

(* A thread of the pool takes the oldest request... *)
WorkStarts ==
  /\ swork # << >>
  /\ Cardinality(running) < PoolSize
  /\ running' = running \cup {Head(swork)}
  /\ swork' = Tail(swork)
  /\ UNCHANGED <<kind, listening, net, sowner, sloop, client, told, read, handled, sasyncs,
                 sclosing, smisuse, sstarts, replies, stopRan>>

(* ...and is through with onRecv. *)
WorkEnds(w) ==
  /\ w \in running
  /\ running' = running \ {w}
  /\ handled' = [handled EXCEPT ![w.conn] = @ \o w.data]
  /\ UNCHANGED <<kind, listening, net, sowner, sloop, client, told, read, swork, sasyncs,
                 sclosing, smisuse, sstarts, replies, stopRan>>

-----------------------------------------------------------------------------
(* sendData to a connection that has not been told down. *)
ServerSendData(c) ==
  /\ ~smisuse
  /\ told[c] = "up"
  /\ replies < MaxReplies
  /\ replies' = replies + 1
  /\ sasyncs' = Append(sasyncs, [op |-> "send", conn |-> c, reply |-> replies'])
  /\ UNCHANGED <<kind, listening, net, sowner, sloop, client, told, read, poolVars, sclosing,
                 smisuse, sstarts, stopRan>>

(* The async that ran is closed. *)
AsyncClosed == Tail(sasyncs)

ServerSendRuns ==
  /\ ServerRunning
  /\ sasyncs # << >>
  /\ LET a == Head(sasyncs) IN
       /\ a.op = "send"
       /\ smisuse' = (client[a.conn] = "deleted")
       /\ net' = IF client[a.conn] = "open" THEN Downward(a.conn, <<a.reply>>) ELSE net
  /\ sasyncs' = AsyncClosed
  /\ sclosing' = TRUE
  /\ UNCHANGED <<kind, listening, sowner, sloop, client, told, read, poolVars, sstarts, replies,
                 stopRan>>

(* stopServer and the destructor. *)
StopServer ==
  /\ ~smisuse
  /\ sowner = "started"
  /\ sasyncs' = Append(sasyncs, [op |-> "stop"])
  /\ sowner' = "joining"
  /\ UNCHANGED <<kind, listening, net, sloop, client, told, read, poolVars, sclosing, smisuse,
                 sstarts, replies, stopRan>>

(* Its callback: every handle is closed; no connection is told.  (Mutated
   form: only the listening handle is closed.) *)
ListenerClosed == client
EveryoneClosed == [c \in Conn |-> IF client[c] = "open" THEN "dropped" ELSE client[c]]

ServerStopRuns ==
  /\ ServerRunning
  /\ sasyncs # << >>
  /\ Head(sasyncs).op = "stop"
  /\ smisuse' = (sclosing \/ \E c \in Conn : client[c] \in {"closing", "dropped"})
  /\ client' = EveryoneClosed
  /\ listening' = "closing"
  /\ net' = [c \in Conn |-> IF client'[c] = "dropped" THEN [net[c] EXCEPT !.server = "closed"]
                            ELSE WithoutBacklog[c]]
  /\ sasyncs' = << >>
  /\ sclosing' = TRUE
  /\ stopRan' = TRUE
  /\ UNCHANGED <<kind, sowner, sloop, told, read, poolVars, sstarts, replies>>

(* The closing phase of the loop: the callback of a connection that ended
   tells it and deletes the handle. *)
ToldDown == [c \in Conn |-> IF client[c] = "closing" THEN "down" ELSE told[c]]

ServerClosing ==
  /\ ServerRunning
  /\ sclosing \/ \E c \in Conn : client[c] \in {"closing", "dropped"}
  /\ sclosing' = FALSE
  /\ told' = ToldDown
  /\ client' = [c \in Conn |-> IF client[c] \in {"closing", "dropped"} THEN "deleted" ELSE client[c]]
  /\ listening' = IF listening = "closing" THEN "closed" ELSE listening
  /\ UNCHANGED <<kind, net, sowner, sloop, read, poolVars, sasyncs, smisuse, sstarts, replies,
                 stopRan>>

(* uv_run returns: requests of the pool keep the loop alive. (Mutated form:
   they do not.) *)
IdleUnworked == TRUE
PoolIdle     == swork = << >> /\ running = {}

ServerLoopEnds ==
  /\ ServerRunning
  /\ listening = "closed"
  /\ \A c \in Conn : client[c] \in {"none", "deleted"}
  /\ PoolIdle /\ sasyncs = << >> /\ ~sclosing
  /\ sloop' = "ended"
  /\ UNCHANGED <<kind, listening, net, sowner, client, told, read, poolVars, sasyncs, sclosing,
                 smisuse, sstarts, replies, stopRan>>

(* thread_loop.join(); a pipe's name is unlinked. *)
ServerJoined ==
  /\ ~smisuse
  /\ sowner = "joining"
  /\ sloop = "ended"
  /\ sowner' = "stopped"
  /\ sloop' = "none"
  /\ UNCHANGED <<kind, listening, net, client, told, read, poolVars, sasyncs, sclosing, smisuse,
                 sstarts, replies, stopRan>>

ServerLoop ==
  \/ \E c \in Conn : Accept(c) \/ ServerReadData(c) \/ ServerReadEnd(c)
  \/ ServerSendRuns \/ ServerStopRuns \/ ServerClosing \/ ServerLoopEnds

Pool == WorkStarts \/ \E w \in running : WorkEnds(w)

ServerNext ==
  \/ StartServer \/ StopServer \/ ServerJoined
  \/ \E c \in Conn : ServerSendData(c)
  \/ ServerLoop \/ Pool
=============================================================================
