--------------------------- MODULE SessionManager ---------------------------
(***************************************************************************)
(* ComexSessionManager (comex_session.cpp): a cache of the login sessions  *)
(* of the machine, kept up to date over D-Bus.                             *)
(*                                                                         *)
(* Three threads share it.  The constructor's thread (main) connects, asks *)
(* logind for the list of sessions and later closes.  The listener thread  *)
(* reads the D-Bus connection one message at a time, fills the map         *)
(* "sessions" and queues events.  The dispatcher thread is woken by a      *)
(* semaphore, empties the two event queues and calls the virtual methods   *)
(* onSessionNew and onSessionRemoved.                                      *)
(*                                                                         *)
(* logind and the bus are external: requests and messages are two FIFO     *)
(* channels, as D-Bus guarantees between two peers.                        *)
(***************************************************************************)
EXTENDS Integers, Sequences, FiniteSets

CONSTANTS Sessions,   \* the session ids logind ever hands out, each used once
          RingSize    \* length of serial_id_propeties, 64 in the code

ASSUME SessionManagerAssumption == IsFiniteSet(Sessions) /\ RingSize \in Nat \ {0}

VARIABLES
  \* logind and the bus
  unborn, active, ended,  \* the sessions logind has yet to open, has, had
  serial,                 \* the serial of the last request sent
  requests,               \* sent to logind, not yet answered
  inbox,                  \* sent by logind, not yet read by the listener
  \* shared by the threads of the manager
  sessions,               \* id -> where the data of the session came from
  event_new, event_remove, sem_event,
  ring, pos_serial_id,    \* serial_id_propeties[64] and its write position
  serial_id_sessions,
  main_pc, list_serial,   \* constructor thread; its local variable "serial"
  listener_running, listener_pc, listing, pushing,
  dispatcher_running, dispatcher_pc, current,
  \* history
  announced, departed,    \* calls of onSessionNew and onSessionRemoved
  ignored                 \* serials of the replies the callback recognised as nobody's

logindVars     == <<unborn, active, ended>>
queueVars      == <<event_new, event_remove, sem_event>>
ringVars       == <<ring, pos_serial_id>>
mainVars       == <<main_pc, list_serial, serial_id_sessions>>
listenerVars   == <<listener_pc, listing, pushing>>
dispatcherVars == <<dispatcher_pc, current>>
runningVars    == <<listener_running, dispatcher_running>>
historyVars    == <<announced, departed, ignored>>

vars == <<logindVars, serial, requests, inbox, sessions, queueVars, ringVars,
          mainVars, listenerVars, dispatcherVars, runningVars, historyVars>>

NoSession == "none"

(* A request: ListSessions carries no id, GetAll the id of the object path. *)
Request == [op : {"ListSessions", "GetAll"}, serial : Nat, id : Sessions \cup {NoSession}]

(* A message of logind: a signal has serial 0, a reply that of its request.
   "ids" lists the sessions the message is about, in the order it names them. *)
Message ==
  [kind : {"SessionNew", "SessionRemoved", "PropsReply"}, serial : Nat, ids : [1..1 -> Sessions]]
    \cup [kind : {"ListReply", "ErrorReply"}, serial : Nat, ids : Seq(Sessions)]

Signal(kind, s) == [kind |-> kind, serial |-> 0, ids |-> <<s>>]

Known == DOMAIN sessions

Init ==
  /\ active \in SUBSET Sessions
  /\ unborn = Sessions \ active
  /\ ended = {}
  /\ serial = 0
  /\ requests = << >>
  /\ inbox = << >>
  /\ sessions = [s \in {} |-> {}]
  /\ event_new = << >>
  /\ event_remove = << >>
  /\ sem_event = 0
  /\ ring = [k \in 0..RingSize-1 |-> 0]
  /\ pos_serial_id = 0
  /\ serial_id_sessions = 0
  /\ main_pc = "send"
  /\ list_serial = 0
  /\ listener_running = TRUE
  /\ listener_pc = "loop"
  /\ listing = << >>
  /\ pushing = NoSession
  /\ dispatcher_running = TRUE
  /\ dispatcher_pc = "loop"
  /\ current = NoSession
  /\ announced = {}
  /\ departed = {}
  /\ ignored = {}

-----------------------------------------------------------------------------
(* logind *)

LogindOpen(s) ==
  /\ s \in unborn
  /\ unborn' = unborn \ {s}
  /\ active' = active \cup {s}
  /\ inbox' = Append(inbox, Signal("SessionNew", s))
  /\ UNCHANGED <<ended, serial, requests, sessions, queueVars, ringVars, mainVars,
                 listenerVars, dispatcherVars, runningVars, historyVars>>

LogindClose(s) ==
  /\ s \in active
  /\ active' = active \ {s}
  /\ ended' = ended \cup {s}
  /\ inbox' = Append(inbox, Signal("SessionRemoved", s))
  /\ UNCHANGED <<unborn, serial, requests, sessions, queueVars, ringVars, mainVars,
                 listenerVars, dispatcherVars, runningVars, historyVars>>

Listings(S) == {q \in [1..Cardinality(S) -> S] : \A s \in S : \E i \in DOMAIN q : q[i] = s}

(* The reply of GetAll on the object of a session that has ended is an error. *)
Replies(r) ==
  IF r.op = "ListSessions"
  THEN {[kind |-> "ListReply", serial |-> r.serial, ids |-> q] : q \in Listings(active)}
  ELSE IF r.id \in active
       THEN {[kind |-> "PropsReply", serial |-> r.serial, ids |-> <<r.id>>]}
       ELSE {[kind |-> "ErrorReply", serial |-> r.serial, ids |-> << >>]}

LogindAnswer ==
  /\ requests # << >>
  /\ \E m \in Replies(Head(requests)) : inbox' = Append(inbox, m)
  /\ requests' = Tail(requests)
  /\ UNCHANGED <<logindVars, serial, sessions, queueVars, ringVars, mainVars,
                 listenerVars, dispatcherVars, runningVars, historyVars>>

-----------------------------------------------------------------------------
(* The constructor's thread: openDBus has subscribed to the two signals and
   started both threads, which is the initial state. *)

(* querySessions, first half: the request leaves, its serial is still local. *)
QuerySessionsSend ==
  /\ main_pc = "send"
  /\ serial' = serial + 1
  /\ requests' = Append(requests, [op |-> "ListSessions", serial |-> serial + 1, id |-> NoSession])
  /\ list_serial' = serial + 1
  /\ main_pc' = "store"
  /\ UNCHANGED <<logindVars, inbox, sessions, queueVars, ringVars, serial_id_sessions,
                 listenerVars, dispatcherVars, runningVars, historyVars>>

(* querySessions, second half: serial_id_sessions = serial. *)
QuerySessionsStore ==
  /\ main_pc = "store"
  /\ serial_id_sessions' = list_serial
  /\ main_pc' = "open"
  /\ UNCHANGED <<logindVars, serial, requests, inbox, sessions, queueVars, ringVars, list_serial,
                 listenerVars, dispatcherVars, runningVars, historyVars>>

(* closeDBus stops the dispatcher, joins it, stops the listener, joins it. *)
CloseDBus ==
  /\ main_pc = "open"
  /\ dispatcher_running' = FALSE
  /\ main_pc' = "joinDispatcher"
  /\ UNCHANGED <<logindVars, serial, requests, inbox, sessions, queueVars, ringVars, list_serial,
                 serial_id_sessions, listenerVars, dispatcherVars, listener_running, historyVars>>

JoinDispatcher ==
  /\ main_pc = "joinDispatcher"
  /\ dispatcher_pc = "quit"
  /\ listener_running' = FALSE
  /\ main_pc' = "joinListener"
  /\ UNCHANGED <<logindVars, serial, requests, inbox, sessions, queueVars, ringVars, list_serial,
                 serial_id_sessions, listenerVars, dispatcherVars, dispatcher_running, historyVars>>

JoinListener ==
  /\ main_pc = "joinListener"
  /\ listener_pc = "quit"
  /\ main_pc' = "closed"
  /\ UNCHANGED <<logindVars, serial, requests, inbox, sessions, queueVars, ringVars, list_serial,
                 serial_id_sessions, listenerVars, dispatcherVars, runningVars, historyVars>>

-----------------------------------------------------------------------------
(* The listener thread.  listener_pc:
     "loop"  about to test thread_listener_running
     "read"  in dbus_connection_read_write_dispatch, for at most one second
     "list"  in parseSessions, holding mutex_sessions
     "push"  in parseProperties, a new session inserted but not yet queued
     "post"  an event queued, sem_event not yet posted
     "quit"  returned *)

ListenerLoop ==
  /\ listener_pc = "loop"
  /\ listener_pc' = IF listener_running THEN "read" ELSE "quit"
  /\ UNCHANGED <<logindVars, serial, requests, inbox, sessions, queueVars, ringVars, mainVars,
                 listing, pushing, dispatcherVars, runningVars, historyVars>>

ListenerTimeout ==
  /\ listener_pc = "read"
  /\ inbox = << >>
  /\ listener_pc' = "loop"
  /\ UNCHANGED <<logindVars, serial, requests, inbox, sessions, queueVars, ringVars, mainVars,
                 listing, pushing, dispatcherVars, runningVars, historyVars>>

(* The ring slot after this one.  (Mutated forms: no wrap, no advance.) *)
NextSlotNoWrap  == pos_serial_id + 1
NextSlotNoMove  == pos_serial_id
NextSlot        == (pos_serial_id + 1) % RingSize

(* The serial written.  (Mutated form: read before dbus_connection_send set it.) *)
SentSerialStale == serial
SentSerial      == serial'

(* queryProperties: send GetAll and write its serial at the ring position.
   Replies are read by this same thread, so that nobody sees the gap. *)
QueryProperties(s) ==
  /\ serial' = serial + 1
  /\ requests' = Append(requests, [op |-> "GetAll", serial |-> serial + 1, id |-> s])
  /\ ring' = [ring EXCEPT ![pos_serial_id] = SentSerial]
  /\ pos_serial_id' = NextSlot

InRing(n) == \E k \in 0..RingSize-1 : ring[k] = n

(* One call of the filter ListenerMessageCallback per message. *)
message == Head(inbox)

ReadMessage ==
  /\ listener_pc = "read"
  /\ inbox # << >>
  /\ inbox' = Tail(inbox)

OnSessionNewSignal ==
  /\ ReadMessage
  /\ message.kind = "SessionNew"
  /\ QueryProperties(message.ids[1])
  /\ listener_pc' = "loop"
  /\ UNCHANGED <<logindVars, sessions, queueVars, mainVars, listing, pushing,
                 dispatcherVars, runningVars, historyVars>>

(* Every push is followed by sem_event.post().  (Mutated form: it is not.) *)
AfterPushSilent == "loop"
AfterPush       == "post"

OnSessionRemovedSignal ==
  /\ ReadMessage
  /\ message.kind = "SessionRemoved"
  /\ event_remove' = Append(event_remove, message.ids[1])
  /\ listener_pc' = AfterPush
  /\ UNCHANGED <<logindVars, serial, requests, sessions, event_new, sem_event, ringVars, mainVars,
                 listing, pushing, dispatcherVars, runningVars, historyVars>>

(* parseSessions starts: it takes mutex_sessions for the whole loop. *)
ParseSessionsBegin ==
  /\ ReadMessage
  /\ message.kind = "ListReply"
  /\ message.serial = serial_id_sessions
  /\ listing' = message.ids
  /\ listener_pc' = IF message.ids = << >> THEN "loop" ELSE "list"
  /\ UNCHANGED <<logindVars, serial, requests, sessions, queueVars, ringVars, mainVars,
                 pushing, dispatcherVars, runningVars, historyVars>>

(* The entry of s once "source" has filled in its fields; parseProperties keeps
   those of an entry that exists.  (Mutated form: it overwrites them.) *)
WithOnlySource(s, source) == [t \in Known \cup {s} |-> IF t = s THEN {source} ELSE sessions[t]]
WithSource(s, source) ==
  [t \in Known \cup {s} |->
     IF t # s THEN sessions[t]
     ELSE (IF s \in Known THEN sessions[s] ELSE {}) \cup {source}]

(* One turn of its loop: insert or refresh the entry, ask for its properties. *)
ParseSessionsNext ==
  /\ listener_pc = "list"
  /\ sessions' = WithSource(Head(listing), "list")
  /\ QueryProperties(Head(listing))
  /\ listing' = Tail(listing)
  /\ listener_pc' = IF Tail(listing) = << >> THEN "loop" ELSE "list"
  /\ UNCHANGED <<logindVars, inbox, queueVars, mainVars, pushing,
                 dispatcherVars, runningVars, historyVars>>

(* is_session_new.  (Mutated form: decided without looking into the map.) *)
IsSessionNewAlways(s) == TRUE
IsSessionNew(s)       == s \notin Known

(* parseProperties up to the release of mutex_sessions. *)
ParseProperties ==
  LET s == message.ids[1]
  IN  /\ ReadMessage
      /\ message.kind = "PropsReply"
      /\ message.serial # serial_id_sessions
      /\ InRing(message.serial)
      /\ sessions' = WithSource(s, "props")
      /\ pushing' = IF IsSessionNew(s) THEN s ELSE NoSession
      /\ listener_pc' = IF IsSessionNew(s) THEN "push" ELSE "loop"
      /\ UNCHANGED <<logindVars, serial, requests, queueVars, ringVars, mainVars,
                     listing, dispatcherVars, runningVars, historyVars>>

PushEventNew ==
  /\ listener_pc = "push"
  /\ event_new' = Append(event_new, pushing)
  /\ pushing' = NoSession
  /\ listener_pc' = AfterPush
  /\ UNCHANGED <<logindVars, serial, requests, inbox, sessions, event_remove, sem_event, ringVars,
                 mainVars, listing, dispatcherVars, runningVars, historyVars>>

PostEvent ==
  /\ listener_pc = "post"
  /\ sem_event' = sem_event + 1
  /\ listener_pc' = "loop"
  /\ UNCHANGED <<logindVars, serial, requests, inbox, sessions, event_new, event_remove, ringVars,
                 mainVars, listing, pushing, dispatcherVars, runningVars, historyVars>>

(* Errors are not METHOD_RETURN; a reply whose serial is not known is nobody's. *)
IgnoreReply ==
  /\ ReadMessage
  /\ \/ message.kind = "ErrorReply" /\ ignored' = ignored
     \/ /\ message.kind \in {"ListReply", "PropsReply"}
        /\ message.serial # serial_id_sessions
        /\ ~InRing(message.serial)
        /\ ignored' = ignored \cup {message.serial}
  /\ listener_pc' = "loop"
  /\ UNCHANGED <<logindVars, serial, requests, sessions, queueVars, ringVars, mainVars,
                 listing, pushing, dispatcherVars, runningVars, announced, departed>>

ListenerMessageCallback ==
  \/ OnSessionNewSignal
  \/ OnSessionRemovedSignal
  \/ ParseSessionsBegin
  \/ ParseProperties
  \/ IgnoreReply

Listener ==
  \/ ListenerLoop
  \/ ListenerTimeout
  \/ ListenerMessageCallback
  \/ ParseSessionsNext
  \/ PushEventNew
  \/ PostEvent

-----------------------------------------------------------------------------
(* The dispatcher thread.  dispatcher_pc:
     "loop"      about to test thread_event_dispatcher_running
     "wait"      in sem_event.wait(1000)
     "new"       about to pop event_new
     "lookup"    has popped the id "current", needs mutex_sessions
     "onNew"     in the virtual method onSessionNew
     "remove"    about to pop event_remove
     "erase"     has popped the id "current", needs mutex_sessions
     "onRemoved" in the virtual method onSessionRemoved
     "quit"      returned *)

MutexSessionsFree == listener_pc # "list"

DispatcherLoop ==
  /\ dispatcher_pc = "loop"
  /\ dispatcher_pc' = IF dispatcher_running THEN "wait" ELSE "quit"
  /\ UNCHANGED <<logindVars, serial, requests, inbox, sessions, queueVars, ringVars, mainVars,
                 listenerVars, current, runningVars, historyVars>>

(* sem_event.wait(1000) gives up.  (Mutated form: a wait without a timeout.) *)
WaitTimesOutNever == FALSE
WaitTimesOut      == sem_event = 0

DispatcherWait ==
  /\ dispatcher_pc = "wait"
  /\ \/ sem_event > 0 /\ sem_event' = sem_event - 1 /\ dispatcher_pc' = "new"
     \/ WaitTimesOut /\ sem_event' = sem_event /\ dispatcher_pc' = "loop"
  /\ UNCHANGED <<logindVars, serial, requests, inbox, sessions, event_new, event_remove, ringVars,
                 mainVars, listenerVars, current, runningVars, historyVars>>

PopEventNew ==
  /\ dispatcher_pc = "new"
  /\ \/ /\ event_new = << >>
        /\ dispatcher_pc' = "remove"
        /\ UNCHANGED <<event_new, current>>
     \/ /\ event_new # << >>
        /\ current' = Head(event_new)
        /\ event_new' = Tail(event_new)
        /\ dispatcher_pc' = "lookup"
  /\ UNCHANGED <<logindVars, serial, requests, inbox, sessions, event_remove, sem_event, ringVars,
                 mainVars, listenerVars, runningVars, historyVars>>

(* Both inner loops run while(thread_event_dispatcher_running), tested at the end. *)
AfterNew    == IF dispatcher_running THEN "new" ELSE "remove"
AfterRemove == IF dispatcher_running THEN "remove" ELSE "loop"

(* Is the popped id still in the map?  (Mutated form: not asked.) *)
StillThereUnasked == TRUE
StillThere        == current \in Known

(* Look the popped id up and copy its entry; onSessionNew starts if it is there. *)
LookupNew ==
  /\ dispatcher_pc = "lookup"
  /\ MutexSessionsFree
  /\ \/ /\ ~StillThere
        /\ dispatcher_pc' = AfterNew
        /\ current' = NoSession
        /\ announced' = announced
     \/ /\ StillThere
        /\ dispatcher_pc' = "onNew"
        /\ current' = current
        /\ announced' = announced \cup {current}
  /\ UNCHANGED <<logindVars, serial, requests, inbox, sessions, queueVars, ringVars, mainVars,
                 listenerVars, runningVars, departed, ignored>>

OnSessionNewReturns ==
  /\ dispatcher_pc = "onNew"
  /\ dispatcher_pc' = AfterNew
  /\ current' = NoSession
  /\ UNCHANGED <<logindVars, serial, requests, inbox, sessions, queueVars, ringVars, mainVars,
                 listenerVars, runningVars, historyVars>>

PopEventRemove ==
  /\ dispatcher_pc = "remove"
  /\ \/ /\ event_remove = << >>
        /\ dispatcher_pc' = "loop"
        /\ UNCHANGED <<event_remove, current>>
     \/ /\ event_remove # << >>
        /\ current' = Head(event_remove)
        /\ event_remove' = Tail(event_remove)
        /\ dispatcher_pc' = "erase"
  /\ UNCHANGED <<logindVars, serial, requests, inbox, sessions, event_new, sem_event, ringVars,
                 mainVars, listenerVars, runningVars, historyVars>>

(* The map once the popped id is erased.  (Mutated form: only a copy is made.) *)
SessionsCopied  == sessions
SessionsWithout == [t \in Known \ {current} |-> sessions[t]]

(* Erase the entry, if any, and call onSessionRemoved in every case. *)
EraseRemoved ==
  /\ dispatcher_pc = "erase"
  /\ MutexSessionsFree
  /\ sessions' = SessionsWithout
  /\ departed' = departed \cup {current}
  /\ dispatcher_pc' = "onRemoved"
  /\ UNCHANGED <<logindVars, serial, requests, inbox, queueVars, ringVars, mainVars,
                 listenerVars, current, runningVars, announced, ignored>>

OnSessionRemovedReturns ==
  /\ dispatcher_pc = "onRemoved"
  /\ dispatcher_pc' = AfterRemove
  /\ current' = NoSession
  /\ UNCHANGED <<logindVars, serial, requests, inbox, sessions, queueVars, ringVars, mainVars,
                 listenerVars, runningVars, historyVars>>

Dispatcher ==
  \/ DispatcherLoop
  \/ DispatcherWait
  \/ PopEventNew
  \/ LookupNew
  \/ OnSessionNewReturns
  \/ PopEventRemove
  \/ EraseRemoved
  \/ OnSessionRemovedReturns

-----------------------------------------------------------------------------
(* Nothing is left to do once the manager is closed: not a deadlock. *)
Closed == main_pc = "closed" /\ UNCHANGED vars

Next ==
  \/ \E s \in Sessions : LogindOpen(s) \/ LogindClose(s)
  \/ LogindAnswer
  \/ QuerySessionsSend
  \/ QuerySessionsStore
  \/ CloseDBus
  \/ JoinDispatcher
  \/ JoinListener
  \/ Listener
  \/ Dispatcher
  \/ Closed

Spec == Init /\ [][Next]_vars

(* The scheduler runs every thread, the callbacks return and logind answers.
   Nothing obliges a session to open or to end, or the owner to close. *)
Fairness ==
  /\ WF_vars(LogindAnswer)
  /\ WF_vars(QuerySessionsSend \/ QuerySessionsStore \/ JoinDispatcher \/ JoinListener)
  /\ WF_vars(Listener)
  /\ WF_vars(Dispatcher)

FairSpec == Spec /\ Fairness

-----------------------------------------------------------------------------
BusTypeOK ==
  /\ unborn \subseteq Sessions /\ active \subseteq Sessions /\ ended \subseteq Sessions
  /\ serial \in Nat
  /\ requests \in Seq(Request)
  /\ inbox \in Seq(Message)

CacheTypeOK ==
  /\ Known \subseteq Sessions
  /\ \A s \in Known : sessions[s] \subseteq {"list", "props"}

QueuesTypeOK ==
  /\ event_new \in Seq(Sessions)
  /\ event_remove \in Seq(Sessions)
  /\ sem_event \in Nat

RingTypeOK == ring \in [0..RingSize-1 -> Nat] /\ pos_serial_id \in 0..RingSize-1

MainTypeOK ==
  /\ serial_id_sessions \in Nat
  /\ list_serial \in Nat
  /\ main_pc \in {"send", "store", "open", "joinDispatcher", "joinListener", "closed"}
  /\ listener_running \in BOOLEAN
  /\ dispatcher_running \in BOOLEAN

ListenerTypeOK ==
  /\ listener_pc \in {"loop", "read", "list", "push", "post", "quit"}
  /\ listing \in Seq(Sessions)
  /\ listener_pc = "list" <=> listing # << >>
  /\ pushing \in Sessions \cup {NoSession}
  /\ listener_pc = "push" => pushing \in Sessions

DispatcherTypeOK ==
  /\ dispatcher_pc \in {"loop", "wait", "new", "lookup", "onNew", "remove", "erase",
                        "onRemoved", "quit"}
  /\ current \in Sessions \cup {NoSession}
  /\ dispatcher_pc \in {"lookup", "onNew", "erase", "onRemoved"} => current \in Sessions

HistoryTypeOK ==
  announced \subseteq Sessions /\ departed \subseteq Sessions /\ ignored \subseteq Nat

TypeOK ==
  /\ BusTypeOK /\ CacheTypeOK /\ QueuesTypeOK /\ RingTypeOK
  /\ MainTypeOK /\ ListenerTypeOK /\ DispatcherTypeOK /\ HistoryTypeOK

(* A session whose onSessionRemoved has been called never comes back into the
   map: a properties or list reply that was under way cannot resurrect it.
   Until the dispatcher erases it, an ended session may still be listed. *)
NoResurrection == departed \cap Known = {}

(* Why: once the listener has read the removal of s, or it is on its way, no
   reply behind it carries s.  The two peers' channel is FIFO and logind
   answers for active sessions only. *)
Carries(m, s)   == m.kind \in {"ListReply", "PropsReply"} /\ \E i \in DOMAIN m.ids : m.ids[i] = s
IsRemoval(m, s) == m.kind = "SessionRemoved" /\ m.ids[1] = s

RemovalRead(s) ==
  \/ \E i \in DOMAIN event_remove : event_remove[i] = s
  \/ dispatcher_pc = "erase" /\ current = s
  \/ s \in departed

NotYetRemoved ==
  /\ unborn \cap active = {}
  /\ \A s \in active \cup unborn :
       ~RemovalRead(s) /\ \A i \in DOMAIN inbox : ~IsRemoval(inbox[i], s)

NothingBehindRemoval ==
  \A s \in Sessions : \A i, j \in DOMAIN inbox :
    i < j /\ IsRemoval(inbox[i], s) => ~Carries(inbox[j], s)

NothingOnceRead ==
  \A s \in Sessions : RemovalRead(s) =>
    /\ \A i \in DOMAIN inbox : ~Carries(inbox[i], s)
    /\ \A i \in DOMAIN listing : listing[i] # s

RemovalIsFinal == NotYetRemoved /\ NothingBehindRemoval /\ NothingOnceRead /\ NoResurrection

(* isSessionExist and getSession, called by the application from inside
   onSessionNew, find the session with its properties; and onSessionNew is
   called at most once for a session and never after its onSessionRemoved,
   although the two events travel in separate queues. *)
NewCallbackFindsSession ==
  /\ dispatcher_pc = "onNew" => current \in Known /\ "props" \in sessions[current]
  /\ dispatcher_pc = "lookup" /\ current \in Known => current \notin announced \cup departed

(* A reply is recognised for what it is: serial_id_propeties loses no query as
   long as at most RingSize of them are unanswered, and although the callback
   goes by serials alone, drawn by two threads from one counter, it never takes
   the properties of a session for the list of sessions nor the list for them. *)
AskedSerials ==
  {requests[i].serial : i \in {j \in DOMAIN requests : requests[j].op = "GetAll"}}
    \cup {inbox[i].serial : i \in {j \in DOMAIN inbox : inbox[j].kind \in {"PropsReply", "ErrorReply"}}}

RepliesRecognised ==
  /\ Cardinality(AskedSerials) <= RingSize => \A n \in AskedSerials : InRing(n)
  /\ \A i \in DOMAIN inbox :
       /\ inbox[i].kind = "ListReply" => ~InRing(inbox[i].serial)
       /\ inbox[i].kind = "PropsReply" => inbox[i].serial # serial_id_sessions

Serving == main_pc \in {"send", "store", "open"}

(* The dispatcher never sleeps through work: every removal logind signals
   reaches onSessionRemoved, whatever the thread interleaving, and closeDBus,
   which joins it, returns, for both threads see their flag within a timeout
   (comex_session.cpp:84-110, 546-640). *)
RemovalDelivered ==
  \A s \in Sessions : s \in ended /\ Serving ~> s \in departed \/ ~Serving

CloseReturns == main_pc = "joinDispatcher" ~> main_pc = "closed"

NoWakeupLost == RemovalDelivered /\ CloseReturns

(* A session that stays open ends up in the map with its properties, and was
   announced or came with the list, unless a reply was ignored. *)
SettledIn(s) ==
  s \in Known /\ "props" \in sessions[s] /\ (s \in announced \/ "list" \in sessions[s])

OpenSessionKnown ==
  \A s \in Sessions : s \in active /\ Serving ~> SettledIn(s) \/ s \in ended \/ ignored # {} \/ ~Serving

=============================================================================
