----------------------- MODULE SessionManagerProofs -----------------------
(***************************************************************************)
(* What holds of SessionManager for every set of sessions and every ring.  *)
(***************************************************************************)
EXTENDS SessionManager, SequenceTheorems, FiniteSetTheorems, TLAPS

(* A queue keeps its type when an element is put at its end or its head taken. *)
LEMMA QueueType ==
  ASSUME NEW S, NEW q \in Seq(S)
  PROVE  /\ \A e \in S : Append(q, e) \in Seq(S)
         /\ q # << >> => Head(q) \in S /\ Tail(q) \in Seq(S)
  OBVIOUS

(* logind names sessions that are active, and only in well-formed messages. *)
LEMMA RepliesType ==
  ASSUME active \subseteq Sessions, NEW r \in Request, NEW m \in Replies(r)
  PROVE  m \in Message
<1>1. Cardinality(active) \in Nat
  BY SessionManagerAssumption, FS_Subset, FS_CardinalityType
<1>2. CASE r.op = "ListSessions"
  <2>1. PICK q \in Listings(active) : m = [kind |-> "ListReply", serial |-> r.serial, ids |-> q]
    BY <1>2 DEF Replies
  <2>2. q \in Seq(Sessions)
    BY <1>1, SeqDef DEF Listings
  <2> QED
    BY <2>1, <2>2 DEF Request, Message
<1>3. CASE r.op # "ListSessions"
  <2>1. r.id \in active => <<r.id>> \in [1..1 -> Sessions]
    BY DEF Request
  <2>2. << >> \in Seq(Sessions)
    OBVIOUS
  <2>3. CASE r.id \in active
    <3>1. m = [kind |-> "PropsReply", serial |-> r.serial, ids |-> <<r.id>>]
      BY <1>3, <2>3 DEF Replies
    <3> QED
      BY <3>1, <2>1, <2>3 DEF Request, Message
  <2>4. CASE r.id \notin active
    <3>1. m = [kind |-> "ErrorReply", serial |-> r.serial, ids |-> << >>]
      BY <1>3, <2>4 DEF Replies
    <3> QED
      BY <3>1, <2>2 DEF Request, Message
  <2> QED
    BY <2>3, <2>4
<1> QED
  BY <1>2, <1>3

(* The type invariant of ComexSessionManager and its threads. *)
THEOREM TypeCorrect == Spec => []TypeOK
<1>1. Init => TypeOK
  BY SessionManagerAssumption
  DEF Init, TypeOK, BusTypeOK, CacheTypeOK, QueuesTypeOK, RingTypeOK, MainTypeOK,
      ListenerTypeOK, DispatcherTypeOK, HistoryTypeOK, Known
<1>2. TypeOK /\ [Next]_vars => TypeOK'
  <2> SUFFICES ASSUME TypeOK, [Next]_vars PROVE TypeOK'
    OBVIOUS
  <2>a. UNCHANGED <<logindVars, serial, requests, inbox>> => BusTypeOK'
    BY DEF TypeOK, BusTypeOK, logindVars
  <2>b. UNCHANGED sessions => CacheTypeOK'
    BY DEF TypeOK, CacheTypeOK, Known
  <2>c. UNCHANGED queueVars => QueuesTypeOK'
    BY DEF TypeOK, QueuesTypeOK, queueVars
  <2>d. UNCHANGED ringVars => RingTypeOK'
    BY DEF TypeOK, RingTypeOK, ringVars
  <2>e. UNCHANGED <<mainVars, runningVars>> => MainTypeOK'
    BY DEF TypeOK, MainTypeOK, mainVars, runningVars
  <2>f. UNCHANGED listenerVars => ListenerTypeOK'
    BY DEF TypeOK, ListenerTypeOK, listenerVars
  <2>g. UNCHANGED dispatcherVars => DispatcherTypeOK'
    BY DEF TypeOK, DispatcherTypeOK, dispatcherVars
  <2>h. UNCHANGED historyVars => HistoryTypeOK'
    BY DEF TypeOK, HistoryTypeOK, historyVars
  <2> USE <2>a, <2>b, <2>c, <2>d, <2>e, <2>f, <2>g, <2>h
  <2>q. ReadMessage => message \in Message /\ inbox' \in Seq(Message)
    BY QueueType DEF TypeOK, BusTypeOK, ReadMessage, message
  <2>p. ASSUME NEW s \in Sessions, QueryProperties(s)
        PROVE  /\ serial' \in Nat
               /\ requests' \in Seq(Request)
               /\ RingTypeOK'
    <3>1. [op |-> "GetAll", serial |-> serial + 1, id |-> s] \in Request
      BY DEF TypeOK, BusTypeOK, Request
    <3>2. requests' \in Seq(Request) /\ serial' \in Nat
      BY <2>p, <3>1 DEF QueryProperties, TypeOK, BusTypeOK
    <3>3. RingTypeOK'
      BY <2>p, SessionManagerAssumption DEF QueryProperties, NextSlot, SentSerial, TypeOK, BusTypeOK, RingTypeOK
    <3> QED
      BY <3>2, <3>3
  <2>1. ASSUME NEW s \in Sessions, LogindOpen(s) \/ LogindClose(s) PROVE TypeOK'
    <3>1. Signal("SessionNew", s) \in Message /\ Signal("SessionRemoved", s) \in Message
      <4>1. <<s>> \in [1..1 -> Sessions]
        OBVIOUS
      <4> QED
        BY <4>1 DEF Signal, Message
    <3>2. inbox' \in Seq(Message)
      <4>1. PICK m \in Message : inbox' = Append(inbox, m)
        BY <2>1, <3>1 DEF LogindOpen, LogindClose
      <4> QED
        BY <4>1, QueueType DEF TypeOK, BusTypeOK
    <3>3. BusTypeOK'
      BY <2>1, <3>2 DEF LogindOpen, LogindClose, TypeOK, BusTypeOK
    <3> QED
      BY <2>1, <3>3 DEF LogindOpen, LogindClose, TypeOK
  <2>3. ASSUME LogindAnswer PROVE TypeOK'
    <3>1. Head(requests) \in Request /\ requests' \in Seq(Request)
      BY <2>3, QueueType DEF LogindAnswer, TypeOK, BusTypeOK
    <3>2. PICK m \in Replies(Head(requests)) : inbox' = Append(inbox, m)
      BY <2>3 DEF LogindAnswer
    <3>3. m \in Message
      BY <3>1, RepliesType DEF TypeOK, BusTypeOK
    <3>4. BusTypeOK'
      BY <2>3, <3>1, <3>2, <3>3, QueueType DEF LogindAnswer, TypeOK, BusTypeOK, logindVars
    <3> QED
      BY <2>3, <3>4 DEF LogindAnswer, TypeOK
  <2>4. ASSUME QuerySessionsSend PROVE TypeOK'
    <3>1. [op |-> "ListSessions", serial |-> serial + 1, id |-> NoSession] \in Request
      BY DEF TypeOK, BusTypeOK, Request
    <3>2. BusTypeOK' /\ MainTypeOK'
      BY <2>4, <3>1, QueueType
      DEF QuerySessionsSend, TypeOK, BusTypeOK, MainTypeOK, logindVars, runningVars
    <3> QED
      BY <2>4, <3>2 DEF QuerySessionsSend, TypeOK
  <2>5. ASSUME QuerySessionsStore \/ CloseDBus \/ JoinDispatcher \/ JoinListener PROVE TypeOK'
    <3>1. MainTypeOK'
      BY <2>5 DEF QuerySessionsStore, CloseDBus, JoinDispatcher, JoinListener, TypeOK, MainTypeOK,
                  runningVars
    <3> QED
      BY <2>5, <3>1 DEF QuerySessionsStore, CloseDBus, JoinDispatcher, JoinListener, TypeOK
  <2>7. ASSUME ListenerLoop \/ ListenerTimeout PROVE TypeOK'
    <3>1. ListenerTypeOK'
      BY <2>7 DEF ListenerLoop, ListenerTimeout, TypeOK, ListenerTypeOK
    <3> QED
      BY <2>7, <3>1 DEF ListenerLoop, ListenerTimeout, TypeOK
  <2>8. ASSUME OnSessionNewSignal PROVE TypeOK'
    <3>1. message.ids[1] \in Sessions
      BY <2>8, <2>q DEF OnSessionNewSignal, Message
    <3>2. BusTypeOK' /\ RingTypeOK'
      BY <2>8, <3>1, <2>p, <2>q DEF OnSessionNewSignal, TypeOK, BusTypeOK, logindVars
    <3>3. ListenerTypeOK'
      BY <2>8 DEF OnSessionNewSignal, ReadMessage, TypeOK, ListenerTypeOK
    <3> QED
      BY <2>8, <3>2, <3>3 DEF OnSessionNewSignal, TypeOK
  <2>9. ASSUME OnSessionRemovedSignal PROVE TypeOK'
    <3>1. message.ids[1] \in Sessions
      BY <2>9, <2>q DEF OnSessionRemovedSignal, Message
    <3>2. BusTypeOK'
      BY <2>9, <2>q DEF OnSessionRemovedSignal, TypeOK, BusTypeOK, logindVars
    <3>3. QueuesTypeOK'
      BY <2>9, <3>1, QueueType DEF OnSessionRemovedSignal, TypeOK, QueuesTypeOK
    <3>4. ListenerTypeOK'
      BY <2>9 DEF OnSessionRemovedSignal, AfterPush, ReadMessage, TypeOK, ListenerTypeOK
    <3> QED
      BY <2>9, <3>2, <3>3, <3>4 DEF OnSessionRemovedSignal, TypeOK
  <2>10. ASSUME ParseSessionsBegin PROVE TypeOK'
    <3>1. message.ids \in Seq(Sessions)
      <4>1. [1..1 -> Sessions] \subseteq Seq(Sessions)
        BY SeqDef
      <4> QED
        BY <2>10, <2>q, <4>1 DEF ParseSessionsBegin, Message
    <3>2. BusTypeOK'
      BY <2>10, <2>q DEF ParseSessionsBegin, TypeOK, BusTypeOK, logindVars
    <3>3. ListenerTypeOK'
      BY <2>10, <3>1 DEF ParseSessionsBegin, ReadMessage, TypeOK, ListenerTypeOK
    <3> QED
      BY <2>10, <3>2, <3>3 DEF ParseSessionsBegin, TypeOK
  <2>11. ASSUME ParseSessionsNext PROVE TypeOK'
    <3>1. Head(listing) \in Sessions /\ Tail(listing) \in Seq(Sessions)
      BY <2>11, QueueType DEF ParseSessionsNext, TypeOK, ListenerTypeOK
    <3>2. BusTypeOK' /\ RingTypeOK'
      BY <2>11, <3>1, <2>p DEF ParseSessionsNext, TypeOK, BusTypeOK, logindVars
    <3>3. CacheTypeOK'
      BY <2>11, <3>1 DEF ParseSessionsNext, WithSource, TypeOK, CacheTypeOK, Known
    <3>4. ListenerTypeOK'
      BY <2>11, <3>1 DEF ParseSessionsNext, TypeOK, ListenerTypeOK
    <3> QED
      BY <2>11, <3>2, <3>3, <3>4 DEF ParseSessionsNext, TypeOK
  <2>12. ASSUME ParseProperties PROVE TypeOK'
    <3>1. message.ids[1] \in Sessions
      BY <2>12, <2>q DEF ParseProperties, Message
    <3>2. BusTypeOK'
      BY <2>12, <2>q DEF ParseProperties, TypeOK, BusTypeOK, logindVars
    <3>3. CacheTypeOK'
      BY <2>12, <3>1 DEF ParseProperties, WithSource, TypeOK, CacheTypeOK, Known
    <3>4. ListenerTypeOK'
      BY <2>12, <3>1 DEF ParseProperties, IsSessionNew, ReadMessage, TypeOK, ListenerTypeOK
    <3> QED
      BY <2>12, <3>2, <3>3, <3>4 DEF ParseProperties, TypeOK
  <2>13. ASSUME PushEventNew \/ PostEvent PROVE TypeOK'
    <3>1. QueuesTypeOK'
      <4>1. CASE PushEventNew
        <5>1. pushing \in Sessions
          BY <4>1 DEF PushEventNew, TypeOK, ListenerTypeOK
        <5> QED
          BY <4>1, <5>1, QueueType DEF PushEventNew, TypeOK, QueuesTypeOK
      <4>2. CASE PostEvent
        BY <4>2 DEF PostEvent, TypeOK, QueuesTypeOK
      <4> QED
        BY <2>13, <4>1, <4>2
    <3>2. ListenerTypeOK'
      BY <2>13 DEF PushEventNew, PostEvent, AfterPush, TypeOK, ListenerTypeOK
    <3> QED
      BY <2>13, <3>1, <3>2 DEF PushEventNew, PostEvent, TypeOK
  <2>14. ASSUME IgnoreReply PROVE TypeOK'
    <3>1. message.serial \in Nat
      BY <2>14, <2>q DEF IgnoreReply, Message
    <3>2. BusTypeOK'
      BY <2>14, <2>q DEF IgnoreReply, TypeOK, BusTypeOK, logindVars
    <3>3. ListenerTypeOK'
      BY <2>14 DEF IgnoreReply, ReadMessage, TypeOK, ListenerTypeOK
    <3>4. HistoryTypeOK'
      BY <2>14, <3>1 DEF IgnoreReply, TypeOK, HistoryTypeOK
    <3> QED
      BY <2>14, <3>2, <3>3, <3>4 DEF IgnoreReply, TypeOK
  <2>15. ASSUME DispatcherLoop \/ DispatcherWait PROVE TypeOK'
    <3>1. QueuesTypeOK' /\ DispatcherTypeOK'
      BY <2>15 DEF DispatcherLoop, DispatcherWait, TypeOK, QueuesTypeOK, DispatcherTypeOK, queueVars
    <3> QED
      BY <2>15, <3>1 DEF DispatcherLoop, DispatcherWait, TypeOK
  <2>16. ASSUME PopEventNew \/ PopEventRemove PROVE TypeOK'
    <3>1. QueuesTypeOK' /\ DispatcherTypeOK'
      BY <2>16, QueueType
      DEF PopEventNew, PopEventRemove, TypeOK, QueuesTypeOK, DispatcherTypeOK
    <3> QED
      BY <2>16, <3>1 DEF PopEventNew, PopEventRemove, TypeOK
  <2>17. ASSUME LookupNew \/ OnSessionNewReturns \/ OnSessionRemovedReturns PROVE TypeOK'
    <3>1. DispatcherTypeOK'
      BY <2>17 DEF LookupNew, OnSessionNewReturns, OnSessionRemovedReturns, AfterNew, AfterRemove,
                   TypeOK, DispatcherTypeOK
    <3>2. HistoryTypeOK'
      BY <2>17 DEF LookupNew, OnSessionNewReturns, OnSessionRemovedReturns, TypeOK,
                   DispatcherTypeOK, HistoryTypeOK, historyVars
    <3> QED
      BY <2>17, <3>1, <3>2 DEF LookupNew, OnSessionNewReturns, OnSessionRemovedReturns, TypeOK
  <2>19. ASSUME EraseRemoved PROVE TypeOK'
    <3>1. CacheTypeOK' /\ DispatcherTypeOK' /\ HistoryTypeOK'
      BY <2>19 DEF EraseRemoved, SessionsWithout, TypeOK, CacheTypeOK, DispatcherTypeOK, HistoryTypeOK, Known
    <3> QED
      BY <2>19, <3>1 DEF EraseRemoved, TypeOK
  <2>20. ASSUME UNCHANGED vars PROVE TypeOK'
    BY <2>20 DEF vars, TypeOK
  <2> QED
    BY <2>1, <2>3, <2>4, <2>5, <2>7, <2>8, <2>9, <2>10, <2>11, <2>12, <2>13, <2>14,
       <2>15, <2>16, <2>17, <2>19, <2>20
    DEF Next, Listener, ListenerMessageCallback, Dispatcher, Closed
<1> QED
  BY <1>1, <1>2, PTL DEF Spec

-----------------------------------------------------------------------------
(* What the channel does to an index: appending keeps the messages there are,
   reading moves each of them one place forward. *)
LEMMA AppendIndex ==
  ASSUME NEW S, NEW q \in Seq(S), NEW e \in S
  PROVE  /\ DOMAIN Append(q, e) = DOMAIN q \cup {Len(q) + 1}
         /\ \A i \in DOMAIN q : i < Len(q) + 1 /\ Append(q, e)[i] = q[i]
         /\ Append(q, e)[Len(q) + 1] = e
  OBVIOUS

LEMMA TailIndex ==
  ASSUME NEW S, NEW q \in Seq(S), q # << >>
  PROVE  /\ 1 \in DOMAIN q /\ Head(q) = q[1]
         /\ \A i \in DOMAIN Tail(q) : i \in Nat /\ 1 < i + 1 /\ i + 1 \in DOMAIN q /\ Tail(q)[i] = q[i + 1]
  OBVIOUS

(* A reply carries sessions that were active when logind gave it. *)
LEMMA RepliesCarryActive ==
  ASSUME active \subseteq Sessions, NEW r \in Request, NEW m \in Replies(r), NEW s
  PROVE  ~IsRemoval(m, s) /\ (Carries(m, s) => s \in active)
<1>1. CASE r.op = "ListSessions"
  <2>1. Cardinality(active) \in Nat
    BY SessionManagerAssumption, FS_Subset, FS_CardinalityType
  <2>2. PICK q \in Listings(active) : m = [kind |-> "ListReply", serial |-> r.serial, ids |-> q]
    BY <1>1 DEF Replies
  <2> QED
    BY <2>1, <2>2 DEF Listings, IsRemoval, Carries
<1>2. CASE r.op # "ListSessions" /\ r.id \in active
  <2>1. m = [kind |-> "PropsReply", serial |-> r.serial, ids |-> <<r.id>>]
    BY <1>2 DEF Replies
  <2> QED
    BY <1>2, <2>1 DEF IsRemoval, Carries
<1>3. CASE r.op # "ListSessions" /\ r.id \notin active
  <2>1. m = [kind |-> "ErrorReply", serial |-> r.serial, ids |-> << >>]
    BY <1>3 DEF Replies
  <2> QED
    BY <2>1 DEF IsRemoval, Carries
<1> QED
  BY <1>1, <1>2, <1>3

(* The inductive invariant behind NoResurrection. *)
THEOREM RemovalFinal == Spec => []RemovalIsFinal
<1>1. Init => RemovalIsFinal
  BY DEF Init, RemovalIsFinal, NotYetRemoved, NothingBehindRemoval, NothingOnceRead, NoResurrection,
         RemovalRead, Known
<1>2. TypeOK /\ RemovalIsFinal /\ [Next]_vars => RemovalIsFinal'
  <2> SUFFICES ASSUME TypeOK, RemovalIsFinal, [Next]_vars PROVE RemovalIsFinal'
    OBVIOUS
  <2> USE DEF RemovalIsFinal
  <2>a. ASSUME UNCHANGED <<event_remove, dispatcherVars, departed>>
        PROVE  \A s : RemovalRead(s)' <=> RemovalRead(s)
    BY <2>a DEF RemovalRead, dispatcherVars
  <2>b. ASSUME UNCHANGED <<unborn, active, inbox, listing>>,
               \A s \in Sessions : RemovalRead(s)' => RemovalRead(s),
               NoResurrection'
        PROVE  RemovalIsFinal'
    BY <2>b DEF NotYetRemoved, NothingBehindRemoval, NothingOnceRead, TypeOK, BusTypeOK
  <2>c. ASSUME UNCHANGED <<departed, sessions>> PROVE NoResurrection'
    BY <2>c DEF NoResurrection, Known
  <2>1. ASSUME NEW s \in Sessions, LogindOpen(s) PROVE RemovalIsFinal'
    <3> DEFINE m == Signal("SessionNew", s)
    <3>1. m \in Message /\ (\A t : ~IsRemoval(m, t) /\ ~Carries(m, t))
      <4>1. <<s>> \in [1..1 -> Sessions]
        OBVIOUS
      <4> QED
        BY <4>1 DEF Signal, Message, IsRemoval, Carries
    <3> HIDE DEF m
    <3> QED
      BY <2>1, <2>a, <2>c, <3>1, AppendIndex
      DEF LogindOpen, m, NotYetRemoved, NothingBehindRemoval, NothingOnceRead, TypeOK, BusTypeOK,
          queueVars, historyVars, listenerVars
  <2>2. ASSUME NEW s \in Sessions, LogindClose(s) PROVE RemovalIsFinal'
    <3> DEFINE m == Signal("SessionRemoved", s)
    <3>1. m \in Message /\ (\A t : ~Carries(m, t) /\ (IsRemoval(m, t) => t = s))
      <4>1. <<s>> \in [1..1 -> Sessions]
        OBVIOUS
      <4> QED
        BY <4>1 DEF Signal, Message, IsRemoval, Carries
    <3> HIDE DEF m
    <3>2. s \notin active' \cup unborn'
      BY <2>2 DEF LogindClose, NotYetRemoved
    <3> QED
      BY <2>2, <2>a, <2>c, <3>1, <3>2, AppendIndex
      DEF LogindClose, m, NotYetRemoved, NothingBehindRemoval, NothingOnceRead, TypeOK, BusTypeOK,
          queueVars, historyVars, listenerVars
  <2>3. ASSUME LogindAnswer PROVE RemovalIsFinal'
    <3>1. Head(requests) \in Request
      BY <2>3, QueueType DEF LogindAnswer, TypeOK, BusTypeOK
    <3>2. PICK m \in Replies(Head(requests)) : inbox' = Append(inbox, m)
      BY <2>3 DEF LogindAnswer
    <3>3. m \in Message /\ \A s : ~IsRemoval(m, s) /\ (Carries(m, s) => s \in active)
      BY <3>1, RepliesType, RepliesCarryActive DEF TypeOK, BusTypeOK
    <3>4. UNCHANGED <<unborn, active, listing>> /\ \A s : RemovalRead(s)' <=> RemovalRead(s)
      BY <2>3, <2>a DEF LogindAnswer, queueVars, historyVars, logindVars, listenerVars
    <3>5. NoResurrection'
      BY <2>3, <2>c DEF LogindAnswer, historyVars
    <3> QED
      BY <3>2, <3>3, <3>4, <3>5, AppendIndex
      DEF NotYetRemoved, NothingBehindRemoval, NothingOnceRead, TypeOK, BusTypeOK
  <2>4. ASSUME \/ QuerySessionsSend \/ QuerySessionsStore \/ CloseDBus \/ JoinDispatcher
               \/ JoinListener \/ ListenerLoop \/ ListenerTimeout \/ PushEventNew \/ PostEvent
        PROVE  RemovalIsFinal'
    <3>1. UNCHANGED <<unborn, active, inbox, listing, sessions, event_remove, dispatcherVars, departed>>
      BY <2>4 DEF QuerySessionsSend, QuerySessionsStore, CloseDBus, JoinDispatcher, JoinListener,
                  ListenerLoop, ListenerTimeout, PushEventNew, PostEvent, logindVars, queueVars,
                  historyVars, listenerVars
    <3> QED
      BY <3>1, <2>a, <2>b, <2>c
  <2>5. ASSUME ReadMessage
        PROVE  /\ 1 \in DOMAIN inbox /\ message = inbox[1]
               /\ \A i \in DOMAIN inbox' : /\ i \in Nat /\ 1 < i + 1 /\ i + 1 \in DOMAIN inbox
                                         /\ inbox'[i] = inbox[i + 1]
    BY <2>5, TailIndex DEF ReadMessage, message, TypeOK, BusTypeOK
  <2>6. ASSUME OnSessionNewSignal \/ IgnoreReply PROVE RemovalIsFinal'
    <3>1. ReadMessage /\ UNCHANGED <<unborn, active, listing, sessions, event_remove, dispatcherVars, departed>>
      BY <2>6 DEF OnSessionNewSignal, IgnoreReply, logindVars, queueVars, historyVars
    <3> QED
      BY <3>1, <2>a, <2>c, <2>5
      DEF NotYetRemoved, NothingBehindRemoval, NothingOnceRead, TypeOK, BusTypeOK
  <2>7. ASSUME OnSessionRemovedSignal PROVE RemovalIsFinal'
    <3>1. ReadMessage /\ UNCHANGED <<unborn, active, listing, sessions, dispatcherVars, departed>>
      BY <2>7 DEF OnSessionRemovedSignal, logindVars, historyVars
    <3>2. \A s : RemovalRead(s)' => RemovalRead(s) \/ s = message.ids[1]
      BY <2>7, <3>1 DEF OnSessionRemovedSignal, RemovalRead, TypeOK, QueuesTypeOK, dispatcherVars
    <3>3. IsRemoval(inbox[1], message.ids[1])
      BY <2>7, <3>1, <2>5 DEF OnSessionRemovedSignal, IsRemoval
    <3>4. listing = << >>
      BY <3>1 DEF ReadMessage, TypeOK, ListenerTypeOK
    <3>5. NoResurrection'
      BY <3>1, <2>c
    <3>6. NothingBehindRemoval'
      <4> SUFFICES ASSUME NEW s \in Sessions, NEW i \in DOMAIN inbox', NEW j \in DOMAIN inbox',
                          i < j, IsRemoval(inbox'[i], s)
                   PROVE  ~Carries(inbox'[j], s)
        BY DEF NothingBehindRemoval
      <4>1. i + 1 < j + 1
        BY <3>1, <2>5
      <4> QED
        BY <4>1, <3>1, <2>5 DEF NothingBehindRemoval
    <3>7. NotYetRemoved'
      BY <3>1, <3>2, <3>3, <2>5 DEF NotYetRemoved
    <3>8. NothingOnceRead'
      BY <3>1, <3>2, <3>3, <3>4, <2>5 DEF NothingOnceRead, NothingBehindRemoval
    <3> QED
      BY <3>5, <3>6, <3>7, <3>8
  <2>8. ASSUME ParseSessionsBegin PROVE RemovalIsFinal'
    <3>1. ReadMessage /\ UNCHANGED <<unborn, active, sessions, event_remove, dispatcherVars, departed>>
      BY <2>8 DEF ParseSessionsBegin, logindVars, queueVars, historyVars
    <3>2. \A s : (\E i \in DOMAIN listing' : listing'[i] = s) => Carries(inbox[1], s)
      BY <2>8, <3>1, <2>5 DEF ParseSessionsBegin, Carries
    <3> QED
      BY <3>1, <3>2, <2>a, <2>c, <2>5
      DEF NotYetRemoved, NothingBehindRemoval, NothingOnceRead, TypeOK, BusTypeOK
  <2>9. ASSUME ParseSessionsNext PROVE RemovalIsFinal'
    <3>1. UNCHANGED <<unborn, active, inbox, event_remove, dispatcherVars, departed>>
      BY <2>9 DEF ParseSessionsNext, logindVars, queueVars, historyVars
    <3>2. /\ \A i \in DOMAIN listing' : i + 1 \in DOMAIN listing /\ listing'[i] = listing[i + 1]
          /\ 1 \in DOMAIN listing /\ Head(listing) = listing[1]
      BY <2>9, TailIndex DEF ParseSessionsNext, TypeOK, ListenerTypeOK
    <3>3. Head(listing) \notin departed
      BY <3>2 DEF NothingOnceRead, RemovalRead, TypeOK, HistoryTypeOK
    <3>4. NoResurrection'
      BY <2>9, <3>1, <3>3 DEF ParseSessionsNext, WithSource, NoResurrection, Known
    <3> QED
      BY <3>1, <3>2, <3>4, <2>a
      DEF NotYetRemoved, NothingBehindRemoval, NothingOnceRead, TypeOK, BusTypeOK
  <2>10. ASSUME ParseProperties PROVE RemovalIsFinal'
    <3>1. ReadMessage /\ UNCHANGED <<unborn, active, listing, event_remove, dispatcherVars, departed>>
      BY <2>10 DEF ParseProperties, logindVars, queueVars, historyVars
    <3>2. message.ids[1] \notin departed
      <4>1. message \in Message
        BY <3>1, <2>5 DEF TypeOK, BusTypeOK
      <4>2. Carries(inbox[1], message.ids[1])
        BY <2>10, <3>1, <2>5, <4>1 DEF ParseProperties, Carries, Message
      <4> QED
        BY <3>1, <2>5, <4>2 DEF NothingOnceRead, RemovalRead, TypeOK, HistoryTypeOK
    <3>3. NoResurrection'
      BY <2>10, <3>1, <3>2 DEF ParseProperties, WithSource, NoResurrection, Known
    <3>4. NothingBehindRemoval'
      <4> SUFFICES ASSUME NEW s \in Sessions, NEW i \in DOMAIN inbox', NEW j \in DOMAIN inbox',
                          i < j, IsRemoval(inbox'[i], s)
                   PROVE  ~Carries(inbox'[j], s)
        BY DEF NothingBehindRemoval
      <4>1. i + 1 < j + 1
        BY <3>1, <2>5
      <4> QED
        BY <4>1, <3>1, <2>5 DEF NothingBehindRemoval
    <3>5. NotYetRemoved' /\ NothingOnceRead'
      BY <3>1, <2>a, <2>5 DEF NotYetRemoved, NothingOnceRead
    <3> QED
      BY <3>3, <3>4, <3>5
  <2>11. ASSUME \/ DispatcherLoop \/ DispatcherWait \/ PopEventNew \/ LookupNew
                \/ OnSessionNewReturns \/ OnSessionRemovedReturns
         PROVE  RemovalIsFinal'
    <3>1. UNCHANGED <<unborn, active, inbox, listing, sessions, event_remove, departed>>
      BY <2>11 DEF DispatcherLoop, DispatcherWait, PopEventNew, LookupNew, OnSessionNewReturns,
                   OnSessionRemovedReturns, logindVars, queueVars, historyVars, listenerVars
    <3>2. dispatcher_pc' # "erase"
      BY <2>11 DEF DispatcherLoop, DispatcherWait, PopEventNew, LookupNew, OnSessionNewReturns,
                   OnSessionRemovedReturns, AfterNew, AfterRemove
    <3> QED
      BY <3>1, <3>2, <2>b, <2>c DEF RemovalRead
  <2>12. ASSUME PopEventRemove PROVE RemovalIsFinal'
    <3>1. UNCHANGED <<unborn, active, inbox, listing, sessions, departed>>
      BY <2>12 DEF PopEventRemove, logindVars, historyVars, listenerVars
    <3>2. CASE event_remove = << >>
      BY <2>12, <3>1, <3>2, <2>b, <2>c DEF PopEventRemove, RemovalRead
    <3>3. CASE event_remove # << >>
      <4>1. /\ \A i \in DOMAIN event_remove' : i + 1 \in DOMAIN event_remove
                                             /\ event_remove'[i] = event_remove[i + 1]
            /\ 1 \in DOMAIN event_remove /\ current' = event_remove[1]
        BY <2>12, <3>3, TailIndex DEF PopEventRemove, TypeOK, QueuesTypeOK
      <4> QED
        BY <3>1, <4>1, <2>b, <2>c DEF RemovalRead
    <3> QED
      BY <3>2, <3>3
  <2>13. ASSUME EraseRemoved PROVE RemovalIsFinal'
    <3>1. UNCHANGED <<unborn, active, inbox, listing, event_remove>>
      BY <2>13 DEF EraseRemoved, logindVars, queueVars, listenerVars
    <3>2. \A s : RemovalRead(s)' => RemovalRead(s)
      BY <2>13, <3>1 DEF EraseRemoved, RemovalRead
    <3>3. NoResurrection'
      BY <2>13 DEF EraseRemoved, SessionsWithout, NoResurrection, Known
    <3> QED
      BY <3>1, <3>2, <3>3, <2>b
  <2>14. ASSUME UNCHANGED vars PROVE RemovalIsFinal'
    BY <2>14, <2>a, <2>b, <2>c DEF vars, logindVars, queueVars, listenerVars, historyVars
  <2> QED
    BY <2>1, <2>2, <2>3, <2>4, <2>6, <2>7, <2>8, <2>9, <2>10, <2>11, <2>12, <2>13, <2>14
    DEF Next, Listener, ListenerMessageCallback, Dispatcher, Closed
<1> QED
  BY <1>1, <1>2, TypeCorrect, PTL DEF Spec

(* A session whose removal was delivered never comes back into the map. *)
THEOREM RemovedStaysRemoved == Spec => []NoResurrection
  BY RemovalFinal, PTL DEF RemovalIsFinal
-----------------------------------------------------------------------------
(* The way of a new session to onSessionNew. *)

(* It is in the map with its properties; or it was, and its removal has been
   delivered. *)
Filled(s)  == s \in Known /\ "props" \in sessions[s]
Entered(s) == Filled(s) \/ s \in departed

Queued(s) == \E i \in DOMAIN event_new : event_new[i] = s
Pushed(s) == listener_pc = "push" /\ pushing = s
Looked(s) == dispatcher_pc = "lookup" /\ current = s

(* A session is on the way once, and only after it was entered: it is about to
   be queued, or queued, or popped, or announced. *)
NewsInv ==
  /\ \A s \in Sessions : Pushed(s) \/ Queued(s) \/ Looked(s) \/ s \in announced => Entered(s)
  /\ \A s \in Sessions : /\ Pushed(s) => ~Queued(s) /\ ~Looked(s) /\ s \notin announced
                         /\ Queued(s) => ~Looked(s) /\ s \notin announced
                         /\ Looked(s) => s \notin announced
  /\ \A i, j \in DOMAIN event_new : event_new[i] = event_new[j] => i = j
  /\ dispatcher_pc = "onNew" => Filled(current)

LEMMA Entering ==
  ASSUME TypeOK, NEW s \in Sessions, NEW source \in {"list", "props"}
  PROVE  /\ DOMAIN WithSource(s, source) = Known \cup {s}
         /\ source \in WithSource(s, source)[s]
         /\ \A t \in Known : sessions[t] \subseteq WithSource(s, source)[t]
BY DEF WithSource, Known

LEMMA NewsKeeps ==
  ASSUME TypeOK, RemovalIsFinal, NewsInv, [Next]_vars
  PROVE  NewsInv'
<1> USE DEF NewsInv
<1>0. \A s : (Queued(s)' <=> \E i \in DOMAIN event_new' : event_new'[i] = s)
             /\ (Pushed(s)' <=> listener_pc' = "push" /\ pushing' = s)
             /\ (Looked(s)' <=> dispatcher_pc' = "lookup" /\ current' = s)
  BY DEF Queued, Pushed, Looked
<1>a. ASSUME UNCHANGED <<sessions, departed>> PROVE \A s : (Entered(s)' <=> Entered(s)) /\ (Filled(s)' <=> Filled(s))
  BY <1>a DEF Entered, Filled, Known
<1>b. ASSUME UNCHANGED <<event_new, announced>>,
             \A s \in Sessions : Entered(s) => Entered(s)',
             \A s : Pushed(s)' => Pushed(s), \A s : Looked(s)' => Looked(s),
             dispatcher_pc' = "onNew" => Filled(current)'
      PROVE  NewsInv'
  BY <1>b DEF Queued
<1>1. ASSUME UNCHANGED <<event_new, announced, sessions, departed, pushing, dispatcherVars>>,
             listener_pc' = listener_pc \/ listener_pc' # "push"
      PROVE  NewsInv'
  <2>1. dispatcher_pc' = "onNew" => Filled(current)'
    BY <1>1, <1>a DEF dispatcherVars, Filled, Known
  <2> QED
    BY <1>1, <1>0, <1>a, <1>b, <2>1 DEF dispatcherVars, Pushed, Looked
<1>2. ASSUME NEW s \in Sessions, LogindOpen(s) \/ LogindClose(s) PROVE NewsInv'
  BY <1>2, <1>1 DEF LogindOpen, LogindClose, queueVars, listenerVars, historyVars
<1>3. ASSUME \/ LogindAnswer \/ QuerySessionsSend \/ QuerySessionsStore \/ CloseDBus
             \/ JoinDispatcher \/ JoinListener \/ UNCHANGED vars
      PROVE  NewsInv'
  BY <1>3, <1>1 DEF LogindAnswer, QuerySessionsSend, QuerySessionsStore, CloseDBus, JoinDispatcher,
                    JoinListener, vars, queueVars, listenerVars, historyVars
<1>4. ASSUME \/ ListenerLoop \/ ListenerTimeout \/ OnSessionNewSignal \/ OnSessionRemovedSignal
             \/ ParseSessionsBegin \/ IgnoreReply \/ PostEvent
      PROVE  NewsInv'
  <2>1. UNCHANGED <<event_new, announced, sessions, departed, pushing, dispatcherVars>>
    BY <1>4 DEF ListenerLoop, ListenerTimeout, OnSessionNewSignal, OnSessionRemovedSignal, ParseSessionsBegin,
                IgnoreReply, PostEvent, queueVars, historyVars
  <2>2. listener_pc' # "push"
    BY <1>4 DEF ListenerLoop, ListenerTimeout, OnSessionNewSignal, OnSessionRemovedSignal, ParseSessionsBegin,
                IgnoreReply, PostEvent, AfterPush
  <2> QED
    BY <1>1, <2>1, <2>2
<1>5. ASSUME ParseSessionsNext PROVE NewsInv'
  <2> DEFINE h == Head(listing)
  <2>1. /\ UNCHANGED <<event_new, announced, departed, dispatcherVars>> /\ listener_pc' # "push"
        /\ sessions' = WithSource(h, "list")
    BY <1>5 DEF ParseSessionsNext, queueVars, historyVars
  <2>2. h \in Sessions
    BY <1>5, QueueType DEF ParseSessionsNext, TypeOK, ListenerTypeOK
  <2> HIDE DEF h
  <2>3. \A s : Filled(s) => Filled(s)'
    BY <2>1, <2>2, Entering DEF Filled, Known
  <2>4. \A s : Entered(s) => Entered(s)'
    BY <2>1, <2>3 DEF Entered
  <2>5. \A s : ~Pushed(s)' /\ (Looked(s)' => Looked(s))
    BY <1>0, <2>1 DEF Looked, dispatcherVars
  <2>6. dispatcher_pc' = "onNew" => Filled(current)'
    BY <2>1, <2>3 DEF dispatcherVars
  <2> QED
    BY <1>b, <2>1, <2>4, <2>5, <2>6
<1>6. ASSUME ParseProperties PROVE NewsInv'
  <2>0. message = inbox[1] /\ 1 \in DOMAIN inbox /\ message.kind = "PropsReply"
    BY <1>6, TailIndex DEF ParseProperties, ReadMessage, message, TypeOK, BusTypeOK
  <2>1. message \in Message
    BY <2>0 DEF TypeOK, BusTypeOK
  <2>2. PICK p \in Sessions : p = message.ids[1] /\ Carries(inbox[1], p)
    BY <2>0, <2>1 DEF Message, Carries
  <2>3. p \notin departed
    BY <2>0, <2>2 DEF RemovalIsFinal, NothingOnceRead, RemovalRead
  <2>4. /\ UNCHANGED <<event_new, announced, departed, dispatcherVars>>
        /\ sessions' = WithSource(p, "props")
        /\ \/ p \in Known /\ listener_pc' # "push"
           \/ p \notin Known /\ pushing' = p
    BY <1>6, <2>2 DEF ParseProperties, IsSessionNew, queueVars, historyVars
  <2>5. (\A s : Filled(s) => Filled(s)') /\ Filled(p)'
    BY <2>2, <2>4, Entering DEF Filled, Known
  <2>6. (\A s : Entered(s) => Entered(s)') /\ Entered(p)'
    BY <2>4, <2>5 DEF Entered
  <2>7. dispatcher_pc' = "onNew" => Filled(current)'
    BY <2>4, <2>5 DEF dispatcherVars
  <2>8. \A s : Looked(s)' => Looked(s)
    BY <2>4, <1>0 DEF Looked, dispatcherVars
  <2>9. CASE p \in Known /\ listener_pc' # "push"
    BY <1>0, <1>b, <2>4, <2>6, <2>7, <2>8, <2>9
  <2>10. CASE p \notin Known /\ pushing' = p
    <3>1. ~Entered(p)
      BY <2>3, <2>10 DEF Entered, Filled
    <3>2. p \notin announced /\ ~Queued(p) /\ ~Looked(p)
      BY <2>2, <3>1
    <3>3. \A s : (Pushed(s)' => s = p) /\ (Queued(s)' <=> Queued(s))
      BY <1>0, <2>4, <2>10 DEF Queued
    <3>4. \A s \in Sessions : Pushed(s)' \/ Queued(s)' \/ Looked(s)' \/ s \in announced' => Entered(s)'
      BY <2>4, <2>6, <2>8, <3>3
    <3>5. \A s \in Sessions : /\ Pushed(s)' => ~Queued(s)' /\ ~Looked(s)' /\ s \notin announced'
                              /\ Queued(s)' => ~Looked(s)' /\ s \notin announced'
                              /\ Looked(s)' => s \notin announced'
      BY <2>4, <2>8, <3>2, <3>3
    <3> QED
      BY <2>4, <2>7, <3>4, <3>5
  <2> QED
    BY <2>4, <2>9, <2>10
<1>7. ASSUME PushEventNew PROVE NewsInv'
  <2>1. /\ UNCHANGED <<announced, sessions, departed, dispatcherVars>> /\ listener_pc' # "push"
        /\ event_new' = Append(event_new, pushing) /\ listener_pc = "push"
    BY <1>7 DEF PushEventNew, AfterPush, historyVars
  <2>2. pushing \in Sessions /\ event_new \in Seq(Sessions)
    BY <2>1 DEF TypeOK, ListenerTypeOK, QueuesTypeOK
  <2>3. Pushed(pushing) /\ ~Queued(pushing) /\ ~Looked(pushing) /\ pushing \notin announced
    BY <2>1, <2>2 DEF Pushed
  <2>4. /\ DOMAIN event_new' = DOMAIN event_new \cup {Len(event_new) + 1}
        /\ \A i \in DOMAIN event_new : event_new'[i] = event_new[i]
        /\ event_new'[Len(event_new) + 1] = pushing
    BY <2>1, <2>2, AppendIndex
  <2>5. \A s : (Queued(s)' <=> Queued(s) \/ s = pushing) /\ ~Pushed(s)' /\ (Looked(s)' <=> Looked(s))
    BY <1>0, <2>1, <2>4 DEF Queued, Looked, dispatcherVars
  <2>6. \A i, j \in DOMAIN event_new' : event_new'[i] = event_new'[j] => i = j
    BY <2>3, <2>4 DEF Queued
  <2>7. dispatcher_pc' = "onNew" => Filled(current)'
    BY <2>1, <1>a DEF dispatcherVars, Filled, Known
  <2> QED
    BY <1>a, <2>1, <2>2, <2>3, <2>5, <2>6, <2>7
<1>8. ASSUME DispatcherLoop \/ DispatcherWait \/ OnSessionNewReturns \/ PopEventRemove \/ OnSessionRemovedReturns
      PROVE  NewsInv'
  <2>1. UNCHANGED <<event_new, announced, sessions, departed, listenerVars>>
    BY <1>8 DEF DispatcherLoop, DispatcherWait, OnSessionNewReturns, PopEventRemove, OnSessionRemovedReturns,
                queueVars, historyVars
  <2>2. dispatcher_pc' \notin {"lookup", "onNew"}
    BY <1>8 DEF DispatcherLoop, DispatcherWait, OnSessionNewReturns, PopEventRemove, OnSessionRemovedReturns,
                AfterNew, AfterRemove
  <2> QED
    BY <1>0, <1>a, <1>b, <2>1, <2>2 DEF listenerVars, Pushed
<1>9. ASSUME PopEventNew PROVE NewsInv'
  <2>1. UNCHANGED <<announced, sessions, departed, listenerVars>> /\ dispatcher_pc = "new"
    BY <1>9 DEF PopEventNew, historyVars
  <2>2. CASE event_new = << >>
    BY <1>9, <1>0, <1>a, <1>b, <2>1, <2>2 DEF PopEventNew, listenerVars, Pushed
  <2>3. CASE event_new # << >>
    <3>1. /\ event_new' = Tail(event_new) /\ current' = event_new[1] /\ dispatcher_pc' = "lookup"
          /\ 1 \in DOMAIN event_new
          /\ \A i \in DOMAIN event_new' : /\ i \in Nat /\ 1 < i + 1 /\ i + 1 \in DOMAIN event_new
                                          /\ event_new'[i] = event_new[i + 1]
      BY <1>9, <2>3, TailIndex DEF PopEventNew, TypeOK, QueuesTypeOK
    <3>2. Queued(event_new[1])
      BY <3>1 DEF Queued
    <3>3. \A s : (Queued(s)' => Queued(s) /\ s # event_new[1]) /\ (Looked(s)' => s = event_new[1])
                 /\ (Pushed(s)' <=> Pushed(s)) /\ ~Looked(s)
      BY <1>0, <2>1, <3>1 DEF Queued, Pushed, Looked, listenerVars
    <3>4. \A i, j \in DOMAIN event_new' : event_new'[i] = event_new'[j] => i = j
      BY <3>1
    <3> QED
      BY <1>a, <2>1, <3>1, <3>2, <3>3, <3>4
  <2> QED
    BY <2>2, <2>3
<1>10. ASSUME LookupNew PROVE NewsInv'
  <2>1. UNCHANGED <<event_new, sessions, departed, listenerVars>> /\ Looked(current)
    BY <1>10 DEF LookupNew, queueVars, Looked
  <2>2. dispatcher_pc' # "lookup"
    BY <1>10 DEF LookupNew, AfterNew
  <2>3. \A s : (Queued(s)' <=> Queued(s)) /\ (Pushed(s)' <=> Pushed(s)) /\ ~Looked(s)'
    BY <1>0, <2>1, <2>2 DEF Queued, Pushed, listenerVars
  <2>4. current \in Sessions
    BY <1>10 DEF LookupNew, TypeOK, DispatcherTypeOK
  <2>5. CASE current \notin Known
    <3>1. announced' = announced /\ dispatcher_pc' # "onNew"
      BY <1>10, <2>5 DEF LookupNew, StillThere, AfterNew
    <3> QED
      BY <1>a, <2>1, <2>3, <3>1
  <2>6. CASE current \in Known
    <3>1. announced' = announced \cup {current} /\ current' = current
      BY <1>10, <2>6 DEF LookupNew, StillThere
    <3>2. Filled(current)
      BY <2>1, <2>4, <2>6 DEF Entered, RemovalIsFinal, NoResurrection
    <3>3. Filled(current)'
      BY <2>1, <3>1, <3>2 DEF Filled, Known
    <3> QED
      BY <1>a, <2>1, <2>3, <2>4, <3>1, <3>3
  <2> QED
    BY <2>5, <2>6
<1>11. ASSUME EraseRemoved PROVE NewsInv'
  <2>1. /\ UNCHANGED <<event_new, announced, listenerVars>> /\ dispatcher_pc' = "onRemoved"
        /\ sessions' = [t \in Known \ {current} |-> sessions[t]] /\ departed' = departed \cup {current}
    BY <1>11 DEF EraseRemoved, SessionsWithout, queueVars
  <2>2. \A s : Filled(s) => Filled(s)' \/ s = current
    BY <2>1 DEF Filled, Known
  <2>3. \A s : Entered(s) => Entered(s)'
    BY <2>1, <2>2 DEF Entered
  <2> QED
    BY <1>0, <1>b, <2>1, <2>3 DEF listenerVars, Pushed
<1> QED
  BY <1>2, <1>3, <1>4, <1>5, <1>6, <1>7, <1>8, <1>9, <1>10, <1>11
  DEF Next, Listener, ListenerMessageCallback, Dispatcher, Closed

(* isSessionExist and getSession, called by the application from inside
   onSessionNew, find the session with its properties; onSessionNew comes once
   for a session, and not after its onSessionRemoved, although the two events
   travel in separate queues (comex_session.cpp:555-610). *)
THEOREM NewsCorrect == Spec => []NewCallbackFindsSession
<1>1. Init => NewsInv
  BY DEF Init, NewsInv, Queued, Pushed, Looked
<1>2. TypeOK /\ RemovalIsFinal /\ NewsInv /\ [Next]_vars => NewsInv'
  BY NewsKeeps
<1>3. TypeOK /\ RemovalIsFinal /\ NewsInv => NewCallbackFindsSession
  BY DEF NewsInv, NewCallbackFindsSession, Filled, Looked, RemovalIsFinal, NoResurrection, TypeOK, DispatcherTypeOK
<1> QED
  BY <1>1, <1>2, <1>3, TypeCorrect, RemovalFinal, PTL DEF Spec

-----------------------------------------------------------------------------
(* The serials of requests, replies and the ring. *)

Slots      == 0..RingSize-1
Answers(m) == m.kind \in {"PropsReply", "ErrorReply"}

(* The list's serial is its own; the ring holds serials of other requests. *)
SerialInv ==
  /\ list_serial <= serial
  /\ main_pc = "send" <=> list_serial = 0
  /\ serial_id_sessions \in {0, list_serial}
  /\ \A j \in DOMAIN requests : /\ requests[j].serial \in 1..serial
                                /\ requests[j].op = "ListSessions" <=> requests[j].serial = list_serial
  /\ \A i \in DOMAIN inbox : /\ Answers(inbox[i]) => inbox[i].serial \in 1..serial \ {list_serial}
                             /\ inbox[i].kind = "ListReply" => inbox[i].serial = list_serial /\ list_serial > 0
  /\ \A k \in Slots : ring[k] <= serial /\ (ring[k] = 0 \/ ring[k] # list_serial)

(* Requests are sent, answered and read in the order of their serials. *)
InOrder ==
  /\ \A i, j \in DOMAIN requests : i < j => requests[i].serial < requests[j].serial
  /\ \A i, j \in DOMAIN inbox :
       i < j /\ Answers(inbox[i]) /\ Answers(inbox[j]) => inbox[i].serial < inbox[j].serial
  /\ \A i \in DOMAIN inbox, j \in DOMAIN requests :
       Answers(inbox[i]) => inbox[i].serial < requests[j].serial

(* Slot a was written before slot b, when p is the next one to be written. *)
Older(p, a, b) == IF a < p THEN a < b /\ b < p ELSE a < b \/ b < p

Ordered(r, p) == \A a, b \in Slots : Older(p, a, b) => r[a] = 0 \/ r[a] < r[b]

(* A query later than something unanswered is unanswered; and what is unanswered
   but not in the ring was overrun by queries that are. *)
Remembers(r, asked) ==
  /\ \A n \in asked, k \in Slots : r[k] > n => r[k] \in asked
  /\ \A n \in asked : (\E k \in Slots : r[k] = n) \/ \A k \in Slots : r[k] > n

(* The ring holds the last queries, in the order they were made. *)
RingInv == Ordered(ring, pos_serial_id) /\ Remembers(ring, AskedSerials)

LEMMA AskedIs ==
  \A n : n \in AskedSerials <=>
           \/ \E j \in DOMAIN requests : requests[j].op = "GetAll" /\ requests[j].serial = n
           \/ \E i \in DOMAIN inbox : Answers(inbox[i]) /\ inbox[i].serial = n
BY DEF AskedSerials, Answers

LEMMA NextSlotIs ==
  ASSUME NEW p \in Slots
  PROVE  (p + 1) % RingSize = IF p + 1 = RingSize THEN 0 ELSE p + 1
<1>1. RingSize \in Nat \ {0} /\ p \in 0..RingSize-1
  BY SessionManagerAssumption DEF Slots
<1> QED
  BY <1>1

(* What was answered and read is older than what is left. *)
LEMMA Reading ==
  ASSUME NEW r \in [Slots -> Nat], NEW A \in SUBSET Nat, NEW B \in SUBSET A,
         \A x \in A \ B, n \in B : x < n, Remembers(r, A)
  PROVE  Remembers(r, B)
<1>1. ASSUME NEW n \in B, NEW k \in Slots, r[k] > n PROVE r[k] \in B
  BY <1>1 DEF Remembers
<1> QED
  BY <1>1 DEF Remembers

(* A query overwrites the oldest one. *)
LEMMA Asking ==
  ASSUME NEW r \in [Slots -> Nat], NEW p \in Slots, NEW A \in SUBSET Nat, NEW n \in Nat,
         \A k \in Slots : r[k] < n, \A x \in A : 0 < x /\ x < n,
         Ordered(r, p), Remembers(r, A)
  PROVE  /\ Ordered([r EXCEPT ![p] = n], (p + 1) % RingSize)
         /\ Remembers([r EXCEPT ![p] = n], A \cup {n})
<1> DEFINE s == [r EXCEPT ![p] = n]
           q == (p + 1) % RingSize
<1>1. /\ RingSize \in Nat \ {0} /\ p \in Nat /\ p < RingSize
      /\ \A k \in Slots : k \in Nat /\ k < RingSize /\ r[k] \in Nat
  BY SessionManagerAssumption DEF Slots
<1>2. q = IF p + 1 = RingSize THEN 0 ELSE p + 1
  BY NextSlotIs
<1>3. s[p] = n /\ \A k \in Slots \ {p} : s[k] = r[k]
  OBVIOUS
<1> HIDE DEF s, q
<1>4. ASSUME NEW a \in Slots, NEW b \in Slots, Older(q, a, b) PROVE s[a] = 0 \/ s[a] < s[b]
  <2>1. a # p
    BY <1>1, <1>2, <1>4 DEF Older
  <2>2. CASE b = p
    BY <1>1, <1>3, <2>1, <2>2
  <2>3. CASE b # p
    <3>1. Older(p, a, b)
      BY <1>1, <1>2, <1>4, <2>1, <2>3 DEF Older
    <3> QED
      BY <1>3, <2>1, <2>3, <3>1 DEF Ordered
  <2> QED
    BY <2>2, <2>3
<1>5. \A b \in Slots \ {p} : r[p] = 0 \/ r[p] < r[b]
  <2>1. \A b \in Slots \ {p} : Older(p, p, b)
    BY <1>1 DEF Older
  <2> QED
    BY <2>1 DEF Ordered
<1>6. ASSUME NEW x \in A \cup {n}, NEW k \in Slots, s[k] > x PROVE s[k] \in A \cup {n}
  BY <1>1, <1>3, <1>6 DEF Remembers
<1>7. ASSUME NEW x \in A \cup {n} PROVE (\E k \in Slots : s[k] = x) \/ \A k \in Slots : s[k] > x
  <2>1. CASE x = n
    BY <1>3, <2>1
  <2>2. CASE x \in A /\ \A k \in Slots : r[k] > x
    BY <1>1, <1>3, <2>2
  <2>3. CASE x \in A /\ \E k \in Slots : r[k] = x
    <3>1. PICK k \in Slots : r[k] = x
      BY <2>3
    <3>2. CASE k # p
      BY <1>3, <3>1, <3>2
    <3>3. CASE k = p
      <4>1. 0 < x /\ x < n /\ x \in Nat
        BY <2>3
      <4>2. \A b \in Slots \ {p} : r[b] > x
        BY <1>1, <1>5, <3>1, <3>3, <4>1
      <4> QED
        BY <1>3, <4>1, <4>2
    <3> QED
      BY <3>2, <3>3
  <2> QED
    BY <2>1, <2>2, <2>3 DEF Remembers
<1>8. Ordered(s, q)
  BY <1>4 DEF Ordered
<1>9. Remembers(s, A \cup {n})
  BY <1>6, <1>7 DEF Remembers
<1> QED
  BY <1>8, <1>9 DEF s, q

(* A query that is not in the ring was overrun by as many as the ring has
   places. *)
LEMMA Overrun ==
  ASSUME NEW r \in [Slots -> Nat], NEW p \in Slots, Ordered(r, p),
         NEW A \in SUBSET Nat, IsFiniteSet(A), NEW n \in A,
         \A k \in Slots : r[k] \in A /\ r[k] > n
  PROVE  Cardinality(A) > RingSize
<1> DEFINE f == [k \in 0..RingSize |-> IF k = RingSize THEN n ELSE r[k]]
<1>1. /\ RingSize \in Nat \ {0} /\ p \in Nat
      /\ \A k \in Slots : k \in Nat /\ k < RingSize /\ r[k] \in Nat
      /\ \A k \in 0..RingSize : k = RingSize \/ k \in Slots
  BY SessionManagerAssumption DEF Slots
<1>2. ASSUME NEW a \in Slots, NEW b \in Slots, a # b PROVE r[a] # r[b]
  <2>1. Older(p, a, b) \/ Older(p, b, a)
    BY <1>1, <1>2 DEF Older
  <2>2. r[a] # 0 /\ r[b] # 0
    BY <1>1
  <2> QED
    BY <1>1, <2>1, <2>2 DEF Ordered
<1>3. f \in [0..RingSize -> A]
  BY <1>1
<1>4. \A a, b \in 0..RingSize : f[a] = f[b] => a = b
  BY <1>1, <1>2
<1> HIDE DEF f
<1>5. f \in Injection(0..RingSize, A)
  BY <1>3, <1>4 DEF Injection, IsInjective
<1>6. Cardinality(0..RingSize) <= Cardinality(A)
  BY <1>5, FS_Injection
<1>7. Cardinality(0..RingSize) = RingSize + 1
  BY <1>1, FS_Interval
<1>8. Cardinality(A) \in Nat
  BY FS_CardinalityType
<1> QED
  BY <1>1, <1>6, <1>7, <1>8
(* Reading moves the messages forward; none but the first is gone. *)
LEMMA Reads ==
  ASSUME TypeOK, inbox' = inbox \/ ReadMessage
  PROVE  /\ \A i \in DOMAIN inbox : \/ \E j \in DOMAIN inbox' : inbox'[j] = inbox[i]
                                    \/ i = 1
         /\ \E d \in {0, 1} : \A i \in DOMAIN inbox' : i \in Nat /\ i + d \in DOMAIN inbox /\ inbox'[i] = inbox[i + d]
<1>1. inbox \in Seq(Message)
  BY DEF TypeOK, BusTypeOK
<1>2. CASE inbox' = inbox
  <2>1. \A i \in DOMAIN inbox : i \in Nat /\ i + 0 = i
    BY <1>1
  <2> QED
    BY <1>2, <2>1
<1>3. CASE ReadMessage
  <2>1. inbox # << >> /\ inbox' = Tail(inbox)
    BY <1>3 DEF ReadMessage
  <2>2. \A i \in DOMAIN inbox' : i \in Nat /\ i + 1 \in DOMAIN inbox /\ inbox'[i] = inbox[i + 1]
    BY <1>1, <2>1, TailIndex
  <2>3. \A i \in DOMAIN inbox : i = 1 \/ (i - 1 \in DOMAIN inbox' /\ (i - 1) + 1 = i)
    BY <1>1, <2>1
  <2> QED
    BY <2>2, <2>3
<1> QED
  BY <1>2, <1>3

(* What every step does to the serials, told by the two channels. *)
LEMMA ListenerSerials ==
  ASSUME TypeOK, Listener
  PROVE  /\ inbox' = inbox \/ ReadMessage
         /\ (\E s \in Sessions : QueryProperties(s)) \/ UNCHANGED <<serial, requests, ringVars>>
         /\ UNCHANGED mainVars
<1>1. CASE ParseSessionsNext
  BY <1>1, QueueType DEF ParseSessionsNext, TypeOK, ListenerTypeOK
<1>2. CASE OnSessionNewSignal
  <2>1. ReadMessage /\ UNCHANGED mainVars /\ QueryProperties(message.ids[1])
    BY <1>2 DEF OnSessionNewSignal
  <2>2. message \in Message /\ message.kind = "SessionNew"
    BY <1>2, QueueType DEF OnSessionNewSignal, ReadMessage, message, TypeOK, BusTypeOK
  <2>3. message.ids[1] \in Sessions
    BY <2>2 DEF Message
  <2> QED
    BY <2>1, <2>3
<1>3. CASE ListenerLoop \/ ListenerTimeout \/ PushEventNew \/ PostEvent
  BY <1>3 DEF ListenerLoop, ListenerTimeout, PushEventNew, PostEvent
<1>4. CASE OnSessionRemovedSignal \/ ParseSessionsBegin \/ ParseProperties \/ IgnoreReply
  BY <1>4 DEF OnSessionRemovedSignal, ParseSessionsBegin, ParseProperties, IgnoreReply
<1> QED
  BY <1>1, <1>2, <1>3, <1>4 DEF Listener, ListenerMessageCallback
(* A reply has the serial of its request, and its kind tells which it was. *)
LEMMA RepliesSerial ==
  ASSUME NEW r \in Request, NEW m \in Replies(r)
  PROVE  /\ m.serial = r.serial
         /\ r.op = "ListSessions" => m.kind = "ListReply" /\ ~Answers(m)
         /\ r.op = "GetAll" => Answers(m)
         /\ r.op \in {"ListSessions", "GetAll"}
<1>1. r.op \in {"ListSessions", "GetAll"}
  BY DEF Request
<1>2. CASE r.op = "ListSessions"
  <2>1. PICK q \in Listings(active) : m = [kind |-> "ListReply", serial |-> r.serial, ids |-> q]
    BY <1>2 DEF Replies
  <2> QED
    BY <1>2, <2>1 DEF Answers
<1>3. CASE r.op = "GetAll"
  BY <1>3 DEF Replies, Answers
<1> QED
  BY <1>1, <1>2, <1>3

LEMMA SerialKeeps ==
  ASSUME TypeOK, SerialInv, InOrder, [Next]_vars
  PROVE  SerialInv' /\ InOrder'
<1>t. /\ serial \in Nat /\ requests \in Seq(Request) /\ inbox \in Seq(Message)
      /\ list_serial \in Nat /\ serial_id_sessions \in Nat
      /\ ring \in [Slots -> Nat] /\ pos_serial_id \in Slots
      /\ \A i \in DOMAIN requests : requests[i].op \in {"ListSessions", "GetAll"} /\ requests[i].serial \in Nat
      /\ \A i \in DOMAIN inbox : inbox[i].serial \in Nat
  <2>1. /\ serial \in Nat /\ requests \in Seq(Request) /\ inbox \in Seq(Message)
        /\ list_serial \in Nat /\ serial_id_sessions \in Nat
        /\ ring \in [Slots -> Nat] /\ pos_serial_id \in Slots
    BY DEF TypeOK, BusTypeOK, MainTypeOK, RingTypeOK, Slots
  <2>2. \A i \in DOMAIN requests : requests[i].op \in {"ListSessions", "GetAll"} /\ requests[i].serial \in Nat
    <3>1. \A i \in DOMAIN requests : requests[i] \in Request
      BY <2>1
    <3> QED
      BY <3>1 DEF Request
  <2>3. \A i \in DOMAIN inbox : inbox[i].serial \in Nat
    <3>1. \A i \in DOMAIN inbox : inbox[i] \in Message
      BY <2>1
    <3> QED
      BY <3>1 DEF Message
  <2> QED
    BY <2>1, <2>2, <2>3
<1>1. ASSUME UNCHANGED <<serial, requests, inbox, ringVars, list_serial, serial_id_sessions>>,
             main_pc' = "send" <=> main_pc = "send"
      PROVE  SerialInv' /\ InOrder'
  BY <1>1 DEF SerialInv, InOrder, ringVars
<1>2. CASE CloseDBus \/ JoinDispatcher \/ JoinListener \/ Dispatcher \/ UNCHANGED vars
  BY <1>1, <1>2
  DEF CloseDBus, JoinDispatcher, JoinListener, Dispatcher, DispatcherLoop, DispatcherWait, PopEventNew, LookupNew,
      OnSessionNewReturns, PopEventRemove, EraseRemoved, OnSessionRemovedReturns, vars, mainVars
<1>3. ASSUME NEW s \in Sessions, LogindOpen(s) \/ LogindClose(s) PROVE SerialInv' /\ InOrder'
  <2>1. PICK m \in Message : inbox' = Append(inbox, m) /\ ~Answers(m) /\ m.kind # "ListReply"
    <3>1. <<s>> \in [1..1 -> Sessions]
      OBVIOUS
    <3>2. \A k \in {"SessionNew", "SessionRemoved"} :
            Signal(k, s) \in Message /\ ~Answers(Signal(k, s)) /\ Signal(k, s).kind # "ListReply"
      BY <3>1 DEF Signal, Message, Answers
    <3> QED
      BY <1>3, <3>2 DEF LogindOpen, LogindClose
  <2>2. UNCHANGED <<serial, requests, ringVars, mainVars>>
    BY <1>3 DEF LogindOpen, LogindClose
  <2> QED
    BY <1>t, <2>1, <2>2, AppendIndex DEF SerialInv, InOrder, ringVars, mainVars
<1>4. CASE LogindAnswer
  <2>1. /\ UNCHANGED <<serial, ringVars, mainVars>> /\ requests # << >> /\ requests' = Tail(requests)
        /\ Head(requests) = requests[1] /\ 1 \in DOMAIN requests
        /\ \A i \in DOMAIN requests' : i \in Nat /\ 1 < i + 1 /\ i + 1 \in DOMAIN requests /\ requests'[i] = requests[i + 1]
    BY <1>4, <1>t, TailIndex DEF LogindAnswer
  <2>2. PICK m \in Replies(requests[1]) : inbox' = Append(inbox, m)
    BY <1>4, <2>1 DEF LogindAnswer
  <2>3. /\ m \in Message /\ m.serial = requests[1].serial
        /\ requests[1].op = "ListSessions" => m.kind = "ListReply" /\ ~Answers(m)
        /\ requests[1].op = "GetAll" => Answers(m)
    BY <1>t, <2>1, RepliesType, RepliesSerial DEF TypeOK, BusTypeOK
  <2>4. Answers(m) => m.kind # "ListReply"
    BY DEF Answers
  <2>5. /\ DOMAIN inbox' = DOMAIN inbox \cup {Len(inbox) + 1}
        /\ \A i \in DOMAIN inbox : i < Len(inbox) + 1 /\ inbox'[i] = inbox[i]
        /\ inbox'[Len(inbox) + 1] = m
    BY <1>t, <2>2, <2>3, AppendIndex
  <2>6. \A j \in DOMAIN requests' : requests[1].serial < requests'[j].serial
    BY <2>1 DEF InOrder
  <2>7. SerialInv'
    <3>1. \A j \in DOMAIN requests' : /\ requests'[j].serial \in 1..serial
                                      /\ requests'[j].op = "ListSessions" <=> requests'[j].serial = list_serial
      BY <2>1 DEF SerialInv
    <3>2. /\ Answers(m) => m.serial \in 1..serial \ {list_serial}
          /\ m.kind = "ListReply" => m.serial = list_serial /\ list_serial > 0
      BY <1>t, <2>1, <2>3, <2>4 DEF SerialInv
    <3> QED
      BY <2>1, <2>5, <3>1, <3>2 DEF SerialInv, ringVars, mainVars
  <2>8. \A i, j \in DOMAIN requests' : i < j => requests'[i].serial < requests'[j].serial
    BY <2>1 DEF InOrder
  <2>9. \A i, j \in DOMAIN inbox' :
          i < j /\ Answers(inbox'[i]) /\ Answers(inbox'[j]) => inbox'[i].serial < inbox'[j].serial
    BY <1>t, <2>1, <2>3, <2>5 DEF InOrder
  <2>10. \A i \in DOMAIN inbox', j \in DOMAIN requests' :
           Answers(inbox'[i]) => inbox'[i].serial < requests'[j].serial
    BY <2>1, <2>3, <2>5, <2>6 DEF InOrder
  <2> QED
    BY <2>7, <2>8, <2>9, <2>10 DEF InOrder
<1>5. CASE QuerySessionsSend
  <2> DEFINE r == [op |-> "ListSessions", serial |-> serial + 1, id |-> NoSession]
  <2>1. /\ UNCHANGED <<inbox, ringVars, serial_id_sessions>> /\ main_pc = "send" /\ main_pc' = "store"
        /\ serial' = serial + 1 /\ list_serial' = serial + 1 /\ requests' = Append(requests, r)
    BY <1>5 DEF QuerySessionsSend
  <2>2. r \in Request /\ r.op = "ListSessions" /\ r.serial = serial + 1
    BY <1>t DEF Request
  <2> HIDE DEF r
  <2>3. /\ DOMAIN requests' = DOMAIN requests \cup {Len(requests) + 1}
        /\ \A i \in DOMAIN requests : i < Len(requests) + 1 /\ requests'[i] = requests[i]
        /\ requests'[Len(requests) + 1] = r
    BY <1>t, <2>1, <2>2, AppendIndex
  <2>4. SerialInv'
    BY <1>t, <2>1, <2>2, <2>3 DEF SerialInv, ringVars
  <2>5. InOrder'
    BY <1>t, <2>1, <2>2, <2>3 DEF SerialInv, InOrder
  <2> QED
    BY <2>4, <2>5
<1>6. CASE QuerySessionsStore
  BY <1>6 DEF QuerySessionsStore, SerialInv, InOrder, ringVars
<1>7. CASE Listener
  <2>1. PICK d \in {0, 1} : \A i \in DOMAIN inbox' : i \in Nat /\ i + d \in DOMAIN inbox /\ inbox'[i] = inbox[i + d]
    BY <1>7, ListenerSerials, Reads
  <2>2. UNCHANGED mainVars
    BY <1>7, ListenerSerials
  <2>3. CASE UNCHANGED <<serial, requests, ringVars>>
    <3>1. SerialInv'
      BY <1>t, <2>1, <2>2, <2>3 DEF SerialInv, ringVars, mainVars
    <3>2. \A i, j \in DOMAIN inbox' :
            i < j /\ Answers(inbox'[i]) /\ Answers(inbox'[j]) => inbox'[i].serial < inbox'[j].serial
      <4>1. \A i, j \in DOMAIN inbox' : i < j => i + d < j + d
        BY <2>1
      <4> QED
        BY <2>1, <4>1 DEF InOrder
    <3>3. \A i \in DOMAIN inbox', j \in DOMAIN requests' :
            Answers(inbox'[i]) => inbox'[i].serial < requests'[j].serial
      BY <2>1, <2>3 DEF InOrder
    <3> QED
      BY <2>3, <3>1, <3>2, <3>3 DEF InOrder
  <2>4. CASE \E s \in Sessions : QueryProperties(s)
    <3>1. PICK s \in Sessions : QueryProperties(s)
      BY <2>4
    <3> DEFINE r == [op |-> "GetAll", serial |-> serial + 1, id |-> s]
    <3>2. /\ serial' = serial + 1 /\ requests' = Append(requests, r)
          /\ ring' = [ring EXCEPT ![pos_serial_id] = serial + 1]
      BY <3>1 DEF QueryProperties, SentSerial
    <3>3. r \in Request /\ r.op = "GetAll" /\ r.serial = serial + 1
      BY <1>t DEF Request
    <3> HIDE DEF r
    <3>4. /\ DOMAIN requests' = DOMAIN requests \cup {Len(requests) + 1}
          /\ \A i \in DOMAIN requests : i < Len(requests) + 1 /\ requests'[i] = requests[i]
          /\ requests'[Len(requests) + 1] = r
      BY <1>t, <3>2, <3>3, AppendIndex
    <3>5. \A k \in Slots : ring'[k] = ring[k] \/ ring'[k] = serial + 1
      BY <1>t, <3>2
    <3>6. SerialInv'
      BY <1>t, <2>1, <2>2, <3>2, <3>3, <3>4, <3>5 DEF SerialInv, mainVars
    <3>7. \A i, j \in DOMAIN requests' : i < j => requests'[i].serial < requests'[j].serial
      BY <1>t, <3>3, <3>4 DEF SerialInv, InOrder
    <3>8. \A i, j \in DOMAIN inbox' :
            i < j /\ Answers(inbox'[i]) /\ Answers(inbox'[j]) => inbox'[i].serial < inbox'[j].serial
      <4>1. \A i, j \in DOMAIN inbox' : i < j => i + d < j + d
        BY <2>1
      <4> QED
        BY <2>1, <4>1 DEF InOrder
    <3>9. \A i \in DOMAIN inbox', j \in DOMAIN requests' :
            Answers(inbox'[i]) => inbox'[i].serial < requests'[j].serial
      BY <1>t, <2>1, <3>3, <3>4 DEF SerialInv, InOrder
    <3> QED
      BY <3>6, <3>7, <3>8, <3>9 DEF InOrder
  <2> QED
    BY <1>7, <2>3, <2>4, ListenerSerials
<1> QED
  BY <1>2, <1>3, <1>4, <1>5, <1>6, <1>7 DEF Next, Closed
LEMMA RingKeeps ==
  ASSUME TypeOK, SerialInv, InOrder, RingInv, [Next]_vars
  PROVE  RingInv'
<1>t. /\ serial \in Nat /\ requests \in Seq(Request) /\ inbox \in Seq(Message)
      /\ ring \in [Slots -> Nat] /\ pos_serial_id \in Slots
  BY DEF TypeOK, BusTypeOK, RingTypeOK, Slots
<1>k. AskedSerials \subseteq 1..serial
  BY AskedIs DEF SerialInv
<1>p. \A n : n \in AskedSerials' <=>
               \/ \E j \in DOMAIN requests' : requests'[j].op = "GetAll" /\ requests'[j].serial = n
               \/ \E i \in DOMAIN inbox' : Answers(inbox'[i]) /\ inbox'[i].serial = n
  BY DEF AskedSerials, Answers
<1>1. ASSUME AskedSerials' = AskedSerials, UNCHANGED ringVars PROVE RingInv'
  BY <1>1 DEF RingInv, ringVars
<1>2. CASE CloseDBus \/ JoinDispatcher \/ JoinListener \/ Dispatcher \/ QuerySessionsStore \/ UNCHANGED vars
  <2>1. UNCHANGED <<requests, inbox, ringVars>>
    BY <1>2
    DEF CloseDBus, JoinDispatcher, JoinListener, Dispatcher, DispatcherLoop, DispatcherWait, PopEventNew, LookupNew,
        OnSessionNewReturns, PopEventRemove, EraseRemoved, OnSessionRemovedReturns, QuerySessionsStore, vars
  <2> QED
    BY <1>1, <2>1 DEF AskedSerials
<1>3. ASSUME NEW s \in Sessions, LogindOpen(s) \/ LogindClose(s) PROVE RingInv'
  <2>1. PICK m \in Message : inbox' = Append(inbox, m) /\ ~Answers(m)
    <3>1. <<s>> \in [1..1 -> Sessions]
      OBVIOUS
    <3>2. \A k \in {"SessionNew", "SessionRemoved"} : Signal(k, s) \in Message /\ ~Answers(Signal(k, s))
      BY <3>1 DEF Signal, Message, Answers
    <3> QED
      BY <1>3, <3>2 DEF LogindOpen, LogindClose
  <2>2. UNCHANGED <<requests, ringVars>>
    BY <1>3 DEF LogindOpen, LogindClose
  <2>3. \A n : n \in AskedSerials' <=> n \in AskedSerials
    BY <1>t, <1>p, <2>1, <2>2, AskedIs, AppendIndex
  <2> QED
    BY <1>1, <2>2, <2>3
<1>4. CASE LogindAnswer
  <2>1. /\ UNCHANGED ringVars /\ requests # << >> /\ requests' = Tail(requests)
        /\ Head(requests) = requests[1] /\ 1 \in DOMAIN requests
        /\ \A i \in DOMAIN requests' : i + 1 \in DOMAIN requests /\ requests'[i] = requests[i + 1]
        /\ \A i \in DOMAIN requests : i = 1 \/ (i - 1 \in DOMAIN requests' /\ requests'[i - 1] = requests[i])
    <3>1. requests # << >> /\ requests' = Tail(requests) /\ UNCHANGED ringVars
      BY <1>4 DEF LogindAnswer
    <3>2. /\ Head(requests) = requests[1] /\ 1 \in DOMAIN requests
          /\ \A i \in DOMAIN requests' : i + 1 \in DOMAIN requests /\ requests'[i] = requests[i + 1]
      BY <1>t, <3>1, TailIndex
    <3>3. \A i \in DOMAIN requests : i = 1 \/ (i - 1 \in DOMAIN requests' /\ (i - 1) + 1 = i)
      BY <1>t, <3>1
    <3> QED
      BY <3>1, <3>2, <3>3
  <2>2. PICK m \in Replies(requests[1]) : inbox' = Append(inbox, m)
    BY <1>4, <2>1 DEF LogindAnswer
  <2>3. /\ m \in Message /\ m.serial = requests[1].serial
        /\ requests[1].op = "ListSessions" => ~Answers(m)
        /\ requests[1].op = "GetAll" => Answers(m)
        /\ requests[1].op \in {"ListSessions", "GetAll"}
    BY <1>t, <2>1, RepliesType, RepliesSerial DEF TypeOK, BusTypeOK
  <2>4. /\ DOMAIN inbox' = DOMAIN inbox \cup {Len(inbox) + 1}
        /\ \A i \in DOMAIN inbox : inbox'[i] = inbox[i]
        /\ inbox'[Len(inbox) + 1] = m
    BY <1>t, <2>2, <2>3, AppendIndex
  <2>5. ASSUME NEW n \in AskedSerials PROVE n \in AskedSerials'
    <3>1. CASE \E j \in DOMAIN requests : requests[j].op = "GetAll" /\ requests[j].serial = n
      <4>1. PICK j \in DOMAIN requests : requests[j].op = "GetAll" /\ requests[j].serial = n
        BY <3>1
      <4>2. CASE j = 1
        BY <1>p, <2>3, <2>4, <4>1, <4>2
      <4>3. CASE j # 1
        BY <1>p, <2>1, <4>1, <4>3
      <4> QED
        BY <4>2, <4>3
    <3>2. CASE \E i \in DOMAIN inbox : Answers(inbox[i]) /\ inbox[i].serial = n
      BY <1>p, <2>4, <3>2
    <3> QED
      BY <2>5, <3>1, <3>2, AskedIs
  <2>6. ASSUME NEW n \in AskedSerials' PROVE n \in AskedSerials
    BY <1>p, <2>1, <2>3, <2>4, <2>6, AskedIs
  <2> QED
    BY <1>1, <2>1, <2>5, <2>6
<1>5. CASE QuerySessionsSend
  <2>1. UNCHANGED <<inbox, ringVars>>
    BY <1>5 DEF QuerySessionsSend
  <2>2. PICK r \in Request : requests' = Append(requests, r) /\ r.op = "ListSessions"
    <3>1. [op |-> "ListSessions", serial |-> serial + 1, id |-> NoSession] \in Request
      BY <1>t DEF Request
    <3> QED
      BY <1>5, <3>1 DEF QuerySessionsSend
  <2>3. \A n : n \in AskedSerials' <=> n \in AskedSerials
    BY <1>t, <1>p, <2>1, <2>2, AskedIs, AppendIndex
  <2> QED
    BY <1>1, <2>1, <2>3
<1>6. CASE Listener
  <2>1. inbox' = inbox \/ ReadMessage
    BY <1>6, ListenerSerials
  <2>2. /\ \A i \in DOMAIN inbox : (\E j \in DOMAIN inbox' : inbox'[j] = inbox[i]) \/ i = 1
        /\ \A j \in DOMAIN inbox' : \E i \in DOMAIN inbox : inbox'[j] = inbox[i]
    BY <2>1, Reads
  <2> DEFINE B == {n \in AskedSerials :
                     \/ \E j \in DOMAIN requests : requests[j].op = "GetAll" /\ requests[j].serial = n
                     \/ \E i \in DOMAIN inbox' : Answers(inbox'[i]) /\ inbox'[i].serial = n}
  <2>3. \A n : n \in B <=> \/ \E j \in DOMAIN requests : requests[j].op = "GetAll" /\ requests[j].serial = n
                           \/ \E i \in DOMAIN inbox' : Answers(inbox'[i]) /\ inbox'[i].serial = n
    <3>1. ASSUME NEW i \in DOMAIN inbox', Answers(inbox'[i]) PROVE inbox'[i].serial \in AskedSerials
      BY <2>2, <3>1, AskedIs
    <3>2. \A j \in DOMAIN requests : requests[j].op = "GetAll" => requests[j].serial \in AskedSerials
      BY AskedIs
    <3> QED
      BY <3>1, <3>2
  <2>4. B \subseteq AskedSerials
    OBVIOUS
  <2> HIDE DEF B
  <2>5. ASSUME NEW x \in AskedSerials \ B, NEW n \in B PROVE x < n
    <3>1. Answers(inbox[1]) /\ inbox[1].serial = x /\ 1 \in DOMAIN inbox
      BY <2>2, <2>3, <2>5, AskedIs
    <3>2. CASE \E j \in DOMAIN requests : requests[j].op = "GetAll" /\ requests[j].serial = n
      BY <3>1, <3>2 DEF InOrder
    <3>3. CASE \E i \in DOMAIN inbox' : Answers(inbox'[i]) /\ inbox'[i].serial = n
      <4>1. PICK i \in DOMAIN inbox : Answers(inbox[i]) /\ inbox[i].serial = n
        BY <2>2, <3>3
      <4>2. i # 1 /\ 1 < i
        BY <1>t, <2>5, <3>1, <4>1
      <4> QED
        BY <3>1, <4>1, <4>2 DEF InOrder
    <3> QED
      BY <2>3, <3>2, <3>3
  <2>6. AskedSerials \in SUBSET Nat /\ B \in SUBSET AskedSerials /\ B \in SUBSET Nat
    BY <1>t, <1>k, <2>4
  <2>7. Remembers(ring, B)
    BY <1>t, <2>5, <2>6, Reading DEF RingInv
  <2>8. CASE UNCHANGED <<serial, requests, ringVars>>
    <3>1. \A n : n \in AskedSerials' <=> n \in B
      BY <1>p, <2>3, <2>8
    <3>2. AskedSerials' = B
      BY <3>1
    <3> QED
      BY <2>7, <2>8, <3>2 DEF RingInv, ringVars
  <2>9. CASE \E s \in Sessions : QueryProperties(s)
    <3>1. PICK s \in Sessions : QueryProperties(s)
      BY <2>9
    <3> DEFINE r == [op |-> "GetAll", serial |-> serial + 1, id |-> s]
    <3>2. /\ serial' = serial + 1 /\ requests' = Append(requests, r)
          /\ ring' = [ring EXCEPT ![pos_serial_id] = serial + 1]
          /\ pos_serial_id' = (pos_serial_id + 1) % RingSize
      BY <3>1 DEF QueryProperties, SentSerial, NextSlot
    <3>3. r \in Request /\ r.op = "GetAll" /\ r.serial = serial + 1
      BY <1>t DEF Request
    <3> HIDE DEF r
    <3>4. /\ DOMAIN requests' = DOMAIN requests \cup {Len(requests) + 1}
          /\ \A i \in DOMAIN requests : requests'[i] = requests[i]
          /\ requests'[Len(requests) + 1] = r
      BY <1>t, <3>2, <3>3, AppendIndex
    <3>5. \A n : n \in AskedSerials' <=> n \in B \cup {serial + 1}
      BY <1>p, <2>3, <3>3, <3>4
    <3>6. AskedSerials' = B \cup {serial + 1}
      BY <3>5
    <3>7. /\ \A k \in Slots : ring[k] < serial + 1
          /\ \A x \in B : 0 < x /\ x < serial + 1
          /\ serial + 1 \in Nat
      BY <1>t, <1>k, <2>4 DEF SerialInv
    <3>8. /\ Ordered([ring EXCEPT ![pos_serial_id] = serial + 1], (pos_serial_id + 1) % RingSize)
          /\ Remembers([ring EXCEPT ![pos_serial_id] = serial + 1], B \cup {serial + 1})
      BY <1>t, <2>6, <2>7, <3>7, Asking DEF RingInv
    <3> QED
      BY <3>2, <3>6, <3>8 DEF RingInv
  <2> QED
    BY <1>6, <2>8, <2>9, ListenerSerials
<1> QED
  BY <1>2, <1>3, <1>4, <1>5, <1>6 DEF Next, Closed

(* No query is lost from serial_id_propeties while at most as many are
   unanswered as it has places, and the callback, which goes by serials alone,
   never takes the properties of a session for the list nor the list for them,
   for every length of the ring (comex_session.cpp:183-220, 673-690). *)
THEOREM RepliesCorrect == Spec => []RepliesRecognised
<1>1. Init => SerialInv /\ InOrder /\ RingInv
  <2> SUFFICES ASSUME Init PROVE SerialInv /\ InOrder /\ RingInv
    OBVIOUS
  <2>1. /\ requests = << >> /\ inbox = << >> /\ serial = 0 /\ list_serial = 0 /\ serial_id_sessions = 0
        /\ main_pc = "send" /\ \A k \in Slots : ring[k] = 0
    BY DEF Init, Slots
  <2>2. AskedSerials = {}
    BY <2>1 DEF AskedSerials
  <2> QED
    BY <2>1, <2>2 DEF SerialInv, InOrder, RingInv, Ordered, Remembers
<1>2. TypeOK /\ SerialInv /\ InOrder /\ RingInv /\ [Next]_vars => (SerialInv /\ InOrder /\ RingInv)'
  BY SerialKeeps, RingKeeps
<1>3. TypeOK /\ SerialInv /\ RingInv => RepliesRecognised
  <2> SUFFICES ASSUME TypeOK, SerialInv, RingInv PROVE RepliesRecognised
    OBVIOUS
  <2>1. /\ serial \in Nat /\ list_serial \in Nat
        /\ ring \in [Slots -> Nat] /\ pos_serial_id \in Slots
        /\ RingSize \in Nat
    BY SessionManagerAssumption DEF TypeOK, BusTypeOK, MainTypeOK, RingTypeOK, Slots
  <2>2. ASSUME Cardinality(AskedSerials) <= RingSize, NEW n \in AskedSerials PROVE InRing(n)
    <3>1. AskedSerials \subseteq 1..serial
      BY AskedIs DEF SerialInv
    <3>2. IsFiniteSet(AskedSerials) /\ AskedSerials \in SUBSET Nat
      <4>1. 1 \in Int /\ serial \in Int
        BY <2>1
      <4>2. IsFiniteSet(1..serial)
        BY <4>1, FS_Interval
      <4>3. AskedSerials \in SUBSET (1..serial)
        BY <3>1
      <4>4. IsFiniteSet(AskedSerials)
        BY <4>2, <4>3, FS_Subset
      <4>5. AskedSerials \in SUBSET Nat
        BY <4>1, <4>3
      <4> QED
        BY <4>4, <4>5
    <3>3. Cardinality(AskedSerials) \in Nat
      BY <3>2, FS_CardinalityType
    <3>4. SUFFICES ASSUME ~InRing(n) PROVE FALSE
      OBVIOUS
    <3>5. \A k \in Slots : ring[k] > n /\ ring[k] \in AskedSerials
      BY <3>4 DEF RingInv, Remembers, InRing, Slots
    <3>6. Cardinality(AskedSerials) > RingSize
      BY <2>1, <3>2, <3>5, Overrun DEF RingInv
    <3> QED
      BY <2>1, <2>2, <3>3, <3>6
  <2>3. ASSUME NEW i \in DOMAIN inbox, inbox[i].kind = "ListReply" PROVE ~InRing(inbox[i].serial)
    BY <2>1, <2>3 DEF SerialInv, InRing, Slots
  <2>4. ASSUME NEW i \in DOMAIN inbox, inbox[i].kind = "PropsReply" PROVE inbox[i].serial # serial_id_sessions
    BY <2>1, <2>4 DEF SerialInv, Answers
  <2> QED
    BY <2>2, <2>3, <2>4 DEF RepliesRecognised
<1> QED
  BY <1>1, <1>2, <1>3, TypeCorrect, PTL DEF Spec
=============================================================================
