-------------------------- MODULE EventStreamProofs --------------------------
(***************************************************************************)
(* Proofs about EventStream, for any handlers, event types and bounds: the *)
(* types, that a reconnection repeats no event to a handler, that a        *)
(* dispatcher alone on its channel delivers just the events wanted, and    *)
(* that an application which disconnects first leaks no connection.        *)
(***************************************************************************)
EXTENDS EventStream, SequenceTheorems, TLAPS

Messages == EventTypes \cup {Heartbeat}

LinkType ==
  [state : {"unused", "dialing", "open", "closed"}, log : Seq(Messages), read : Nat,
   token : 0..MaxToken]

DispatcherType ==
  [pc : {"none", "starting", "waiting", "received", "handling", "ended"},
   chan : 0..MaxConnections, event : [link : 0..MaxConnections, index : 0..MaxEvents],
   todo : Seq(Handlers)]

Delivered == [link : Links, index : 1..MaxEvents]

StreamTypeOK ==
  /\ jwt \in 1..MaxToken /\ streamJwt \in 1..MaxToken
  /\ eventHandlers \in [EventTypes -> Seq(Handlers)]
  /\ messageHandler \in Handlers \cup {NoHandler}
  /\ conn \in 0..MaxConnections /\ eventChan \in 0..MaxConnections
  /\ careless \in BOOLEAN

LinksTypeOK ==
  /\ link \in [Links -> LinkType]
  /\ \A k \in Links : link[k].read <= Len(link[k].log) /\ Len(link[k].log) <= MaxEvents

DispatchersTypeOK == dispatcher \in [Links -> DispatcherType]

HistoryTypeOK ==
  /\ received \in [Handlers -> Seq(Delivered)]
  /\ registeredAt \in [Handlers -> {<<>>} \cup [Links -> 0..MaxEvents]]

Running(k) == dispatcher[k].pc \in {"waiting", "received", "handling", "ended"}
Holding(k) == dispatcher[k].pc \in {"received", "handling"}

\* A running dispatcher has a channel, and one that holds an event took it off.
EventInv ==
  /\ \A k \in Links : dispatcher[k].pc # "none" => eventChan \in Links
  /\ \A k \in Links : Running(k) => dispatcher[k].chan \in Links
  /\ \A k \in Links : Holding(k) =>
       LET e == dispatcher[k].event IN
       /\ e \in Delivered
       /\ e.index <= link[e.link].read
       /\ dispatcher[k].pc = "received" => TypeOf(e) \in EventTypes

Types ==
  StreamTypeOK /\ LinksTypeOK /\ DispatchersTypeOK /\ HistoryTypeOK /\ EventInv

LEMMA Bounds ==
  /\ MaxConnections \in Nat \ {0} /\ MaxEvents \in Nat /\ MaxToken \in Nat \ {0}
  /\ HandlerType \in [Handlers -> EventTypes \cup {CatchAll}]
  /\ Heartbeat \notin EventTypes /\ NoHandler \notin Handlers
BY HandlerAssumption

LEMMA TypesGiveTypeOK == Types => TypeOK
<1> SUFFICES ASSUME Types PROVE TypeOK
  OBVIOUS
<1> USE DEF Types
<1>1. ASSUME NEW k \in Links
      PROVE  /\ link[k].state \in {"unused", "dialing", "open", "closed"}
             /\ link[k].log \in Seq(EventTypes \cup {Heartbeat})
             /\ link[k].read \in 0..Len(link[k].log) /\ link[k].read <= MaxEvents
             /\ link[k].token \in 0..MaxToken
  <2>1. link[k] \in LinkType /\ Len(link[k].log) \in Nat
    BY LenProperties DEF LinksTypeOK, LinkType
  <2>2. link[k].read <= Len(link[k].log) /\ Len(link[k].log) <= MaxEvents
    BY DEF LinksTypeOK
  <2>3. QED
    BY <2>1, <2>2, Bounds DEF LinkType, Messages
<1>2. ASSUME NEW k \in Links
      PROVE  /\ dispatcher[k].pc \in {"none", "starting", "waiting", "received",
                                      "handling", "ended"}
             /\ dispatcher[k].chan \in 0..MaxConnections
             /\ dispatcher[k].event \in [link : 0..MaxConnections, index : 0..MaxEvents]
             /\ dispatcher[k].todo \in Seq(Handlers)
  BY DEF DispatchersTypeOK, DispatcherType
<1>3. ASSUME NEW h \in Handlers
      PROVE  /\ received[h] \in Seq([link : Links, index : 1..MaxEvents])
             /\ registeredAt[h] \in {<<>>} \cup [Links -> 0..MaxEvents]
  BY DEF HistoryTypeOK, Delivered
<1>4. QED
  BY <1>1, <1>2, <1>3, Zenon DEF TypeOK, StreamTypeOK

LEMMA InitialTypes == Init => Types
<1> SUFFICES ASSUME Init PROVE Types
  OBVIOUS
<1> USE Bounds DEF Init
<1>1. StreamTypeOK
  <2>1. careless \in BOOLEAN
    BY Zenon
  <2>2. eventHandlers \in [EventTypes -> Seq(Handlers)]
    BY EmptySeq
  <2>3. QED
    BY <2>1, <2>2 DEF StreamTypeOK
<1>2. LinksTypeOK
  BY EmptySeq DEF LinksTypeOK, LinkType
<1>3. DispatchersTypeOK
  BY EmptySeq DEF DispatchersTypeOK, DispatcherType, NoEvent, Event
<1>4. HistoryTypeOK
  BY EmptySeq DEF HistoryTypeOK
<1>5. EventInv
  BY DEF EventInv, Running, Holding
<1>6. QED
  BY <1>1, <1>2, <1>3, <1>4, <1>5 DEF Types

-----------------------------------------------------------------------------
(* What the steps do to the connections and the dispatchers. *)

\* Events are put on and taken off; those that were put on do not change.
LinksGrow ==
  \A k \in Links :
    /\ link[k].read <= link'[k].read /\ Len(link[k].log) <= Len(link'[k].log)
    /\ \A i \in 1..Len(link[k].log) : link'[k].log[i] = link[k].log[i]

\* The application and the connections leave dispatchers and deliveries alone.
Application ==
  \/ SetAuthToken \/ Disconnect
  \/ \E h \in Handlers : OnEvent(h) \/ OnMessage(h)
  \/ \E k \in Links : BeginConnect(k) \/ ConnectFails(k) \/ Emit(k) \/ StreamEnds(k)

LEMMA LinkReplaced ==
  ASSUME LinksTypeOK, NEW k \in Links, NEW s \in {"unused", "dialing", "open", "closed"},
         NEW t \in 0..MaxToken,
         \/ link' = [link EXCEPT ![k].state = s]
         \/ link' = [link EXCEPT ![k].state = s, ![k].token = t]
  PROVE  LinksTypeOK' /\ LinksGrow
<1>1. /\ link' \in [Links -> LinkType]
      /\ link'[k].read = link[k].read /\ link'[k].log = link[k].log
      /\ \A j \in Links \ {k} : link'[j] = link[j]
  <2>1. CASE link' = [link EXCEPT ![k].state = s]
    <3> DEFINE r == [link[k] EXCEPT !.state = s]
    <3>1. r \in LinkType /\ r.read = link[k].read /\ r.log = link[k].log
      BY DEF LinksTypeOK, LinkType
    <3>2. link' = [link EXCEPT ![k] = r]
      BY <2>1 DEF LinksTypeOK
    <3> HIDE DEF r
    <3>3. QED
      BY <3>1, <3>2 DEF LinksTypeOK
  <2>2. CASE link' = [link EXCEPT ![k].state = s, ![k].token = t]
    <3> DEFINE r == [link[k] EXCEPT !.state = s, !.token = t]
    <3>1. r \in LinkType /\ r.read = link[k].read /\ r.log = link[k].log
      BY DEF LinksTypeOK, LinkType
    <3>2. link' = [link EXCEPT ![k] = r]
      BY <2>2 DEF LinksTypeOK, LinkType
    <3> HIDE DEF r
    <3>3. QED
      BY <3>1, <3>2 DEF LinksTypeOK
  <2>3. QED
    BY <2>1, <2>2
<1>2. \A j \in Links : link'[j].read = link[j].read /\ link'[j].log = link[j].log
  BY <1>1
<1>3. \A j \in Links : Len(link[j].log) \in Nat /\ link[j].read \in Nat
  BY LenProperties DEF LinksTypeOK, LinkType
<1>4. QED
  BY <1>1, <1>2, <1>3 DEF LinksTypeOK, LinksGrow

LEMMA EmitStep ==
  ASSUME LinksTypeOK, NEW k \in Links, Emit(k)
  PROVE  LinksTypeOK' /\ LinksGrow
<1>1. PICK t \in Messages : link' = [link EXCEPT ![k].log = Append(@, t)]
  BY DEF Emit, Messages
<1> DEFINE l == Append(link[k].log, t)
<1>2. /\ link[k].log \in Seq(Messages) /\ l \in Seq(Messages)
      /\ Len(link[k].log) \in Nat /\ Len(l) = Len(link[k].log) + 1
      /\ \A i \in 1..Len(link[k].log) : l[i] = link[k].log[i]
  <2>1. link[k].log \in Seq(Messages)
    BY DEF LinksTypeOK, LinkType
  <2>2. QED
    BY <2>1, AppendProperties, LenProperties
<1>3. Len(link[k].log) < MaxEvents
  BY DEF Emit
<1>4. link' = [link EXCEPT ![k].log = l]
  BY <1>1 DEF LinksTypeOK, LinkType
<1> HIDE DEF l
<1>5. /\ link' \in [Links -> LinkType] /\ link'[k].log = l /\ link'[k].read = link[k].read
      /\ \A j \in Links \ {k} : link'[j] = link[j]
  BY <1>2, <1>4 DEF LinksTypeOK, LinkType
<1>6. /\ \A j \in Links : Len(link[j].log) \in Nat
      /\ \A j \in Links : link[j].read \in Nat
  BY LenProperties DEF LinksTypeOK, LinkType
<1>7. \A j \in Links : link'[j].read <= Len(link'[j].log) /\ Len(link'[j].log) <= MaxEvents
  BY <1>2, <1>3, <1>5, <1>6, Bounds DEF LinksTypeOK
<1>8. LinksGrow
  BY <1>2, <1>5, <1>6 DEF LinksGrow
<1>9. QED
  BY <1>5, <1>7, <1>8 DEF LinksTypeOK

LEMMA NewDispatcher ==
  ASSUME DispatchersTypeOK, NEW k \in Links, NEW r \in DispatcherType,
         dispatcher' = [dispatcher EXCEPT ![k] = r]
  PROVE  /\ DispatchersTypeOK' /\ dispatcher'[k] = r
         /\ \A j \in Links \ {k} : dispatcher'[j] = dispatcher[j]
BY DEF DispatchersTypeOK

LEMMA FinishConnectEffect ==
  ASSUME Types, NEW k \in Links, FinishConnect(k)
  PROVE  /\ LinksTypeOK' /\ LinksGrow /\ DispatchersTypeOK'
         /\ dispatcher'[k].pc = "starting" /\ dispatcher'[k].chan = dispatcher[k].chan
         /\ \A j \in Links \ {k} : dispatcher'[j] = dispatcher[j]
         /\ UNCHANGED <<received, eventHandlers, messageHandler, registeredAt>>
<1>1. link' = [link EXCEPT ![k].state = "open"]
  BY DEF FinishConnect
<1>2. LinksTypeOK' /\ LinksGrow
  <2>1. 0 \in 0..MaxToken
    BY Bounds
  <2>2. QED
    BY <1>1, <2>1, LinkReplaced DEF Types
<1> DEFINE r == [dispatcher[k] EXCEPT !.pc = "starting"]
<1>3. r \in DispatcherType /\ r.pc = "starting" /\ r.chan = dispatcher[k].chan
  BY DEF Types, DispatchersTypeOK, DispatcherType
<1>4. dispatcher' = [dispatcher EXCEPT ![k] = r]
  BY DEF Types, DispatchersTypeOK, FinishConnect
<1> HIDE DEF r
<1>5. QED
  BY <1>2, <1>3, <1>4, NewDispatcher DEF Types, FinishConnect

LEMMA StartEffect ==
  ASSUME Types, NEW k \in Links, StartDispatch(k)
  PROVE  /\ DispatchersTypeOK' /\ dispatcher'[k].pc = "waiting"
         /\ dispatcher'[k].chan \in Links
         /\ \A j \in Links \ {k} : dispatcher'[j] = dispatcher[j]
         /\ UNCHANGED <<received, eventHandlers, messageHandler, registeredAt, link>>
<1>1. PICK c \in {k, eventChan} :
        dispatcher' = [dispatcher EXCEPT ![k].pc = "waiting", ![k].chan = c]
  BY DEF StartDispatch
<1>2. c \in Links
  BY DEF Types, EventInv, StartDispatch
<1> DEFINE r == [dispatcher[k] EXCEPT !.pc = "waiting", !.chan = c]
<1>3. r \in DispatcherType /\ r.pc = "waiting" /\ r.chan = c
  <2>1. dispatcher[k] \in DispatcherType
    BY DEF Types, DispatchersTypeOK
  <2>2. c \in 0..MaxConnections
    BY <1>2, Bounds DEF Links
  <2>3. QED
    BY <2>1, <2>2 DEF DispatcherType
<1>4. dispatcher' = [dispatcher EXCEPT ![k] = r]
  BY <1>1 DEF Types, DispatchersTypeOK, DispatcherType
<1> HIDE DEF r
<1>5. QED
  BY <1>2, <1>3, <1>4, NewDispatcher DEF Types, StartDispatch

\* The dispatcher takes an event that nobody has taken.
LEMMA ReceiveEffect ==
  ASSUME Types, NEW k \in Links, Receive(k)
  PROVE  /\ LinksTypeOK' /\ LinksGrow /\ DispatchersTypeOK'
         /\ dispatcher'[k].pc \in {"waiting", "received"}
         /\ dispatcher'[k].chan = dispatcher[k].chan
         /\ LET e == dispatcher'[k].event IN
              /\ e \in Delivered /\ e.index > link[e.link].read
              /\ e.index <= link'[e.link].read
              /\ dispatcher'[k].pc = "received" => link'[e.link].log[e.index] \in EventTypes
              /\ dispatcher'[k].pc = "waiting" => link'[e.link].log[e.index] = Heartbeat
              /\ e.link = dispatcher[k].chan
              /\ e.index = link[e.link].read + 1 /\ e.index = link'[e.link].read
              /\ \A j \in Links \ {e.link} : link'[j] = link[j]
         /\ \A j \in Links \ {k} : dispatcher'[j] = dispatcher[j]
         /\ UNCHANGED <<received, eventHandlers, messageHandler, registeredAt>>
<1> DEFINE c == dispatcher[k].chan
           e == Event(c, link[c].read + 1)
           p == IF TypeOf(e) = Heartbeat THEN "waiting" ELSE "received"
<1>1. /\ dispatcher[k].pc = "waiting" /\ link[c].read < Len(link[c].log)
      /\ link' = [link EXCEPT ![c].read = @ + 1]
      /\ dispatcher' = [dispatcher EXCEPT ![k].pc = p, ![k].event = e]
  BY DEF Receive, Unread
<1>2. c \in Links
  BY <1>1 DEF Types, EventInv, Running
<1>3. /\ link \in [Links -> LinkType] /\ link[c].read \in Nat
      /\ link[c].log \in Seq(Messages) /\ Len(link[c].log) \in Nat
      /\ Len(link[c].log) <= MaxEvents
      /\ \A j \in Links : link[j].read \in Nat /\ Len(link[j].log) \in Nat
  <2> HIDE DEF c
  <2>1. link[c] \in LinkType /\ Len(link[c].log) <= MaxEvents
    BY <1>2 DEF Types, LinksTypeOK
  <2>2. \A j \in Links : link[j].read \in Nat /\ link[j].log \in Seq(Messages)
    BY DEF Types, LinksTypeOK, LinkType
  <2>3. \A j \in Links : Len(link[j].log) \in Nat
    BY <2>2, LenProperties
  <2>4. QED
    BY <1>2, <2>1, <2>2, <2>3 DEF Types, LinksTypeOK
<1>4. link[c].read + 1 \in 1..Len(link[c].log) /\ link[c].read + 1 \in 1..MaxEvents
  <2> HIDE DEF c, e, p
  <2>1. link[c].read < Len(link[c].log)
    BY <1>1, Zenon
  <2>2. /\ link[c].read \in Nat /\ Len(link[c].log) \in Nat
        /\ Len(link[c].log) <= MaxEvents
    BY <1>3, Zenon
  <2>3. QED
    BY <2>1, <2>2, Bounds
<1>5. e \in Delivered /\ e.link = c /\ e.index = link[c].read + 1
  BY <1>2, <1>4 DEF Event, Delivered
<1>6. TypeOf(e) = link[c].log[link[c].read + 1] /\ TypeOf(e) \in Messages
  BY <1>3, <1>4, <1>5, ElementOfSeq DEF TypeOf
<1>7. /\ p \in {"waiting", "received"} /\ (p = "received" => TypeOf(e) \in EventTypes)
      /\ p = "waiting" => TypeOf(e) = Heartbeat
  BY <1>6 DEF Messages
<1> DEFINE l == [link[c] EXCEPT !.read = @ + 1]
<1>8. /\ l \in LinkType /\ l.log = link[c].log /\ l.read = link[c].read + 1
      /\ link' = [link EXCEPT ![c] = l]
  <2> HIDE DEF c, e, p
  <2>1. link[c] \in LinkType
    BY <1>2, <1>3
  <2>2. l \in LinkType /\ l.log = link[c].log /\ l.read = link[c].read + 1
    BY <2>1 DEF LinkType
  <2>3. link' = [link EXCEPT ![c] = l]
    BY <1>1, <1>2, <1>3
  <2>4. QED
    BY <2>2, <2>3
<1> DEFINE r == [dispatcher[k] EXCEPT !.pc = p, !.event = e]
<1> HIDE DEF p, e, l
<1>9. dispatcher \in [Links -> DispatcherType]
  BY DEF Types, DispatchersTypeOK
<1>10. e \in [link : 0..MaxConnections, index : 0..MaxEvents]
  BY <1>5, Bounds DEF Delivered, Links
<1>11. /\ r \in DispatcherType /\ r.pc = p /\ r.event = e /\ r.chan = dispatcher[k].chan
       /\ dispatcher' = [dispatcher EXCEPT ![k] = r]
  BY <1>1, <1>7, <1>9, <1>10 DEF DispatcherType
<1> HIDE DEF r, c
<1>12. /\ link' \in [Links -> LinkType]
       /\ link'[c].log = link[c].log /\ link'[c].read = link[c].read + 1
       /\ \A j \in Links \ {c} : link'[j] = link[j]
  BY <1>2, <1>3, <1>8
<1>13. LinksTypeOK'
  BY <1>3, <1>4, <1>12 DEF Types, LinksTypeOK
<1>14. LinksGrow
  BY <1>3, <1>12 DEF LinksGrow
<1>15. /\ DispatchersTypeOK' /\ dispatcher'[k] = r
       /\ \A j \in Links \ {k} : dispatcher'[j] = dispatcher[j]
  BY <1>9, <1>11, NewDispatcher DEF DispatchersTypeOK
<1>16. /\ e.index > link[e.link].read /\ e.index <= link'[e.link].read
       /\ p = "received" => link'[e.link].log[e.index] \in EventTypes
       /\ p = "waiting" => link'[e.link].log[e.index] = Heartbeat
       /\ e.link = dispatcher[k].chan
       /\ e.index = link[e.link].read + 1 /\ e.index = link'[e.link].read
       /\ \A j \in Links \ {e.link} : link'[j] = link[j]
  BY <1>3, <1>5, <1>6, <1>7, <1>12 DEF c
<1>17. QED
  BY <1>5, <1>7, <1>11, <1>13, <1>14, <1>15, <1>16 DEF Receive

LEMMA SnapshotEffect ==
  ASSUME Types, NEW k \in Links, Snapshot(k)
  PROVE  /\ DispatchersTypeOK' /\ dispatcher'[k].pc = "handling"
         /\ dispatcher'[k].event = dispatcher[k].event
         /\ dispatcher'[k].chan = dispatcher[k].chan
         /\ \E t \in EventTypes :
              /\ t = TypeOf(dispatcher[k].event)
              /\ dispatcher'[k].todo = eventHandlers[t]
                \o (IF messageHandler = NoHandler THEN <<>> ELSE <<messageHandler>>)
         /\ \A j \in Links \ {k} : dispatcher'[j] = dispatcher[j]
         /\ UNCHANGED <<received, eventHandlers, messageHandler, registeredAt, link>>
<1> DEFINE t == TypeOf(dispatcher[k].event)
           last == IF messageHandler = NoHandler THEN <<>> ELSE <<messageHandler>>
           todo == eventHandlers[t] \o last
           r == [dispatcher[k] EXCEPT !.pc = "handling", !.todo = todo]
<1>1. t \in EventTypes
  BY DEF Types, EventInv, Holding, Snapshot
<1>2. last \in Seq(Handlers)
  BY DEF Types, StreamTypeOK
<1>3. todo \in Seq(Handlers)
  <2> HIDE DEF last, t
  <2>1. eventHandlers[t] \in Seq(Handlers)
    BY <1>1 DEF Types, StreamTypeOK
  <2>2. QED
    BY <1>2, <2>1, ConcatProperties
<1>4. dispatcher' = [dispatcher EXCEPT ![k].pc = "handling", ![k].todo = todo]
  BY DEF Snapshot
<1>5. dispatcher \in [Links -> DispatcherType]
  BY DEF Types, DispatchersTypeOK
<1> HIDE DEF todo
<1>6. /\ r \in DispatcherType /\ r.pc = "handling" /\ r.todo = todo
      /\ r.event = dispatcher[k].event /\ r.chan = dispatcher[k].chan
      /\ dispatcher' = [dispatcher EXCEPT ![k] = r]
  BY <1>3, <1>4, <1>5 DEF DispatcherType
<1> HIDE DEF r
<1>7. /\ DispatchersTypeOK' /\ dispatcher'[k] = r
      /\ \A j \in Links \ {k} : dispatcher'[j] = dispatcher[j]
  BY <1>5, <1>6, NewDispatcher DEF DispatchersTypeOK
<1>8. \E u \in EventTypes :
        u = TypeOf(dispatcher[k].event) /\ todo = eventHandlers[u] \o last
  BY <1>1 DEF todo
<1>9. QED
  BY <1>6, <1>7, <1>8 DEF Snapshot

\* A handler is called, or all have been.
LEMMA CallEffect ==
  ASSUME Types, NEW k \in Links, CallHandler(k)
  PROVE  /\ DispatchersTypeOK' /\ HistoryTypeOK'
         /\ dispatcher'[k].event = dispatcher[k].event
         /\ dispatcher'[k].chan = dispatcher[k].chan
         /\ \A j \in Links \ {k} : dispatcher'[j] = dispatcher[j]
         /\ UNCHANGED <<eventHandlers, messageHandler, registeredAt, link>>
         /\ \/ /\ dispatcher[k].pc = "handling" /\ dispatcher'[k].pc = "waiting"
               /\ dispatcher[k].todo = <<>> /\ received' = received
            \/ /\ dispatcher[k].pc = "handling" /\ dispatcher'[k].pc = "handling"
               /\ dispatcher[k].todo # <<>>
               /\ dispatcher'[k].todo = Tail(dispatcher[k].todo)
               /\ received' = [received EXCEPT ![Head(dispatcher[k].todo)] =
                                 Append(@, dispatcher[k].event)]
<1>1. dispatcher \in [Links -> DispatcherType] /\ HistoryTypeOK
  BY DEF Types, DispatchersTypeOK
<1>2. dispatcher[k].pc = "handling" /\ dispatcher[k].todo \in Seq(Handlers)
  BY <1>1 DEF CallHandler, DispatcherType
<1>3. CASE dispatcher[k].todo = <<>>
  <2> DEFINE r == [dispatcher[k] EXCEPT !.pc = "waiting"]
  <2>1. /\ r \in DispatcherType /\ r.pc = "waiting"
        /\ r.event = dispatcher[k].event /\ r.chan = dispatcher[k].chan
    BY <1>1 DEF DispatcherType
  <2>2. dispatcher' = [dispatcher EXCEPT ![k] = r] /\ received' = received
    BY <1>1, <1>3 DEF CallHandler
  <2> HIDE DEF r
  <2>3. /\ DispatchersTypeOK' /\ dispatcher'[k] = r
        /\ \A j \in Links \ {k} : dispatcher'[j] = dispatcher[j]
    BY <1>1, <2>1, <2>2, NewDispatcher DEF DispatchersTypeOK
  <2>4. HistoryTypeOK'
    BY <1>1, <2>2 DEF HistoryTypeOK, CallHandler
  <2>5. QED
    BY <1>2, <1>3, <2>1, <2>2, <2>3, <2>4 DEF CallHandler
<1>4. CASE dispatcher[k].todo # <<>>
  <2> DEFINE h == Head(dispatcher[k].todo)
             rest == Tail(dispatcher[k].todo)
             r == [dispatcher[k] EXCEPT !.todo = rest]
  <2>1. h \in Handlers /\ rest \in Seq(Handlers)
    BY <1>2, <1>4, HeadTailProperties
  <2>2. /\ dispatcher' = [dispatcher EXCEPT ![k].todo = rest]
        /\ received' = [received EXCEPT ![h] = Append(@, dispatcher[k].event)]
    BY <1>1, <1>4 DEF CallHandler
  <2> HIDE DEF h, rest
  <2>3. /\ r \in DispatcherType /\ r.todo = rest /\ r.pc = dispatcher[k].pc
        /\ r.event = dispatcher[k].event /\ r.chan = dispatcher[k].chan
        /\ dispatcher' = [dispatcher EXCEPT ![k] = r]
    BY <1>1, <2>1, <2>2 DEF DispatcherType
  <2> HIDE DEF r
  <2>4. /\ DispatchersTypeOK' /\ dispatcher'[k] = r
        /\ \A j \in Links \ {k} : dispatcher'[j] = dispatcher[j]
    BY <1>1, <2>3, NewDispatcher DEF DispatchersTypeOK
  <2>5. dispatcher[k].event \in Delivered
    BY <1>2 DEF Types, EventInv, Holding
  <2>6. Append(received[h], dispatcher[k].event) \in Seq(Delivered)
    BY <1>1, <2>1, <2>5, AppendProperties DEF HistoryTypeOK
  <2>7. HistoryTypeOK'
    BY <1>1, <2>1, <2>2, <2>6 DEF HistoryTypeOK, CallHandler
  <2>8. QED
    BY <1>2, <1>4, <2>2, <2>3, <2>4, <2>7 DEF CallHandler, h, rest
<1>5. QED
  BY <1>3, <1>4

LEMMA EndEffect ==
  ASSUME Types, NEW k \in Links, EndDispatch(k)
  PROVE  /\ DispatchersTypeOK' /\ dispatcher'[k].pc = "ended"
         /\ dispatcher'[k].chan = dispatcher[k].chan /\ dispatcher[k].pc = "waiting"
         /\ \A j \in Links \ {k} : dispatcher'[j] = dispatcher[j]
         /\ UNCHANGED <<received, eventHandlers, messageHandler, registeredAt, link>>
<1> DEFINE r == [dispatcher[k] EXCEPT !.pc = "ended"]
<1>1. r \in DispatcherType /\ r.pc = "ended" /\ r.chan = dispatcher[k].chan
  BY DEF Types, DispatchersTypeOK, DispatcherType
<1>2. dispatcher' = [dispatcher EXCEPT ![k] = r]
  BY DEF Types, DispatchersTypeOK, EndDispatch
<1> HIDE DEF r
<1>3. QED
  BY <1>1, <1>2, NewDispatcher DEF Types, EndDispatch

LEMMA LinksRest ==
  ASSUME LinksTypeOK, link' = link
  PROVE  LinksTypeOK' /\ LinksGrow
<1>1. \A j \in Links : Len(link[j].log) \in Nat /\ link[j].read \in Nat
  BY LenProperties DEF LinksTypeOK, LinkType
<1>2. QED
  BY <1>1 DEF LinksTypeOK, LinksGrow

\* What the application and the connections do.
LEMMA ApplicationEffect ==
  ASSUME Types, Application
  PROVE  /\ StreamTypeOK' /\ LinksTypeOK' /\ LinksGrow /\ HistoryTypeOK'
         /\ UNCHANGED <<dispatcher, eventChan, received>>
<1> USE DEF Types
<1>1. CASE SetAuthToken
  <2>1. jwt' \in 1..MaxToken
    BY <1>1, Bounds DEF SetAuthToken, StreamTypeOK
  <2>2. QED
    BY <1>1, <2>1, LinksRest DEF SetAuthToken, StreamTypeOK, HistoryTypeOK
<1>2. CASE Disconnect
  <2>1. conn \in Links /\ 0 \in 0..MaxToken
    BY <1>2, Bounds DEF Disconnect, StreamTypeOK, Links
  <2>2. link' = [link EXCEPT ![conn].state = "closed"]
    BY <1>2 DEF Disconnect
  <2>3. LinksTypeOK' /\ LinksGrow
    BY <2>1, <2>2, LinkReplaced
  <2>4. QED
    BY <1>2, <2>3, Zenon DEF Disconnect, StreamTypeOK, HistoryTypeOK
<1>3. ASSUME NEW h \in Handlers, Register(h)
      PROVE  HistoryTypeOK'
  <2>1. \A k \in Links : link[k].read \in 0..MaxEvents
    <3> TAKE k \in Links
    <3>1. link[k] \in LinkType /\ Len(link[k].log) \in Nat
      BY LenProperties DEF LinksTypeOK, LinkType
    <3>2. link[k].read <= Len(link[k].log) /\ Len(link[k].log) <= MaxEvents
      BY DEF LinksTypeOK
    <3>3. QED
      BY <3>1, <3>2, Bounds DEF LinkType
  <2>2. [k \in Links |-> link[k].read] \in [Links -> 0..MaxEvents]
    BY <2>1
  <2>3. QED
    BY <1>3, <2>2 DEF Register, HistoryTypeOK
<1>4. ASSUME NEW h \in Handlers, OnEvent(h)
      PROVE  /\ StreamTypeOK' /\ LinksTypeOK' /\ LinksGrow /\ HistoryTypeOK'
             /\ UNCHANGED <<dispatcher, eventChan, received>>
  <2>1. HistoryTypeOK' /\ LinksTypeOK' /\ LinksGrow
    BY <1>3, <1>4, LinksRest DEF OnEvent, Register
  <2>2. HandlerType[h] \in EventTypes
    BY <1>4, Bounds DEF OnEvent
  <2>3. Append(eventHandlers[HandlerType[h]], h) \in Seq(Handlers)
    BY <2>2, AppendProperties DEF StreamTypeOK
  <2>4. eventHandlers' \in [EventTypes -> Seq(Handlers)]
    BY <1>4, <2>2, <2>3 DEF OnEvent, StreamTypeOK
  <2>5. QED
    BY <1>4, <2>1, <2>4, Zenon DEF OnEvent, Register, StreamTypeOK
<1>5. ASSUME NEW h \in Handlers, OnMessage(h)
      PROVE  /\ StreamTypeOK' /\ LinksTypeOK' /\ LinksGrow /\ HistoryTypeOK'
             /\ UNCHANGED <<dispatcher, eventChan, received>>
  <2>1. HistoryTypeOK' /\ LinksTypeOK' /\ LinksGrow
    BY <1>3, <1>5, LinksRest DEF OnMessage, Register
  <2>2. QED
    BY <1>5, <2>1, Zenon DEF OnMessage, Register, StreamTypeOK
<1>6. ASSUME NEW k \in Links, BeginConnect(k)
      PROVE  /\ StreamTypeOK' /\ LinksTypeOK' /\ LinksGrow /\ HistoryTypeOK'
             /\ UNCHANGED <<dispatcher, eventChan, received>>
  <2>1. streamJwt \in 0..MaxToken /\ k \in 0..MaxConnections
    BY Bounds DEF StreamTypeOK, Links
  <2>2. link' = [link EXCEPT ![k].state = "dialing", ![k].token = streamJwt]
    BY <1>6 DEF BeginConnect
  <2>3. LinksTypeOK' /\ LinksGrow
    BY <2>1, <2>2, LinkReplaced
  <2>4. careless' \in BOOLEAN
    BY <1>6, Zenon DEF BeginConnect
  <2>5. QED
    BY <1>6, <2>1, <2>3, <2>4, Zenon DEF BeginConnect, StreamTypeOK, HistoryTypeOK
<1>7. ASSUME NEW k \in Links, ConnectFails(k) \/ StreamEnds(k)
      PROVE  /\ StreamTypeOK' /\ LinksTypeOK' /\ LinksGrow /\ HistoryTypeOK'
             /\ UNCHANGED <<dispatcher, eventChan, received>>
  <2>1. 0 \in 0..MaxToken /\ link' = [link EXCEPT ![k].state = "closed"]
    BY <1>7, Bounds DEF ConnectFails, StreamEnds
  <2>2. LinksTypeOK' /\ LinksGrow
    BY <2>1, LinkReplaced
  <2>3. QED
    BY <1>7, <2>2, Zenon DEF ConnectFails, StreamEnds, StreamTypeOK, HistoryTypeOK
<1>8. ASSUME NEW k \in Links, Emit(k)
      PROVE  /\ StreamTypeOK' /\ LinksTypeOK' /\ LinksGrow /\ HistoryTypeOK'
             /\ UNCHANGED <<dispatcher, eventChan, received>>
  BY <1>8, EmitStep, Zenon DEF Emit, StreamTypeOK, HistoryTypeOK
<1>9. QED
  BY <1>1, <1>2, <1>4, <1>5, <1>6, <1>7, <1>8, Zenon DEF Application

\* What a dispatcher holds it has taken off, also when more is put on.
LEMMA HeldEventKept ==
  ASSUME Types, LinksGrow, LinksTypeOK', NEW k \in Links, Holding(k),
         dispatcher'[k].event = dispatcher[k].event
  PROVE  LET e == dispatcher'[k].event IN
         /\ e \in Delivered /\ e.index <= link'[e.link].read
         /\ link'[e.link].log[e.index] = link[e.link].log[e.index]
<1> DEFINE e == dispatcher[k].event
<1>1. e \in Delivered /\ e.index <= link[e.link].read
  BY DEF Types, EventInv
<1> HIDE DEF e
<1>2. e.link \in Links /\ e.index \in Nat /\ e.index >= 1
  BY <1>1, Bounds DEF Delivered
<1>3. /\ link[e.link].read \in Nat /\ link'[e.link].read \in Nat
      /\ link[e.link].read <= link'[e.link].read
  BY <1>2 DEF Types, LinksTypeOK, LinkType, LinksGrow
<1>4. link[e.link].read <= Len(link[e.link].log) /\ Len(link[e.link].log) \in Nat
  BY <1>2, LenProperties DEF Types, LinksTypeOK, LinkType
<1>5. e.index \in 1..Len(link[e.link].log)
  BY <1>1, <1>2, <1>3, <1>4
<1>6. e.index <= link'[e.link].read
  BY <1>1, <1>2, <1>3
<1>7. QED
  BY <1>1, <1>2, <1>5, <1>6 DEF LinksGrow, e

LEMMA ApplicationTypes ==
  ASSUME Types, Application
  PROVE  Types'
<1>1. /\ StreamTypeOK' /\ LinksTypeOK' /\ LinksGrow /\ HistoryTypeOK'
      /\ UNCHANGED <<dispatcher, eventChan, received>>
  BY ApplicationEffect
<1>2. EventInv'
  BY <1>1, HeldEventKept DEF EventInv, Types, Holding, Running, TypeOf
<1>3. QED
  BY <1>1, <1>2 DEF Types, DispatchersTypeOK

\* One dispatcher moves; the others hold what they held.
LEMMA DispatchTypes ==
  ASSUME Types, NEW k \in Links, FinishConnect(k) \/ Dispatch(k)
  PROVE  Types'
<1>1. /\ LinksTypeOK' /\ LinksGrow /\ DispatchersTypeOK' /\ HistoryTypeOK'
      /\ \A j \in Links \ {k} : dispatcher'[j] = dispatcher[j]
  BY FinishConnectEffect, StartEffect, ReceiveEffect, SnapshotEffect, CallEffect,
     EndEffect, LinksRest DEF Types, Dispatch, HistoryTypeOK
<1>2. eventChan' = IF FinishConnect(k) THEN k ELSE eventChan
  <2>1. CASE FinishConnect(k)
    BY <2>1 DEF FinishConnect
  <2>2. CASE ~FinishConnect(k)
    BY <2>2 DEF Dispatch, StartDispatch, Receive, Snapshot, CallHandler, EndDispatch
  <2>3. QED
    BY <2>1, <2>2
<1>3. StreamTypeOK'
  <2>1. UNCHANGED <<jwt, streamJwt, eventHandlers, messageHandler, conn, careless>>
    BY DEF FinishConnect, Dispatch, StartDispatch, Receive, Snapshot, CallHandler,
           EndDispatch
  <2>2. eventChan' \in 0..MaxConnections
    BY <1>2, Bounds DEF Types, StreamTypeOK, Links
  <2>3. QED
    BY <2>1, <2>2, Zenon DEF Types, StreamTypeOK
<1>4. eventChan' \in Links
  <2>1. CASE FinishConnect(k)
    BY <1>2, <2>1
  <2>2. CASE Dispatch(k) /\ ~FinishConnect(k)
    <3>1. dispatcher[k].pc # "none"
      BY <2>2 DEF Dispatch, StartDispatch, Receive, Snapshot, CallHandler, EndDispatch
    <3>2. QED
      BY <1>2, <2>2, <3>1 DEF Types, EventInv
  <2>3. QED
    BY <2>1, <2>2
<1>5. ASSUME NEW j \in Links \ {k}, Holding(j)'
      PROVE  LET e == dispatcher'[j].event IN
             /\ e \in Delivered /\ e.index <= link'[e.link].read
             /\ dispatcher'[j].pc = "received" => link'[e.link].log[e.index] \in EventTypes
  <2>1. Holding(j) /\ dispatcher'[j] = dispatcher[j]
    BY <1>1, <1>5 DEF Holding
  <2>2. QED
    BY <1>1, <2>1, HeldEventKept DEF Types, EventInv, TypeOf
<1>6. ASSUME NEW j \in Links \ {k}, Running(j)'
      PROVE  dispatcher'[j].chan \in Links
  BY <1>1, <1>6 DEF Running, Types, EventInv
<1>7. /\ Running(k)' => dispatcher'[k].chan \in Links
      /\ Holding(k)' =>
           LET e == dispatcher'[k].event IN
           /\ e \in Delivered /\ e.index <= link'[e.link].read
           /\ dispatcher'[k].pc = "received" => link'[e.link].log[e.index] \in EventTypes
  <2>1. CASE FinishConnect(k)
    BY <2>1, FinishConnectEffect DEF Running, Holding
  <2>2. CASE StartDispatch(k)
    BY <2>2, StartEffect DEF Running, Holding
  <2>3. CASE Receive(k)
    BY <2>3, ReceiveEffect DEF Holding, Running, Types, EventInv, Receive
  <2>4. CASE Snapshot(k)
    <3>1. Holding(k) /\ Running(k)
      BY <2>4 DEF Holding, Running, Snapshot
    <3>2. QED
      BY <1>1, <2>4, <3>1, SnapshotEffect, HeldEventKept DEF Types, EventInv
  <2>5. CASE CallHandler(k)
    <3>1. Holding(k) /\ Running(k)
      BY <2>5 DEF Holding, Running, CallHandler
    <3>2. QED
      BY <1>1, <2>5, <3>1, CallEffect, HeldEventKept DEF Types, EventInv
  <2>6. CASE EndDispatch(k)
    BY <2>6, EndEffect DEF Types, EventInv, Running, Holding
  <2>7. QED
    BY <2>1, <2>2, <2>3, <2>4, <2>5, <2>6 DEF Dispatch
<1>8. EventInv'
  BY <1>4, <1>5, <1>6, <1>7 DEF EventInv, TypeOf
<1>9. QED
  BY <1>1, <1>3, <1>8 DEF Types

LEMMA ByActor ==
  [Next]_vars <=> \/ Application \/ UNCHANGED vars
                  \/ \E k \in Links : FinishConnect(k) \/ Dispatch(k)
BY Zenon DEF Next, Application

LEMMA TypesStep == Types /\ [Next]_vars => Types'
<1> SUFFICES ASSUME Types, [Next]_vars PROVE Types'
  OBVIOUS
<1>1. CASE UNCHANGED vars
  BY <1>1 DEF vars, Types, StreamTypeOK, LinksTypeOK, DispatchersTypeOK,
       HistoryTypeOK, EventInv, Running, Holding, TypeOf
<1>2. QED
  BY <1>1, ByActor, ApplicationTypes, DispatchTypes

-----------------------------------------------------------------------------
(* Sequences without repetition. *)

Distinct(s) == \A i, j \in 1..Len(s) : s[i] = s[j] => i = j

Lacks(s, x) == \A i \in 1..Len(s) : s[i] # x

LEMMA DistinctAppend ==
  ASSUME NEW S, NEW s \in Seq(S), NEW x \in S, Distinct(s), Lacks(s, x)
  PROVE  Distinct(Append(s, x))
<1>1. Len(s) \in Nat
  BY LenProperties
<1>2. /\ Len(Append(s, x)) = Len(s) + 1 /\ Append(s, x)[Len(s) + 1] = x
      /\ \A i \in 1..Len(s) : Append(s, x)[i] = s[i]
  BY AppendProperties
<1> DEFINE a == Append(s, x)
<1> HIDE DEF a
<1>3. /\ Len(a) = Len(s) + 1 /\ a[Len(s) + 1] = x
      /\ \A i \in 1..Len(s) : a[i] = s[i]
  BY <1>2 DEF a
<1>4. ASSUME NEW i \in 1..Len(a), NEW j \in 1..Len(a), a[i] = a[j]
      PROVE  i = j
  <2>1. CASE i \in 1..Len(s) /\ j \in 1..Len(s)
    BY <1>3, <1>4, <2>1 DEF Distinct
  <2>2. CASE i = Len(s) + 1 /\ j \in 1..Len(s)
    BY <1>3, <1>4, <2>2 DEF Lacks
  <2>3. CASE j = Len(s) + 1 /\ i \in 1..Len(s)
    BY <1>3, <1>4, <2>3 DEF Lacks
  <2>4. CASE i = Len(s) + 1 /\ j = Len(s) + 1
    BY <2>4
  <2>5. QED
    BY <1>1, <1>3, <2>1, <2>2, <2>3, <2>4
<1>5. QED
  BY <1>4 DEF a, Distinct

LEMMA Appended ==
  ASSUME NEW S, NEW q \in Seq(S), NEW x \in S
  PROVE  /\ Len(Append(q, x)) = Len(q) + 1 /\ Len(q) \in Nat
         /\ Append(q, x)[Len(q) + 1] = x
         /\ \A j \in 1..Len(q) : Append(q, x)[j] = q[j]
BY AppendProperties, LenProperties

LEMMA LacksAppend ==
  ASSUME NEW S, NEW s \in Seq(S), NEW x \in S, NEW y, Lacks(s, y), x # y
  PROVE  Lacks(Append(s, x), y)
<1>1. Len(s) \in Nat
  BY LenProperties
<1>2. /\ Len(Append(s, x)) = Len(s) + 1 /\ Append(s, x)[Len(s) + 1] = x
      /\ \A i \in 1..Len(s) : Append(s, x)[i] = s[i]
  BY AppendProperties
<1>3. QED
  BY <1>1, <1>2 DEF Lacks

LEMMA DistinctTail ==
  ASSUME NEW S, NEW s \in Seq(S), s # <<>>, Distinct(s)
  PROVE  /\ Distinct(Tail(s))
         /\ \A m \in 1..Len(Tail(s)) : m + 1 \in 1..Len(s) /\ Tail(s)[m] = s[m + 1]
         /\ Lacks(Tail(s), Head(s)) /\ 1 \in 1..Len(s) /\ Head(s) = s[1]
<1>1. Len(s) \in Nat \ {0} /\ Head(s) = s[1]
  BY EmptySeq
<1>2. /\ Len(Tail(s)) = Len(s) - 1
      /\ \A m \in 1..Len(Tail(s)) : Tail(s)[m] = s[m + 1]
  BY HeadTailProperties
<1> DEFINE t == Tail(s)
<1> HIDE DEF t
<1>3. /\ Len(t) = Len(s) - 1 /\ \A m \in 1..Len(t) : t[m] = s[m + 1]
  BY <1>2 DEF t
<1>4. \A m \in 1..Len(t) : m + 1 \in 1..Len(s) /\ m \in Int
  BY <1>1, <1>3
<1>5. Distinct(t)
  BY <1>3, <1>4 DEF Distinct
<1>6. Lacks(t, s[1])
  BY <1>1, <1>3, <1>4 DEF Distinct, Lacks
<1>7. QED
  BY <1>1, <1>3, <1>4, <1>5, <1>6 DEF t

-----------------------------------------------------------------------------
(* No event reaches a handler twice. *)

\* A handler is registered once, and in one place.
HandlerInv ==
  /\ \A t \in EventTypes :
       /\ Distinct(eventHandlers[t])
       /\ \A i \in 1..Len(eventHandlers[t]) :
            /\ registeredAt[eventHandlers[t][i]] # <<>>
            /\ HandlerType[eventHandlers[t][i]] # CatchAll
  /\ messageHandler # NoHandler => HandlerType[messageHandler] = CatchAll

\* What was delivered was taken off its connection.
TakenInv ==
  \A h \in Handlers : \A i \in 1..Len(received[h]) :
    received[h][i].index <= link[received[h][i].link].read

\* An event is held by one dispatcher, and is new to the handlers it will call.
HeldInv(k) ==
  Holding(k) =>
    /\ \A j \in Links : Holding(j) /\ dispatcher[j].event = dispatcher[k].event => j = k
    /\ dispatcher[k].pc = "received" =>
         \A h \in Handlers : Lacks(received[h], dispatcher[k].event)
    /\ dispatcher[k].pc = "handling" =>
         /\ Distinct(dispatcher[k].todo)
         /\ \A m \in 1..Len(dispatcher[k].todo) :
              Lacks(received[dispatcher[k].todo[m]], dispatcher[k].event)

DeliveryInv ==
  /\ HandlerInv /\ TakenInv
  /\ \A k \in Links : HeldInv(k)
  /\ \A h \in Handlers : Distinct(received[h])

LEMMA RegisteredNotEmpty ==
  ASSUME NEW f, f = [k \in Links |-> link[k].read]
  PROVE  f # <<>>
<1>1. 1 \in DOMAIN f
  BY Bounds DEF Links
<1>2. 1 \notin DOMAIN <<>>
  OBVIOUS
<1>3. QED
  BY <1>1, <1>2

LEMMA RegisterStep ==
  ASSUME Types, HandlerInv, NEW h \in Handlers, OnEvent(h) \/ OnMessage(h)
  PROVE  HandlerInv'
<1>1. /\ registeredAt[h] = <<>> /\ registeredAt'[h] # <<>>
      /\ \A g \in Handlers \ {h} : registeredAt'[g] = registeredAt[g]
  <2>1. /\ registeredAt \in [Handlers -> {<<>>} \cup [Links -> 0..MaxEvents]]
        /\ registeredAt[h] = <<>>
        /\ registeredAt' = [registeredAt EXCEPT ![h] = [k \in Links |-> link[k].read]]
    BY DEF OnEvent, OnMessage, Register, Types, HistoryTypeOK
  <2>2. /\ registeredAt'[h] = [k \in Links |-> link[k].read]
        /\ \A g \in Handlers \ {h} : registeredAt'[g] = registeredAt[g]
    BY <2>1
  <2>3. QED
    BY <2>1, <2>2, RegisteredNotEmpty
<1>2. \A t \in EventTypes : eventHandlers[t] \in Seq(Handlers) /\ Lacks(eventHandlers[t], h)
  <2> TAKE t \in EventTypes
  <2>1. eventHandlers[t] \in Seq(Handlers)
    BY DEF Types, StreamTypeOK
  <2>2. QED
    BY <1>1, <2>1 DEF HandlerInv, Lacks
<1>3. \A t \in EventTypes : \A i \in 1..Len(eventHandlers[t]) :
        eventHandlers[t][i] \in Handlers /\ registeredAt'[eventHandlers[t][i]] # <<>>
  <2> TAKE t \in EventTypes
  <2> TAKE i \in 1..Len(eventHandlers[t])
  <2>1. eventHandlers[t][i] \in Handlers
    BY <1>2, ElementOfSeq
  <2>2. eventHandlers[t][i] # h
    BY <1>2 DEF Lacks
  <2>3. QED
    BY <1>1, <2>1, <2>2 DEF HandlerInv
<1>4. CASE OnMessage(h)
  BY <1>3, <1>4 DEF OnMessage, HandlerInv
<1>5. CASE OnEvent(h)
  <2> DEFINE u == HandlerType[h]
             a == Append(eventHandlers[u], h)
  <2>1. u \in EventTypes /\ u # CatchAll
    BY <1>5, Bounds DEF OnEvent
  <2>2. /\ Distinct(a) /\ Len(a) = Len(eventHandlers[u]) + 1
        /\ a[Len(eventHandlers[u]) + 1] = h /\ Len(eventHandlers[u]) \in Nat
        /\ \A i \in 1..Len(eventHandlers[u]) : a[i] = eventHandlers[u][i]
    <3>1. eventHandlers[u] \in Seq(Handlers) /\ Distinct(eventHandlers[u])
      BY <1>2, <2>1 DEF HandlerInv
    <3>2. QED
      BY <1>2, <2>1, <3>1, DistinctAppend, AppendProperties, LenProperties
  <2>3. /\ eventHandlers'[u] = a
        /\ \A t \in EventTypes \ {u} : eventHandlers'[t] = eventHandlers[t]
        /\ messageHandler' = messageHandler
    BY <1>5, <2>1 DEF OnEvent, Types, StreamTypeOK
  <2> HIDE DEF a, u
  <2>4. \A i \in 1..Len(a) :
          registeredAt'[a[i]] # <<>> /\ HandlerType[a[i]] # CatchAll
    <3> TAKE i \in 1..Len(a)
    <3>1. CASE i = Len(eventHandlers[u]) + 1
      BY <1>1, <2>1, <2>2, <3>1 DEF u
    <3>2. CASE i \in 1..Len(eventHandlers[u])
      BY <1>3, <2>1, <2>2, <3>2 DEF HandlerInv
    <3>3. QED
      BY <2>2, <3>1, <3>2
  <2>5. ASSUME NEW t \in EventTypes
        PROVE  /\ Distinct(eventHandlers'[t])
               /\ \A i \in 1..Len(eventHandlers'[t]) :
                    /\ registeredAt'[eventHandlers'[t][i]] # <<>>
                    /\ HandlerType[eventHandlers'[t][i]] # CatchAll
    <3>1. CASE t = u
      BY <2>2, <2>3, <2>4, <3>1
    <3>2. CASE t # u
      BY <1>3, <2>3, <3>2 DEF HandlerInv
    <3>3. QED
      BY <3>1, <3>2
  <2>6. QED
    BY <2>3, <2>5 DEF HandlerInv, Distinct
<1>6. QED
  BY <1>4, <1>5

\* The handlers of an event, and the catch-all one, are different.
LEMMA SnapshotDistinct ==
  ASSUME Types, HandlerInv, NEW t \in EventTypes
  PROVE  LET todo == eventHandlers[t]
                       \o (IF messageHandler = NoHandler THEN <<>> ELSE <<messageHandler>>)
         IN  Distinct(todo) /\ todo \in Seq(Handlers)
<1>1. eventHandlers[t] \in Seq(Handlers) /\ Distinct(eventHandlers[t])
  BY DEF Types, StreamTypeOK, HandlerInv
<1>2. CASE messageHandler = NoHandler
  <2>1. eventHandlers[t] \o <<>> = eventHandlers[t]
    BY <1>1, ConcatEmptySeq
  <2>2. QED
    BY <1>1, <1>2, <2>1
<1>3. CASE messageHandler # NoHandler
  <2>1. messageHandler \in Handlers
    BY <1>3 DEF Types, StreamTypeOK
  <2>2. Lacks(eventHandlers[t], messageHandler)
    BY <1>3 DEF HandlerInv, Lacks
  <2>3. eventHandlers[t] \o <<messageHandler>> = Append(eventHandlers[t], messageHandler)
    BY <1>1, <2>1, AppendIsConcat
  <2>4. Distinct(Append(eventHandlers[t], messageHandler))
    BY <1>1, <2>1, <2>2, DistinctAppend
  <2>5. Append(eventHandlers[t], messageHandler) \in Seq(Handlers)
    BY <1>1, <2>1, AppendProperties
  <2>6. QED
    BY <1>3, <2>3, <2>4, <2>5
<1>4. QED
  BY <1>2, <1>3

LEMMA DeliveredEvents ==
  ASSUME Types, NEW h \in Handlers, NEW i \in 1..Len(received[h])
  PROVE  received[h] \in Seq(Delivered) /\ received[h][i] \in Delivered
BY ElementOfSeq DEF Types, HistoryTypeOK

\* Taking more off changes nothing of what was delivered.
LEMMA TakenKept ==
  ASSUME Types, TakenInv, LinksGrow, LinksTypeOK', received' = received
  PROVE  TakenInv'
<1> SUFFICES ASSUME NEW h \in Handlers, NEW i \in 1..Len(received[h])
             PROVE  received[h][i].index <= link'[received[h][i].link].read
  BY DEF TakenInv
<1> DEFINE e == received[h][i]
<1>1. e \in Delivered /\ e.index <= link[e.link].read
  BY DeliveredEvents DEF TakenInv
<1> HIDE DEF e
<1>2. e.link \in Links /\ e.index \in Nat
  BY <1>1, Bounds DEF Delivered
<1>3. /\ link[e.link].read \in Nat /\ link'[e.link].read \in Nat
      /\ link[e.link].read <= link'[e.link].read
  BY <1>2 DEF Types, LinksTypeOK, LinkType, LinksGrow
<1>4. QED
  BY <1>1, <1>2, <1>3 DEF e

\* The application delivers nothing.
LEMMA ApplicationDelivers ==
  ASSUME Types, DeliveryInv, Application
  PROVE  DeliveryInv'
<1>1. /\ LinksTypeOK' /\ LinksGrow /\ UNCHANGED <<dispatcher, received>>
  BY ApplicationEffect
<1>2. TakenInv'
  BY <1>1, TakenKept DEF DeliveryInv
<1>3. \A k \in Links : HeldInv(k)'
  BY <1>1 DEF DeliveryInv, HeldInv, Holding
<1>4. HandlerInv'
  <2>1. CASE \E h \in Handlers : OnEvent(h) \/ OnMessage(h)
    BY <2>1, RegisterStep DEF DeliveryInv
  <2>2. CASE ~ \E h \in Handlers : OnEvent(h) \/ OnMessage(h)
    <3>1. UNCHANGED <<eventHandlers, messageHandler, registeredAt>>
      BY <2>2 DEF Application, SetAuthToken, Disconnect, BeginConnect, ConnectFails,
           Emit, StreamEnds
    <3>2. QED
      BY <3>1 DEF DeliveryInv, HandlerInv
  <2>3. QED
    BY <2>1, <2>2
<1>5. QED
  BY <1>1, <1>2, <1>3, <1>4 DEF DeliveryInv

\* A dispatcher that holds no event delivers nothing.
LEMMA IdleDelivers ==
  ASSUME Types, DeliveryInv, NEW k \in Links, LinksTypeOK', LinksGrow, ~Holding(k)',
         \A j \in Links \ {k} : dispatcher'[j] = dispatcher[j],
         UNCHANGED <<received, eventHandlers, messageHandler, registeredAt>>
  PROVE  DeliveryInv'
<1>1. TakenInv'
  BY TakenKept DEF DeliveryInv
<1>2. \A j \in Links : HeldInv(j)'
  <2> SUFFICES ASSUME NEW j \in Links, Holding(j)' PROVE HeldInv(j)'
    BY DEF HeldInv
  <2>1. j # k /\ Holding(j) /\ dispatcher'[j] = dispatcher[j]
    BY DEF Holding
  <2>2. \A i \in Links : Holding(i)' => Holding(i) /\ dispatcher'[i] = dispatcher[i]
    BY DEF Holding
  <2>3. QED
    BY <2>1, <2>2 DEF DeliveryInv, HeldInv
<1>3. QED
  BY <1>1, <1>2 DEF DeliveryInv, HandlerInv

LEMMA ReceiveDelivers ==
  ASSUME Types, DeliveryInv, NEW k \in Links, Receive(k)
  PROVE  DeliveryInv'
<1> DEFINE e == dispatcher'[k].event
<1>1. /\ LinksTypeOK' /\ LinksGrow
      /\ dispatcher'[k].pc \in {"waiting", "received"}
      /\ \A j \in Links \ {k} : dispatcher'[j] = dispatcher[j]
      /\ UNCHANGED <<received, eventHandlers, messageHandler, registeredAt>>
  BY ReceiveEffect
<1>2. e \in Delivered /\ e.index > link[e.link].read
  BY ReceiveEffect
<1> HIDE DEF e
<1>3. e.link \in Links /\ e.index \in Nat /\ link[e.link].read \in Nat
  BY <1>2, Bounds DEF Delivered, Types, LinksTypeOK, LinkType
<1>4. \A h \in Handlers : Lacks(received[h], e)
  BY <1>2, <1>3, DeliveredEvents DEF DeliveryInv, TakenInv, Lacks, Delivered
<1>5. \A j \in Links \ {k} : Holding(j) => dispatcher[j].event # e
  BY <1>2, <1>3 DEF Types, EventInv
<1>6. TakenInv'
  BY <1>1, TakenKept DEF DeliveryInv
<1>7. HeldInv(k)'
  <2> SUFFICES ASSUME Holding(k)' PROVE HeldInv(k)'
    BY DEF HeldInv
  <2>1. \A j \in Links \ {k} : Holding(j)' => dispatcher'[j].event # e
    BY <1>1, <1>5 DEF Holding
  <2>2. QED
    BY <1>1, <1>4, <2>1 DEF HeldInv, Holding, e
<1>8. \A j \in Links \ {k} : HeldInv(j)'
  <2> SUFFICES ASSUME NEW j \in Links \ {k}, Holding(j)' PROVE HeldInv(j)'
    BY DEF HeldInv
  <2>1. /\ Holding(j) /\ dispatcher'[j] = dispatcher[j] /\ HeldInv(j)
        /\ dispatcher'[k].event # dispatcher[j].event
    BY <1>1, <1>5 DEF Holding, DeliveryInv, e
  <2>2. \A i \in Links \ {k} : Holding(i)' => Holding(i) /\ dispatcher'[i] = dispatcher[i]
    BY <1>1 DEF Holding
  <2>3. QED
    BY <1>1, <2>1, <2>2 DEF HeldInv
<1>9. QED
  BY <1>1, <1>6, <1>7, <1>8 DEF DeliveryInv, HandlerInv

LEMMA SnapshotDelivers ==
  ASSUME Types, DeliveryInv, NEW k \in Links, Snapshot(k)
  PROVE  DeliveryInv'
<1>1. /\ dispatcher'[k].pc = "handling" /\ dispatcher'[k].event = dispatcher[k].event
      /\ \A j \in Links \ {k} : dispatcher'[j] = dispatcher[j]
      /\ UNCHANGED <<received, eventHandlers, messageHandler, registeredAt, link>>
  BY SnapshotEffect
<1>2. dispatcher[k].pc = "received" /\ Holding(k)
  BY DEF Snapshot, Holding
<1>3. Distinct(dispatcher'[k].todo) /\ dispatcher'[k].todo \in Seq(Handlers)
  BY SnapshotEffect, SnapshotDistinct DEF DeliveryInv
<1>4. \A h \in Handlers : Lacks(received[h], dispatcher[k].event)
  BY <1>2 DEF DeliveryInv, HeldInv
<1>5. \A m \in 1..Len(dispatcher'[k].todo) : dispatcher'[k].todo[m] \in Handlers
  BY <1>3, ElementOfSeq
<1>6. \A j \in Links : Holding(j)' => Holding(j) /\ dispatcher'[j].event = dispatcher[j].event
  BY <1>1, <1>2 DEF Holding
<1>7. HeldInv(k)'
  BY <1>1, <1>2, <1>3, <1>4, <1>5, <1>6 DEF HeldInv, DeliveryInv
<1>8. \A j \in Links \ {k} : HeldInv(j)'
  BY <1>1, <1>6 DEF HeldInv, DeliveryInv
<1>9. TakenInv' /\ HandlerInv'
  BY <1>1 DEF DeliveryInv, TakenInv, HandlerInv
<1>10. QED
  BY <1>1, <1>7, <1>8, <1>9 DEF DeliveryInv

LEMMA CallDelivers ==
  ASSUME Types, DeliveryInv, NEW k \in Links, CallHandler(k)
  PROVE  DeliveryInv'
<1>1. /\ dispatcher'[k].event = dispatcher[k].event
      /\ \A j \in Links \ {k} : dispatcher'[j] = dispatcher[j]
      /\ UNCHANGED <<eventHandlers, messageHandler, registeredAt, link>>
  BY CallEffect
<1>2. LinksTypeOK' /\ LinksGrow
  BY <1>1, LinksRest DEF Types
<1>3. CASE dispatcher'[k].pc = "waiting" /\ received' = received
  BY <1>1, <1>2, <1>3, IdleDelivers DEF Holding
<1>4. CASE /\ dispatcher[k].pc = "handling" /\ dispatcher'[k].pc = "handling"
           /\ dispatcher[k].todo # <<>>
           /\ dispatcher'[k].todo = Tail(dispatcher[k].todo)
           /\ received' = [received EXCEPT ![Head(dispatcher[k].todo)] =
                             Append(@, dispatcher[k].event)]
  <2> DEFINE s == dispatcher[k].todo
             e == dispatcher[k].event
             h == s[1]
             rest == Tail(s)
  <2>1. /\ s \in Seq(Handlers) /\ e \in Delivered /\ e.index <= link[e.link].read
        /\ Distinct(s) /\ HeldInv(k)
        /\ \A m \in 1..Len(s) : Lacks(received[s[m]], e)
    BY <1>4 DEF Types, DispatchersTypeOK, DispatcherType, EventInv, Holding,
         DeliveryInv, HeldInv
  <2>2. /\ Distinct(rest) /\ Lacks(rest, h) /\ 1 \in 1..Len(s) /\ Head(s) = h
        /\ \A m \in 1..Len(rest) : m + 1 \in 1..Len(s) /\ rest[m] = s[m + 1]
    BY <1>4, <2>1, DistinctTail
  <2>3. h \in Handlers /\ Lacks(received[h], e) /\ received[h] \in Seq(Delivered)
    BY <2>1, <2>2, ElementOfSeq DEF Types, HistoryTypeOK
  <2>4. /\ received'[h] = Append(received[h], e)
        /\ \A g \in Handlers \ {h} : received'[g] = received[g]
    BY <1>4, <2>2, <2>3 DEF Types, HistoryTypeOK
  <2>5. \A m \in 1..Len(rest) : /\ rest[m] \in Handlers \ {h}
                                /\ Lacks(received[rest[m]], e)
    BY <2>1, <2>2, ElementOfSeq DEF Lacks
  <2>6. ASSUME NEW g \in Handlers PROVE Distinct(received'[g])
    BY <2>1, <2>3, <2>4, DistinctAppend DEF DeliveryInv
  <2>7. TakenInv'
    <3> SUFFICES ASSUME NEW g \in Handlers, NEW i \in 1..Len(received'[g])
                 PROVE  received'[g][i].index <= link[received'[g][i].link].read
      BY <1>1 DEF TakenInv
    <3>1. CASE g # h
      BY <2>4, <3>1 DEF DeliveryInv, TakenInv
    <3>2. CASE g = h
      <4>1. /\ Len(received'[h]) = Len(received[h]) + 1 /\ Len(received[h]) \in Nat
            /\ received'[h][Len(received[h]) + 1] = e
            /\ \A j \in 1..Len(received[h]) : received'[h][j] = received[h][j]
        <5> HIDE DEF e, h
        <5> QED
          BY <2>1, <2>3, <2>4, Appended
      <4>2. CASE i \in 1..Len(received[h])
        BY <2>3, <3>2, <4>1, <4>2 DEF DeliveryInv, TakenInv
      <4>3. CASE i = Len(received[h]) + 1
        <5> HIDE DEF e, h
        <5>1. received'[g][i] = e
          BY <3>2, <4>1, <4>3
        <5>2. e.index <= link[e.link].read
          BY <2>1
        <5>3. QED
          BY <5>1, <5>2
      <4>4. i \in 1..Len(received[h]) \/ i = Len(received[h]) + 1
        <5> HIDE DEF e, h
        <5> QED
          BY <3>2, <4>1
      <4>5. QED
        BY <4>2, <4>3, <4>4, Zenon
    <3>3. QED
      BY <3>1, <3>2, Zenon
  <2>8. \A j \in Links :
          Holding(j)' => Holding(j) /\ dispatcher'[j].event = dispatcher[j].event
    BY <1>1, <1>4 DEF Holding
  <2>9. HeldInv(k)'
    <3>1. \A j \in Links : Holding(j)' /\ dispatcher'[j].event = dispatcher'[k].event => j = k
      BY <1>1, <1>4, <2>1, <2>8 DEF HeldInv, Holding
    <3>2. \A m \in 1..Len(rest) : Lacks(received'[rest[m]], e)
      BY <2>4, <2>5
    <3>3. QED
      BY <1>1, <1>4, <2>2, <3>1, <3>2 DEF HeldInv
  <2>10. ASSUME NEW j \in Links \ {k}, Holding(j)' PROVE HeldInv(j)'
    <3>1. /\ Holding(j) /\ dispatcher'[j] = dispatcher[j] /\ HeldInv(j)
          /\ dispatcher[j].event # e
      <4>1. Holding(j) /\ dispatcher'[j] = dispatcher[j]
        BY <1>1, <2>10, <2>8
      <4>2. QED
        BY <1>4, <2>1, <4>1 DEF DeliveryInv, HeldInv, Holding
    <3>2. \A g \in Handlers :
            Lacks(received[g], dispatcher[j].event) => Lacks(received'[g], dispatcher[j].event)
      <4> SUFFICES ASSUME NEW g \in Handlers, Lacks(received[g], dispatcher[j].event)
                   PROVE  Lacks(received'[g], dispatcher[j].event)
        OBVIOUS
      <4> DEFINE x == dispatcher[j].event
      <4> HIDE DEF e, h, x
      <4>1. CASE g = h
        <5>1. Lacks(received[h], x) /\ e # x
          BY <3>1, <4>1 DEF x
        <5>2. Lacks(Append(received[h], e), x)
          BY <2>1, <2>3, <5>1, LacksAppend
        <5>3. QED
          BY <2>4, <4>1, <5>2 DEF x
      <4>2. CASE g # h
        BY <2>4, <4>2
      <4>3. QED
        BY <4>1, <4>2
    <3>3. \A m \in 1..Len(dispatcher[j].todo) : dispatcher[j].todo[m] \in Handlers
      BY ElementOfSeq DEF Types, DispatchersTypeOK, DispatcherType
    <3>4. \A i \in Links : Holding(i)' /\ dispatcher'[i].event = dispatcher'[j].event => i = j
      BY <2>8, <3>1 DEF HeldInv
    <3>5. dispatcher'[j].pc = "received" =>
            \A g \in Handlers : Lacks(received'[g], dispatcher'[j].event)
      BY <3>1, <3>2 DEF HeldInv
    <3>6. dispatcher'[j].pc = "handling" =>
            /\ Distinct(dispatcher'[j].todo)
            /\ \A m \in 1..Len(dispatcher'[j].todo) :
                 Lacks(received'[dispatcher'[j].todo[m]], dispatcher'[j].event)
      BY <3>1, <3>2, <3>3 DEF HeldInv
    <3>7. QED
      BY <3>4, <3>5, <3>6 DEF HeldInv
  <2>11. \A j \in Links : HeldInv(j)'
    BY <2>9, <2>10 DEF HeldInv
  <2>12. HandlerInv'
    BY <1>1 DEF DeliveryInv, HandlerInv
  <2>13. QED
    BY <2>6, <2>7, <2>11, <2>12 DEF DeliveryInv
<1>5. QED
  BY <1>3, <1>4, CallEffect

LEMMA DeliveryStep == Types /\ DeliveryInv /\ [Next]_vars => DeliveryInv'
<1> SUFFICES ASSUME Types, DeliveryInv, [Next]_vars PROVE DeliveryInv'
  OBVIOUS
<1>1. CASE UNCHANGED vars
  BY <1>1 DEF vars, DeliveryInv, HandlerInv, TakenInv, HeldInv, Holding
<1>2. ASSUME NEW k \in Links, FinishConnect(k) PROVE DeliveryInv'
  BY <1>2, FinishConnectEffect, IdleDelivers DEF Holding
<1>3. ASSUME NEW k \in Links, StartDispatch(k) PROVE DeliveryInv'
  BY <1>3, StartEffect, LinksRest, IdleDelivers DEF Types, Holding
<1>4. ASSUME NEW k \in Links, EndDispatch(k) PROVE DeliveryInv'
  BY <1>4, EndEffect, LinksRest, IdleDelivers DEF Types, Holding
<1>5. QED
  BY <1>1, <1>2, <1>3, <1>4, ByActor, ApplicationDelivers, ReceiveDelivers,
     SnapshotDelivers, CallDelivers DEF Dispatch

LEMMA InitialDelivery == Init => DeliveryInv
<1> SUFFICES ASSUME Init PROVE DeliveryInv
  OBVIOUS
<1>1. \A t \in EventTypes : Len(eventHandlers[t]) = 0
  BY EmptySeq DEF Init
<1>2. \A h \in Handlers : Len(received[h]) = 0
  BY EmptySeq DEF Init
<1>3. \A k \in Links : ~Holding(k)
  BY DEF Init, Holding
<1>4. messageHandler = NoHandler
  BY DEF Init
<1>5. QED
  BY <1>1, <1>2, <1>3, <1>4 DEF DeliveryInv, HandlerInv, TakenInv, HeldInv, Distinct

-----------------------------------------------------------------------------
(* No connection is left open behind the one the stream knows. *)

OrphanInv ==
  ~careless => \A k \in Links : link[k].state \in {"dialing", "open"} => k = conn

LEMMA StateReplaced ==
  ASSUME LinksTypeOK, NEW k \in Links, NEW s, NEW t,
         \/ link' = [link EXCEPT ![k].state = s]
         \/ link' = [link EXCEPT ![k].state = s, ![k].token = t]
  PROVE  /\ link'[k].state = s
         /\ \A j \in Links \ {k} : link'[j].state = link[j].state
<1>1. CASE link' = [link EXCEPT ![k].state = s]
  BY <1>1 DEF LinksTypeOK, LinkType
<1>2. CASE link' = [link EXCEPT ![k].state = s, ![k].token = t]
  <2> DEFINE r == [link[k] EXCEPT !.state = s, !.token = t]
  <2>1. r.state = s
    BY DEF LinksTypeOK, LinkType
  <2>2. link' = [link EXCEPT ![k] = r]
    BY <1>2 DEF LinksTypeOK, LinkType
  <2> HIDE DEF r
  <2>3. QED
    BY <2>1, <2>2 DEF LinksTypeOK
<1>3. QED
  BY <1>1, <1>2

LEMMA OrphanStep == Types /\ OrphanInv /\ [Next]_vars => OrphanInv'
<1> SUFFICES ASSUME Types, OrphanInv, [Next]_vars PROVE OrphanInv'
  OBVIOUS
<1>1. ASSUME NEW k \in Links, BeginConnect(k) PROVE OrphanInv'
  <2>1. /\ link'[k].state = "dialing"
        /\ \A j \in Links \ {k} : link'[j].state = link[j].state
    BY <1>1, StateReplaced DEF BeginConnect, Types
  <2>2. /\ conn' = k
        /\ ~careless' => ~careless /\ (conn = 0 \/ link[conn].state = "closed")
    BY <1>1, Zenon DEF BeginConnect
  <2>3. \A j \in Links : j # 0
    BY DEF Links
  <2>4. QED
    BY <2>1, <2>2, <2>3 DEF OrphanInv
<1>2. ASSUME NEW k \in Links, FinishConnect(k) PROVE OrphanInv'
  <2>1. /\ link[k].state = "dialing" /\ link'[k].state = "open"
        /\ \A j \in Links \ {k} : link'[j].state = link[j].state
    BY <1>2, StateReplaced DEF FinishConnect, Types
  <2>2. UNCHANGED <<conn, careless>>
    BY <1>2 DEF FinishConnect
  <2>3. QED
    BY <2>1, <2>2 DEF OrphanInv
<1>3. ASSUME NEW k \in Links, link' = [link EXCEPT ![k].state = "closed"],
             UNCHANGED <<conn, careless>>
      PROVE  OrphanInv'
  <2>1. /\ link'[k].state = "closed"
        /\ \A j \in Links \ {k} : link'[j].state = link[j].state
    BY <1>3, StateReplaced DEF Types
  <2>2. QED
    BY <1>3, <2>1 DEF OrphanInv
<1>4. ASSUME NEW k \in Links, ConnectFails(k) \/ StreamEnds(k) PROVE OrphanInv'
  BY <1>3, <1>4 DEF ConnectFails, StreamEnds
<1>5. CASE Disconnect
  <2>1. conn \in Links
    BY <1>5, Bounds DEF Disconnect, Types, StreamTypeOK, Links
  <2>2. QED
    BY <1>3, <1>5, <2>1 DEF Disconnect
<1>6. ASSUME \A k \in Links : link'[k].state = link[k].state, UNCHANGED <<conn, careless>>
      PROVE  OrphanInv'
  BY <1>6 DEF OrphanInv
<1>7. ASSUME NEW k \in Links, Emit(k) PROVE OrphanInv'
  <2>1. PICK t : link' = [link EXCEPT ![k].log = Append(@, t)]
    BY <1>7 DEF Emit
  <2>2. \A j \in Links : link'[j].state = link[j].state
    BY <2>1 DEF Types, LinksTypeOK, LinkType
  <2>3. QED
    BY <1>6, <1>7, <2>2 DEF Emit
<1>8. ASSUME NEW k \in Links, Receive(k) PROVE OrphanInv'
  <2>1. /\ link' = [link EXCEPT ![dispatcher[k].chan].read = @ + 1]
        /\ UNCHANGED <<conn, careless>>
    BY <1>8 DEF Receive
  <2>2. \A j \in Links : link'[j].state = link[j].state
    BY <2>1 DEF Types, LinksTypeOK, LinkType
  <2>3. QED
    BY <1>6, <2>1, <2>2
<1>9. CASE UNCHANGED <<link, conn, careless>>
  BY <1>6, <1>9
<1>10. ASSUME NEW k \in Links, StartDispatch(k) \/ Snapshot(k) \/ CallHandler(k) \/ EndDispatch(k)
       PROVE  UNCHANGED <<link, conn, careless>>
  BY <1>10 DEF StartDispatch, Snapshot, CallHandler, EndDispatch
<1>11. ASSUME NEW h \in Handlers, OnEvent(h) \/ OnMessage(h)
       PROVE  UNCHANGED <<link, conn, careless>>
  BY <1>11 DEF OnEvent, OnMessage, Register
<1>12. SetAuthToken \/ UNCHANGED vars => UNCHANGED <<link, conn, careless>>
  BY DEF SetAuthToken, vars
<1>13. QED
  BY <1>1, <1>2, <1>4, <1>5, <1>7, <1>8, <1>9, <1>10, <1>11, <1>12, Zenon
     DEF Next, Dispatch

-----------------------------------------------------------------------------
(* Exact delivery: who is registered, and which channels are read. *)

\* Who is called has registered, and who has registered is called.
RegistryInv ==
  /\ \A h \in Handlers : registeredAt[h] = <<>> => Len(received[h]) = 0
  /\ messageHandler # NoHandler => registeredAt[messageHandler] # <<>>
  /\ \A k \in Links : \A m \in 1..Len(dispatcher[k].todo) :
       registeredAt[dispatcher[k].todo[m]] # <<>>
  /\ \A h \in Handlers : registeredAt[h] # <<>> /\ HandlerType[h] # CatchAll =>
       \E i \in 1..Len(eventHandlers[HandlerType[h]]) :
         eventHandlers[HandlerType[h]][i] = h
  /\ \A t \in EventTypes : \A i \in 1..Len(eventHandlers[t]) :
       HandlerType[eventHandlers[t][i]] = t
  /\ \A h \in Handlers : registeredAt[h] # <<>> =>
       \A c \in Links : registeredAt[h][c] <= link[c].read

\* A channel nobody has is not read, and an event is of its holder's channel.
ChannelInv ==
  /\ \A k \in Links : dispatcher[k].chan = 0 <=> dispatcher[k].pc \in {"none", "starting"}
  /\ \A k \in Links : link[k].state \in {"unused", "dialing"} => dispatcher[k].pc = "none"
  /\ \A c \in Links : (\A k \in Links : dispatcher[k].chan # c) => link[c].read = 0
  /\ \A k \in Links : Holding(k) => dispatcher[k].event.link = dispatcher[k].chan

LEMMA ReadsKept ==
  ASSUME Types, NEW k \in Links, Application \/ FinishConnect(k)
  PROVE  \A j \in Links : link'[j].read = link[j].read
<1>1. CASE UNCHANGED link
  BY <1>1
<1>2. ASSUME NEW i \in Links, NEW s, NEW t,
             \/ link' = [link EXCEPT ![i].state = s]
             \/ link' = [link EXCEPT ![i].state = s, ![i].token = t]
             \/ link' = [link EXCEPT ![i].log = s]
      PROVE  \A j \in Links : link'[j].read = link[j].read
  <2>1. link \in [Links -> LinkType]
    BY DEF Types, LinksTypeOK
  <2>2. PICK r : link' = [link EXCEPT ![i] = r] /\ r.read = link[i].read
    <3>1. /\ [link[i] EXCEPT !.state = s].read = link[i].read
          /\ [link[i] EXCEPT !.state = s, !.token = t].read = link[i].read
          /\ [link[i] EXCEPT !.log = s].read = link[i].read
      BY <2>1 DEF LinkType
    <3>2. CASE link' = [link EXCEPT ![i].state = s]
      BY <2>1, <3>1, <3>2
    <3>3. CASE link' = [link EXCEPT ![i].state = s, ![i].token = t]
      BY <2>1, <3>1, <3>3
    <3>4. CASE link' = [link EXCEPT ![i].log = s]
      BY <2>1, <3>1, <3>4
    <3>5. QED
      BY <1>2, <3>2, <3>3, <3>4
  <2>3. QED
    BY <2>1, <2>2
<1>3. CASE FinishConnect(k)
  BY <1>2, <1>3 DEF FinishConnect
<1>4. CASE Disconnect
  <2>1. conn \in Links
    BY <1>4, Bounds DEF Disconnect, Types, StreamTypeOK, Links
  <2>2. QED
    BY <1>2, <1>4, <2>1 DEF Disconnect
<1>5. ASSUME NEW j \in Links, BeginConnect(j) \/ ConnectFails(j) \/ Emit(j) \/ StreamEnds(j)
      PROVE  \A i \in Links : link'[i].read = link[i].read
  <2>1. CASE Emit(j)
    <3>1. PICK t : link' = [link EXCEPT ![j].log = Append(@, t)]
      BY <2>1 DEF Emit
    <3>2. link' = [link EXCEPT ![j].log = Append(link[j].log, t)]
      BY <3>1 DEF Types, LinksTypeOK, LinkType
    <3>3. QED
      BY <1>2, <3>2
  <2>2. CASE BeginConnect(j)
    <3>1. link' = [link EXCEPT ![j].state = "dialing", ![j].token = streamJwt]
      BY <2>2, Zenon DEF BeginConnect
    <3>2. QED
      BY <1>2, <3>1, Zenon
  <2>3. CASE ConnectFails(j) \/ StreamEnds(j)
    <3>1. link' = [link EXCEPT ![j].state = "closed"]
      BY <2>3, Zenon DEF ConnectFails, StreamEnds
    <3>2. QED
      BY <1>2, <3>1, Zenon
  <2>4. QED
    BY <1>5, <2>1, <2>2, <2>3
<1>6. CASE SetAuthToken \/ \E h \in Handlers : OnEvent(h) \/ OnMessage(h)
  BY <1>1, <1>6 DEF SetAuthToken, OnEvent, OnMessage, Register
<1>7. QED
  BY <1>3, <1>4, <1>5, <1>6 DEF Application

\* A step of the application registers a handler or leaves the registry alone.
LEMMA RegistryKept ==
  ASSUME Application, ~ \E h \in Handlers : OnEvent(h) \/ OnMessage(h)
  PROVE  UNCHANGED <<eventHandlers, messageHandler, registeredAt>>
BY DEF Application, SetAuthToken, Disconnect, BeginConnect, ConnectFails, Emit, StreamEnds

LEMMA Registered ==
  ASSUME Types, NEW h \in Handlers, OnEvent(h) \/ OnMessage(h)
  PROVE  /\ registeredAt[h] = <<>> /\ registeredAt'[h] # <<>>
         /\ \A c \in Links : registeredAt'[h][c] = link[c].read
         /\ \A g \in Handlers \ {h} : registeredAt'[g] = registeredAt[g]
         /\ UNCHANGED <<link, dispatcher, received>>
<1>1. /\ registeredAt \in [Handlers -> {<<>>} \cup [Links -> 0..MaxEvents]]
      /\ registeredAt[h] = <<>>
      /\ registeredAt' = [registeredAt EXCEPT ![h] = [k \in Links |-> link[k].read]]
      /\ UNCHANGED <<link, dispatcher, received>>
  BY DEF OnEvent, OnMessage, Register, Types, HistoryTypeOK
<1>2. /\ registeredAt'[h] = [k \in Links |-> link[k].read]
      /\ \A g \in Handlers \ {h} : registeredAt'[g] = registeredAt[g]
  BY <1>1
<1>3. QED
  BY <1>1, <1>2, RegisteredNotEmpty

\* A dispatcher calls the handlers of the event and the catch-all one.
LEMMA SnapshotCalls ==
  ASSUME Types, NEW k \in Links, Snapshot(k)
  PROVE  LET t == TypeOf(dispatcher[k].event)
             todo == dispatcher'[k].todo
         IN  /\ t \in EventTypes /\ todo \in Seq(Handlers)
             /\ \A m \in 1..Len(todo) :
                  \/ todo[m] = messageHandler
                  \/ \E i \in 1..Len(eventHandlers[t]) : todo[m] = eventHandlers[t][i]
             /\ \A i \in 1..Len(eventHandlers[t]) :
                  \E m \in 1..Len(todo) : todo[m] = eventHandlers[t][i]
             /\ messageHandler # NoHandler =>
                  \E m \in 1..Len(todo) : todo[m] = messageHandler
<1> DEFINE t == TypeOf(dispatcher[k].event)
           todo == dispatcher'[k].todo
           a == eventHandlers[t]
           b == IF messageHandler = NoHandler THEN <<>> ELSE <<messageHandler>>
<1>1. t \in EventTypes /\ todo = a \o b
  BY SnapshotEffect
<1>2. a \in Seq(Handlers) /\ b \in Seq(Handlers)
  BY <1>1 DEF Types, StreamTypeOK
<1>3. /\ Len(a) \in Nat /\ Len(b) \in Nat
      /\ messageHandler = NoHandler => Len(b) = 0
      /\ messageHandler # NoHandler => Len(b) = 1 /\ b[1] = messageHandler
  BY <1>2, LenProperties
<1> HIDE DEF t, a, b
<1>4. /\ Len(todo) = Len(a) + Len(b) /\ todo \in Seq(Handlers)
      /\ \A m \in 1..Len(a) + Len(b) :
           todo[m] = IF m <= Len(a) THEN a[m] ELSE b[m - Len(a)]
  BY <1>1, <1>2, ConcatProperties
<1> HIDE DEF todo
<1>5. ASSUME NEW m \in 1..Len(todo)
      PROVE  todo[m] = messageHandler \/ \E i \in 1..Len(a) : todo[m] = a[i]
  <2>1. CASE m <= Len(a)
    BY <1>3, <1>4, <2>1
  <2>2. CASE ~(m <= Len(a))
    <3>1. Len(b) = 1 /\ m - Len(a) = 1 /\ b[1] = messageHandler
      BY <1>3, <1>4, <2>2
    <3>2. QED
      BY <1>4, <2>2, <3>1
  <2>3. QED
    BY <2>1, <2>2
<1>6. ASSUME NEW i \in 1..Len(a)
      PROVE  \E m \in 1..Len(todo) : todo[m] = a[i]
  <2>1. i \in 1..Len(todo) /\ todo[i] = a[i]
    BY <1>3, <1>4
  <2>2. QED
    BY <2>1
<1>7. ASSUME messageHandler # NoHandler
      PROVE  \E m \in 1..Len(todo) : todo[m] = messageHandler
  <2> DEFINE n == Len(a)
  <2>1. n \in Nat /\ Len(todo) = n + 1 /\ b[1] = messageHandler
    BY <1>3, <1>4, <1>7
  <2> HIDE DEF n
  <2>2. /\ n + 1 \in 1..Len(todo) /\ ~(n + 1 <= n) /\ (n + 1) - n = 1
        /\ Len(a) = n
    BY <2>1 DEF n
  <2>3. todo[n + 1] = messageHandler
    BY <1>3, <1>4, <1>7, <2>1, <2>2
  <2>4. QED
    BY <2>2, <2>3
<1>8. QED
  BY <1>1, <1>4, <1>5, <1>6, <1>7 DEF t, todo, a

LEMMA Counts ==
  ASSUME Types
  PROVE  /\ \A c \in Links : link[c].read \in Nat /\ link[c].read <= Len(link[c].log)
                             /\ Len(link[c].log) \in Nat
         /\ \A h \in Handlers : registeredAt[h] # <<>> =>
              \A c \in Links : registeredAt[h][c] \in Nat
<1>1. \A c \in Links : link[c].read \in Nat /\ link[c].log \in Seq(Messages)
                       /\ link[c].read <= Len(link[c].log)
  BY DEF Types, LinksTypeOK, LinkType
<1>2. \A c \in Links : Len(link[c].log) \in Nat
  BY <1>1, LenProperties
<1>3. ASSUME NEW h \in Handlers, registeredAt[h] # <<>>, NEW c \in Links
      PROVE  registeredAt[h][c] \in Nat
  <2>1. registeredAt[h] \in [Links -> 0..MaxEvents]
    BY <1>3 DEF Types, HistoryTypeOK
  <2>2. QED
    BY <2>1, Bounds
<1>4. QED
  BY <1>1, <1>2, <1>3

LEMMA RegistryRest ==
  ASSUME Types, Types', RegistryInv, LinksGrow,
         UNCHANGED <<eventHandlers, messageHandler, registeredAt>>,
         \A h \in Handlers : registeredAt[h] = <<>> => Len(received'[h]) = 0,
         \A k \in Links : \A m \in 1..Len(dispatcher'[k].todo) :
           registeredAt[dispatcher'[k].todo[m]] # <<>>
  PROVE  RegistryInv'
<1>1. ASSUME NEW h \in Handlers, registeredAt[h] # <<>>, NEW c \in Links
      PROVE  registeredAt[h][c] <= link'[c].read
  <2>1. registeredAt[h][c] \in Nat /\ link[c].read \in Nat /\ link'[c].read \in Nat
    BY <1>1, Counts DEF Types, LinksTypeOK, LinkType
  <2>2. registeredAt[h][c] <= link[c].read /\ link[c].read <= link'[c].read
    BY <1>1 DEF RegistryInv, LinksGrow
  <2>3. QED
    BY <2>1, <2>2
<1>2. QED
  BY <1>1 DEF RegistryInv

LEMMA EventRegistered ==
  ASSUME Types, NEW h \in Handlers, OnEvent(h)
  PROVE  LET u == HandlerType[h] IN
         /\ u \in EventTypes /\ Len(eventHandlers[u]) \in Nat
         /\ Len(eventHandlers'[u]) = Len(eventHandlers[u]) + 1
         /\ eventHandlers'[u][Len(eventHandlers[u]) + 1] = h
         /\ \A i \in 1..Len(eventHandlers[u]) : eventHandlers'[u][i] = eventHandlers[u][i]
         /\ \A t \in EventTypes \ {u} : eventHandlers'[t] = eventHandlers[t]
         /\ messageHandler' = messageHandler
<1> DEFINE u == HandlerType[h]
<1>1. u \in EventTypes
  BY Bounds DEF OnEvent
<1>2. eventHandlers[u] \in Seq(Handlers)
  BY <1>1 DEF Types, StreamTypeOK
<1>3. /\ eventHandlers'[u] = Append(eventHandlers[u], h)
      /\ \A t \in EventTypes \ {u} : eventHandlers'[t] = eventHandlers[t]
      /\ messageHandler' = messageHandler
  BY <1>1 DEF OnEvent, Types, StreamTypeOK
<1> HIDE DEF u
<1>4. QED
  BY <1>1, <1>2, <1>3, Appended DEF u

LEMMA RegisterRegistry ==
  ASSUME Types, Types', RegistryInv, NEW h \in Handlers, OnEvent(h) \/ OnMessage(h)
  PROVE  RegistryInv'
<1>1. /\ registeredAt[h] = <<>> /\ registeredAt'[h] # <<>>
      /\ \A c \in Links : registeredAt'[h][c] = link[c].read
      /\ \A g \in Handlers \ {h} : registeredAt'[g] = registeredAt[g]
      /\ UNCHANGED <<link, dispatcher, received>>
  BY Registered
<1>2. \A g \in Handlers : registeredAt[g] # <<>> => registeredAt'[g] # <<>>
  BY <1>1
<1>3. \A g \in Handlers : registeredAt'[g] = <<>> => Len(received'[g]) = 0
  BY <1>1 DEF RegistryInv
<1>4. ASSUME NEW k \in Links, NEW m \in 1..Len(dispatcher'[k].todo)
      PROVE  registeredAt'[dispatcher'[k].todo[m]] # <<>>
  <2>1. dispatcher[k].todo \in Seq(Handlers)
    BY DEF Types, DispatchersTypeOK, DispatcherType
  <2>2. m \in 1..Len(dispatcher[k].todo)
    BY <1>1, <1>4
  <2>3. dispatcher[k].todo[m] \in Handlers /\ registeredAt[dispatcher[k].todo[m]] # <<>>
    BY <2>1, <2>2, ElementOfSeq DEF RegistryInv
  <2>4. QED
    BY <1>1, <1>2, <2>3
<1>5. ASSUME NEW g \in Handlers, registeredAt'[g] # <<>>, NEW c \in Links
      PROVE  registeredAt'[g][c] <= link'[c].read
  <2>1. CASE g = h
    BY <1>1, <2>1, Counts
  <2>2. CASE g # h
    BY <1>1, <1>5, <2>2 DEF RegistryInv
  <2>3. QED
    BY <2>1, <2>2
<1>6. /\ messageHandler' # NoHandler => registeredAt'[messageHandler'] # <<>>
      /\ \A g \in Handlers : registeredAt'[g] # <<>> /\ HandlerType[g] # CatchAll =>
           \E i \in 1..Len(eventHandlers'[HandlerType[g]]) :
             eventHandlers'[HandlerType[g]][i] = g
      /\ \A t \in EventTypes : \A i \in 1..Len(eventHandlers'[t]) :
           HandlerType[eventHandlers'[t][i]] = t
  <2>1. CASE OnMessage(h)
    <3>1. messageHandler' = h /\ eventHandlers' = eventHandlers /\ HandlerType[h] = CatchAll
      BY <2>1 DEF OnMessage
    <3>2. QED
      BY <1>1, <3>1 DEF RegistryInv
  <2>2. CASE OnEvent(h)
    <3> DEFINE u == HandlerType[h]
               n == Len(eventHandlers[u])
    <3>1. /\ u \in EventTypes /\ n \in Nat /\ Len(eventHandlers'[u]) = n + 1
          /\ eventHandlers'[u][n + 1] = h
          /\ \A i \in 1..n : eventHandlers'[u][i] = eventHandlers[u][i]
          /\ \A t \in EventTypes \ {u} : eventHandlers'[t] = eventHandlers[t]
          /\ messageHandler' = messageHandler
      BY <2>2, EventRegistered
    <3>2. messageHandler' # NoHandler => registeredAt'[messageHandler'] # <<>>
      BY <1>2, <3>1 DEF RegistryInv, Types, StreamTypeOK
    <3> HIDE DEF n, u
    <3>3. ASSUME NEW g \in Handlers, registeredAt'[g] # <<>>, HandlerType[g] # CatchAll
          PROVE  \E i \in 1..Len(eventHandlers'[HandlerType[g]]) :
                   eventHandlers'[HandlerType[g]][i] = g
      <4>1. CASE g = h
        BY <3>1, <4>1 DEF u
      <4>2. CASE g # h
        <5>1. HandlerType[g] \in EventTypes
          BY <3>3, Bounds
        <5>2. PICK i \in 1..Len(eventHandlers[HandlerType[g]]) :
                     eventHandlers[HandlerType[g]][i] = g
          BY <1>1, <3>3, <4>2 DEF RegistryInv
        <5>3. CASE HandlerType[g] = u
          <6>1. i \in 1..n /\ i \in 1..Len(eventHandlers'[u])
            BY <3>1, <5>2, <5>3 DEF n
          <6>2. QED
            BY <3>1, <5>2, <5>3, <6>1
        <5>4. CASE HandlerType[g] # u
          BY <3>1, <5>1, <5>2, <5>4
        <5>5. QED
          BY <5>3, <5>4
      <4>3. QED
        BY <4>1, <4>2
    <3>4. ASSUME NEW t \in EventTypes, NEW i \in 1..Len(eventHandlers'[t])
          PROVE  HandlerType[eventHandlers'[t][i]] = t
      <4>1. CASE t # u
        BY <3>1, <3>4, <4>1 DEF RegistryInv
      <4>2. CASE t = u /\ i = n + 1
        BY <3>1, <4>2 DEF u
      <4>3. CASE t = u /\ i # n + 1
        <5>1. i \in 1..n /\ eventHandlers'[u][i] = eventHandlers[u][i]
          BY <3>1, <3>4, <4>3
        <5>2. HandlerType[eventHandlers[u][i]] = u
          BY <3>1, <5>1 DEF RegistryInv, n
        <5>3. QED
          BY <4>3, <5>1, <5>2
      <4>4. QED
        BY <4>1, <4>2, <4>3
    <3>5. QED
      BY <3>2, <3>3, <3>4
  <2>3. QED
    BY <2>1, <2>2
<1>7. QED
  BY <1>3, <1>4, <1>5, <1>6, Zenon DEF RegistryInv

LEMMA RegistryStep ==
  Types /\ Types' /\ DeliveryInv /\ RegistryInv /\ [Next]_vars => RegistryInv'
<1> SUFFICES ASSUME Types, Types', DeliveryInv, RegistryInv, [Next]_vars
             PROVE  RegistryInv'
  OBVIOUS
<1>1. \A k \in Links : dispatcher[k].todo \in Seq(Handlers)
  BY DEF Types, DispatchersTypeOK, DispatcherType
<1>2. ASSUME NEW k \in Links, \A j \in Links \ {k} : dispatcher'[j] = dispatcher[j],
             dispatcher'[k].todo = dispatcher[k].todo, LinksGrow,
             UNCHANGED <<received, eventHandlers, messageHandler, registeredAt>>
      PROVE  RegistryInv'
  <2>1. \A j \in Links : dispatcher'[j].todo = dispatcher[j].todo
    BY <1>2
  <2>2. QED
    BY <1>2, <2>1, RegistryRest DEF RegistryInv
<1>3. CASE Application \/ UNCHANGED vars
  <2>1. CASE \E h \in Handlers : OnEvent(h) \/ OnMessage(h)
    BY <2>1, RegisterRegistry
  <2>2. CASE ~ \E h \in Handlers : OnEvent(h) \/ OnMessage(h)
    <3>1. /\ UNCHANGED <<received, eventHandlers, messageHandler, registeredAt, dispatcher>>
          /\ LinksGrow
      BY <1>3, <2>2, RegistryKept, ApplicationEffect, LinksRest DEF vars, Types
    <3>2. QED
      BY <3>1, RegistryRest DEF RegistryInv
  <2>3. QED
    BY <2>1, <2>2
<1>4. ASSUME NEW k \in Links, FinishConnect(k) \/ StartDispatch(k) \/ Receive(k) \/ EndDispatch(k)
      PROVE  RegistryInv'
  <2>1. dispatcher'[k].todo = dispatcher[k].todo
    BY <1>4 DEF Types, DispatchersTypeOK, DispatcherType, FinishConnect, StartDispatch,
         Receive, EndDispatch
  <2>2. QED
    BY <1>2, <1>4, <2>1, FinishConnectEffect, StartEffect, ReceiveEffect, EndEffect,
       LinksRest DEF Types
<1>5. ASSUME NEW k \in Links, Snapshot(k) PROVE RegistryInv'
  <2>1. /\ \A j \in Links \ {k} : dispatcher'[j] = dispatcher[j]
        /\ UNCHANGED <<received, eventHandlers, messageHandler, registeredAt, link>>
    BY <1>5, SnapshotEffect
  <2>2. /\ TypeOf(dispatcher[k].event) \in EventTypes
        /\ dispatcher'[k].todo \in Seq(Handlers)
        /\ \A m \in 1..Len(dispatcher'[k].todo) :
             \/ dispatcher'[k].todo[m] = messageHandler
             \/ \E i \in 1..Len(eventHandlers[TypeOf(dispatcher[k].event)]) :
                  dispatcher'[k].todo[m] = eventHandlers[TypeOf(dispatcher[k].event)][i]
    BY <1>5, SnapshotCalls
  <2>3. ASSUME NEW m \in 1..Len(dispatcher'[k].todo)
        PROVE  registeredAt[dispatcher'[k].todo[m]] # <<>>
    <3>1. dispatcher'[k].todo[m] \in Handlers
      BY <2>2, ElementOfSeq
    <3>2. CASE dispatcher'[k].todo[m] = messageHandler
      BY <3>1, <3>2, Bounds DEF RegistryInv
    <3>3. CASE dispatcher'[k].todo[m] # messageHandler
      <4>1. PICK t \in EventTypes : \E i \in 1..Len(eventHandlers[t]) :
              dispatcher'[k].todo[m] = eventHandlers[t][i]
        BY <2>2, <3>3
      <4>2. QED
        BY <4>1 DEF DeliveryInv, HandlerInv
    <3>4. QED
      BY <3>2, <3>3
  <2>4. QED
    BY <2>1, <2>3, RegistryRest, LinksRest DEF RegistryInv, Types
<1>6. ASSUME NEW k \in Links, CallHandler(k) PROVE RegistryInv'
  <2>1. /\ \A j \in Links \ {k} : dispatcher'[j] = dispatcher[j]
        /\ UNCHANGED <<eventHandlers, messageHandler, registeredAt, link>>
    BY <1>6, CallEffect
  <2>2. CASE dispatcher[k].todo = <<>> /\ received' = received
    <3>1. dispatcher'[k].todo = dispatcher[k].todo
      BY <1>6, <2>2 DEF Types, DispatchersTypeOK, DispatcherType, CallHandler
    <3>2. QED
      BY <1>2, <2>1, <2>2, <3>1, LinksRest DEF Types
  <2>3. CASE /\ dispatcher[k].todo # <<>>
             /\ dispatcher'[k].todo = Tail(dispatcher[k].todo)
             /\ received' = [received EXCEPT ![Head(dispatcher[k].todo)] =
                               Append(@, dispatcher[k].event)]
    <3> DEFINE s == dispatcher[k].todo
    <3>1. s \in Seq(Handlers) /\ s # <<>> /\ \A m \in 1..Len(s) : registeredAt[s[m]] # <<>>
      BY <1>1, <2>3 DEF RegistryInv
    <3>2. Len(s) \in Nat \ {0} /\ Head(s) = s[1]
      BY <3>1, EmptySeq
    <3>3. Len(Tail(s)) = Len(s) - 1 /\ \A m \in 1..Len(Tail(s)) : Tail(s)[m] = s[m + 1]
      BY <3>1, HeadTailProperties
    <3>4. \A m \in 1..Len(Tail(s)) : m + 1 \in 1..Len(s)
      BY <3>2, <3>3
    <3>5. \A m \in 1..Len(Tail(s)) : registeredAt[Tail(s)[m]] # <<>>
      BY <3>1, <3>3, <3>4
    <3>6. registeredAt[Head(s)] # <<>>
      BY <3>1, <3>2
    <3>7. \A h \in Handlers : registeredAt[h] = <<>> => received'[h] = received[h]
      BY <2>3, <3>6 DEF Types, HistoryTypeOK
    <3>8. \A j \in Links : \A m \in 1..Len(dispatcher'[j].todo) :
            registeredAt[dispatcher'[j].todo[m]] # <<>>
      <4> TAKE j \in Links
      <4>1. CASE j = k
        BY <2>3, <3>5, <4>1
      <4>2. CASE j # k
        BY <2>1, <4>2 DEF RegistryInv
      <4>3. QED
        BY <4>1, <4>2
    <3>9. \A h \in Handlers : registeredAt[h] = <<>> => Len(received'[h]) = 0
      BY <3>7 DEF RegistryInv
    <3>10. QED
      BY <2>1, <3>8, <3>9, RegistryRest, LinksRest DEF Types
  <2>4. QED
    BY <1>6, <2>2, <2>3, CallEffect
<1>7. QED
  BY <1>3, <1>4, <1>5, <1>6, ByActor DEF Dispatch

\* What a step leaves of the channels.
LEMMA ChannelRest ==
  ASSUME Types, ChannelInv, NEW k \in Links,
         \A j \in Links \ {k} : dispatcher'[j] = dispatcher[j],
         \A j \in Links : link'[j].state \in {"unused", "dialing"} => dispatcher'[j].pc = "none",
         \A c \in Links : dispatcher[k].chan = c => dispatcher'[k].chan = c,
         \A c \in Links : dispatcher'[k].chan = c \/ link'[c].read = link[c].read,
         dispatcher'[k].chan = 0 <=> dispatcher'[k].pc \in {"none", "starting"},
         Holding(k)' => dispatcher'[k].event.link = dispatcher'[k].chan
  PROVE  ChannelInv'
<1>1. ASSUME NEW c \in Links, \A j \in Links : dispatcher'[j].chan # c
      PROVE  link'[c].read = 0
  <2>1. \A j \in Links : dispatcher[j].chan # c
    BY <1>1
  <2>2. QED
    BY <1>1, <2>1 DEF ChannelInv
<1>2. \A j \in Links : dispatcher'[j].chan = 0 <=> dispatcher'[j].pc \in {"none", "starting"}
  <2> TAKE j \in Links
  <2>1. CASE j = k
    BY <2>1
  <2>2. CASE j # k
    BY <2>2 DEF ChannelInv
  <2>3. QED
    BY <2>1, <2>2
<1>3. ASSUME NEW j \in Links, Holding(j)'
      PROVE  dispatcher'[j].event.link = dispatcher'[j].chan
  <2>1. CASE j = k
    BY <1>3, <2>1
  <2>2. CASE j # k
    BY <1>3, <2>2 DEF ChannelInv, Holding
  <2>3. QED
    BY <2>1, <2>2
<1>4. QED
  BY <1>1, <1>2, <1>3 DEF ChannelInv, Holding

\* Only Connect dials, a connection that was not used.
LEMMA StatesOf ==
  ASSUME Types, Application
  PROVE  \A j \in Links : link'[j].state \in {"unused", "dialing"} =>
                           link[j].state \in {"unused", "dialing"}
<1>1. ASSUME NEW k \in Links, BeginConnect(k) \/ ConnectFails(k) \/ StreamEnds(k)
      PROVE  \A j \in Links : link'[j].state \in {"unused", "dialing"} =>
                              link[j].state \in {"unused", "dialing"}
  <2>1. CASE BeginConnect(k)
    <3>1. \A j \in Links \ {k} : link'[j].state = link[j].state
      BY <2>1, StateReplaced DEF BeginConnect, Types
    <3>2. QED
      BY <2>1, <3>1 DEF BeginConnect
  <2>2. CASE ~BeginConnect(k)
    <3>1. /\ link'[k].state = "closed"
          /\ \A j \in Links \ {k} : link'[j].state = link[j].state
      BY <1>1, <2>2, StateReplaced DEF ConnectFails, StreamEnds, Types
    <3>2. QED
      BY <3>1
  <2>3. QED
    BY <2>1, <2>2
<1>2. CASE Disconnect
  <2>1. conn \in Links
    BY <1>2, Bounds DEF Disconnect, Types, StreamTypeOK, Links
  <2>2. /\ link'[conn].state = "closed"
        /\ \A j \in Links \ {conn} : link'[j].state = link[j].state
    BY <1>2, <2>1, StateReplaced DEF Disconnect, Types
  <2>3. QED
    BY <2>2
<1>3. ASSUME NEW k \in Links, Emit(k)
      PROVE  \A j \in Links : link'[j].state = link[j].state
  <2>1. PICK t : link' = [link EXCEPT ![k].log = Append(@, t)]
    BY <1>3 DEF Emit
  <2>2. QED
    BY <2>1 DEF Types, LinksTypeOK, LinkType
<1>4. SetAuthToken \/ (\E h \in Handlers : OnEvent(h) \/ OnMessage(h)) => UNCHANGED link
  BY DEF SetAuthToken, OnEvent, OnMessage, Register
<1>5. QED
  BY <1>1, <1>2, <1>3, <1>4 DEF Application

LEMMA ChannelStep == Types /\ Types' /\ ChannelInv /\ [Next]_vars => ChannelInv'
<1> SUFFICES ASSUME Types, Types', ChannelInv, [Next]_vars PROVE ChannelInv'
  OBVIOUS
<1>1. CASE UNCHANGED vars
  BY <1>1 DEF vars, ChannelInv, Holding
<1>2. CASE Application
  <2>1. 1 \in Links
    BY Bounds DEF Links
  <2>2. UNCHANGED dispatcher /\ \A j \in Links : link'[j].read = link[j].read
    BY <1>2, <2>1, ApplicationEffect, ReadsKept
  <2>3. \A j \in Links : link'[j].state \in {"unused", "dialing"} => dispatcher'[j].pc = "none"
    BY <1>2, <2>2, StatesOf DEF ChannelInv
  <2>4. QED
    BY <2>1, <2>2, <2>3 DEF ChannelInv, Holding
<1>3. ASSUME NEW k \in Links, FinishConnect(k) PROVE ChannelInv'
  <2>1. /\ dispatcher'[k].pc = "starting" /\ dispatcher'[k].chan = dispatcher[k].chan
        /\ \A j \in Links \ {k} : dispatcher'[j] = dispatcher[j]
        /\ \A j \in Links : link'[j].read = link[j].read
    BY <1>3, FinishConnectEffect, ReadsKept
  <2>2. /\ link[k].state = "dialing" /\ link'[k].state = "open"
        /\ \A j \in Links \ {k} : link'[j].state = link[j].state
    BY <1>3, StateReplaced DEF FinishConnect, Types
  <2>3. dispatcher[k].chan = 0
    BY <2>2 DEF ChannelInv
  <2>4. \A j \in Links : link'[j].state \in {"unused", "dialing"} => dispatcher'[j].pc = "none"
    <3> TAKE j \in Links
    <3>1. CASE j = k
      BY <2>2, <3>1
    <3>2. CASE j # k
      BY <2>1, <2>2, <3>2 DEF ChannelInv
    <3>3. QED
      BY <3>1, <3>2
  <2>5. QED
    BY <2>1, <2>3, <2>4, ChannelRest DEF Holding
<1>4. ASSUME NEW k \in Links, Dispatch(k) PROVE ChannelInv'
  <2>1. /\ \A j \in Links \ {k} : dispatcher'[j] = dispatcher[j]
        /\ dispatcher[k].pc # "none"
    BY <1>4, StartEffect, ReceiveEffect, SnapshotEffect, CallEffect, EndEffect
       DEF Dispatch, StartDispatch, Receive, Snapshot, CallHandler, EndDispatch
  <2>2. \A j \in Links : link'[j].state = link[j].state
    <3>1. CASE Receive(k)
      BY <3>1 DEF Receive, Types, LinksTypeOK, LinkType
    <3>2. CASE ~Receive(k)
      BY <1>4, <3>2 DEF Dispatch, StartDispatch, Snapshot, CallHandler, EndDispatch
    <3>3. QED
      BY <3>1, <3>2
  <2>3. \A j \in Links : link'[j].state \in {"unused", "dialing"} => dispatcher'[j].pc = "none"
    BY <2>1, <2>2 DEF ChannelInv
  <2>4. CASE StartDispatch(k)
    <3>1. /\ dispatcher[k].chan = 0 /\ dispatcher'[k].pc = "waiting"
          /\ dispatcher'[k].chan \in Links /\ link' = link
      BY <2>4, StartEffect DEF ChannelInv, StartDispatch
    <3>2. 0 \notin Links
      BY DEF Links
    <3>3. QED
      BY <2>1, <2>3, <3>1, <3>2, ChannelRest DEF Holding
  <2>5. CASE ~StartDispatch(k)
    <3>1. Running(k) /\ dispatcher[k].chan \in Links /\ 0 \notin Links
      <4>1. Running(k)
        BY <1>4, <2>5 DEF Dispatch, Receive, Snapshot, CallHandler, EndDispatch, Running
      <4>2. QED
        BY <4>1 DEF Types, EventInv, Links
    <3>2. dispatcher'[k].chan = dispatcher[k].chan /\ Running(k)'
      BY <1>4, <2>5, ReceiveEffect, SnapshotEffect, CallEffect, EndEffect
         DEF Dispatch, Running
    <3>3. \A c \in Links : dispatcher'[k].chan = c \/ link'[c].read = link[c].read
      BY <1>4, <2>5, <3>2, ReceiveEffect, SnapshotEffect, CallEffect, EndEffect
         DEF Dispatch
    <3>4. Holding(k)' => dispatcher'[k].event.link = dispatcher'[k].chan
      BY <1>4, <2>5, <3>2, ReceiveEffect, SnapshotEffect, CallEffect, EndEffect
         DEF Dispatch, Holding, ChannelInv, Snapshot, CallHandler
    <3>5. dispatcher'[k].chan = 0 <=> dispatcher'[k].pc \in {"none", "starting"}
      BY <3>1, <3>2 DEF Running
    <3>6. QED
      BY <2>1, <2>3, <3>2, <3>3, <3>4, <3>5, ChannelRest
  <2>6. QED
    BY <2>4, <2>5
<1>5. QED
  BY <1>1, <1>2, <1>3, <1>4, ByActor

-----------------------------------------------------------------------------
(* Handlers are called with events they want. *)

WantedInv ==
  /\ \A k \in Links : dispatcher[k].pc = "handling" =>
       \A m \in 1..Len(dispatcher[k].todo) :
         Wanted(dispatcher[k].todo[m], TypeOf(dispatcher[k].event))
  /\ \A h \in Handlers : \A n \in 1..Len(received[h]) : Wanted(h, TypeOf(received[h][n]))

LEMMA DeliveredKept ==
  ASSUME Types, TakenInv, LinksGrow, NEW h \in Handlers, NEW n \in 1..Len(received[h])
  PROVE  LET e == received[h][n] IN link'[e.link].log[e.index] = link[e.link].log[e.index]
<1> DEFINE e == received[h][n]
<1>1. e \in Delivered /\ e.index <= link[e.link].read
  BY DeliveredEvents DEF TakenInv
<1> HIDE DEF e
<1>2. e.link \in Links /\ e.index \in Nat /\ e.index >= 1
  BY <1>1, Bounds DEF Delivered
<1>3. e.index \in 1..Len(link[e.link].log)
  BY <1>1, <1>2, Counts
<1>4. QED
  BY <1>2, <1>3 DEF LinksGrow, e

\* A step calls no handler, and starts to call none.
LEMMA WantedRest ==
  ASSUME Types, TakenInv, WantedInv, LinksGrow, LinksTypeOK', received' = received,
         \A j \in Links : dispatcher'[j].pc = "handling" => dispatcher'[j] = dispatcher[j]
  PROVE  WantedInv'
<1>1. ASSUME NEW j \in Links, dispatcher'[j].pc = "handling",
             NEW m \in 1..Len(dispatcher'[j].todo)
      PROVE  Wanted(dispatcher'[j].todo[m], TypeOf(dispatcher[j].event)')
  <2>1. dispatcher'[j] = dispatcher[j] /\ Holding(j) /\ dispatcher[j].pc = "handling"
    BY <1>1 DEF Holding
  <2>2. TypeOf(dispatcher[j].event)' = TypeOf(dispatcher[j].event)
    BY <2>1, HeldEventKept DEF TypeOf
  <2>3. Wanted(dispatcher[j].todo[m], TypeOf(dispatcher[j].event))
    BY <1>1, <2>1 DEF WantedInv
  <2>4. QED
    BY <2>1, <2>2, <2>3
<1>2. ASSUME NEW h \in Handlers, NEW n \in 1..Len(received'[h])
      PROVE  Wanted(h, TypeOf(received[h][n])')
  <2>1. n \in 1..Len(received[h])
    BY <1>2
  <2>2. TypeOf(received[h][n])' = TypeOf(received[h][n])
    BY <2>1, DeliveredKept DEF TypeOf
  <2>3. Wanted(h, TypeOf(received[h][n]))
    BY <2>1 DEF WantedInv
  <2>4. QED
    BY <2>2, <2>3
<1>3. QED
  BY <1>1, <1>2 DEF WantedInv, Wanted

LEMMA WantedStep ==
  Types /\ Types' /\ DeliveryInv /\ RegistryInv /\ WantedInv /\ [Next]_vars => WantedInv'
<1> SUFFICES ASSUME Types, Types', DeliveryInv, RegistryInv, WantedInv, [Next]_vars
             PROVE  WantedInv'
  OBVIOUS
<1>1. CASE UNCHANGED vars
  BY <1>1 DEF vars, WantedInv, Wanted, TypeOf
<1>2. CASE Application
  BY <1>2, ApplicationEffect, WantedRest DEF DeliveryInv
<1>3. ASSUME NEW k \in Links, FinishConnect(k) \/ StartDispatch(k) \/ Receive(k) \/ EndDispatch(k)
      PROVE  WantedInv'
  BY <1>3, FinishConnectEffect, StartEffect, ReceiveEffect, EndEffect, LinksRest, WantedRest
     DEF DeliveryInv, Types
<1>4. ASSUME NEW k \in Links, Snapshot(k) PROVE WantedInv'
  <2> DEFINE t == TypeOf(dispatcher[k].event)
             todo == dispatcher'[k].todo
  <2>1. /\ dispatcher'[k].event = dispatcher[k].event
        /\ \A j \in Links \ {k} : dispatcher'[j] = dispatcher[j]
        /\ UNCHANGED <<received, link>>
    BY <1>4, SnapshotEffect
  <2>2. /\ t \in EventTypes /\ todo \in Seq(Handlers)
        /\ \A m \in 1..Len(todo) :
             \/ todo[m] = messageHandler
             \/ \E i \in 1..Len(eventHandlers[t]) : todo[m] = eventHandlers[t][i]
    BY <1>4, SnapshotCalls
  <2> HIDE DEF t, todo
  <2>3. t # Heartbeat
    BY <2>2, Bounds
  <2>4. ASSUME NEW m \in 1..Len(todo) PROVE Wanted(todo[m], t)
    <3>1. todo[m] \in Handlers
      BY <2>2, ElementOfSeq
    <3>2. CASE todo[m] = messageHandler
      BY <2>3, <3>1, <3>2, Bounds DEF DeliveryInv, HandlerInv, Wanted
    <3>3. CASE todo[m] # messageHandler
      <4>1. PICK i \in 1..Len(eventHandlers[t]) : todo[m] = eventHandlers[t][i]
        BY <2>2, <3>3
      <4>2. QED
        BY <2>2, <2>3, <4>1 DEF RegistryInv, Wanted
    <3>4. QED
      BY <3>2, <3>3
  <2>5. ASSUME NEW j \in Links, dispatcher'[j].pc = "handling",
               NEW m \in 1..Len(dispatcher'[j].todo)
        PROVE  Wanted(dispatcher'[j].todo[m], TypeOf(dispatcher[j].event)')
    <3>1. CASE j = k
      BY <2>1, <2>4, <2>5, <3>1 DEF t, todo, TypeOf
    <3>2. CASE j # k
      BY <2>1, <2>5, <3>2 DEF WantedInv, TypeOf
    <3>3. QED
      BY <3>1, <3>2
  <2>6. QED
    BY <2>1, <2>5 DEF WantedInv, Wanted, TypeOf
<1>5. ASSUME NEW k \in Links, CallHandler(k) PROVE WantedInv'
  <2>1. /\ dispatcher'[k].event = dispatcher[k].event
        /\ \A j \in Links \ {k} : dispatcher'[j] = dispatcher[j]
        /\ UNCHANGED <<registeredAt, link>>
    BY <1>5, CallEffect
  <2>2. CASE dispatcher'[k].pc = "waiting" /\ received' = received
    BY <2>1, <2>2, WantedRest, LinksRest DEF DeliveryInv, Types
  <2>3. CASE /\ dispatcher[k].pc = "handling" /\ dispatcher[k].todo # <<>>
             /\ dispatcher'[k].todo = Tail(dispatcher[k].todo)
             /\ received' = [received EXCEPT ![Head(dispatcher[k].todo)] =
                               Append(@, dispatcher[k].event)]
    <3> DEFINE s == dispatcher[k].todo
               e == dispatcher[k].event
               h == s[1]
    <3>1. /\ s \in Seq(Handlers) /\ e \in Delivered /\ Distinct(s)
          /\ \A m \in 1..Len(s) : Wanted(s[m], TypeOf(e))
      BY <2>3 DEF Types, DispatchersTypeOK, DispatcherType, EventInv, Holding,
         DeliveryInv, HeldInv, WantedInv
    <3>2. /\ 1 \in 1..Len(s) /\ Head(s) = h
          /\ \A m \in 1..Len(Tail(s)) : m + 1 \in 1..Len(s) /\ Tail(s)[m] = s[m + 1]
      BY <2>3, <3>1, DistinctTail
    <3>3. h \in Handlers /\ received[h] \in Seq(Delivered)
      BY <3>1, <3>2, ElementOfSeq DEF Types, HistoryTypeOK
    <3>4. /\ received'[h] = Append(received[h], e)
          /\ \A g \in Handlers \ {h} : received'[g] = received[g]
      BY <2>3, <3>2, <3>3 DEF Types, HistoryTypeOK
    <3>5. /\ Len(received'[h]) = Len(received[h]) + 1 /\ Len(received[h]) \in Nat
          /\ received'[h][Len(received[h]) + 1] = e
          /\ \A j \in 1..Len(received[h]) : received'[h][j] = received[h][j]
      <4> HIDE DEF e, h
      <4> QED
        BY <3>1, <3>3, <3>4, Appended
    <3>6. \A m \in 1..Len(Tail(s)) : Wanted(Tail(s)[m], TypeOf(e))
      BY <3>1, <3>2
    <3>7. Wanted(h, TypeOf(e))
      BY <3>1, <3>2
    <3> HIDE DEF e, h, s
    <3>8. ASSUME NEW g \in Handlers, NEW n \in 1..Len(received'[g])
          PROVE  Wanted(g, TypeOf(received'[g][n]))
      <4>1. CASE g # h
        BY <3>4, <3>8, <4>1 DEF WantedInv
      <4>2. CASE g = h /\ n = Len(received[h]) + 1
        BY <3>5, <3>7, <4>2
      <4>3. CASE g = h /\ n # Len(received[h]) + 1
        <5>1. n \in 1..Len(received[h])
          BY <3>5, <3>8, <4>3
        <5>2. QED
          BY <3>3, <3>5, <4>3, <5>1 DEF WantedInv
      <4>4. QED
        BY <4>1, <4>2, <4>3
    <3>9. ASSUME NEW j \in Links, dispatcher'[j].pc = "handling",
                 NEW m \in 1..Len(dispatcher'[j].todo)
          PROVE  Wanted(dispatcher'[j].todo[m], TypeOf(dispatcher'[j].event))
      <4>1. CASE j = k
        BY <2>1, <2>3, <3>6, <3>9, <4>1 DEF s, e
      <4>2. CASE j # k
        BY <2>1, <3>9, <4>2 DEF WantedInv
      <4>3. QED
        BY <4>1, <4>2
    <3>10. QED
      BY <2>1, <3>8, <3>9 DEF WantedInv, Wanted, TypeOf
  <2>4. QED
    BY <1>5, <2>2, <2>3, CallEffect
<1>6. QED
  BY <1>1, <1>2, <1>3, <1>4, <1>5, ByActor DEF Dispatch

-----------------------------------------------------------------------------
(* A dispatcher that is alone on its channel delivers all of it, in order. *)

Has(s, c, i) == \E n \in 1..Len(s) : s[n].link = c /\ s[n].index = i

InTurn(s, c) ==
  \A m, n \in 1..Len(s) :
    m < n /\ s[m].link = c /\ s[n].link = c => s[m].index < s[n].index

NotBefore(s, c, r) == \A n \in 1..Len(s) : s[n].link = c => r <= s[n].index

\* The dispatcher has yet to call the handler with the event it holds.
Pending(h, k) ==
  \/ dispatcher[k].pc = "received"
  \/ /\ dispatcher[k].pc = "handling"
     /\ \E m \in 1..Len(dispatcher[k].todo) : dispatcher[k].todo[m] = h

\* The handler misses at most the event that was received last.
Served(h, k) ==
  LET c == dispatcher[k].chan IN
  /\ InTurn(received[h], c)
  /\ NotBefore(received[h], c, registeredAt[h][c])
  /\ Installed(h) =>
       \A i \in 1..link[c].read :
         registeredAt[h][c] < i /\ Wanted(h, link[c].log[i]) =>
           Has(received[h], c, i) \/ (Pending(h, k) /\ i = link[c].read)

AloneInv(k) ==
  Alone(k) /\ dispatcher[k].chan # 0 =>
    /\ Holding(k) => dispatcher[k].event.index = link[dispatcher[k].chan].read
    /\ \A h \in Handlers : Served(h, k)

\* A handler stays served when what it has received grows in order.
LEMMA ServedGrows ==
  ASSUME Types, LinksGrow, NEW h \in Handlers, NEW k \in Links, NEW c \in Links,
         dispatcher[k].chan = c, dispatcher'[k].chan = c, link'[c].read = link[c].read,
         registeredAt'[h] = registeredAt[h], Installed(h)' => Installed(h), Served(h, k),
         InTurn(received'[h], c), NotBefore(received'[h], c, registeredAt[h][c]),
         \A i : Has(received[h], c, i) => Has(received'[h], c, i),
         Pending(h, k) => Pending(h, k)' \/ Has(received'[h], c, link[c].read)
  PROVE  Served(h, k)'
<1>1. \A i \in 1..link[c].read : i \in 1..Len(link[c].log)
  BY Counts
<1>2. \A i \in 1..link[c].read : link'[c].log[i] = link[c].log[i]
  BY <1>1 DEF LinksGrow
<1>3. ASSUME Installed(h)', NEW i \in 1..link[c].read, registeredAt[h][c] < i,
             Wanted(h, link'[c].log[i])
      PROVE  Has(received'[h], c, i) \/ (Pending(h, k)' /\ i = link[c].read)
  BY <1>2, <1>3 DEF Served
<1>4. QED
  BY <1>3 DEF Served, InTurn, NotBefore, Has, Wanted

LEMMA ServedKept ==
  ASSUME Types, LinksGrow, NEW h \in Handlers, NEW k \in Links, NEW c \in Links,
         dispatcher[k].chan = c, dispatcher'[k].chan = c, link'[c].read = link[c].read,
         received'[h] = received[h], registeredAt'[h] = registeredAt[h],
         Installed(h)' => Installed(h), Pending(h, k) => Pending(h, k)', Served(h, k)
  PROVE  Served(h, k)'
<1>1. InTurn(received'[h], c) /\ NotBefore(received'[h], c, registeredAt[h][c])
  BY DEF Served
<1>2. \A i : Has(received[h], c, i) => Has(received'[h], c, i)
  OBVIOUS
<1>3. QED
  BY <1>1, <1>2, ServedGrows

LEMMA ServedAppend ==
  ASSUME NEW s \in Seq(Delivered), NEW e \in Delivered, NEW c, NEW r,
         InTurn(s, c), NotBefore(s, c, r),
         e.link = c => /\ r <= e.index
                       /\ \A n \in 1..Len(s) : s[n].link = c => s[n].index < e.index
  PROVE  LET t == Append(s, e) IN
         /\ InTurn(t, c) /\ NotBefore(t, c, r)
         /\ \A i : Has(s, c, i) => Has(t, c, i)
         /\ e.link = c => Has(t, c, e.index)
<1> DEFINE t == Append(s, e)
<1>1. /\ Len(t) = Len(s) + 1 /\ Len(s) \in Nat /\ t[Len(s) + 1] = e
      /\ \A n \in 1..Len(s) : t[n] = s[n]
  BY Appended
<1> HIDE DEF t
<1>2. \A n \in 1..Len(t) : n \in 1..Len(s) \/ n = Len(s) + 1
  BY <1>1
<1>3. InTurn(t, c)
  <2> SUFFICES ASSUME NEW m \in 1..Len(t), NEW n \in 1..Len(t), m < n, t[m].link = c,
                      t[n].link = c
               PROVE  t[m].index < t[n].index
    BY DEF InTurn
  <2>1. m \in 1..Len(s)
    BY <1>1
  <2>2. CASE n \in 1..Len(s)
    BY <1>1, <2>1, <2>2 DEF InTurn
  <2>3. CASE n = Len(s) + 1
    BY <1>1, <2>1, <2>3
  <2>4. QED
    BY <1>2, <2>2, <2>3
<1>4. NotBefore(t, c, r)
  BY <1>1, <1>2 DEF NotBefore
<1>5. \A n \in 1..Len(s) : n \in 1..Len(t)
  BY <1>1
<1>6. ASSUME NEW i, Has(s, c, i) PROVE Has(t, c, i)
  BY <1>1, <1>5, <1>6 DEF Has
<1>7. Len(s) + 1 \in 1..Len(t)
  BY <1>1
<1>8. e.link = c => Has(t, c, e.index)
  BY <1>1, <1>7 DEF Has
<1>9. QED
  BY <1>3, <1>4, <1>6, <1>8 DEF t

Context == Types /\ DeliveryInv /\ RegistryInv /\ ChannelInv /\ WantedInv

LEMMA ApplicationAlone ==
  ASSUME Context, NEW k \in Links, AloneInv(k), Application
  PROVE  AloneInv(k)'
<1> SUFFICES ASSUME Alone(k)', dispatcher'[k].chan # 0
             PROVE  /\ Holding(k)' => dispatcher'[k].event.index = link'[dispatcher'[k].chan].read
                    /\ \A h \in Handlers : Served(h, k)'
  BY DEF AloneInv
<1> DEFINE c == dispatcher[k].chan
<1>1. /\ LinksGrow /\ UNCHANGED <<dispatcher, received>>
      /\ \A j \in Links : link'[j].read = link[j].read
  BY ApplicationEffect, ReadsKept DEF Context
<1>2. c \in Links
  BY <1>1 DEF Context, Types, DispatchersTypeOK, DispatcherType, Links
<1>3. Alone(k)
  BY <1>1 DEF Alone
<1>4. /\ Holding(k) => dispatcher[k].event.index = link[c].read
      /\ \A h \in Handlers : Served(h, k)
  BY <1>1, <1>3 DEF AloneInv
<1>5. \A h \in Handlers : Pending(h, k) => Pending(h, k)'
  BY <1>1 DEF Pending
<1>6. ASSUME NEW h \in Handlers, registeredAt'[h] = registeredAt[h], Installed(h)' => Installed(h)
      PROVE  Served(h, k)'
  BY <1>1, <1>2, <1>4, <1>5, <1>6, ServedKept DEF Context
<1>7. ASSUME NEW g \in Handlers, OnEvent(g) \/ OnMessage(g), NEW h \in Handlers
      PROVE  Served(h, k)'
  <2>1. /\ registeredAt[g] = <<>> /\ registeredAt'[g] # <<>>
        /\ \A j \in Links : registeredAt'[g][j] = link[j].read
        /\ \A f \in Handlers \ {g} : registeredAt'[f] = registeredAt[f]
    BY <1>7, Registered DEF Context
  <2>2. CASE h # g
    <3>1. Installed(h)' => Installed(h)
      BY <1>7, <2>1, <2>2 DEF Installed, OnEvent, OnMessage
    <3>2. QED
      BY <1>6, <2>1, <2>2, <3>1
  <2>3. CASE h = g
    <3>1. Len(received'[h]) = 0
      BY <1>1, <2>1, <2>3 DEF Context, RegistryInv
    <3>2. \A n \in 1..Len(received'[h]) : FALSE
      BY <3>1
    <3>3. registeredAt'[h][c] = link'[c].read /\ link'[c].read \in Nat
      BY <1>1, <1>2, <2>1, <2>3, Counts DEF Context
    <3>4. \A i \in 1..link'[c].read : ~(registeredAt'[h][c] < i)
      BY <3>3
    <3>5. QED
      BY <1>1, <3>2, <3>4 DEF Served, InTurn, NotBefore
  <2>4. QED
    BY <2>2, <2>3
<1>8. ASSUME ~ \E g \in Handlers : OnEvent(g) \/ OnMessage(g)
      PROVE  \A h \in Handlers : Served(h, k)'
  <2>1. UNCHANGED <<messageHandler, registeredAt>>
    BY <1>8, RegistryKept
  <2>2. \A h \in Handlers : registeredAt'[h] = registeredAt[h] /\ (Installed(h)' => Installed(h))
    BY <2>1 DEF Installed
  <2>3. QED
    BY <1>6, <2>2
<1>9. \A h \in Handlers : Served(h, k)'
  BY <1>7, <1>8
<1>10. Holding(k)' => dispatcher'[k].event.index = link'[dispatcher'[k].chan].read
  BY <1>1, <1>2, <1>4 DEF Holding
<1>11. QED
  BY <1>9, <1>10

\* The handler that is called is the first of those to call.
LEMMA CallAppends ==
  ASSUME Context, NEW k \in Links, CallHandler(k), dispatcher[k].todo # <<>>
  PROVE  \E g \in Handlers, e \in Delivered :
           /\ e = dispatcher[k].event /\ e.link = dispatcher[k].chan
           /\ received[g] \in Seq(Delivered) /\ Lacks(received[g], e)
           /\ received'[g] = Append(received[g], e)
           /\ \A h \in Handlers \ {g} : received'[h] = received[h]
           /\ registeredAt[g] # <<>>
           /\ \A h \in Handlers : Pending(h, k) => h = g \/ Pending(h, k)'
<1> DEFINE s == dispatcher[k].todo
           e == dispatcher[k].event
           g == s[1]
<1>1. /\ s \in Seq(Handlers) /\ s # <<>> /\ e \in Delivered /\ Distinct(s)
      /\ \A m \in 1..Len(s) : Lacks(received[s[m]], e)
      /\ \A m \in 1..Len(s) : registeredAt[s[m]] # <<>>
      /\ e.link = dispatcher[k].chan /\ dispatcher[k].pc = "handling"
  BY DEF CallHandler, Context, Types, DispatchersTypeOK, DispatcherType, EventInv, Holding,
         DeliveryInv, HeldInv, RegistryInv, ChannelInv
<1>2. /\ dispatcher'[k].pc = "handling" /\ dispatcher'[k].todo = Tail(s)
      /\ received' = [received EXCEPT ![Head(s)] = Append(@, e)]
  BY <1>1, CallEffect DEF Context
<1>3. /\ Len(s) \in Nat \ {0} /\ Head(s) = g /\ Len(Tail(s)) = Len(s) - 1
      /\ \A m \in 1..Len(Tail(s)) : Tail(s)[m] = s[m + 1]
  BY <1>1, EmptySeq, HeadTailProperties
<1>4. 1 \in 1..Len(s)
  BY <1>3
<1>5. g \in Handlers /\ received[g] \in Seq(Delivered) /\ Lacks(received[g], e)
  BY <1>1, <1>4, ElementOfSeq DEF Context, Types, HistoryTypeOK
<1>6. /\ received'[g] = Append(received[g], e)
      /\ \A h \in Handlers \ {g} : received'[h] = received[h]
  BY <1>2, <1>3, <1>5 DEF Context, Types, HistoryTypeOK
<1>7. ASSUME NEW h \in Handlers, Pending(h, k), h # g
      PROVE  Pending(h, k)'
  <2>1. PICK m \in 1..Len(s) : s[m] = h
    BY <1>1, <1>7 DEF Pending
  <2>2. m # 1
    BY <1>7, <2>1
  <2>3. m - 1 \in 1..Len(Tail(s)) /\ (m - 1) + 1 = m
    BY <1>3, <2>1, <2>2
  <2>4. Tail(s)[m - 1] = h
    BY <1>3, <2>1, <2>3
  <2>5. QED
    BY <1>2, <2>3, <2>4 DEF Pending
<1>8. registeredAt[g] # <<>>
  BY <1>1, <1>4
<1> HIDE DEF s, g
<1>9. QED
  BY <1>1, <1>5, <1>6, <1>7, <1>8

\* Another dispatcher moves: it has another channel.
LEMMA OthersAlone ==
  ASSUME Context, NEW j \in Links, NEW k \in Links \ {j}, AloneInv(k),
         FinishConnect(j) \/ Dispatch(j)
  PROVE  AloneInv(k)'
<1> SUFFICES ASSUME Alone(k)', dispatcher'[k].chan # 0
             PROVE  /\ Holding(k)' => dispatcher'[k].event.index = link'[dispatcher'[k].chan].read
                    /\ \A h \in Handlers : Served(h, k)'
  BY DEF AloneInv
<1> DEFINE c == dispatcher[k].chan
<1>1. /\ \A i \in Links \ {j} : dispatcher'[i] = dispatcher[i]
      /\ UNCHANGED <<messageHandler, registeredAt>> /\ LinksGrow
      /\ dispatcher'[j].chan = dispatcher[j].chan \/ StartDispatch(j)
  BY FinishConnectEffect, StartEffect, ReceiveEffect, SnapshotEffect, CallEffect, EndEffect,
     LinksRest DEF Dispatch, Context, Types
<1>2. dispatcher'[k] = dispatcher[k]
  BY <1>1
<1>3. c \in Links
  BY <1>2 DEF Context, Types, DispatchersTypeOK, DispatcherType, Links
<1>4. StartDispatch(j) => dispatcher[j].chan = 0
  BY DEF StartDispatch, Context, ChannelInv
<1>5. dispatcher[j].chan # c
  BY <1>1, <1>2, <1>4 DEF Alone
<1>6. Alone(k)
  BY <1>1, <1>2, <1>5 DEF Alone
<1>7. /\ Holding(k) => dispatcher[k].event.index = link[c].read
      /\ \A h \in Handlers : Served(h, k)
  BY <1>2, <1>6 DEF AloneInv
<1>8. link'[c].read = link[c].read
  <2>1. CASE FinishConnect(j)
    BY <1>3, <2>1, ReadsKept DEF Context
  <2>2. CASE Receive(j)
    BY <1>3, <1>5, <2>2, ReceiveEffect DEF Context
  <2>3. CASE StartDispatch(j) \/ Snapshot(j) \/ CallHandler(j) \/ EndDispatch(j)
    BY <2>3 DEF StartDispatch, Snapshot, CallHandler, EndDispatch
  <2>4. QED
    BY <2>1, <2>2, <2>3 DEF Dispatch
<1>9. \A h \in Handlers : /\ Pending(h, k) => Pending(h, k)'
                          /\ Installed(h)' => Installed(h)
  BY <1>1, <1>2 DEF Pending, Installed
<1>10. ASSUME NEW h \in Handlers, received'[h] = received[h]
       PROVE  Served(h, k)'
  BY <1>1, <1>2, <1>3, <1>7, <1>8, <1>9, <1>10, ServedKept DEF Context
<1>11. CASE received' = received
  BY <1>2, <1>7, <1>8, <1>10, <1>11 DEF Holding
<1>12. CASE CallHandler(j) /\ dispatcher[j].todo # <<>>
  <2>1. PICK g \in Handlers, e \in Delivered :
          /\ e.link = dispatcher[j].chan /\ received[g] \in Seq(Delivered)
          /\ received'[g] = Append(received[g], e)
          /\ \A h \in Handlers \ {g} : received'[h] = received[h]
    BY <1>12, CallAppends
  <2>2. Served(g, k)'
    <3>1. Served(g, k)
      BY <1>7
    <3>2. /\ InTurn(received'[g], c) /\ NotBefore(received'[g], c, registeredAt[g][c])
          /\ \A i : Has(received[g], c, i) => Has(received'[g], c, i)
      <4>1. e.link # c
        BY <1>5, <2>1
      <4>2. InTurn(received[g], c) /\ NotBefore(received[g], c, registeredAt[g][c])
        BY <3>1 DEF Served
      <4> HIDE DEF c
      <4>3. QED
        BY <2>1, <4>1, <4>2, ServedAppend
    <3> HIDE DEF c
    <3>3. QED
      BY <1>1, <1>2, <1>3, <1>8, <1>9, <3>1, <3>2, ServedGrows DEF Context, c
  <2>3. \A h \in Handlers : Served(h, k)'
    BY <1>10, <2>1, <2>2
  <2>4. QED
    BY <1>2, <1>7, <1>8, <2>3 DEF Holding
<1>13. QED
  BY <1>11, <1>12, FinishConnectEffect, StartEffect, ReceiveEffect, SnapshotEffect,
     CallEffect, EndEffect DEF Dispatch, Context

\* A dispatcher starts: nothing was received on a channel it is alone on.
LEMMA StartAlone ==
  ASSUME Context, Types', NEW k \in Links, StartDispatch(k)
  PROVE  AloneInv(k)'
<1> SUFFICES ASSUME Alone(k)'
             PROVE  /\ ~Holding(k)'
                    /\ \A h \in Handlers : Served(h, k)'
  BY DEF AloneInv
<1> DEFINE c == dispatcher'[k].chan
<1>1. /\ dispatcher'[k].pc = "waiting" /\ c \in Links
      /\ \A j \in Links \ {k} : dispatcher'[j] = dispatcher[j]
      /\ UNCHANGED <<received, link>>
  BY StartEffect DEF Context
<1>2. dispatcher[k].chan = 0 /\ 0 \notin Links
  BY DEF StartDispatch, Context, ChannelInv, Links
<1>3. \A j \in Links : dispatcher[j].chan # c
  BY <1>1, <1>2 DEF Alone
<1> HIDE DEF c
<1>4. link[c].read = 0
  BY <1>1, <1>3 DEF Context, ChannelInv
<1>5. ASSUME NEW h \in Handlers, NEW n \in 1..Len(received[h]), received[h][n].link = c
      PROVE  FALSE
  <2>1. received[h][n] \in Delivered
    BY DeliveredEvents DEF Context
  <2>2. received[h][n].index <= 0
    BY <1>4, <1>5 DEF Context, DeliveryInv, TakenInv
  <2>3. QED
    BY <2>1, <2>2, Bounds DEF Delivered
<1>6. \A h \in Handlers : Served(h, k)'
  BY <1>1, <1>4, <1>5 DEF Served, InTurn, NotBefore, c
<1>7. QED
  BY <1>1, <1>6 DEF Holding

\* An event is received: the handlers that want it are yet to be called.
LEMMA ReceiveAlone ==
  ASSUME Context, Types', NEW k \in Links, AloneInv(k), Receive(k)
  PROVE  AloneInv(k)'
<1> SUFFICES ASSUME Alone(k)'
             PROVE  /\ dispatcher'[k].event.index = link'[dispatcher'[k].chan].read
                    /\ \A h \in Handlers : Served(h, k)'
  BY DEF AloneInv
<1> DEFINE c == dispatcher[k].chan
           e == dispatcher'[k].event
<1>1. /\ dispatcher[k].pc = "waiting" /\ dispatcher'[k].chan = c
      /\ \A j \in Links \ {k} : dispatcher'[j] = dispatcher[j]
      /\ UNCHANGED <<received, messageHandler, registeredAt>> /\ LinksGrow
  BY ReceiveEffect DEF Context, Receive
<1>2. /\ e.link = c /\ e.index = link[c].read + 1 /\ link'[c].read = e.index
      /\ dispatcher'[k].pc = "received" \/ link'[c].log[e.index] = Heartbeat
  BY ReceiveEffect DEF Context
<1>3. c \in Links /\ 0 \notin Links
  BY <1>1 DEF Context, Types, EventInv, Running, Links
<1>4. Alone(k)
  BY <1>1 DEF Alone
<1>5. \A h \in Handlers : Served(h, k) /\ ~Pending(h, k)
  BY <1>1, <1>3, <1>4 DEF AloneInv, Pending
<1>6. link[c].read \in Nat /\ \A i \in 1..link[c].read : link'[c].log[i] = link[c].log[i]
  <2>1. link[c].read \in Nat /\ \A i \in 1..link[c].read : i \in 1..Len(link[c].log)
    BY <1>3, Counts DEF Context
  <2>2. QED
    BY <1>1, <1>3, <2>1 DEF LinksGrow
<1> HIDE DEF c, e
<1>7. ASSUME NEW h \in Handlers, Installed(h)', NEW i \in 1..link'[c].read,
             registeredAt[h][c] < i, Wanted(h, link'[c].log[i])
      PROVE  Has(received[h], c, i) \/ (Pending(h, k)' /\ i = link'[c].read)
  <2>1. CASE i \in 1..link[c].read
    <3>1. Installed(h)
      BY <1>1, <1>7 DEF Installed
    <3>2. QED
      BY <1>5, <1>6, <1>7, <2>1, <3>1 DEF Served, c
  <2>2. CASE i = link[c].read + 1
    <3>1. dispatcher'[k].pc = "received"
      BY <1>2, <1>7, <2>2 DEF Wanted
    <3>2. QED
      BY <1>2, <2>2, <3>1 DEF Pending
  <2>3. QED
    BY <1>2, <1>6, <2>1, <2>2
<1>8. \A h \in Handlers : /\ InTurn(received[h], c)
                          /\ NotBefore(received[h], c, registeredAt[h][c])
  BY <1>5 DEF Served, c
<1>9. \A h \in Handlers : Served(h, k)'
  BY <1>1, <1>7, <1>8 DEF Served, InTurn, NotBefore, Has, Wanted
<1>10. QED
  BY <1>1, <1>2, <1>9 DEF e

\* The handlers are looked up: those that want the event are among them.
LEMMA SnapshotAlone ==
  ASSUME Context, NEW k \in Links, AloneInv(k), Snapshot(k)
  PROVE  AloneInv(k)'
<1> SUFFICES ASSUME Alone(k)'
             PROVE  /\ dispatcher'[k].event.index = link'[dispatcher'[k].chan].read
                    /\ \A h \in Handlers : Served(h, k)'
  BY DEF AloneInv
<1> DEFINE c == dispatcher[k].chan
           e == dispatcher[k].event
           t == TypeOf(e)
           todo == dispatcher'[k].todo
<1>1. /\ dispatcher'[k].pc = "handling" /\ dispatcher'[k].event = e
      /\ dispatcher'[k].chan = c /\ dispatcher[k].pc = "received"
      /\ \A j \in Links \ {k} : dispatcher'[j] = dispatcher[j]
      /\ UNCHANGED <<received, messageHandler, registeredAt, link>>
  BY SnapshotEffect DEF Context, Snapshot
<1>2. c \in Links /\ 0 \notin Links /\ e.link = c
  BY <1>1 DEF Context, Types, EventInv, Running, Links, ChannelInv, Holding
<1>3. Alone(k)
  BY <1>1 DEF Alone
<1>4. e.index = link[c].read /\ \A h \in Handlers : Served(h, k)
  BY <1>1, <1>2, <1>3 DEF AloneInv, Holding
<1>5. /\ t \in EventTypes /\ t = link[c].log[link[c].read]
      /\ \A i \in 1..Len(eventHandlers[t]) : \E m \in 1..Len(todo) : todo[m] = eventHandlers[t][i]
      /\ messageHandler # NoHandler => \E m \in 1..Len(todo) : todo[m] = messageHandler
  BY <1>2, <1>4, SnapshotCalls DEF Context, TypeOf
<1> HIDE DEF c, e, t, todo
<1>6. ASSUME NEW h \in Handlers, Installed(h), Wanted(h, t)
      PROVE  Pending(h, k)'
  <2>1. \E m \in 1..Len(todo) : todo[m] = h
    <3>1. CASE h = messageHandler
      BY <1>5, <3>1, Bounds
    <3>2. CASE h # messageHandler
      <4>1. registeredAt[h] # <<>> /\ HandlerType[h] # CatchAll /\ HandlerType[h] = t
        BY <1>6, <3>2 DEF Installed, Wanted
      <4>2. PICK i \in 1..Len(eventHandlers[t]) : eventHandlers[t][i] = h
        BY <4>1 DEF Context, RegistryInv
      <4>3. QED
        BY <1>5, <4>2
    <3>3. QED
      BY <3>1, <3>2
  <2>2. QED
    BY <1>1, <2>1 DEF Pending, todo
<1>7. ASSUME NEW h \in Handlers, Installed(h)', NEW i \in 1..link[c].read,
             registeredAt[h][c] < i, Wanted(h, link[c].log[i])
      PROVE  Has(received[h], c, i) \/ (Pending(h, k)' /\ i = link[c].read)
  <2>1. Installed(h)
    BY <1>1, <1>7 DEF Installed
  <2>2. QED
    BY <1>4, <1>5, <1>6, <1>7, <2>1 DEF Served, c
<1>8. \A h \in Handlers : /\ InTurn(received[h], c)
                          /\ NotBefore(received[h], c, registeredAt[h][c])
  BY <1>4 DEF Served, c
<1>9. \A h \in Handlers : Served(h, k)'
  BY <1>1, <1>7, <1>8 DEF Served, InTurn, NotBefore, Has, Wanted
<1>10. QED
  BY <1>1, <1>4, <1>9

\* A handler is called with the event received last: all others came before.
LEMMA CallAlone ==
  ASSUME Context, NEW k \in Links, AloneInv(k), CallHandler(k)
  PROVE  AloneInv(k)'
<1> SUFFICES ASSUME Alone(k)'
             PROVE  /\ dispatcher'[k].event.index = link'[dispatcher'[k].chan].read
                    /\ \A h \in Handlers : Served(h, k)'
  BY DEF AloneInv
<1> DEFINE c == dispatcher[k].chan
<1>1. /\ dispatcher[k].pc = "handling" /\ dispatcher'[k].event = dispatcher[k].event
      /\ dispatcher'[k].chan = c /\ LinksGrow
      /\ \A j \in Links \ {k} : dispatcher'[j] = dispatcher[j]
      /\ UNCHANGED <<messageHandler, registeredAt, link>>
  BY CallEffect, LinksRest DEF Context, CallHandler, Types
<1>2. c \in Links /\ 0 \notin Links
  BY <1>1 DEF Context, Types, EventInv, Running, Links
<1>3. Alone(k)
  BY <1>1 DEF Alone
<1>4. dispatcher[k].event.index = link[c].read /\ \A h \in Handlers : Served(h, k)
  BY <1>1, <1>2, <1>3 DEF AloneInv, Holding
<1>5. \A h \in Handlers : Installed(h)' => Installed(h)
  BY <1>1 DEF Installed
<1> HIDE DEF c
<1>6. ASSUME NEW h \in Handlers, received'[h] = received[h], Pending(h, k) => Pending(h, k)'
      PROVE  Served(h, k)'
  BY <1>1, <1>2, <1>4, <1>5, <1>6, ServedKept DEF Context, c
<1>7. ASSUME dispatcher[k].todo = <<>>, NEW h \in Handlers PROVE Served(h, k)'
  <2>1. received' = received
    BY <1>7 DEF CallHandler
  <2>2. ~Pending(h, k)
    <3>1. Len(dispatcher[k].todo) = 0
      BY <1>7, EmptySeq
    <3>2. QED
      BY <1>1, <3>1 DEF Pending
  <2>3. QED
    BY <1>6, <2>1, <2>2
<1>8. ASSUME dispatcher[k].todo # <<>>, NEW h \in Handlers PROVE Served(h, k)'
  <2>1. PICK g \in Handlers, e \in Delivered :
           /\ e = dispatcher[k].event /\ e.link = dispatcher[k].chan
           /\ received[g] \in Seq(Delivered) /\ Lacks(received[g], e)
           /\ received'[g] = Append(received[g], e)
           /\ \A f \in Handlers \ {g} : received'[f] = received[f]
           /\ registeredAt[g] # <<>>
           /\ \A f \in Handlers : Pending(f, k) => f = g \/ Pending(f, k)'
    BY <1>8, CallAppends
  <2>2. CASE h # g
    BY <1>6, <2>1, <2>2
  <2>3. CASE h = g
    <3>1. e.link = c /\ e.index = link[c].read /\ link[c].read \in Nat
      BY <1>2, <1>4, <2>1, Counts DEF c, Context
    <3>2. ASSUME NEW n \in 1..Len(received[g]), received[g][n].link = c
          PROVE  received[g][n].index < e.index
      <4>1. received[g][n] \in Delivered /\ received[g][n] # e
        BY <2>1, <3>2, DeliveredEvents DEF Context, Lacks
      <4>2. received[g][n].index # e.index
        BY <3>1, <3>2, <4>1 DEF Delivered
      <4>3. received[g][n].index <= link[c].read
        BY <3>2 DEF Context, DeliveryInv, TakenInv
      <4>4. received[g][n].index \in Nat
        BY <4>1, Bounds DEF Delivered
      <4>5. QED
        BY <3>1, <4>2, <4>3, <4>4
    <3>3. registeredAt[g][c] <= e.index
      BY <1>2, <2>1, <3>1 DEF Context, RegistryInv
    <3>4. /\ InTurn(received[g], c) /\ NotBefore(received[g], c, registeredAt[g][c])
      BY <1>4 DEF Served, c
    <3>5. /\ InTurn(received'[g], c) /\ NotBefore(received'[g], c, registeredAt[g][c])
          /\ \A i : Has(received[g], c, i) => Has(received'[g], c, i)
          /\ Has(received'[g], c, e.index)
      BY <2>1, <3>1, <3>2, <3>3, <3>4, ServedAppend
    <3>6. QED
      BY <1>1, <1>2, <1>4, <1>5, <2>3, <3>1, <3>5, ServedGrows DEF Context, c
  <2>4. QED
    BY <2>2, <2>3
<1>9. QED
  BY <1>1, <1>4, <1>7, <1>8 DEF c

LEMMA EndAlone ==
  ASSUME Context, NEW k \in Links, AloneInv(k), EndDispatch(k)
  PROVE  AloneInv(k)'
<1> SUFFICES ASSUME Alone(k)'
             PROVE  /\ ~Holding(k)'
                    /\ \A h \in Handlers : Served(h, k)'
  BY DEF AloneInv
<1>1. /\ dispatcher[k].pc = "waiting" /\ dispatcher'[k].pc = "ended"
      /\ dispatcher'[k].chan = dispatcher[k].chan /\ LinksGrow
      /\ \A j \in Links \ {k} : dispatcher'[j] = dispatcher[j]
      /\ UNCHANGED <<received, messageHandler, registeredAt, link>>
  BY EndEffect, LinksRest DEF Context, Types
<1>2. dispatcher[k].chan \in Links /\ 0 \notin Links
  BY <1>1 DEF Context, Types, EventInv, Running, Links
<1>3. Alone(k)
  BY <1>1 DEF Alone
<1>4. \A h \in Handlers : Served(h, k) /\ ~Pending(h, k) /\ (Installed(h)' => Installed(h))
  BY <1>1, <1>2, <1>3 DEF AloneInv, Pending, Installed
<1>5. \A h \in Handlers : Served(h, k)'
  BY <1>1, <1>2, <1>4, ServedKept DEF Context
<1>6. QED
  BY <1>1, <1>5 DEF Holding

LEMMA AloneStep ==
  ASSUME Context, Context', [Next]_vars, NEW k \in Links, AloneInv(k)
  PROVE  AloneInv(k)'
<1>1. CASE UNCHANGED vars
  BY <1>1 DEF vars, AloneInv, Alone, Holding, Served, Installed, Pending, InTurn, NotBefore,
         Has, Wanted
<1>2. ASSUME FinishConnect(k) PROVE AloneInv(k)'
  <2>1. dispatcher'[k].chan = 0
    BY <1>2, FinishConnectEffect DEF Context, ChannelInv
  <2>2. QED
    BY <2>1 DEF AloneInv
<1>3. CASE Application
  BY <1>3, ApplicationAlone
<1>4. ASSUME NEW j \in Links, FinishConnect(j) \/ Dispatch(j) PROVE AloneInv(k)'
  <2>1. CASE j # k
    BY <1>4, <2>1, OthersAlone
  <2>2. CASE j = k
    BY <1>2, <1>4, <2>2, StartAlone, ReceiveAlone, SnapshotAlone, CallAlone, EndAlone
       DEF Dispatch, Context
  <2>3. QED
    BY <2>1, <2>2
<1>5. QED
  BY <1>1, <1>3, <1>4, ByActor

LEMMA InitialContext == Init => Context /\ \A k \in Links : AloneInv(k)
<1> SUFFICES ASSUME Init PROVE Context /\ \A k \in Links : AloneInv(k)
  OBVIOUS
<1>1. /\ \A t \in EventTypes : Len(eventHandlers[t]) = 0
      /\ \A h \in Handlers : Len(received[h]) = 0 /\ registeredAt[h] = <<>>
      /\ \A k \in Links : /\ dispatcher[k].pc = "none" /\ dispatcher[k].chan = 0
                          /\ Len(dispatcher[k].todo) = 0 /\ link[k].read = 0
      /\ messageHandler = NoHandler
  BY EmptySeq DEF Init
<1>2. RegistryInv
  BY <1>1 DEF RegistryInv
<1>3. ChannelInv
  BY <1>1 DEF ChannelInv, Holding
<1>4. WantedInv
  BY <1>1 DEF WantedInv
<1>5. \A k \in Links : AloneInv(k)
  BY <1>1 DEF AloneInv
<1>6. QED
  BY <1>2, <1>3, <1>4, <1>5, InitialTypes, InitialDelivery DEF Context

\* What ExactDelivery says of one handler and one dispatcher.
LEMMA ServedExactly ==
  ASSUME Context, NEW h \in Handlers, NEW k \in Links, AloneInv(k), Installed(h), Alone(k),
         dispatcher[k].pc \in {"waiting", "ended"}
  PROVE  LET c == dispatcher[k].chan IN
         /\ \E from \in {registeredAt[h][c], registeredAt[h][c] + 1} :
              Got(h, c) = {i \in 1..link[c].read : i >= from /\ Wanted(h, link[c].log[i])}
         /\ InOrder(h, c)
<1> DEFINE c == dispatcher[k].chan
           r == registeredAt[h][c]
           n == link[c].read
           s == received[h]
           W(i) == Wanted(h, link[c].log[i])
<1>1. c \in Links /\ 0 \notin Links
  BY DEF Context, Types, EventInv, Running, Links
<1>2. Served(h, k) /\ ~Pending(h, k)
  BY <1>1 DEF AloneInv, Pending
<1>3. registeredAt[h] # <<>>
  BY Bounds DEF Installed, Context, RegistryInv
<1>4. r \in Nat /\ n \in Nat
  BY <1>1, <1>3, Counts DEF Context
<1>5. s \in Seq(Delivered) /\ DOMAIN s = 1..Len(s)
  BY LenProperties DEF Context, Types, HistoryTypeOK
<1>6. InOrder(h, c)
  BY <1>2, <1>5 DEF InOrder, Served, InTurn
<1>7. ASSUME NEW m \in 1..Len(s), s[m].link = c
      PROVE  s[m].index \in 1..n /\ r <= s[m].index /\ W(s[m].index)
  <2>1. s[m] \in Delivered
    BY <1>5, ElementOfSeq
  <2>2. s[m].index <= n
    BY <1>7 DEF Context, DeliveryInv, TakenInv
  <2>3. r <= s[m].index
    BY <1>2, <1>7 DEF Served, NotBefore
  <2>4. Wanted(h, link[c].log[s[m].index])
    BY <1>7 DEF Context, WantedInv, TypeOf
  <2>5. s[m].index \in Nat /\ s[m].index >= 1
    BY <2>1, Bounds DEF Delivered
  <2>6. QED
    BY <1>4, <2>2, <2>3, <2>4, <2>5
<1>8. ASSUME NEW i \in 1..n, r < i, W(i)
      PROVE  \E m \in 1..Len(s) : s[m].link = c /\ s[m].index = i
  BY <1>2, <1>8 DEF Served, Has
<1>9. \A i : i \in Got(h, c) <=> \E m \in 1..Len(s) : s[m].link = c /\ s[m].index = i
  BY <1>5 DEF Got
<1> HIDE DEF c, r, n, s, W
<1>10. \A i : i \in Got(h, c) => i \in 1..n /\ r <= i /\ W(i)
  BY <1>7, <1>9
<1>11. \A i \in 1..n : r < i /\ W(i) => i \in Got(h, c)
  BY <1>8, <1>9
<1>12. CASE r \in Got(h, c)
  <2>1. \A i \in 1..n : i >= r <=> r < i \/ i = r
    BY <1>4
  <2>2. Got(h, c) = {i \in 1..n : i >= r /\ W(i)}
    BY <1>4, <1>10, <1>11, <1>12, <2>1
  <2>3. QED
    BY <1>6, <2>2 DEF c, r, n, W
<1>13. CASE r \notin Got(h, c)
  <2>1. \A i \in 1..n : (i >= r + 1 <=> r < i) /\ (r <= i <=> r < i \/ i = r)
    BY <1>4
  <2>2. Got(h, c) = {i \in 1..n : i >= r + 1 /\ W(i)}
    BY <1>10, <1>11, <1>13, <2>1
  <2>3. QED
    BY <1>6, <2>2 DEF c, r, n, W
<1>14. QED
  BY <1>12, <1>13

-----------------------------------------------------------------------------
(* Theorems. *)

IInv == Context /\ OrphanInv /\ \A k \in Links : AloneInv(k)

LEMMA Invariance == Spec => []IInv
<1>1. Init => OrphanInv
  BY DEF Init, OrphanInv
<1>2. Init => IInv
  BY <1>1, InitialContext DEF IInv
<1>3. IInv /\ [Next]_vars => IInv'
  <2> SUFFICES ASSUME IInv, [Next]_vars PROVE IInv'
    OBVIOUS
  <2>1. Types' /\ DeliveryInv' /\ OrphanInv'
    BY TypesStep, DeliveryStep, OrphanStep DEF IInv, Context
  <2>2. Context'
    BY <2>1, RegistryStep, ChannelStep, WantedStep DEF IInv, Context
  <2>3. QED
    BY <2>1, <2>2, AloneStep DEF IInv
<1>4. QED
  BY <1>2, <1>3, PTL DEF Spec

(* Every variable has its type: no dispatcher waits on a channel that does *)
(* not exist, however Connect and dispatchEvents are interleaved.          *)
THEOREM TypeCorrect == Spec => []TypeOK
<1>1. IInv => TypeOK
  BY TypesGiveTypeOK DEF IInv, Context
<1>2. QED
  BY <1>1, Invariance, PTL

(* Reconnecting repeats no event to a handler, whatever dispatchers share  *)
(* a channel (dispatchEvents reads s.eventChan when it starts to run).     *)
THEOREM DeliveredOnce == Spec => []NoDuplicateDelivery
<1>1. IInv => NoDuplicateDelivery
  <2> SUFFICES ASSUME IInv, NEW h \in Handlers
               PROVE  \A i, j \in DOMAIN received[h] :
                        received[h][i] = received[h][j] => i = j
    BY DEF NoDuplicateDelivery
  <2>1. received[h] \in Seq(Delivered) /\ Distinct(received[h])
    BY DEF IInv, Context, Types, HistoryTypeOK, DeliveryInv
  <2>2. DOMAIN received[h] = 1..Len(received[h])
    BY <2>1, LenProperties
  <2>3. QED
    BY <2>1, <2>2 DEF Distinct
<1>2. QED
  BY <1>1, Invariance, PTL

(* Whenever a dispatcher that shares its channel with no other is between  *)
(* events, the installed handlers were called with just the events they    *)
(* want, in order: none is lost, repeated or swapped, however registering, *)
(* connecting and dispatchEvents are interleaved.                          *)
THEOREM DeliveredExactly == Spec => []ExactDelivery
<1>1. IInv => ExactDelivery
  BY ServedExactly DEF IInv, ExactDelivery
<1>2. QED
  BY <1>1, Invariance, PTL

(* An application that disconnects before it connects again leaks no       *)
(* connection: the one that may be open is the one Disconnect closes.      *)
THEOREM OrphanFree == Spec => []NoOrphanConnection
<1>1. IInv => NoOrphanConnection
  BY DEF IInv, OrphanInv, NoOrphanConnection
<1>2. QED
  BY <1>1, Invariance, PTL
=============================================================================
