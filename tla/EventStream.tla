---------------------------- MODULE EventStream ----------------------------
(***************************************************************************)
(* SubscriptionEventStream (account.go): the SSE stream of billing events. *)
(* The application subscribes, registers handlers, connects, disconnects   *)
(* and may connect again; every successful Connect starts a goroutine that *)
(* dispatches events to the handlers.  The connection itself (sse-go) is   *)
(* external: it delivers events in order on a channel and closes the       *)
(* channel when the stream ends or Close is called.                        *)
(*                                                                         *)
(* An event is the k-th of a connection's log; what a dispatcher has       *)
(* received from the channel is a prefix of the log.                       *)
(***************************************************************************)
EXTENDS Naturals, Sequences, FiniteSets

CONSTANTS
  Handlers,        \* handler functions the application may register
  HandlerType,     \* [Handlers -> EventTypes \cup {CatchAll}]
  EventTypes,      \* types of billing events
  MaxConnections,  \* bound: calls of Connect
  MaxEvents,       \* bound: events of one connection
  MaxToken         \* bound: tokens ever installed in the client

Heartbeat == "heartbeat"
CatchAll  == "*"
NoHandler == "no handler"

ASSUME HandlerAssumption ==
  /\ HandlerType \in [Handlers -> EventTypes \cup {CatchAll}]
  /\ Heartbeat \notin EventTypes /\ NoHandler \notin Handlers
  /\ MaxConnections \in Nat \ {0} /\ MaxEvents \in Nat /\ MaxToken \in Nat \ {0}

Links == 1..MaxConnections

VARIABLES
  jwt,             \* Client.jwt
  streamJwt,       \* s.jwt, taken by SubscribeBillingEvents
  eventHandlers,   \* s.eventHandlers: handlers by event type
  messageHandler,  \* s.messageHandler
  conn,            \* s.conn, 0 when nil
  eventChan,       \* s.eventChan, 0 when nil
  link,            \* the connections, in the order Connect made them
  dispatcher,      \* the goroutine each Connect started
  received,        \* history: events each handler was called with
  registeredAt,    \* history: events received when a handler registered
  careless         \* history: Connect was called on a stream still connected

vars == <<jwt, streamJwt, eventHandlers, messageHandler, conn, eventChan, link,
          dispatcher, received, registeredAt, careless>>

Event(k, i) == [link |-> k, index |-> i]

TypeOf(e) == link[e.link].log[e.index]

NoEvent == Event(0, 0)

TypeOK ==
  /\ jwt \in 1..MaxToken /\ streamJwt \in 1..MaxToken
  /\ eventHandlers \in [EventTypes -> Seq(Handlers)]
  /\ messageHandler \in Handlers \cup {NoHandler}
  /\ conn \in 0..MaxConnections /\ eventChan \in 0..MaxConnections
  /\ careless \in BOOLEAN
  /\ \A k \in Links :
       /\ link[k].state \in {"unused", "dialing", "open", "closed"}
       /\ link[k].log \in Seq(EventTypes \cup {Heartbeat})
       /\ link[k].read \in 0..Len(link[k].log) /\ link[k].read <= MaxEvents
       /\ link[k].token \in 0..MaxToken
       /\ dispatcher[k].pc \in {"none", "starting", "waiting", "received",
                                "handling", "ended"}
       /\ dispatcher[k].chan \in 0..MaxConnections
       /\ dispatcher[k].event \in [link : 0..MaxConnections, index : 0..MaxEvents]
       /\ dispatcher[k].todo \in Seq(Handlers)
  /\ \A h \in Handlers :
       /\ received[h] \in Seq([link : Links, index : 1..MaxEvents])
       /\ registeredAt[h] \in {<<>>} \cup [Links -> 0..MaxEvents]

Init ==
  /\ jwt = 1 /\ streamJwt = 1            \* SubscribeBillingEvents has returned
  /\ eventHandlers = [t \in EventTypes |-> <<>>]
  /\ messageHandler = NoHandler
  /\ conn = 0 /\ eventChan = 0
  /\ link = [k \in Links |->
               [state |-> "unused", log |-> <<>>, read |-> 0, token |-> 0]]
  /\ dispatcher = [k \in Links |->
                     [pc |-> "none", chan |-> 0, event |-> NoEvent, todo |-> <<>>]]
  /\ received = [h \in Handlers |-> <<>>]
  /\ registeredAt = [h \in Handlers |-> <<>>]
  /\ careless = FALSE

-----------------------------------------------------------------------------
(* The application. *)

SetAuthToken ==
  /\ jwt < MaxToken
  /\ jwt' = jwt + 1
  /\ UNCHANGED <<streamJwt, eventHandlers, messageHandler, conn, eventChan, link,
                 dispatcher, received, registeredAt, careless>>

Register(h) ==
  /\ registeredAt[h] = <<>>              \* each handler registers once
  /\ registeredAt' = [registeredAt EXCEPT ![h] = [k \in Links |-> link[k].read]]
  /\ UNCHANGED <<jwt, streamJwt, conn, eventChan, link, dispatcher, received,
                 careless>>

OnEvent(h) ==
  /\ HandlerType[h] # CatchAll
  /\ Register(h)
  /\ eventHandlers' = [eventHandlers EXCEPT ![HandlerType[h]] = Append(@, h)]
  /\ UNCHANGED messageHandler

\* No lock here; a function value is one word, so a reader sees old or new.
OnMessage(h) ==
  /\ HandlerType[h] = CatchAll
  /\ Register(h)
  /\ messageHandler' = h
  /\ UNCHANGED eventHandlers

\* Connect up to the dial: the new connection replaces s.conn at once, also
\* while another Connect is dialing.  (Connect reads s.conn again to dial; that
\* a concurrent Connect has replaced it in between is left out.)
BeginConnect(k) ==
  /\ link[k].state = "unused" /\ \A j \in 1..(k - 1) : link[j].state # "unused"
  /\ careless' = (careless \/ (conn # 0 /\ link[conn].state # "closed"))
  /\ conn' = k
  /\ link' = [link EXCEPT ![k].state = "dialing", ![k].token = streamJwt]
  /\ UNCHANGED <<jwt, streamJwt, eventHandlers, messageHandler, eventChan,
                 dispatcher, received, registeredAt>>

\* The rest of Connect: s.eventChan, and a goroutine that has yet to run.
FinishConnect(k) ==
  /\ link[k].state = "dialing"
  /\ link' = [link EXCEPT ![k].state = "open"]
  /\ eventChan' = k
  /\ dispatcher' = [dispatcher EXCEPT ![k].pc = "starting"]
  /\ UNCHANGED <<jwt, streamJwt, eventHandlers, messageHandler, conn, received,
                 registeredAt, careless>>

\* Connect returns the error; s.conn keeps the connection that failed.
ConnectFails(k) ==
  /\ link[k].state = "dialing"
  /\ link' = [link EXCEPT ![k].state = "closed"]
  /\ UNCHANGED <<jwt, streamJwt, eventHandlers, messageHandler, conn, eventChan,
                 dispatcher, received, registeredAt, careless>>

\* Mutant: the stream forgets a connection that is dialing without closing it.
DisconnectIdle ==
  /\ conn # 0 /\ link[conn].state \in {"dialing", "open"}
  /\ link' = [link EXCEPT ![conn].state = IF @ = "dialing" THEN @ ELSE "closed"]
  /\ conn' = 0
  /\ UNCHANGED <<jwt, streamJwt, eventHandlers, messageHandler, eventChan,
                 dispatcher, received, registeredAt, careless>>

\* Disconnect: a nil connection is left alone, a closed one stays closed.
Disconnect ==
  /\ conn # 0 /\ link[conn].state \in {"dialing", "open"}
  /\ link' = [link EXCEPT ![conn].state = "closed"]
  /\ UNCHANGED <<jwt, streamJwt, eventHandlers, messageHandler, conn, eventChan,
                 dispatcher, received, registeredAt, careless>>

-----------------------------------------------------------------------------
(* The connection (external). *)

Emit(k) ==
  /\ link[k].state = "open" /\ Len(link[k].log) < MaxEvents
  /\ \E t \in EventTypes \cup {Heartbeat} :
       link' = [link EXCEPT ![k].log = Append(@, t)]
  /\ UNCHANGED <<jwt, streamJwt, eventHandlers, messageHandler, conn, eventChan,
                 dispatcher, received, registeredAt, careless>>

StreamEnds(k) ==
  /\ link[k].state = "open"
  /\ link' = [link EXCEPT ![k].state = "closed"]
  /\ UNCHANGED <<jwt, streamJwt, eventHandlers, messageHandler, conn, eventChan,
                 dispatcher, received, registeredAt, careless>>

-----------------------------------------------------------------------------
(* dispatchEvents. *)

\* The goroutine evaluates s.eventChan when it starts.  A later Connect may
\* have overwritten the field, unsynchronised: it sees its own or that value.
StartDispatch(k) ==
  /\ dispatcher[k].pc = "starting"
  /\ \E chan \in {k, eventChan} :
       dispatcher' = [dispatcher EXCEPT ![k].pc = "waiting", ![k].chan = chan]
  /\ UNCHANGED <<jwt, streamJwt, eventHandlers, messageHandler, conn, eventChan,
                 link, received, registeredAt, careless>>

Unread(k) == link[k].read < Len(link[k].log)

\* Mutant: a slow dispatcher skips to the newest event.
ReceiveNewest(k) ==
  LET chan == dispatcher[k].chan IN
  /\ dispatcher[k].pc = "waiting" /\ Unread(chan)
  /\ link' = [link EXCEPT ![chan].read = Len(link[chan].log)]
  /\ LET e == Event(chan, Len(link[chan].log)) IN
       dispatcher' = [dispatcher EXCEPT
         ![k].pc = IF TypeOf(e) = Heartbeat THEN "waiting" ELSE "received",
         ![k].event = e]
  /\ UNCHANGED <<jwt, streamJwt, eventHandlers, messageHandler, conn, eventChan,
                 received, registeredAt, careless>>

\* Mutant: the dispatcher looks at the channel without taking the event off it.
ReceivePeek(k) ==
  LET chan == dispatcher[k].chan
      e == Event(chan, link[chan].read + 1)
  IN
  /\ dispatcher[k].pc = "waiting" /\ Unread(chan)
  /\ \E taken \in 0..1 : link' = [link EXCEPT ![chan].read = @ + taken]
  /\ dispatcher' = [dispatcher EXCEPT
       ![k].pc = IF TypeOf(e) = Heartbeat THEN "waiting" ELSE "received",
       ![k].event = e]
  /\ UNCHANGED <<jwt, streamJwt, eventHandlers, messageHandler, conn, eventChan,
                 received, registeredAt, careless>>

\* The next event; heartbeats are dropped here.
Receive(k) ==
  LET chan == dispatcher[k].chan
      e == Event(chan, link[chan].read + 1)
  IN
  /\ dispatcher[k].pc = "waiting" /\ Unread(chan)
  /\ link' = [link EXCEPT ![chan].read = @ + 1]
  /\ dispatcher' = [dispatcher EXCEPT
       ![k].pc = IF TypeOf(e) = Heartbeat THEN "waiting" ELSE "received",
       ![k].event = e]
  /\ UNCHANGED <<jwt, streamJwt, eventHandlers, messageHandler, conn, eventChan,
                 received, registeredAt, careless>>

\* Mutant: the catch-all handler is called without testing it for nil.
SnapshotNil(k) ==
  /\ dispatcher[k].pc = "received"
  /\ dispatcher' = [dispatcher EXCEPT
       ![k].pc = "handling",
       ![k].todo = Append(eventHandlers[TypeOf(dispatcher[k].event)],
                          messageHandler)]
  /\ UNCHANGED <<jwt, streamJwt, eventHandlers, messageHandler, conn, eventChan,
                 link, received, registeredAt, careless>>

\* Under the read lock: the handlers to call, the catch-all one last.
Snapshot(k) ==
  /\ dispatcher[k].pc = "received"
  /\ dispatcher' = [dispatcher EXCEPT
       ![k].pc = "handling",
       ![k].todo = eventHandlers[TypeOf(dispatcher[k].event)]
                     \o (IF messageHandler = NoHandler THEN <<>>
                         ELSE <<messageHandler>>)]
  /\ UNCHANGED <<jwt, streamJwt, eventHandlers, messageHandler, conn, eventChan,
                 link, received, registeredAt, careless>>

\* Outside the lock: call the handlers one by one, then wait for an event.
CallHandler(k) ==
  /\ dispatcher[k].pc = "handling"
  /\ IF dispatcher[k].todo = <<>>
       THEN /\ dispatcher' = [dispatcher EXCEPT ![k].pc = "waiting"]
            /\ UNCHANGED received
       ELSE /\ received' = [received EXCEPT ![Head(dispatcher[k].todo)] =
                              Append(@, dispatcher[k].event)]
            /\ dispatcher' = [dispatcher EXCEPT ![k].todo = Tail(@)]
  /\ UNCHANGED <<jwt, streamJwt, eventHandlers, messageHandler, conn, eventChan,
                 link, registeredAt, careless>>

\* Mutant: the loop selects on a channel it cannot see closed.
EndDispatchNever(k) ==
  /\ dispatcher[k].pc = "waiting" /\ dispatcher[k].chan = 0
  /\ dispatcher' = [dispatcher EXCEPT ![k].pc = "ended"]
  /\ UNCHANGED <<jwt, streamJwt, eventHandlers, messageHandler, conn, eventChan,
                 link, received, registeredAt, careless>>

\* The channel is closed and drained: the range loop ends.
EndDispatch(k) ==
  /\ dispatcher[k].pc = "waiting"
  /\ link[dispatcher[k].chan].state = "closed" /\ ~Unread(dispatcher[k].chan)
  /\ dispatcher' = [dispatcher EXCEPT ![k].pc = "ended"]
  /\ UNCHANGED <<jwt, streamJwt, eventHandlers, messageHandler, conn, eventChan,
                 link, received, registeredAt, careless>>

Dispatch(k) ==
  StartDispatch(k) \/ Receive(k) \/ Snapshot(k) \/ CallHandler(k) \/ EndDispatch(k)

Next ==
  \/ SetAuthToken
  \/ Disconnect
  \/ \E h \in Handlers : OnEvent(h) \/ OnMessage(h)
  \/ \E k \in Links : \/ BeginConnect(k)
                      \/ FinishConnect(k)
                      \/ ConnectFails(k)
                      \/ Emit(k)
                      \/ StreamEnds(k)
                      \/ Dispatch(k)

(* The dispatching goroutines are scheduled and the handlers return; the   *)
(* service owes no event and the application no call.                      *)
Fairness == \A k \in Links : WF_vars(Dispatch(k))

Spec == Init /\ [][Next]_vars /\ Fairness

-----------------------------------------------------------------------------
(* Properties. *)

Wanted(h, t) == t # Heartbeat /\ HandlerType[h] \in {t, CatchAll}

\* The events of connection c that handler h was called with.
Got(h, c) ==
  {received[h][n].index : n \in {m \in DOMAIN received[h] : received[h][m].link = c}}

InOrder(h, c) ==
  \A m, n \in DOMAIN received[h] :
    m < n /\ received[h][m].link = c /\ received[h][n].link = c =>
      received[h][m].index < received[h][n].index

\* No other dispatcher has come to share the channel of dispatcher k.
Alone(k) == \A j \in Links : dispatcher[j].chan = dispatcher[k].chan => j = k

Installed(h) ==
  \/ h = messageHandler
  \/ registeredAt[h] # <<>> /\ HandlerType[h] # CatchAll

(* Exact delivery, as long as no two dispatchers share a channel: whenever *)
(* a dispatcher is between events, every installed handler has been called *)
(* with just the events of the connection that it wants, in order, without *)
(* gap or repetition, from the one after those received when it registered *)
(* (or that one itself, if it registered before the handlers of the event  *)
(* were looked up).                                                        *)
ExactDelivery ==
  \A h \in Handlers, k \in Links :
    Installed(h) /\ dispatcher[k].pc \in {"waiting", "ended"} /\ Alone(k) =>
      LET c == dispatcher[k].chan IN
      /\ \E from \in {registeredAt[h][c], registeredAt[h][c] + 1} :
           Got(h, c) =
             {i \in 1..link[c].read : i >= from /\ Wanted(h, link[c].log[i])}
      /\ InOrder(h, c)

(* Reconnecting never repeats an event to a handler, even while the        *)
(* dispatcher of the previous connection is still running or has come to   *)
(* share the new channel.                                                  *)
NoDuplicateDelivery ==
  \A h \in Handlers :
    \A i, j \in DOMAIN received[h] : received[h][i] = received[h][j] => i = j

(* An application that disconnects before it connects again leaks no       *)
(* connection: the only one that can be open is the one Disconnect closes. *)
NoOrphanConnection ==
  ~careless => \A k \in Links : link[k].state \in {"dialing", "open"} => k = conn

(* No goroutine stays behind: every dispatcher gets to read a channel, and *)
(* whatever it is doing when the connection of its channel ends, it goes   *)
(* through the events still buffered and ends too, also when it shares     *)
(* that channel with the dispatcher of a later Connect.                    *)
DispatchersEnd ==
  \A k \in Links :
    /\ (dispatcher[k].pc = "starting") ~> (dispatcher[k].chan # 0)
    /\ \A c \in Links :
         (dispatcher[k].chan = c /\ link[c].state = "closed") ~>
           (dispatcher[k].pc = "ended")

(* SetAuthToken promises that subsequent requests carry the new token      *)
(* (account.go:1105-1109, 1257-1260): the request of a Connect does.       *)
ConnectCarriesCurrentToken ==
  [][\A k \in Links :
       link[k].state = "unused" /\ link'[k].state = "dialing" =>
         link'[k].token = jwt]_vars
=============================================================================
