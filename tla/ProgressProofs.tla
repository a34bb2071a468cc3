--------------------------- MODULE ProgressProofs ---------------------------
(* Theorems about ProgressStreaming, for any requests, steps, clients,       *)
(* capacities and times to live.                                             *)
EXTENDS ProgressStreaming, SequenceTheorems, TLAPS

Row == [step : Nat, expires_at : 0 .. MaxClock + Ttl]
HandlerState == [step : Nat, at : {"record", "write", "send", "done", "failed"},
                 sampled : 0..MaxClock]
ClientState == [at : {"away", "get", "subscribe", "receive", "done"},
                sampled : 0..MaxClock, in_time : BOOLEAN]
Ring == [unread : Seq(Events), lagged : BOOLEAN]

TypeInv ==
    /\ now \in 0..MaxClock
    /\ stored \in [Requests -> Row]
    /\ shutdown \in [value : BOOLEAN, unseen : BOOLEAN, sender : BOOLEAN]
    /\ worker \in {"started", "waiting", "cleaning", "stopped"} /\ cutoff \in 0..now
    /\ queue \in Seq(Events)
    /\ Len(queue) <= SENDER_CAPACITY
    /\ receiver \in [Clients -> {Null} \cup Ring]
    /\ \A c \in Clients : receiver[c] # Null => Len(receiver[c].unread) <= BROADCAST_CAPACITY
    /\ handler \in [Requests -> HandlerState]
    /\ client \in [Clients -> ClientState]

(* The row of a request is its handler's last step or the one before, and    *)
(* was written with a clock no later than what the handler samples next.     *)
Follows(row, h, last, time) ==
    /\ h.step \in 1..last
    /\ h.sampled <= time
    /\ row.step <= h.step
    /\ row.expires_at <= time + Ttl
    /\ h.at = "write" => row.expires_at <= h.sampled + Ttl
    /\ h.at = "send" => row.step \in {0, h.step}
    /\ h.at = "done" => h.step = last /\ row.step \in {0, last}

RowsInv == \A r \in Requests : Follows(stored[r], handler[r], Steps[r], now)

(* Who receives has subscribed, and who did so in time misses nothing. *)
ClientsInv ==
    /\ \A c \in Clients : client[c].at = "receive" => receiver[c] # Null
    /\ SubscribersGetOutcome

IInv == TypeInv /\ RowsInv /\ ClientsInv

-----------------------------------------------------------------------------
(* Events, and where they are seen *)

LEMMA EventIsEvent ==
    /\ \A r \in Requests : \A step \in 1..Steps[r] : Event(r, step) \in Events
    /\ \A e \in Events :
        /\ e.request \in Requests /\ e.step \in 1..Steps[e.request]
        /\ e = Event(e.request, e.step)
    /\ Events \subseteq [request : Requests, step : Nat]
BY ProgressStreamingAssumption DEF Events, Event

LEMMA NullIsNoRing == Null \notin Ring
<1>1. Seq(Events) \subseteq Seq([request : Requests, step : Nat])
  BY EventIsEvent, SeqMonotonic
<1>. QED BY <1>1, ProgressStreamingAssumption DEF Ring

LEMMA SeenInConcat ==
    ASSUME NEW s \in Seq(Events), NEW t \in Seq(Events), NEW e
    PROVE  SeenIn(s \o t, e) <=> SeenIn(s, e) \/ SeenIn(t, e)
<1>1. /\ DOMAIN s = 1..Len(s) /\ DOMAIN t = 1..Len(t) /\ Len(s) \in Nat /\ Len(t) \in Nat
      /\ DOMAIN (s \o t) = 1 .. Len(s) + Len(t)
      /\ \A i \in 1 .. Len(s) + Len(t) :
            (s \o t)[i] = IF i <= Len(s) THEN s[i] ELSE t[i - Len(s)]
  BY ConcatProperties, LenProperties
<1>2. SeenIn(s \o t, e) => SeenIn(s, e) \/ SeenIn(t, e)
  BY <1>1 DEF SeenIn
<1>3. SeenIn(s, e) => SeenIn(s \o t, e)
  BY <1>1 DEF SeenIn
<1>4. ASSUME SeenIn(t, e) PROVE SeenIn(s \o t, e)
  <2>1. PICK i \in 1..Len(t) : t[i] = e
    BY <1>1, <1>4 DEF SeenIn
  <2>2. Len(s) + i \in 1 .. Len(s) + Len(t) /\ (s \o t)[Len(s) + i] = t[i]
    BY <1>1
  <2>. QED BY <1>1, <2>1, <2>2 DEF SeenIn
<1>. QED BY <1>2, <1>3, <1>4

LEMMA SeenInAppend ==
    ASSUME NEW s \in Seq(Events), NEW x \in Events, NEW e
    PROVE  SeenIn(Append(s, x), e) <=> SeenIn(s, e) \/ x = e
<1>1. /\ DOMAIN s = 1..Len(s) /\ Len(s) \in Nat
      /\ DOMAIN Append(s, x) = 1 .. Len(s) + 1
      /\ \A i \in 1..Len(s) : Append(s, x)[i] = s[i]
      /\ Append(s, x)[Len(s) + 1] = x
  BY AppendProperties, LenProperties
<1>. QED BY <1>1 DEF SeenIn

LEMMA SeenInTail ==
    ASSUME NEW s \in Seq(Events), s # <<>>, NEW e
    PROVE  SeenIn(s, e) => SeenIn(Tail(s), e) \/ Head(s) = e
<1>1. /\ DOMAIN s = 1..Len(s) /\ Len(s) \in Nat /\ s[1] = Head(s)
      /\ DOMAIN Tail(s) = 1 .. Len(s) - 1
      /\ \A i \in 1 .. Len(s) - 1 : Tail(s)[i] = s[i + 1]
  BY HeadTailProperties, LenProperties
<1>. SUFFICES ASSUME SeenIn(s, e), Head(s) # e
              PROVE  SeenIn(Tail(s), e)
  OBVIOUS
<1>2. PICK i \in 1..Len(s) : s[i] = e
  BY <1>1 DEF SeenIn
<1>3. i - 1 \in 1 .. Len(s) - 1 /\ Tail(s)[i - 1] = e
  BY <1>1, <1>2
<1>. QED BY <1>1, <1>3 DEF SeenIn

(* What a subscriber loses makes it lag. *)
LEMMA Delivered ==
    ASSUME NEW ring \in Ring, NEW event \in Events, Len(ring.unread) <= BROADCAST_CAPACITY
    PROVE  /\ Deliver(ring, event) \in Ring
           /\ Len(Deliver(ring, event).unread) <= BROADCAST_CAPACITY
           /\ ring.lagged => Deliver(ring, event).lagged
           /\ \A e : SeenIn(ring.unread, e) \/ event = e =>
                SeenIn(Deliver(ring, event).unread, e) \/ Deliver(ring, event).lagged
<1>. DEFINE unread == ring.unread
<1>1. unread \in Seq(Events) /\ Len(unread) \in Nat /\ BROADCAST_CAPACITY \in Nat \ {0}
      /\ ring = [unread |-> unread, lagged |-> ring.lagged] /\ ring.lagged \in BOOLEAN
  BY StreamBroadcastAssumption, LenProperties DEF Ring
<1>2. CASE Len(unread) < BROADCAST_CAPACITY
  <2>1. Deliver(ring, event) = [unread |-> Append(unread, event), lagged |-> ring.lagged]
    BY <1>1, <1>2 DEF Deliver
  <2>2. Append(unread, event) \in Seq(Events) /\ Len(Append(unread, event)) = Len(unread) + 1
    BY <1>1, AppendProperties
  <2>3. \A e : SeenIn(unread, e) \/ event = e => SeenIn(Append(unread, event), e)
    BY <1>1, SeenInAppend
  <2>. QED BY <1>1, <1>2, <2>1, <2>2, <2>3 DEF Ring
<1>3. CASE ~(Len(unread) < BROADCAST_CAPACITY)
  <2>1. Deliver(ring, event) = [unread |-> Append(Tail(unread), event), lagged |-> TRUE]
    BY <1>3 DEF Deliver
  <2>2. unread # <<>> /\ Len(unread) = BROADCAST_CAPACITY
    BY <1>1, <1>3, EmptySeq
  <2>3. Tail(unread) \in Seq(Events) /\ Len(Tail(unread)) = Len(unread) - 1
    BY <1>1, <2>2, HeadTailProperties
  <2>4. Append(Tail(unread), event) \in Seq(Events)
        /\ Len(Append(Tail(unread), event)) = Len(Tail(unread)) + 1
    BY <2>3, AppendProperties
  <2>. QED BY <1>1, <2>1, <2>2, <2>3, <2>4 DEF Ring
<1>. QED BY <1>2, <1>3

-----------------------------------------------------------------------------
(* Types *)

LEMMA TypeInit == Init => TypeInv
<1>. SUFFICES ASSUME Init PROVE TypeInv
  OBVIOUS
<1>1. now \in 0..MaxClock /\ cutoff \in 0..now /\ MaxClock \in Nat /\ Ttl \in Nat
  BY NotificationsStoreAssumption DEF Init, InitStore
<1>2. stored \in [Requests -> Row]
  BY <1>1 DEF Init, InitStore, NoRow, Row
<1>3. handler \in [Requests -> HandlerState] /\ client \in [Clients -> ClientState]
  BY <1>1 DEF Init, HandlerState, ClientState
<1>4. queue \in Seq(Events) /\ Len(queue) <= SENDER_CAPACITY
  BY StreamBroadcastAssumption, EmptySeq DEF Init, InitBroadcast
<1>5. receiver \in [Clients -> {Null} \cup Ring] /\ \A c \in Clients : receiver[c] = Null
  BY DEF Init, InitBroadcast, Clients
<1>. QED BY <1>1, <1>2, <1>3, <1>4, <1>5 DEF TypeInv, Init, InitStore

LEMMA StoreTypes ==
    ASSUME TypeInv, StoreStep, UNCHANGED <<broadcastVars, handler, client>>
    PROVE  TypeInv'
<1>. USE DEF TypeInv, broadcastVars, workerVars
<1>0. MaxClock \in Nat /\ now \in Nat
  BY NotificationsStoreAssumption
<1>1. CASE Tick
  BY <1>0, <1>1 DEF Tick
<1>2. CASE SignalShutdown \/ DropSender
  BY <1>2 DEF SignalShutdown, DropSender
<1>3. CASE WorkerBegins \/ WorkerIsNotified
  <2>1. Dropped \in [value : BOOLEAN, unseen : BOOLEAN, sender : BOOLEAN]
        /\ [shutdown EXCEPT !.unseen = FALSE] \in [value : BOOLEAN, unseen : BOOLEAN, sender : BOOLEAN]
    BY DEF Dropped
  <2>2. /\ worker' \in {"waiting", "stopped"}
        /\ shutdown' \in {Dropped, shutdown, [shutdown EXCEPT !.unseen = FALSE]}
        /\ UNCHANGED <<now, stored, cutoff>>
    BY <1>3, Zenon DEF WorkerBegins, WorkerIsNotified, StopsOrWaits
  <2>. QED BY <2>1, <2>2
<1>4. CASE WorkerCleansUp
  <2>1. NoRow \in Row
    BY NotificationsStoreAssumption DEF NoRow, Row
  <2>2. stored' \in [Requests -> Row]
    BY <1>4, <2>1 DEF WorkerCleansUp, Cleanup
  <2>. QED BY <1>0, <1>4, <2>2 DEF WorkerCleansUp
<1>5. CASE WorkerTicks \/ CleanupFails
  BY <1>0, <1>5 DEF WorkerTicks, CleanupFails, AfterFailure
<1>. QED BY <1>1, <1>2, <1>3, <1>4, <1>5 DEF StoreStep

LEMMA QueueTurns ==
    ASSUME TypeInv, BroadcastNext
    PROVE  /\ Head(queue) \in Events
           /\ queue' \in Seq(Events) /\ Len(queue') <= SENDER_CAPACITY
           /\ \A e : SeenIn(queue, e) => SeenIn(queue', e) \/ Head(queue) = e
<1>1. queue \in Seq(Events) /\ queue # <<>> /\ queue' = Tail(queue)
  BY DEF TypeInv, BroadcastNext
<1>2. Len(queue) \in Nat /\ SENDER_CAPACITY \in Nat /\ Len(queue) <= SENDER_CAPACITY
  BY <1>1, LenProperties, StreamBroadcastAssumption DEF TypeInv
<1>. QED BY <1>1, <1>2, HeadTailProperties, SeenInTail

LEMMA BroadcastTypes ==
    ASSUME TypeInv, BroadcastNext, UNCHANGED <<storeVars, handler, client>>
    PROVE  TypeInv'
<1>1. ASSUME NEW c \in Clients
      PROVE  /\ receiver'[c] \in {Null} \cup Ring
             /\ receiver'[c] # Null => Len(receiver'[c].unread) <= BROADCAST_CAPACITY
  <2>1. CASE receiver[c] = Null
    BY <2>1 DEF BroadcastNext, Clients
  <2>2. CASE receiver[c] # Null
    BY <2>2, QueueTurns, Delivered DEF BroadcastNext, Clients, TypeInv
  <2>. QED BY <2>1, <2>2
<1>2. receiver' \in [Clients -> {Null} \cup Ring]
  BY <1>1 DEF BroadcastNext, Clients
<1>. QED BY <1>1, <1>2, QueueTurns DEF TypeInv, storeVars, workerVars

(* What the steps of a handler make of it, of the store and of the queue.    *)
HandlerMove(r, h) ==
    \/ /\ handler[r].at = "record"
       /\ h = [handler[r] EXCEPT !.at = "write", !.sampled = now]
       /\ UNCHANGED <<stored, queue>>
    \/ /\ handler[r].at = "write"
       /\ h = [handler[r] EXCEPT !.at = "send", !.sampled = 0]
       /\ stored' = [stored EXCEPT ![r] =
            [step |-> handler[r].step, expires_at |-> handler[r].sampled + Ttl]]
       /\ UNCHANGED queue
    \/ /\ handler[r].at = "send"
       /\ handler[r].step # Steps[r]
       /\ h = [handler[r] EXCEPT !.at = "record", !.step = handler[r].step + 1]
       /\ UNCHANGED stored
       /\ \/ Len(queue) < SENDER_CAPACITY /\ queue' = Append(queue, Event(r, handler[r].step))
          \/ UNCHANGED queue
    \/ /\ handler[r].at = "send"
       /\ handler[r].step = Steps[r]
       /\ h = [handler[r] EXCEPT !.at = "done"]
       /\ UNCHANGED stored
       /\ Len(queue) < SENDER_CAPACITY /\ queue' = Append(queue, Event(r, handler[r].step))
    \/ /\ h = [handler[r] EXCEPT !.at = "failed", !.sampled = 0]
       /\ UNCHANGED <<stored, queue>>

LEMMA HandlerMoves ==
    ASSUME TypeInv, NEW r \in Requests,
           SamplesClock(r) \/ Records(r) \/ Sends(r) \/ HandlerFails(r)
    PROVE  \E h \in HandlerState :
            /\ handler' = [handler EXCEPT ![r] = h]
            /\ HandlerMove(r, h)
            /\ UNCHANGED <<now, shutdown, workerVars, receiver, client>>
<1>1. handler[r] \in HandlerState /\ handler[r].step + 1 \in Nat
      /\ now \in 0..MaxClock /\ 0 \in 0..MaxClock
  BY NotificationsStoreAssumption DEF TypeInv, HandlerState
<1>2. CASE SamplesClock(r)
  <2>. DEFINE h == [handler[r] EXCEPT !.at = "write", !.sampled = now]
  <2>1. h \in HandlerState
    BY <1>1 DEF HandlerState
  <2>2. handler' = [handler EXCEPT ![r] = h]
    BY <1>2, Zenon DEF SamplesClock
  <2>. QED BY <1>2, <2>1, <2>2 DEF HandlerMove, SamplesClock, storeVars, broadcastVars
<1>3. CASE Records(r)
  <2>. DEFINE h == [handler[r] EXCEPT !.at = "send", !.sampled = 0]
  <2>1. h \in HandlerState
    BY <1>1 DEF HandlerState
  <2>2. handler' = [handler EXCEPT ![r] = h]
    BY <1>3, Zenon DEF Records
  <2>. QED BY <1>3, <2>1, <2>2 DEF HandlerMove, Records, Record, broadcastVars
<1>4. CASE Sends(r) /\ IsTerminal(r, handler[r].step)
  <2>. DEFINE h == [handler[r] EXCEPT !.at = "done"]
  <2>1. h \in HandlerState
    BY <1>1 DEF HandlerState
  <2>2. handler' = [handler EXCEPT ![r] = h]
    BY <1>4, Zenon DEF Sends
  <2>. QED BY <1>4, <2>1, <2>2 DEF HandlerMove, Sends, SendEvent, StepMayBeLost, IsTerminal, storeVars
<1>5. CASE Sends(r) /\ ~IsTerminal(r, handler[r].step)
  <2>. DEFINE h == [handler[r] EXCEPT !.at = "record", !.step = handler[r].step + 1]
  <2>1. h \in HandlerState
    BY <1>1 DEF HandlerState
  <2>2. handler' = [handler EXCEPT ![r] = h]
    BY <1>5 DEF Sends
  <2>. QED BY <1>5, <2>1, <2>2
           DEF HandlerMove, Sends, SendEvent, TrySendEvent, IsTerminal, storeVars, broadcastVars
<1>6. CASE HandlerFails(r)
  <2>. DEFINE h == [handler[r] EXCEPT !.at = "failed", !.sampled = 0]
  <2>1. h \in HandlerState
    BY <1>1 DEF HandlerState
  <2>2. handler' = [handler EXCEPT ![r] = h]
    BY <1>6, Zenon DEF HandlerFails
  <2>. QED BY <1>6, <2>1, <2>2 DEF HandlerMove, HandlerFails, storeVars, broadcastVars
<1>. QED BY <1>2, <1>3, <1>4, <1>5, <1>6

LEMMA HandlerTypes ==
    ASSUME TypeInv, RowsInv, NEW r \in Requests,
           SamplesClock(r) \/ Records(r) \/ Sends(r) \/ HandlerFails(r)
    PROVE  TypeInv'
<1>1. handler' \in [Requests -> HandlerState]
  BY HandlerMoves DEF TypeInv
<1>2. UNCHANGED <<now, shutdown, workerVars, receiver, client>>
  BY HandlerMoves
<1>3. handler[r].step \in 1..Steps[r] /\ Event(r, handler[r].step) \in Events
  BY EventIsEvent DEF RowsInv, Follows
<1>4. stored' \in [Requests -> Row]
  <2>1. handler[r].step \in Nat /\ handler[r].sampled \in 0..MaxClock
    BY DEF TypeInv, HandlerState
  <2>2. [step |-> handler[r].step, expires_at |-> handler[r].sampled + Ttl] \in Row
    BY <2>1, NotificationsStoreAssumption DEF Row
  <2>3. stored \in [Requests -> Row]
    BY DEF TypeInv
  <2>4. \/ UNCHANGED stored
        \/ stored' = [stored EXCEPT ![r] =
                [step |-> handler[r].step, expires_at |-> handler[r].sampled + Ttl]]
    BY HandlerMoves DEF HandlerMove
  <2>. QED BY <2>2, <2>3, <2>4
<1>5. queue' \in Seq(Events) /\ Len(queue') <= SENDER_CAPACITY
  <2>1. queue \in Seq(Events) /\ Len(queue) \in Nat /\ SENDER_CAPACITY \in Nat
        /\ Len(queue) <= SENDER_CAPACITY
    BY LenProperties, StreamBroadcastAssumption DEF TypeInv
  <2>2. \/ UNCHANGED queue
        \/ Len(queue) < SENDER_CAPACITY /\ queue' = Append(queue, Event(r, handler[r].step))
    BY HandlerMoves DEF HandlerMove
  <2>3. Append(queue, Event(r, handler[r].step)) \in Seq(Events)
        /\ Len(Append(queue, Event(r, handler[r].step))) = Len(queue) + 1
    BY <1>3, <2>1, AppendProperties
  <2>. QED BY <2>1, <2>2, <2>3
<1>. QED BY <1>1, <1>2, <1>4, <1>5 DEF TypeInv, workerVars

(* A client has a ring of its own, and a step of it changes nothing else.    *)
LEMMA ClientMoves ==
    ASSUME TypeInv, NEW c \in Clients, ClientStep(c) \/ Disconnects(c)
    PROVE  /\ UNCHANGED <<storeVars, handler, queue>>
           /\ client' \in [Clients -> ClientState]
           /\ \A d \in Clients \ {c} : receiver'[d] = receiver[d] /\ client'[d] = client[d]
<1>1. \A x \in ClientState : client' = [client EXCEPT ![c] = x] =>
        /\ client' \in [Clients -> ClientState]
        /\ \A d \in Clients \ {c} : client'[d] = client[d]
  BY DEF TypeInv
<1>2. \A step \in {"away", "subscribe", "done"} : ClientGoes(c, step) =>
        /\ client' \in [Clients -> ClientState]
        /\ \A d \in Clients \ {c} : client'[d] = client[d]
  <2>1. 0 \in 0..MaxClock
    BY NotificationsStoreAssumption
  <2>. QED BY <1>1, <2>1 DEF ClientGoes, ClientState
<1>3. Subscribe(c) \/ Unsubscribe(c) \/ ReadOn(c) \/ UNCHANGED broadcastVars =>
        UNCHANGED queue /\ \A d \in Clients \ {c} : receiver'[d] = receiver[d]
  BY DEF Subscribe, Unsubscribe, ReadOn, TypeInv, broadcastVars
<1>4. CASE Connects(c)
  <2>. DEFINE x == [client[c] EXCEPT !.at = "get", !.sampled = now]
  <2>1. x \in ClientState
    BY DEF TypeInv, ClientState
  <2>2. client' = [client EXCEPT ![c] = x]
    BY <1>4, Zenon DEF Connects
  <2>. QED BY <1>1, <1>3, <1>4, <2>1, <2>2 DEF Connects
<1>5. CASE Subscribes(c)
  <2>. DEFINE x == [client[c] EXCEPT !.at = "receive", !.in_time = ~OutcomeIsOut(ClientRequest[c])]
  <2>1. (~OutcomeIsOut(ClientRequest[c])) \in BOOLEAN
    BY DEF OutcomeIsOut
  <2>2. x \in ClientState
    BY <2>1 DEF TypeInv, ClientState
  <2>3. client' = [client EXCEPT ![c] = x]
    BY <1>5, Zenon DEF Subscribes
  <2>. QED BY <1>1, <1>3, <1>5, <2>2, <2>3 DEF Subscribes
<1>6. CASE LooksUp(c)
  <2>1. \E step \in {"subscribe", "done"} : ClientGoes(c, step)
    BY <1>6 DEF LooksUp
  <2>. QED BY <1>2, <1>3, <1>6, <2>1 DEF LooksUp
<1>7. CASE ReceivesEvent(c)
  BY <1>2, <1>3, <1>7 DEF ReceivesEvent, TypeInv
<1>8. CASE Disconnects(c) \/ EndsOnLag(c)
  BY <1>2, <1>3, <1>8 DEF Disconnects, EndsOnLag
<1>. QED BY <1>4, <1>5, <1>6, <1>7, <1>8 DEF ClientStep

LEMMA ClientTypes ==
    ASSUME TypeInv, ClientsInv, NEW c \in Clients, ClientStep(c) \/ Disconnects(c)
    PROVE  TypeInv'
<1>1. \/ UNCHANGED receiver
      \/ receiver' = [receiver EXCEPT ![c] = [unread |-> <<>>, lagged |-> FALSE]]
      \/ receiver' = [receiver EXCEPT ![c] = Null]
      \/ /\ client[c].at = "receive"
         /\ receiver[c].unread # <<>>
         /\ receiver' = [receiver EXCEPT ![c].unread = Tail(@)]
  BY DEF ClientStep, Connects, Subscribes, LooksUp, ReceivesEvent, EndsOnLag, Disconnects,
         Subscribe, Unsubscribe, Receives, ReadOn, broadcastVars
<1>2. [unread |-> <<>>, lagged |-> FALSE] \in Ring /\ Len(<<>>) <= BROADCAST_CAPACITY
  BY EmptySeq, StreamBroadcastAssumption DEF Ring
<1>3. /\ receiver' \in [Clients -> {Null} \cup Ring]
      /\ \A d \in Clients : receiver'[d] # Null => Len(receiver'[d].unread) <= BROADCAST_CAPACITY
  <2>1. CASE UNCHANGED receiver
    BY <2>1 DEF TypeInv
  <2>2. CASE receiver' = [receiver EXCEPT ![c] = [unread |-> <<>>, lagged |-> FALSE]]
    BY <1>2, <2>2 DEF TypeInv
  <2>3. CASE receiver' = [receiver EXCEPT ![c] = Null]
    BY <2>3 DEF TypeInv
  <2>4. CASE /\ client[c].at = "receive"
             /\ receiver[c].unread # <<>>
             /\ receiver' = [receiver EXCEPT ![c].unread = Tail(@)]
    <3>. DEFINE unread == receiver[c].unread
                ring == [receiver[c] EXCEPT !.unread = Tail(unread)]
    <3>1. receiver[c] \in Ring /\ Len(unread) <= BROADCAST_CAPACITY
      BY <2>4 DEF TypeInv, ClientsInv
    <3>2. unread \in Seq(Events) /\ Len(unread) \in Nat /\ BROADCAST_CAPACITY \in Nat
      BY <3>1, LenProperties, StreamBroadcastAssumption DEF Ring
    <3>3. Tail(unread) \in Seq(Events) /\ Len(Tail(unread)) = Len(unread) - 1
      BY <2>4, <3>2, HeadTailProperties
    <3>4. ring \in Ring /\ Len(ring.unread) <= BROADCAST_CAPACITY
      BY <3>1, <3>2, <3>3 DEF Ring
    <3>5. receiver' = [receiver EXCEPT ![c] = ring]
      BY <2>4, Zenon
    <3>. QED BY <3>4, <3>5 DEF TypeInv
  <2>. QED BY <1>1, <2>1, <2>2, <2>3, <2>4
<1>. QED BY <1>3, ClientMoves DEF TypeInv, storeVars, workerVars

LEMMA TypeStep == IInv /\ [Next]_vars => TypeInv'
<1>1. CASE UNCHANGED vars
  BY <1>1 DEF vars, storeVars, workerVars, broadcastVars, IInv, TypeInv
<1>. QED BY <1>1, StoreTypes, BroadcastTypes, HandlerTypes, ClientTypes DEF Next, IInv

-----------------------------------------------------------------------------
(* Rows *)

LEMMA RowsInit == Init => RowsInv
<1>. SUFFICES ASSUME Init, NEW r \in Requests
              PROVE  Follows(stored[r], handler[r], Steps[r], now)
  BY DEF RowsInv
<1>1. /\ now = 0 /\ stored[r] = [step |-> 0, expires_at |-> 0]
      /\ handler[r] = [step |-> 1, at |-> "record", sampled |-> 0]
      /\ Steps[r] \in Nat \ {0} /\ Ttl \in Nat
  BY ProgressStreamingAssumption, NotificationsStoreAssumption DEF Init, InitStore, NoRow
<1>. QED BY <1>1 DEF Follows

(* Cleanup and time take only what is followed anyway. *)
LEMMA FollowsStill ==
    ASSUME NEW row \in Row, NEW h \in HandlerState, NEW last \in Nat, NEW time \in Nat,
           NEW later \in Nat, time <= later, Follows(row, h, last, time)
    PROVE  Follows(row, h, last, later) /\ Follows(NoRow, h, last, later)
BY NotificationsStoreAssumption DEF Follows, Row, HandlerState, NoRow

LEMMA StoreRows ==
    ASSUME TypeInv, RowsInv, StoreStep, UNCHANGED handler
    PROVE  RowsInv'
<1>. SUFFICES ASSUME NEW r \in Requests
              PROVE  Follows(stored'[r], handler'[r], Steps[r], now')
  BY DEF RowsInv
<1>0. now' \in {now, now + 1}
  BY DEF StoreStep, Tick, SignalShutdown, DropSender, WorkerBegins, WorkerIsNotified, WorkerTicks,
         WorkerCleansUp, CleanupFails
<1>1. now \in Nat /\ now' \in Nat /\ now <= now'
  BY <1>0, NotificationsStoreAssumption DEF TypeInv
<1>2. stored'[r] \in {stored[r], NoRow}
  BY DEF StoreStep, Tick, SignalShutdown, DropSender, WorkerBegins, WorkerIsNotified, WorkerTicks,
         WorkerCleansUp, CleanupFails, Cleanup, TypeInv
<1>3. stored[r] \in Row /\ handler[r] \in HandlerState /\ Steps[r] \in Nat
  BY ProgressStreamingAssumption DEF TypeInv
<1>4. Follows(stored[r], handler[r], Steps[r], now)
  BY DEF RowsInv
<1>. QED BY <1>1, <1>2, <1>3, <1>4, FollowsStill

LEMMA HandlerRows ==
    ASSUME TypeInv, RowsInv, NEW r \in Requests,
           SamplesClock(r) \/ Records(r) \/ Sends(r) \/ HandlerFails(r)
    PROVE  RowsInv'
<1>. SUFFICES ASSUME NEW q \in Requests
              PROVE  Follows(stored'[q], handler'[q], Steps[q], now')
  BY DEF RowsInv
<1>1. /\ stored[q] \in Row /\ handler[q] \in HandlerState
      /\ Steps[q] \in Nat \ {0} /\ now \in Nat /\ Ttl \in Nat
      /\ handler \in [Requests -> HandlerState] /\ stored \in [Requests -> Row]
  BY ProgressStreamingAssumption, NotificationsStoreAssumption DEF TypeInv
<1>2. Follows(stored[q], handler[q], Steps[q], now)
  BY DEF RowsInv
<1>3. CASE q # r
  <2>1. handler'[q] = handler[q] /\ stored'[q] = stored[q] /\ now' = now
    BY <1>1, <1>3, HandlerMoves DEF HandlerMove
  <2>. QED BY <1>2, <2>1
<1>4. CASE q = r
  <2>1. PICK h \in HandlerState :
            handler' = [handler EXCEPT ![r] = h] /\ HandlerMove(r, h) /\ now' = now
    BY HandlerMoves
  <2>2. handler'[r] = h
    BY <1>1, <2>1
  <2>0. ASSUME h = [handler[r] EXCEPT !.at = "record", !.step = handler[r].step + 1]
        PROVE  h.at = "record" /\ h.step = handler[r].step + 1 /\ h.sampled = handler[r].sampled
    BY <1>1, <2>0 DEF HandlerState
  <2>8. /\ handler[r].step # Steps[r] => handler[r].step + 1 \in 1..Steps[r]
        /\ stored[r].step <= handler[r].step + 1
    <3>1. handler[q].step \in 1..Steps[q] /\ stored[q].step <= handler[q].step
      BY <1>2 DEF Follows
    <3>2. stored[q].step \in Nat
      BY <1>1 DEF Row
    <3>. QED BY <1>1, <1>4, <3>1, <3>2
  <2>. USE <1>1, <1>2, <1>4, <2>1, <2>2 DEF Follows, HandlerState, Row
  <2>3. CASE h = [handler[r] EXCEPT !.at = "write", !.sampled = now] /\ UNCHANGED stored
    BY <2>3
  <2>4. CASE /\ handler[r].at = "write"
             /\ h = [handler[r] EXCEPT !.at = "send", !.sampled = 0]
             /\ stored' = [stored EXCEPT ![r] =
                    [step |-> handler[r].step, expires_at |-> handler[r].sampled + Ttl]]
    <3>1. stored'[r] = [step |-> handler[r].step, expires_at |-> handler[r].sampled + Ttl]
      BY <2>4
    <3>. QED BY <2>4, <3>1
  <2>5. CASE /\ handler[r].step # Steps[r]
             /\ h = [handler[r] EXCEPT !.at = "record", !.step = handler[r].step + 1]
             /\ UNCHANGED stored
    <3>1. h.at = "record" /\ h.step = handler[r].step + 1 /\ h.sampled = handler[r].sampled
      BY <2>0, <2>5
    <3>2. h.step \in 1..Steps[r] /\ stored'[r].step <= h.step
      BY <2>5, <2>8, <3>1
    <3>. QED BY <2>5, <3>1, <3>2
  <2>6. CASE /\ handler[r].at = "send" /\ handler[r].step = Steps[r]
             /\ h = [handler[r] EXCEPT !.at = "done"]
             /\ UNCHANGED stored
    BY <2>6
  <2>7. CASE h = [handler[r] EXCEPT !.at = "failed", !.sampled = 0] /\ UNCHANGED stored
    BY <2>7
  <2>. QED BY <2>1, <2>3, <2>4, <2>5, <2>6, <2>7 DEF HandlerMove
<1>. QED BY <1>3, <1>4

LEMMA RowsStep == IInv /\ [Next]_vars => RowsInv'
<1>. SUFFICES ASSUME IInv, [Next]_vars PROVE RowsInv'
  OBVIOUS
<1>1. CASE UNCHANGED <<now, stored, handler>>
  BY <1>1 DEF IInv, RowsInv
<1>2. ASSUME NEW c \in Clients, ClientStep(c) \/ Disconnects(c)
      PROVE  UNCHANGED <<now, stored, handler>>
  BY <1>2, ClientMoves DEF IInv, storeVars
<1>. QED BY <1>1, <1>2, StoreRows, HandlerRows DEF IInv, Next, vars, storeVars

-----------------------------------------------------------------------------
(* Clients *)

LEMMA ClientsInit == Init => ClientsInv
BY DEF Init, ClientsInv, SubscribersGetOutcome, Clients

(* SubscribersGetOutcome, for one client and apart from the state.           *)
Informed(c, h, sent, ring) ==
    LET r == ClientRequest[c] IN
    \/ h.at # "done"
    \/ SeenIn(sent, Outcome(r))
    \/ SeenIn(ring.unread, Outcome(r))
    \/ ring.lagged

(* Who was in time and waits now. *)
InTime(x) == x.at = "receive" /\ x.in_time

LEMMA InformedClients ==
    ASSUME TypeInv, \A c \in Clients : client[c].at = "receive" => receiver[c] # Null
    PROVE  SubscribersGetOutcome <=>
            \A c \in Clients : InTime(client[c]) =>
                Informed(c, handler[ClientRequest[c]], queue, receiver[c])
<1>. SUFFICES ASSUME NEW c \in Clients, InTime(client[c]), NEW e
              PROVE  SeenIn(queue \o receiver[c].unread, e)
                        <=> SeenIn(queue, e) \/ SeenIn(receiver[c].unread, e)
  BY DEF SubscribersGetOutcome, OutcomeAwaits, Informed, InTime
<1>. QED BY SeenInConcat DEF TypeInv, Ring, InTime

LEMMA InformedClientsNext ==
    ASSUME TypeInv', \A c \in Clients : client'[c].at = "receive" => receiver'[c] # Null
    PROVE  SubscribersGetOutcome' <=>
            \A c \in Clients : InTime(client'[c]) =>
                Informed(c, handler'[ClientRequest[c]], queue', receiver'[c])
<1>. SUFFICES ASSUME NEW c \in Clients, InTime(client'[c]), NEW e
              PROVE  SeenIn(queue' \o receiver'[c].unread, e)
                        <=> SeenIn(queue', e) \/ SeenIn(receiver'[c].unread, e)
  BY DEF SubscribersGetOutcome, OutcomeAwaits, Informed, InTime
<1>. QED BY SeenInConcat DEF TypeInv, Ring, InTime

(* What each step has to show. *)
ClientKept(c) ==
    /\ client'[c].at = "receive" => receiver'[c] # Null
    /\ InTime(client'[c]) => Informed(c, handler'[ClientRequest[c]], queue', receiver'[c])

LEMMA ClientsKept ==
    ASSUME TypeInv', \A c \in Clients : ClientKept(c)
    PROVE  ClientsInv'
BY InformedClientsNext DEF ClientsInv, ClientKept

LEMMA ClientNow ==
    ASSUME TypeInv, ClientsInv, NEW c \in Clients
    PROVE  /\ client[c].at = "receive" => receiver[c] \in Ring
           /\ InTime(client[c]) => Informed(c, handler[ClientRequest[c]], queue, receiver[c])
BY InformedClients DEF ClientsInv, TypeInv

LEMMA BroadcastClients ==
    ASSUME TypeInv, ClientsInv, BroadcastNext, UNCHANGED <<storeVars, handler, client>>,
           NEW c \in Clients
    PROVE  ClientKept(c)
<1>1. CASE receiver[c] = Null
  BY <1>1 DEF ClientsInv, ClientKept, InTime, BroadcastNext, Clients
<1>2. CASE receiver[c] # Null
  <2>1. receiver[c] \in Ring /\ Len(receiver[c].unread) <= BROADCAST_CAPACITY
    BY <1>2 DEF TypeInv
  <2>2. receiver'[c] = Deliver(receiver[c], Head(queue)) /\ receiver'[c] \in Ring
    BY <1>2, <2>1, QueueTurns, Delivered DEF BroadcastNext, Clients
  <2>3. receiver'[c] # Null
    BY <2>2, NullIsNoRing
  <2>. DEFINE e == Outcome(ClientRequest[c])
  <2>4. /\ SeenIn(queue, e) => SeenIn(queue', e) \/ Head(queue) = e
        /\ receiver[c].lagged => receiver'[c].lagged
        /\ SeenIn(receiver[c].unread, e) \/ Head(queue) = e =>
              SeenIn(receiver'[c].unread, e) \/ receiver'[c].lagged
    BY <2>1, <2>2, QueueTurns, Delivered
  <2>. QED BY <2>3, <2>4, ClientNow DEF ClientKept, Informed
<1>. QED BY <1>1, <1>2

LEMMA HandlerClients ==
    ASSUME IInv, NEW r \in Requests, NEW c \in Clients,
           SamplesClock(r) \/ Records(r) \/ Sends(r) \/ HandlerFails(r)
    PROVE  ClientKept(c)
<1>. DEFINE q == ClientRequest[c]
            e == Outcome(q)
<1>1. q \in Requests /\ UNCHANGED <<receiver, client>>
  BY HandlerMoves, ProgressStreamingAssumption DEF IInv
<1>2. queue \in Seq(Events) /\ Event(r, handler[r].step) \in Events
  BY EventIsEvent DEF IInv, TypeInv, RowsInv, Follows
<1>3. SeenIn(queue, e) => SeenIn(queue', e)
  <2>1. \/ UNCHANGED queue
        \/ queue' = Append(queue, Event(r, handler[r].step))
    BY HandlerMoves DEF HandlerMove, IInv
  <2>2. SeenIn(queue, e) => SeenIn(Append(queue, Event(r, handler[r].step)), e)
    BY <1>2, SeenInAppend
  <2>. QED BY <2>1, <2>2
<1>4. handler'[q].at = "done" => handler[q].at = "done" \/ SeenIn(queue', e)
  <2>1. CASE q # r
    BY <1>1, <2>1, HandlerMoves DEF IInv, TypeInv
  <2>2. CASE q = r
    <3>1. PICK h \in HandlerState : handler' = [handler EXCEPT ![r] = h] /\ HandlerMove(r, h)
      BY HandlerMoves DEF IInv
    <3>2. handler'[r] = h /\ handler[r] \in HandlerState
      BY <3>1 DEF IInv, TypeInv
    <3>3. h.at = "done" => queue' = Append(queue, Event(r, Steps[r]))
      BY <3>1, <3>2 DEF HandlerMove, HandlerState
    <3>4. Event(r, Steps[r]) \in Events /\ Outcome(r) = Event(r, Steps[r])
      BY EventIsEvent, ProgressStreamingAssumption DEF Outcome
    <3>5. SeenIn(Append(queue, Event(r, Steps[r])), Event(r, Steps[r]))
      BY <1>2, <3>4, SeenInAppend
    <3>. QED BY <2>2, <3>2, <3>3, <3>4, <3>5
  <2>. QED BY <2>1, <2>2
<1>. QED BY <1>1, <1>3, <1>4, ClientNow DEF ClientKept, Informed, IInv, ClientsInv

LEMMA ClientClients ==
    ASSUME IInv, NEW c \in Clients, ClientStep(c) \/ Disconnects(c), NEW d \in Clients
    PROVE  ClientKept(d)
<1>. USE DEF IInv
<1>0. client \in [Clients -> ClientState]
      /\ receiver \in [Clients -> {Null} \cup Ring]
      /\ ClientRequest[c] \in Requests
  BY ProgressStreamingAssumption DEF TypeInv
<1>1. CASE d # c
  BY <1>1, ClientMoves, ClientNow DEF ClientKept, ClientsInv
<1>2. CASE d = c
  <2>1. CASE client'[c].at # "receive"
    BY <1>2, <2>1 DEF ClientKept, InTime
  <2>2. CASE Connects(c) \/ LooksUp(c) \/ Disconnects(c) \/ EndsOnLag(c)
    <3>1. client'[c].at \in {"get", "done", "subscribe", "away"}
      BY <1>0, <2>2 DEF Connects, LooksUp, Disconnects, EndsOnLag, ClientGoes, ClientState
    <3>. QED BY <2>1, <3>1
  <2>3. CASE Subscribes(c)
    <3>1. [unread |-> <<>>, lagged |-> FALSE] \in Ring
      BY EmptySeq DEF Ring
    <3>2. receiver'[c] = [unread |-> <<>>, lagged |-> FALSE] /\ receiver'[c] # Null
      BY <1>0, <2>3, <3>1, NullIsNoRing DEF Subscribes, Subscribe
    <3>3. client'[c].in_time = ~OutcomeIsOut(ClientRequest[c]) /\ UNCHANGED <<handler, queue>>
      BY <1>0, <2>3 DEF Subscribes, Subscribe, ClientState
    <3>. QED BY <1>2, <3>2, <3>3 DEF ClientKept, InTime, Informed, OutcomeIsOut
  <2>4. CASE ReceivesEvent(c)
    <3>1. PICK e \in Events :
            /\ Receives(c, e)
            /\ \/ ClientGoes(c, "done")
               \/ /\ e.request # ClientRequest[c] \/ ~IsTerminal(e.request, e.step)
                  /\ ReadOn(c)
                  /\ UNCHANGED client
      BY <2>4 DEF ReceivesEvent
    <3>2. CASE ClientGoes(c, "done")
      BY <1>0, <2>1, <3>2 DEF ClientGoes
    <3>3. CASE (e.request # ClientRequest[c] \/ ~IsTerminal(e.request, e.step))
               /\ ReadOn(c) /\ UNCHANGED client
      <4>. DEFINE unread == receiver[c].unread
                  ring == [receiver[c] EXCEPT !.unread = Tail(unread)]
      <4>1. /\ receiver[c] \in Ring
            /\ InTime(client[c]) => Informed(c, handler[ClientRequest[c]], queue, receiver[c])
        BY <2>4, ClientNow DEF ReceivesEvent
      <4>2. unread \in Seq(Events) /\ unread # <<>> /\ Head(unread) = e
        BY <3>1, <4>1 DEF Receives, Ring
      <4>3. e # Outcome(ClientRequest[c])
        BY <3>3 DEF Outcome, Event, IsTerminal
      <4>4. receiver' = [receiver EXCEPT ![c] = ring]
        BY <3>3, Zenon DEF ReadOn
      <4>5. receiver'[c] = ring /\ ring \in Ring /\ ring.unread = Tail(unread)
            /\ ring.lagged = receiver[c].lagged
        BY <1>0, <4>1, <4>2, <4>4, HeadTailProperties DEF Ring
      <4>6. UNCHANGED <<queue, handler>>
        BY <2>4, <3>3 DEF ReadOn, ReceivesEvent
      <4>7. SeenIn(unread, Outcome(ClientRequest[c])) =>
                SeenIn(Tail(unread), Outcome(ClientRequest[c]))
        BY <4>2, <4>3, SeenInTail
      <4>. QED BY <1>2, <3>3, <4>1, <4>5, <4>6, <4>7, NullIsNoRing DEF ClientKept, Informed
    <3>. QED BY <3>1, <3>2, <3>3
  <2>. QED BY <2>2, <2>3, <2>4 DEF ClientStep
<1>. QED BY <1>1, <1>2

LEMMA ClientsStep == IInv /\ [Next]_vars => ClientsInv'
<1>. SUFFICES ASSUME IInv, [Next]_vars, NEW c \in Clients
              PROVE  ClientKept(c)
  BY ClientsKept, TypeStep
<1>1. CASE UNCHANGED <<broadcastVars, handler, client>>
  BY <1>1, ClientNow DEF broadcastVars, ClientKept, IInv, ClientsInv
<1>. QED BY <1>1, BroadcastClients, HandlerClients, ClientClients DEF Next, vars, IInv

-----------------------------------------------------------------------------
(* The theorems *)

LEMMA Invariance == Spec => []IInv
<1>1. Init => IInv
  BY TypeInit, RowsInit, ClientsInit DEF IInv
<1>2. IInv /\ [Next]_vars => IInv'
  BY TypeStep, RowsStep, ClientsStep DEF IInv
<1>. QED BY <1>1, <1>2, PTL DEF Spec

(* The queue and every ring stay within their capacities, and what is        *)
(* recorded and sent are steps of the request.                               *)
THEOREM ProgressIsTyped == Spec => []TypeOK
<1>1. IInv => TypeOK
  <2>. SUFFICES ASSUME IInv PROVE TypeOK
    OBVIOUS
  <2>1. ASSUME NEW r \in Requests
        PROVE  /\ stored[r] \in [step : 0..Steps[r], expires_at : 0 .. MaxClock + Ttl]
               /\ handler[r] \in [step : 1..Steps[r], sampled : 0..MaxClock,
                                  at : {"record", "write", "send", "done", "failed"}]
    BY ProgressStreamingAssumption DEF IInv, TypeInv, RowsInv, Follows, Row, HandlerState
  <2>2. \A c \in Clients : receiver[c] # Null => receiver[c].unread \in Seq(Events)
    BY DEF IInv, TypeInv, Ring
  <2>. QED BY <2>1, <2>2 DEF IInv, TypeInv, TypeOK, ClientState
<1>. QED BY <1>1, Invariance, PTL

(* publish_progress waits for room for a terminal event, and Lagged tells a  *)
(* client of what its ring lost: whoever subscribed before the loop          *)
(* broadcast the outcome of its request does not wait for it in vain.        *)
THEOREM NoFinalEventIsMissed == Spec => []SubscribersGetOutcome
<1>1. IInv => SubscribersGetOutcome
  BY DEF IInv, ClientsInv
<1>. QED BY <1>1, Invariance, PTL

(* record overwrites a row with a later step and a later expiry, although    *)
(* the clock it uses was sampled before the statement.                       *)
THEOREM RecordedStepsGrow == Spec => RecordedStepGrows
<1>1. IInv /\ [Next]_vars =>
        [\A r \in Requests : Get(r, now)' >= Get(r, now) \/ (now' # now /\ Get(r, now)' = 0)]_vars
  <2>. SUFFICES ASSUME IInv, [Next]_vars, NEW r \in Requests
                PROVE  Get(r, now)' >= Get(r, now) \/ (now' # now /\ Get(r, now)' = 0)
    BY DEF IInv
  <2>0. /\ stored[r] \in Row /\ stored'[r] \in Row /\ now \in Nat /\ now' \in Nat
        /\ Get(r, now) \in Nat /\ Get(r, now)' \in Nat
    BY TypeStep, NotificationsStoreAssumption DEF IInv, TypeInv, Row, Get
  <2>1. CASE stored'[r] = stored[r]
    BY <2>0, <2>1 DEF Get, Row
  <2>2. CASE WorkerCleansUp
    BY <2>0, <2>2 DEF WorkerCleansUp, Cleanup, Expired, Get, Row, NoRow, IInv, TypeInv
  <2>3. ASSUME NEW q \in Requests,
               SamplesClock(q) \/ Records(q) \/ Sends(q) \/ HandlerFails(q),
               stored'[r] # stored[r]
        PROVE  Get(r, now)' >= Get(r, now)
    <3>1. /\ handler[q].at = "write" /\ now' = now
          /\ stored' = [stored EXCEPT ![q] =
                [step |-> handler[q].step, expires_at |-> handler[q].sampled + Ttl]]
      BY <2>3, HandlerMoves DEF HandlerMove, IInv
    <3>2. q = r
      BY <2>3, <3>1 DEF IInv, TypeInv
    <3>3. stored'[r] = [step |-> handler[r].step, expires_at |-> handler[r].sampled + Ttl]
      BY <3>1, <3>2 DEF IInv, TypeInv
    <3>4. stored[r].step <= handler[r].step /\ stored[r].expires_at <= handler[r].sampled + Ttl
      BY <3>1, <3>2 DEF IInv, RowsInv, Follows
    <3>. QED BY <2>0, <3>1, <3>3, <3>4 DEF Get, Row
  <2>4. CASE StoreStep /\ ~WorkerCleansUp
    BY <2>1, <2>4 DEF StoreStep, Tick, SignalShutdown, DropSender, WorkerBegins, WorkerIsNotified,
         WorkerTicks, CleanupFails
  <2>5. ASSUME NEW c \in Clients, ClientStep(c) \/ Disconnects(c)
        PROVE  stored' = stored
    BY <2>5, ClientMoves DEF IInv, storeVars
  <2>. QED BY <2>1, <2>2, <2>3, <2>4, <2>5 DEF Next, vars, storeVars
<1>. QED BY <1>1, Invariance, PTL DEF Spec, RecordedStepGrows

=============================================================================
