--------------------------- MODULE StreamBroadcast ---------------------------
(* The way of a stream event from its sender to the subscribers              *)
(* (broadcast.rs): a bounded queue, the loop that empties it, and a ring     *)
(* that keeps the last events for the subscribers of the moment.             *)
EXTENDS Naturals, Sequences

CONSTANTS
    Null,
    Subscribers,
    SENDER_CAPACITY,
    BROADCAST_CAPACITY

VARIABLES
    queue,          \* sent and not yet broadcast
    receiver        \* per subscriber: Null or what it has not read yet

broadcastVars == <<queue, receiver>>

ASSUME StreamBroadcastAssumption ==
    {SENDER_CAPACITY, BROADCAST_CAPACITY} \subseteq Nat \ {0}

InitBroadcast ==
    /\ queue = <<>>
    /\ receiver = [s \in Subscribers |-> Null]

(* send waits for room. *)
SendEvent(event) ==
    /\ Len(queue) < SENDER_CAPACITY
    /\ queue' = Append(queue, event)
    /\ UNCHANGED receiver

(* try_send gives up when there is none. *)
TrySendEvent(event) ==
    IF Len(queue) < SENDER_CAPACITY THEN SendEvent(event) ELSE UNCHANGED broadcastVars

(* Mutant: a subscriber that does not read keeps everything. *)
DeliverUnbounded(r, event) == [r EXCEPT !.unread = Append(@, event)]

(* Mutant: a subscriber is not told that it missed an event. *)
DeliverSilently(r, event) ==
    IF Len(r.unread) < BROADCAST_CAPACITY THEN [r EXCEPT !.unread = Append(@, event)]
    ELSE [r EXCEPT !.unread = Append(Tail(@), event)]

(* The ring overwrites what a subscriber was too slow to read. *)
Deliver(r, event) ==
    IF Len(r.unread) < BROADCAST_CAPACITY THEN [r EXCEPT !.unread = Append(@, event)]
    ELSE [unread |-> Append(Tail(r.unread), event), lagged |-> TRUE]

(* One turn of the loop; nobody keeps an event that has no subscriber. *)
BroadcastNext ==
    /\ queue # <<>>
    /\ queue' = Tail(queue)
    /\ receiver' = [s \in Subscribers |->
            IF receiver[s] = Null THEN Null ELSE Deliver(receiver[s], Head(queue))]

Subscribe(s) ==
    /\ receiver' = [receiver EXCEPT ![s] = [unread |-> <<>>, lagged |-> FALSE]]
    /\ UNCHANGED queue

Receives(s, event) ==
    /\ ~receiver[s].lagged
    /\ receiver[s].unread # <<>>
    /\ event = Head(receiver[s].unread)

Unsubscribe(s) ==
    /\ receiver' = [receiver EXCEPT ![s] = Null]
    /\ UNCHANGED queue

ReadOn(s) ==
    /\ receiver' = [receiver EXCEPT ![s].unread = Tail(@)]
    /\ UNCHANGED queue
=============================================================================
