-------------------------- MODULE ProgressStreaming --------------------------
(* Progress of requests on its way to clients: the handler of a request      *)
(* records each step and then sends it (StreamBroadcast); a client looks up  *)
(* the recorded step (NotificationsStore) and then subscribes.               *)
(*                                                                           *)
(* Handlers and clients are applications of the library, modelled after      *)
(* publish_progress and the reconnecting client of the guide                 *)
(* docs/how-to/stream-progress-updates.md.                                   *)
EXTENDS NotificationsStore, StreamBroadcast

CONSTANTS
    Steps,              \* per request; the last is the terminal event
    ClientRequest       \* per client: the request it waits for

VARIABLES
    handler,            \* per request: the step it is at, and with what
    client              \* per client: where it is, the clock that get has read, and
                        \* (for the properties) whether its subscription came in time

vars == <<storeVars, broadcastVars, handler, client>>

Clients == Subscribers

ASSUME ProgressStreamingAssumption ==
    /\ Steps \in [Requests -> Nat \ {0}]
    /\ ClientRequest \in [Clients -> Requests]
    /\ Null \notin [unread : Seq([request : Requests, step : Nat]), lagged : BOOLEAN]

Init ==
    /\ InitStore /\ InitBroadcast
    /\ handler = [r \in Requests |-> [step |-> 1, at |-> "record", sampled |-> 0]]
    /\ client = [c \in Clients |-> [at |-> "away", sampled |-> 0, in_time |-> FALSE]]

Event(r, step) == [request |-> r, step |-> step]

\* EventKind::is_terminal
IsTerminal(r, step) == step = Steps[r]

Events == UNION {{Event(r, step) : step \in 1..Steps[r]} : r \in Requests}

Outcome(r) == Event(r, Steps[r])

SeenIn(events, event) == \E i \in DOMAIN events : events[i] = event

-----------------------------------------------------------------------------
(* publish_progress *)

SamplesClock(r) ==
    /\ handler[r].at = "record"
    /\ handler' = [handler EXCEPT ![r].at = "write", ![r].sampled = now]
    /\ UNCHANGED <<storeVars, broadcastVars, client>>

Records(r) ==
    /\ handler[r].at = "write"
    /\ Record(r, handler[r].step, handler[r].sampled)
    /\ handler' = [handler EXCEPT ![r].at = "send", ![r].sampled = 0]
    /\ UNCHANGED <<broadcastVars, client>>

(* Mutant: any event may be sent with try_send. *)
AnyStepMayBeLost(r, step) == TRUE

(* Intermediate steps may be sent with try_send. *)
StepMayBeLost(r, step) == ~IsTerminal(r, step)

Sends(r) ==
    /\ handler[r].at = "send"
    /\ LET step == handler[r].step IN
        /\ \/ SendEvent(Event(r, step))
           \/ StepMayBeLost(r, step) /\ TrySendEvent(Event(r, step))
        /\ handler' = [handler EXCEPT ![r] =
              IF IsTerminal(r, step) THEN [@ EXCEPT !.at = "done"]
              ELSE [@ EXCEPT !.step = step + 1, !.at = "record"]]
    /\ UNCHANGED <<storeVars, client>>

(* An error of the store, or the task is aborted. *)
HandlerFails(r) ==
    /\ handler[r].at \in {"record", "write", "send"}
    /\ handler' = [handler EXCEPT ![r].at = "failed", ![r].sampled = 0]
    /\ UNCHANGED <<storeVars, broadcastVars, client>>

-----------------------------------------------------------------------------
(* Clients, in the order of "Handling Client Reconnection" *)

ClientGoes(c, step) ==
    client' = [client EXCEPT ![c] = [at |-> step, sampled |-> 0, in_time |-> FALSE]]

Connects(c) ==
    /\ client[c].at = "away"
    /\ client' = [client EXCEPT ![c].at = "get", ![c].sampled = now]
    /\ UNCHANGED <<storeVars, broadcastVars, handler>>

OutcomeIsDurable(r) == IsTerminal(r, handler[r].step) /\ handler[r].at \notin {"record", "write"}

(* If there is no notification, the client asks the application's read model.*)
LooksUp(c) ==
    /\ client[c].at = "get"
    /\ LET r     == ClientRequest[c]
           found == Get(r, client[c].sampled)
           knows == IsTerminal(r, found) \/ (found = 0 /\ OutcomeIsDurable(r))
       IN  ClientGoes(c, IF knows THEN "done" ELSE "subscribe")
    /\ UNCHANGED <<storeVars, broadcastVars, handler>>

\* The outcome has been broadcast to the subscribers of the moment.
OutcomeIsOut(r) == handler[r].at = "done" /\ ~SeenIn(queue, Outcome(r))

Subscribes(c) ==
    /\ client[c].at = "subscribe"
    /\ Subscribe(c)
    /\ client' = [client EXCEPT ![c].at = "receive",
                                ![c].in_time = ~OutcomeIsOut(ClientRequest[c])]
    /\ UNCHANGED <<storeVars, handler>>

(* while let Ok(event) = rx.recv().await *)
ReceivesEvent(c) ==
    /\ client[c].at = "receive"
    /\ \E e \in Events :
        /\ Receives(c, e)
        /\ \/ /\ e.request = ClientRequest[c] /\ IsTerminal(e.request, e.step)
              /\ Unsubscribe(c)
              /\ ClientGoes(c, "done")
           \/ /\ e.request # ClientRequest[c] \/ ~IsTerminal(e.request, e.step)
              /\ ReadOn(c)
              /\ UNCHANGED client
    /\ UNCHANGED <<storeVars, handler>>

(* recv says Lagged, or the connection breaks: the client comes back. *)
Disconnects(c) ==
    /\ client[c].at = "receive"
    /\ Unsubscribe(c)
    /\ ClientGoes(c, "away")
    /\ UNCHANGED <<storeVars, handler>>

EndsOnLag(c) == receiver[c] # Null /\ receiver[c].lagged /\ Disconnects(c)

-----------------------------------------------------------------------------
ClientStep(c) ==
    Connects(c) \/ Subscribes(c) \/ LooksUp(c) \/ ReceivesEvent(c) \/ EndsOnLag(c)

Next ==
    \/ StoreStep /\ UNCHANGED <<broadcastVars, handler, client>>
    \/ BroadcastNext /\ UNCHANGED <<storeVars, handler, client>>
    \/ \E r \in Requests : SamplesClock(r) \/ Records(r) \/ Sends(r) \/ HandlerFails(r)
    \/ \E c \in Clients : ClientStep(c) \/ Disconnects(c)

(* Tasks are scheduled, and clients come back. *)
Spec ==
    /\ Init /\ [][Next]_vars
    /\ StoreFairness
    /\ WF_vars(BroadcastNext /\ UNCHANGED <<storeVars, handler, client>>)
    /\ \A r \in Requests : WF_vars(SamplesClock(r) \/ Records(r) \/ Sends(r))
    /\ \A c \in Clients : WF_vars(ClientStep(c))

-----------------------------------------------------------------------------
(* Properties *)

TypeOK ==
    /\ now \in 0..MaxClock
    /\ \A r \in Requests : stored[r] \in [step : 0..Steps[r], expires_at : 0 .. MaxClock + Ttl]
    /\ shutdown \in [value : BOOLEAN, unseen : BOOLEAN, sender : BOOLEAN]
    /\ worker \in {"started", "waiting", "cleaning", "stopped"} /\ cutoff \in 0..now
    /\ queue \in Seq(Events)
    /\ Len(queue) <= SENDER_CAPACITY
    /\ \A c \in Clients : receiver[c] # Null =>
        /\ receiver[c].unread \in Seq(Events)
        /\ Len(receiver[c].unread) <= BROADCAST_CAPACITY
    /\ \A r \in Requests :
        handler[r] \in [step : 1..Steps[r], sampled : 0..MaxClock,
                        at : {"record", "write", "send", "done", "failed"}]
    /\ client \in [Clients -> [at : {"away", "get", "subscribe", "receive", "done"},
                               sampled : 0..MaxClock, in_time : BOOLEAN]]

OutcomeAwaits(c) ==
    LET r == ClientRequest[c] IN
    \/ handler[r].at # "done"
    \/ SeenIn(queue \o receiver[c].unread, Outcome(r))
    \/ receiver[c].lagged

(* A client that subscribed before the loop broadcast the terminal event     *)
(* does not miss it: it is yet to be sent, or waiting in the queue or in the *)
(* client's ring, or the client lags and will come back for it.  (It may     *)
(* wait in vain for a handler that failed before it sent what it recorded.)  *)
SubscribersGetOutcome ==
    \A c \in Clients : client[c].at = "receive" /\ client[c].in_time => OutcomeAwaits(c)

(* The guide: "Live subscribers receive progress and terminal events for the *)
(* request ID" (stream-progress-updates.md:307).  A client that reconnects   *)
(* as the guide has it looks up, and when it subscribes the terminal event   *)
(* may have been recorded and broadcast in between: it waits for ever.       *)
NoClientStranded ==
    \A c \in Clients : client[c].at = "receive" => OutcomeAwaits(c)

(* Every client comes to know how its request ended, though live events are  *)
(* dropped without subscribers, overwritten in the ring, and stored rows     *)
(* expire; or it is one that NoClientStranded speaks of, which knows as soon *)
(* as it connects again.                                                     *)
ClientsLearnOutcome ==
    \A c \in Clients :
        handler[ClientRequest[c]].at = "done"
            ~> client[c].at = "done" \/ (client[c].at = "receive" /\ ~client[c].in_time)

(* What get finds never goes back to an earlier step, and within a row's     *)
(* time it does not vanish: cleanup and a clock tick take expired rows only, *)
(* although the clocks of record and cleanup were read before.               *)
RecordedStepGrows ==
    [][\A r \in Requests :
        Get(r, now)' >= Get(r, now) \/ (now' # now /\ Get(r, now)' = 0)]_vars
=============================================================================
