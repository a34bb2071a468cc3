-------------------------- MODULE NotificationsStore --------------------------
(* The latest event of each request, kept until it expires                   *)
(* (notifications_store.rs), and the worker that deletes expired ones until  *)
(* it is told to stop (runtime.rs).  Each operation reads the clock, and its *)
(* statement comes later.                                                    *)
EXTENDS Naturals

CONSTANTS
    Requests,
    Ttl,
    MaxClock            \* bound on the clock

VARIABLES
    now,                \* seconds
    stored,             \* per request: a record without a row, or its row
    shutdown,           \* the worker's receiver: value, unseen change, sender left
    worker,             \* "started", "waiting", "cleaning" or "stopped"
    cutoff              \* the clock that a cleanup has read

workerVars == <<worker, cutoff>>
storeVars == <<now, stored, shutdown, workerVars>>

ASSUME NotificationsStoreAssumption == {Ttl, MaxClock} \subseteq Nat

NoRow == [step |-> 0, expires_at |-> 0]

InitStore ==
    /\ now = 0
    /\ stored = [r \in Requests |-> NoRow]
    /\ shutdown \in [value : BOOLEAN, unseen : {FALSE}, sender : {TRUE}]
    /\ worker = "started" /\ cutoff = 0

Tick ==
    /\ now < MaxClock
    /\ now' = now + 1
    /\ UNCHANGED <<stored, shutdown, workerVars>>

(* The row of an earlier event is overwritten, its expiry with it. *)
Record(request, step, sampled) ==
    /\ stored' = [stored EXCEPT ![request] = [step |-> step, expires_at |-> sampled + Ttl]]
    /\ UNCHANGED <<now, shutdown, workerVars>>

(* The step that get finds, or 0 for None. *)
Get(request, sampled) ==
    IF stored[request].expires_at > sampled THEN stored[request].step ELSE 0

(* Mutant: what expires within the next second goes too. *)
ExpiresSoon(row, sampled) == row.expires_at < sampled + 2

Expired(row, sampled) == row.expires_at < sampled

Cleanup(sampled) ==
    stored' = [r \in Requests |-> IF Expired(stored[r], sampled) THEN NoRow ELSE stored[r]]

-----------------------------------------------------------------------------
(* start_notification_maintenance_worker *)

(* The worker is started with a receiver that has seen the value of the      *)
(* moment, and drops it when it stops.                                       *)
Dropped == [value |-> TRUE, unseen |-> FALSE, sender |-> FALSE]

StopsOrWaits(stops, receiver) ==
    /\ \/ stops /\ worker' = "stopped" /\ shutdown' = Dropped
       \/ ~stops /\ worker' = "waiting" /\ shutdown' = receiver
    /\ UNCHANGED cutoff

SignalShutdown ==
    /\ shutdown.sender /\ worker # "stopped"
    /\ \E value \in BOOLEAN :
        shutdown' = [shutdown EXCEPT !.value = value, !.unseen = TRUE]
    /\ UNCHANGED <<now, stored, workerVars>>

DropSender ==
    /\ shutdown.sender /\ worker # "stopped"
    /\ shutdown' = [shutdown EXCEPT !.sender = FALSE]
    /\ UNCHANGED <<now, stored, workerVars>>

(* Mutant: the worker waits for a change without a look at the value. *)
NeverStopsAtOnce == FALSE

StopsAtOnce == shutdown.value

WorkerBegins ==
    /\ worker = "started"
    /\ StopsOrWaits(StopsAtOnce, shutdown)
    /\ UNCHANGED <<now, stored>>

(* interval.tick(), and the clock of cleanup *)
WorkerTicks ==
    /\ worker = "waiting"
    /\ worker' = "cleaning" /\ cutoff' = now
    /\ UNCHANGED <<now, stored, shutdown>>

WorkerCleansUp ==
    /\ worker = "cleaning"
    /\ Cleanup(cutoff)
    /\ worker' = "waiting" /\ cutoff' = 0
    /\ UNCHANGED <<now, shutdown>>

(* Mutant: the error of a cleanup is passed on, not logged. *)
EndsOnFailure == "stopped"

AfterFailure == "waiting"

CleanupFails ==
    /\ worker = "cleaning"
    /\ worker' = AfterFailure /\ cutoff' = 0
    /\ UNCHANGED <<now, stored, shutdown>>

(* shutdown.changed(): a change not seen yet, or else the end of the sender. *)
WorkerIsNotified ==
    /\ worker = "waiting"
    /\ shutdown.unseen \/ ~shutdown.sender
    /\ StopsOrWaits(~shutdown.unseen \/ shutdown.value, [shutdown EXCEPT !.unseen = FALSE])
    /\ UNCHANGED <<now, stored>>

StoreStep ==
    \/ Tick \/ SignalShutdown \/ DropSender
    \/ WorkerBegins \/ WorkerTicks \/ WorkerCleansUp \/ CleanupFails \/ WorkerIsNotified

(* select! does not pass over a change forever, the interval comes round, and *)
(* a cleanup that fails succeeds some other time.                            *)
StoreFairness ==
    /\ WF_storeVars(WorkerBegins) /\ WF_storeVars(WorkerTicks)
    /\ SF_storeVars(WorkerCleansUp) /\ SF_storeVars(WorkerIsNotified)

-----------------------------------------------------------------------------
(* The worker stops after shutdown was signalled, also when the signal came  *)
(* before it was started, before it first waited or while it cleans up, and  *)
(* when every sender is gone.                                                *)
WorkerStops ==
    ~shutdown.sender \/ shutdown.value
        ~> worker = "stopped" \/ (shutdown.sender /\ ~shutdown.value)

OutlivesExpiry(row) == row # NoRow /\ row.expires_at < now

(* Until shutdown no row outlives its expiry for ever, although a cleanup    *)
(* deletes by a clock that has moved on, and may fail.                       *)
ExpiredRowsGo ==
    \A r \in Requests :
        OutlivesExpiry(stored[r])
            ~> ~OutlivesExpiry(stored[r]) \/ ~shutdown.sender \/ shutdown.value
=============================================================================
