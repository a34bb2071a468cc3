----------------------------- MODULE WorkerPool -----------------------------
(* Event handlers over many partitions (examples/partition_worker_pool.rs):  *)
(* an application appends and reports each partition it touched, a           *)
(* supervisor keeps one drain task per such partition.  All of them open     *)
(* partitions through the cache of PartitionCache.                           *)
(*                                                                           *)
(* An action lies between two awaits.  The supervisor's own mutex is never   *)
(* contended, and that of the offsets guards single operations.              *)
EXTENDS PartitionCache

CONSTANTS
    Null,
    Tasks,              \* slots of the JoinSet
    ReadLimit,          \* events per load_after_version
    ChannelCapacity,    \* of the dirty channel
    MaxAppends,         \* bound on the events of each partition
    MaxFaults           \* bound on failing opens, loads and projections

VARIABLES
    main,               \* the application: step and partition it is at
    version,            \* per partition: its current_version
    dirty,              \* the channel of touched partitions
    dirty_tx,           \* whether its sender is still there
    dirty_rx_closed,
    supervisor,         \* "running", "returned" or "failed"
    active, pending,    \* SupervisorState
    task,               \* per slot: Null or the task in it
    offsets,            \* per partition: the version handled last
    projected,          \* per partition: the versions projected, in order
    faults

mainVars == <<main, version, dirty_tx>>
supervisorVars == <<dirty_rx_closed, supervisor, active, pending>>
handled == <<offsets, projected>>
vars == <<cacheVars, mainVars, dirty, supervisorVars, task, handled, faults>>

MainSteps == {"choose", "look_up", "open", "append", "send", "join", "done", "failed"}
TaskSteps == {"look_up", "open", "cursor", "load", "project", "checkpoint", "ok", "err"}

\* The task is at version cursor of the events up to last that it loaded.
Task == [key : Keys, at : TaskSteps, cursor : Nat, last : Nat]
NewTask(k) == [key |-> k, at |-> "look_up", cursor |-> 0, last |-> 0]

\* A JoinSet has no limit: there are more slots than partitions.
ASSUME WorkerPoolAssumption ==
    /\ {ReadLimit, ChannelCapacity} \subseteq Nat \ {0}
    /\ MaxAppends \in [Keys -> Nat] /\ MaxFaults \in Nat
    /\ \A f \in [Tasks -> Keys] : \E t, u \in Tasks : t # u /\ f[t] = f[u]
    /\ Null \notin Task

\* Of the cache the pool needs here how many streams it keeps open.  What an
\* opener meets through a cached handle that is stale is CachedStream's subject.
AnyStream == "stream"

Least(a, b) == IF a < b THEN a ELSE b

Init ==
    /\ InitCache
    /\ main = [at |-> "choose", key |-> Null]
    /\ version = [k \in Keys |-> 0]
    /\ dirty = <<>> /\ dirty_tx = TRUE /\ dirty_rx_closed = FALSE
    /\ supervisor = "running"
    /\ active = {} /\ pending = {}
    /\ task = [t \in Tasks |-> Null]
    /\ offsets = [k \in Keys |-> 0]
    /\ projected = [k \in Keys |-> <<>>]
    /\ faults = 0

Running(t) == task[t] # Null
NoTask == [t \in Tasks |-> Null]

\* The runtime, and all that runs on it, is shut down after main.
GaveUp == supervisor = "failed" \/ main.at = "failed"

Fault == faults < MaxFaults /\ faults' = faults + 1

-----------------------------------------------------------------------------
(* main, and append_order_created *)

MainGoto(step) == main' = [main EXCEPT !.at = step]
MainOnly == UNCHANGED <<supervisorVars, task, handled>>

(* The fixed list of orders stands for any list. *)
MainChooses ==
    /\ main.at = "choose"
    /\ \E k \in Keys :
        /\ version[k] < MaxAppends[k]
        /\ main' = [at |-> "look_up", key |-> k]
    /\ MainOnly /\ UNCHANGED <<cacheVars, version, dirty, dirty_tx, faults>>

MainLooksUp ==
    /\ main.at = "look_up"
    /\ \/ HitStore(main.key, AnyStream) /\ MainGoto("append")
       \/ MissStore(main.key) /\ MainGoto("open")
    /\ MainOnly /\ UNCHANGED <<version, dirty, dirty_tx, faults>>

MainOpens ==
    /\ main.at = "open"
    /\ InsertStore(main.key, AnyStream)
    /\ MainGoto("append")
    /\ MainOnly /\ UNCHANGED <<version, dirty, dirty_tx, faults>>

(* Nobody else appends: the expected version is always met. *)
MainAppends ==
    /\ main.at = "append"
    /\ version' = [version EXCEPT ![main.key] = @ + 1]
    /\ MainGoto("send")
    /\ MainOnly /\ UNCHANGED <<cacheVars, dirty, dirty_tx, faults>>

(* send waits for room, and fails once the receiver is gone. *)
MainSends ==
    /\ main.at = "send"
    /\ \/ /\ supervisor = "running"
          /\ Len(dirty) < ChannelCapacity
          /\ dirty' = Append(dirty, main.key)
          /\ MainGoto("choose")
       \/ /\ supervisor # "running"
          /\ MainGoto("done")
          /\ UNCHANGED dirty
    /\ MainOnly /\ UNCHANGED <<cacheVars, version, dirty_tx, faults>>

MainDropsSender ==
    /\ main.at = "choose"
    /\ dirty_tx' = FALSE
    /\ MainGoto("join")
    /\ MainOnly /\ UNCHANGED <<cacheVars, version, dirty, faults>>

MainJoins ==
    /\ main.at = "join"
    /\ supervisor # "running"
    /\ MainGoto("done")
    /\ MainOnly /\ UNCHANGED <<cacheVars, version, dirty, dirty_tx, faults>>

(* The sender goes at once; the rest runs on until the runtime stops it. *)
MainFails ==
    /\ main.at \in {"open", "append"}
    /\ Fault
    /\ MainGoto("failed")
    /\ dirty_tx' = FALSE
    /\ MainOnly /\ UNCHANGED <<cacheVars, version, dirty>>

-----------------------------------------------------------------------------
(* run_supervisor.  select! picks any branch that is ready. *)

SupervisorOnly == UNCHANGED <<cacheVars, mainVars, handled, faults>>

SpawnPartitionTask(tasks, k) ==
    LET free == CHOOSE t \in Tasks : tasks[t] = Null
    IN  task' = [tasks EXCEPT ![free] = NewTask(k)]

(* Mutant: a touched partition gets a task of its own each time. *)
NeverWait(k) == FALSE

(* Mutant: a partition touched while its task ran is not looked at again. *)
NeverRerun(k) == FALSE

MustWait(k) == k \in active

MustRerun(k) == k \in pending

ReceiveDirty ==
    /\ supervisor = "running"
    /\ dirty # <<>>
    /\ dirty' = Tail(dirty)
    /\ LET k == Head(dirty) IN
        \/ /\ MustWait(k)
           /\ pending' = pending \cup {k}
           /\ UNCHANGED <<active, task>>
        \/ /\ ~MustWait(k)
           /\ active' = active \cup {k}
           /\ SpawnPartitionTask(task, k)
           /\ UNCHANGED pending
    /\ SupervisorOnly /\ UNCHANGED <<dirty_rx_closed, supervisor>>

(* Mutant: that the channel is closed is not remembered. *)
ReceiveClosedAgain ==
    /\ supervisor = "running"
    /\ dirty = <<>> /\ ~dirty_tx
    /\ UNCHANGED vars

ReceiveClosed ==
    /\ supervisor = "running"
    /\ ~dirty_rx_closed
    /\ dirty = <<>> /\ ~dirty_tx
    /\ dirty_rx_closed' = TRUE
    /\ SupervisorOnly /\ UNCHANGED <<dirty, supervisor, active, pending, task>>

JoinNext ==
    /\ supervisor = "running"
    /\ \E t \in Tasks :
        /\ Running(t) /\ task[t].at = "ok"
        /\ LET k == task[t].key
               others == [task EXCEPT ![t] = Null]
           IN  \/ /\ MustRerun(k)
                  /\ pending' = pending \ {k}
                  /\ SpawnPartitionTask(others, k)
                  /\ UNCHANGED active
               \/ /\ ~MustRerun(k)
                  /\ active' = active \ {k}
                  /\ task' = others
                  /\ UNCHANGED pending
    /\ SupervisorOnly /\ UNCHANGED <<dirty, dirty_rx_closed, supervisor>>

(* The JoinSet and the receiver go with the supervisor.  Dropping the set    *)
(* asks the other tasks to stop: each goes on until it is suspended.         *)
JoinFailed ==
    /\ supervisor = "running"
    /\ \E t \in Tasks :
        /\ Running(t) /\ task[t].at = "err"
        /\ active' = active \ {task[t].key}
        /\ pending' = pending \ {task[t].key}
        /\ task' = [task EXCEPT ![t] = Null]
    /\ supervisor' = "failed"
    /\ SupervisorOnly /\ UNCHANGED <<dirty, dirty_rx_closed>>

(* Both branches of select! are disabled. *)
SupervisorReturns ==
    /\ supervisor = "running"
    /\ dirty_rx_closed
    /\ task = NoTask
    /\ supervisor' = "returned"
    /\ SupervisorOnly /\ UNCHANGED <<dirty, dirty_rx_closed, active, pending, task>>

(* The shutdown of the runtime stops the supervisor between two awaits.      *)
SupervisorIsStopped ==
    /\ supervisor = "running" /\ main.at = "failed"
    /\ supervisor' = "failed"
    /\ SupervisorOnly /\ UNCHANGED <<dirty, dirty_rx_closed, active, pending, task>>

-----------------------------------------------------------------------------
(* drain_partition *)

At(t, step) == Running(t) /\ task[t].at = step
Goto(t, step) == task' = [task EXCEPT ![t].at = step]
TaskOnly == UNCHANGED <<mainVars, dirty, supervisorVars>>

TaskLooksUp(t) ==
    /\ At(t, "look_up")
    /\ \/ HitStore(task[t].key, AnyStream) /\ Goto(t, "cursor")
       \/ MissStore(task[t].key) /\ Goto(t, "open")
    /\ TaskOnly /\ UNCHANGED <<handled, faults>>

TaskOpens(t) ==
    /\ At(t, "open")
    /\ InsertStore(task[t].key, AnyStream)
    /\ Goto(t, "cursor")
    /\ TaskOnly /\ UNCHANGED <<handled, faults>>

ReadsOffset(t) ==
    /\ At(t, "cursor")
    /\ task' = [task EXCEPT ![t].at = "load", ![t].cursor = offsets[task[t].key]]
    /\ TaskOnly /\ UNCHANGED <<cacheVars, handled, faults>>

(* load_after_version(cursor, ReadLimit); no events end the task. *)
Loads(t) ==
    /\ At(t, "load")
    /\ LET cursor == task[t].cursor
           last == Least(cursor + ReadLimit, version[task[t].key])
       IN  \/ last <= cursor /\ Goto(t, "ok")
           \/ last > cursor /\ task' = [task EXCEPT ![t].at = "project", ![t].last = last]
    /\ TaskOnly /\ UNCHANGED <<cacheVars, handled, faults>>

ProjectEvent(t) ==
    /\ At(t, "project")
    /\ LET k == task[t].key
           v == task[t].cursor + 1
       IN  /\ projected' = [projected EXCEPT ![k] = Append(@, v)]
           /\ task' = [task EXCEPT ![t].cursor = v,
                            ![t].at = IF v = task[t].last THEN "checkpoint" ELSE @]
    /\ TaskOnly /\ UNCHANGED <<cacheVars, offsets, faults>>

(* Mutant: the version of the first event loaded is stored, not the last. *)
CheckpointFirst(t) ==
    [offsets EXCEPT ![task[t].key] = @ + 1]

Checkpoint(t) ==
    [offsets EXCEPT ![task[t].key] = task[t].last]

StoresOffset(t) ==
    /\ At(t, "checkpoint")
    /\ offsets' = Checkpoint(t)
    /\ Goto(t, "cursor")
    /\ TaskOnly /\ UNCHANGED <<cacheVars, projected, faults>>

TaskFails(t) ==
    /\ Running(t) /\ task[t].at \in {"open", "load", "project"}
    /\ Fault
    /\ Goto(t, "err")
    /\ TaskOnly /\ UNCHANGED <<cacheVars, handled>>

(* The abort the JoinSet asked for reaches a task that is suspended. *)
AbortTask(t) ==
    /\ supervisor = "failed" /\ Running(t)
    /\ task' = [task EXCEPT ![t] = Null]
    /\ TaskOnly /\ UNCHANGED <<cacheVars, handled, faults>>

-----------------------------------------------------------------------------
(* Any holder of the EventNamespaces may change the limits of its cache. *)
Reconfigure ==
    /\ \/ \E limit \in StoreLimits : WithMaxOpenStores(limit)
       \/ WithIdleStoreTtl
    /\ UNCHANGED <<mainVars, dirty, supervisorVars, task, handled, faults>>

MainStep ==
    \/ MainChooses \/ MainLooksUp \/ MainOpens \/ MainAppends \/ MainSends
    \/ MainDropsSender \/ MainJoins

SupervisorStep ==
    ReceiveDirty \/ ReceiveClosed \/ JoinNext \/ JoinFailed \/ SupervisorReturns

TaskStep(t) ==
    \/ TaskLooksUp(t) \/ TaskOpens(t) \/ ReadsOffset(t) \/ Loads(t)
    \/ ProjectEvent(t) \/ StoresOffset(t)

Next ==
    \/ MainStep \/ MainFails
    \/ SupervisorStep \/ SupervisorIsStopped
    \/ \E t \in Tasks : TaskStep(t) \/ TaskFails(t) \/ AbortTask(t)
    \/ Reconfigure

(* The runtime polls whatever is ready, as long as it is there; a task may   *)
(* be aborted at any time after the pool gave up.                            *)
Spec ==
    /\ Init /\ [][Next]_vars
    /\ WF_vars(MainStep)
    /\ WF_vars(main.at # "failed" /\ SupervisorStep)
    /\ \A t \in Tasks : WF_vars(~GaveUp /\ TaskStep(t))

-----------------------------------------------------------------------------
TypeOK ==
    /\ max_open_stores \in StoreLimits
    /\ stores \in Seq([key : Keys, stream : {AnyStream}])
    /\ main \in [at : MainSteps, key : Keys \cup {Null}]
    /\ version \in [Keys -> Nat] /\ \A k \in Keys : version[k] <= MaxAppends[k]
    /\ dirty \in Seq(Keys) /\ Len(dirty) <= ChannelCapacity
    /\ {dirty_tx, dirty_rx_closed} \subseteq BOOLEAN
    /\ supervisor \in {"running", "returned", "failed"}
    /\ active \subseteq Keys /\ pending \subseteq active
    /\ task \in [Tasks -> {Null} \cup Task]
    /\ offsets \in [Keys -> Nat]
    /\ projected \in [Keys -> Seq(Nat)]
    /\ faults \in 0..MaxFaults

(* A partition has at most one task (the "one active worker per partition"   *)
(* of the worker-pool guide), though it may be touched, drained and touched  *)
(* again while the supervisor has not yet joined the task.                   *)
OneHandlerPerPartition ==
    \A t, u \in Tasks :
        Running(t) /\ Running(u) /\ task[t].key = task[u].key => t = u

(* run_supervisor returns Ok only when every appended event was projected:   *)
(* an event appended between the last, empty load of a task and the join of  *)
(* that task is not lost, nor one whose partition is already pending.        *)
NothingLeftBehind ==
    supervisor = "returned" =>
        \A k \in Keys : Len(projected[k]) = version[k]

(* The pool implements Projection: each partition's events are projected in  *)
(* version order, each once, whatever fails and however long a task runs on  *)
(* after that; and every one of them sooner or later unless the pool or the  *)
(* application gives up.                                                     *)
Handlers == INSTANCE Projection WITH
    appended <- version, failed <- GaveUp

IsProjection == Handlers!Spec

(* The application comes to its end: it never waits forever for room in the  *)
(* channel or for a supervisor that waits for it.                            *)
MainReturns == <>(main.at \in {"done", "failed"})
=============================================================================
