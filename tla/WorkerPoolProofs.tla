-------------------------- MODULE WorkerPoolProofs --------------------------
(* Theorems about WorkerPool, for any partitions, slots, limits, capacities  *)
(* and faults.                                                               *)
EXTENDS WorkerPool, SequenceTheorems, WellFoundedInduction, TLAPS

TypeInv ==
    /\ main \in [at : MainSteps, key : Keys \cup {Null}]
    /\ main.at \in {"look_up", "open", "append", "send"} => main.key \in Keys
    /\ version \in [Keys -> Nat]
    /\ dirty \in Seq(Keys)
    /\ {dirty_tx, dirty_rx_closed} \subseteq BOOLEAN
    /\ supervisor \in {"running", "returned", "failed"}
    /\ active \subseteq Keys /\ pending \subseteq active
    /\ task \in [Tasks -> {Null} \cup Task]
    /\ offsets \in [Keys -> Nat]
    /\ projected \in [Keys -> Seq(Nat)]

Busy(k) == \E t \in Tasks : Running(t) /\ task[t].key = k

(* The partitions with a task are the active ones.                           *)
TasksInv ==
    /\ OneHandlerPerPartition
    /\ supervisor = "running" => \A k \in Keys : k \in active <=> Busy(k)
    /\ supervisor = "returned" => task = NoTask

(* Between two batches the offset of a partition is what was projected; a    *)
(* task in a batch is as far as the projection.                              *)
InStep(x, offset, done, last) ==
    /\ x.at \in {"look_up", "open", "cursor", "load", "ok"} => offset = done
    /\ x.at = "load" => x.cursor = offset
    /\ x.at \in {"project", "checkpoint"} => x.last <= last
    /\ x.at = "project" => x.cursor = done /\ x.cursor < x.last
    /\ x.at = "checkpoint" => x.last = done

TaskInStep(x) == InStep(x, offsets[x.key], Len(projected[x.key]), version[x.key])

DrainInv ==
    /\ \A k \in Keys : offsets[k] <= version[k]
    /\ \A t \in Tasks : Running(t) => TaskInStep(task[t])
    /\ supervisor = "running" =>
        \A k \in Keys : Busy(k) \/ offsets[k] = Len(projected[k])

(* While the supervisor runs, an event not handled is announced, or will be. *)
Announced(k) ==
    \/ \E i \in 1..Len(dirty) : dirty[i] = k
    \/ k \in pending
    \/ \E t \in Tasks : Running(t) /\ task[t].key = k /\ task[t].at # "ok"
    \/ main.at = "send" /\ main.key = k

MainEnds == {"join", "done", "failed"}

AnnouncedInv ==
    /\ supervisor = "running" =>
        /\ \A k \in Keys : offsets[k] = version[k] \/ Announced(k)
        /\ dirty_rx_closed => dirty = <<>> /\ ~dirty_tx
        /\ ~dirty_tx => main.at \in MainEnds
    /\ supervisor = "returned" =>
        /\ main.at \in MainEnds
        /\ \A k \in Keys : Len(projected[k]) = version[k]

IInv == TypeInv /\ TasksInv /\ DrainInv /\ AnnouncedInv

-----------------------------------------------------------------------------
(* Slots and steps *)

LEMMA NewTaskIsTask ==
    ASSUME NEW k \in Keys
    PROVE  NewTask(k) \in Task /\ NewTask(k) # Null
BY WorkerPoolAssumption DEF NewTask, Task, TaskSteps

(* With one task per partition there is room for one more.                   *)
LEMMA FreeSlot ==
    ASSUME NEW tasks \in [Tasks -> {Null} \cup Task],
           \A t, u \in Tasks :
               tasks[t] # Null /\ tasks[u] # Null /\ tasks[t].key = tasks[u].key => t = u
    PROVE  \E t \in Tasks : tasks[t] = Null
<1>. SUFFICES ASSUME \A t \in Tasks : tasks[t] # Null
              PROVE  FALSE
  OBVIOUS
<1>. DEFINE f == [t \in Tasks |-> tasks[t].key]
<1>1. f \in [Tasks -> Keys]
  BY DEF Task
<1>2. PICK t \in Tasks, u \in Tasks : t # u /\ f[t] = f[u]
  BY <1>1, WorkerPoolAssumption, Zenon
<1>. QED BY <1>2

(* spawn_partition_task starts a task and leaves the others alone.           *)
LEMMA Spawned ==
    ASSUME NEW tasks \in [Tasks -> {Null} \cup Task], NEW k \in Keys,
           \A t, u \in Tasks :
               tasks[t] # Null /\ tasks[u] # Null /\ tasks[t].key = tasks[u].key => t = u,
           SpawnPartitionTask(tasks, k)
    PROVE  \E t \in Tasks : tasks[t] = Null /\ task' = [tasks EXCEPT ![t] = NewTask(k)]
<1>1. \E t \in Tasks : tasks[t] = Null
  BY FreeSlot
<1>. QED BY <1>1 DEF SpawnPartitionTask

(* What every step of a task leaves as it is.                                *)
LEMMA TaskMoves ==
    ASSUME TypeInv, NEW t \in Tasks, TaskStep(t) \/ TaskFails(t)
    PROVE  /\ Running(t) /\ task[t] \in Task /\ TaskOnly
           /\ \E x \in Task : x.key = task[t].key /\ task' = [task EXCEPT ![t] = x]
<1>1. Running(t) /\ TaskOnly
  BY DEF TaskStep, TaskLooksUp, TaskOpens, ReadsOffset, Loads, ProjectEvent, StoresOffset,
         TaskFails, At
<1>2. task[t] \in Task
  BY <1>1 DEF Running, TypeInv
<1>. DEFINE x == task'[t]
<1>3. x \in Task /\ x.key = task[t].key /\ task' = [task EXCEPT ![t] = x]
  <2>0. ASSUME NEW y \in Task, y.key = task[t].key, task' = [task EXCEPT ![t] = y]
        PROVE  x = y /\ x \in Task /\ x.key = task[t].key /\ task' = [task EXCEPT ![t] = x]
    BY <2>0 DEF TypeInv
  <2>1. \A step \in TaskSteps :
            /\ [task[t] EXCEPT !.at = step] \in Task
            /\ [task[t] EXCEPT !.at = step].key = task[t].key
    BY <1>2 DEF Task
  <2>2. \A step \in TaskSteps : Goto(t, step) =>
            x \in Task /\ x.key = task[t].key /\ task' = [task EXCEPT ![t] = x]
    BY <2>1 DEF Goto, TypeInv
  <2>3. CASE TaskLooksUp(t)
    BY <2>2, <2>3 DEF TaskLooksUp, TaskSteps
  <2>4. CASE TaskOpens(t)
    BY <2>2, <2>4 DEF TaskOpens, TaskSteps
  <2>5. CASE ReadsOffset(t)
    BY <2>5, <1>2 DEF ReadsOffset, TaskSteps, Task, TypeInv
  <2>6. CASE Loads(t)
    <3>1. Least(task[t].cursor + ReadLimit, version[task[t].key]) \in Nat
      BY <1>2, WorkerPoolAssumption DEF Least, Task, TypeInv
    <3>2. CASE Goto(t, "ok")
      BY <2>2, <3>2 DEF TaskSteps
    <3>3. CASE \E last \in Nat : task' = [task EXCEPT ![t].at = "project", ![t].last = last]
      <4>1. PICK last \in Nat : task' = [task EXCEPT ![t].at = "project", ![t].last = last]
        BY <3>3
      <4>. DEFINE y == [task[t] EXCEPT !.at = "project", !.last = last]
      <4>2. y \in Task /\ y.key = task[t].key
        BY <1>2 DEF Task, TaskSteps
      <4>3. task' = [task EXCEPT ![t] = y]
        BY <4>1, Zenon
      <4>. QED BY <2>0, <4>2, <4>3
    <3>. QED BY <2>6, <3>1, <3>2, <3>3 DEF Loads
  <2>7. CASE ProjectEvent(t)
    <3>1. task[t].cursor + 1 \in Nat
      BY <1>2 DEF Task
    <3>2. \E v \in Nat, step \in TaskSteps : task' = [task EXCEPT ![t].cursor = v, ![t].at = step]
      <4>1. CASE task[t].cursor + 1 = task[t].last
        BY <2>7, <3>1, <4>1 DEF ProjectEvent, TaskSteps
      <4>2. CASE task[t].cursor + 1 # task[t].last
        BY <2>7, <3>1, <4>2, <1>2 DEF ProjectEvent, Task
      <4>. QED BY <4>1, <4>2
    <3>3. PICK v \in Nat, step \in TaskSteps :
              task' = [task EXCEPT ![t].cursor = v, ![t].at = step]
      BY <3>2
    <3>. DEFINE y == [task[t] EXCEPT !.cursor = v, !.at = step]
    <3>4. y \in Task /\ y.key = task[t].key
      BY <1>2 DEF Task
    <3>5. task' = [task EXCEPT ![t] = y]
      BY <3>3, Zenon
    <3>. QED BY <2>0, <3>4, <3>5
  <2>8. CASE StoresOffset(t)
    BY <2>2, <2>8 DEF StoresOffset, TaskSteps
  <2>9. CASE TaskFails(t)
    BY <2>2, <2>9 DEF TaskFails, TaskSteps
  <2>. QED BY <2>3, <2>4, <2>5, <2>6, <2>7, <2>8, <2>9 DEF TaskStep
<1>. QED BY <1>1, <1>2, <1>3

-----------------------------------------------------------------------------
(* Types *)

LEMMA TypeInit == Init => TypeInv
<1>. SUFFICES ASSUME Init PROVE TypeInv
  OBVIOUS
<1>1. <<>> \in Seq(Keys) /\ <<>> \in Seq(Nat)
  BY EmptySeq
<1>2. main \in [at : MainSteps, key : Keys \cup {Null}] /\ main.at = "choose"
  BY DEF Init, MainSteps
<1>3. task \in [Tasks -> {Null} \cup Task]
  BY DEF Init
<1>. QED BY <1>1, <1>2, <1>3 DEF Init, TypeInv

\* The steps that concern neither the supervisor nor a task.
MainActions ==
    \/ MainChooses \/ MainLooksUp \/ MainOpens \/ MainAppends \/ MainSends
    \/ MainDropsSender \/ MainJoins \/ Reconfigure

LEMMA MainTypes ==
    ASSUME TypeInv, MainActions
    PROVE  TypeInv'
<1>. USE DEF MainOnly, supervisorVars, handled, MainGoto
<1>1. CASE MainChooses
  <2>1. PICK k \in Keys : main' = [at |-> "look_up", key |-> k]
    BY <1>1 DEF MainChooses
  <2>2. main' \in [at : MainSteps, key : Keys \cup {Null}] /\ main'.key \in Keys
    BY <2>1 DEF MainSteps
  <2>3. UNCHANGED <<version, dirty, dirty_tx, supervisorVars, task, handled>>
    BY <1>1 DEF MainChooses
  <2>. QED BY <2>2, <2>3 DEF TypeInv
<1>2. CASE MainLooksUp
  BY <1>2 DEF MainLooksUp, TypeInv, MainSteps
<1>3. CASE MainOpens
  BY <1>3 DEF MainOpens, TypeInv, MainSteps
<1>4. CASE MainAppends
  <2>1. main.at = "append" /\ main' = [main EXCEPT !.at = "send"]
        /\ version' = [version EXCEPT ![main.key] = @ + 1]
    BY <1>4 DEF MainAppends
  <2>2. main' \in [at : MainSteps, key : Keys \cup {Null}] /\ main'.key = main.key
        /\ main.key \in Keys
    BY <2>1 DEF MainSteps, TypeInv
  <2>3. version' \in [Keys -> Nat]
    BY <2>1, <2>2 DEF TypeInv
  <2>4. UNCHANGED <<dirty, dirty_tx, supervisorVars, task, handled>>
    BY <1>4 DEF MainAppends
  <2>. QED BY <2>2, <2>3, <2>4 DEF TypeInv
<1>5. CASE MainSends
  <2>1. main.at = "send" /\ main.key \in Keys
        /\ UNCHANGED <<version, dirty_tx, supervisorVars, task, handled>>
    BY <1>5 DEF MainSends, TypeInv
  <2>2. main' \in [at : MainSteps, key : Keys \cup {Null}] /\ main'.at \in {"choose", "done"}
    BY <1>5 DEF MainSends, MainSteps, TypeInv
  <2>3. Append(dirty, main.key) \in Seq(Keys)
    BY <2>1, AppendProperties DEF TypeInv
  <2>4. dirty' \in Seq(Keys)
    BY <1>5, <2>3 DEF MainSends, TypeInv
  <2>. QED BY <2>1, <2>2, <2>4 DEF TypeInv
<1>6. CASE MainDropsSender
  BY <1>6 DEF MainDropsSender, TypeInv, MainSteps
<1>7. CASE MainJoins
  BY <1>7 DEF MainJoins, TypeInv, MainSteps
<1>8. CASE Reconfigure
  BY <1>8 DEF Reconfigure, mainVars, TypeInv
<1>. QED BY <1>1, <1>2, <1>3, <1>4, <1>5, <1>6, <1>7, <1>8 DEF MainActions

LEMMA SupervisorTypes ==
    ASSUME TypeInv, TasksInv, SupervisorStep
    PROVE  TypeInv'
<1>. USE DEF SupervisorOnly, mainVars, handled
<1>1. CASE ReceiveDirty
  <2>1. dirty # <<>> /\ dirty' = Tail(dirty) /\ SupervisorOnly
        /\ UNCHANGED <<dirty_rx_closed, supervisor>>
    BY <1>1 DEF ReceiveDirty
  <2>2. Head(dirty) \in Keys /\ Tail(dirty) \in Seq(Keys)
    BY <2>1, HeadTailProperties DEF TypeInv
  <2>3. CASE MustWait(Head(dirty)) /\ pending' = pending \cup {Head(dirty)}
             /\ UNCHANGED <<active, task>>
    BY <2>1, <2>2, <2>3 DEF TypeInv, MustWait
  <2>4. CASE active' = active \cup {Head(dirty)} /\ SpawnPartitionTask(task, Head(dirty))
             /\ UNCHANGED pending
    <3>1. task \in [Tasks -> {Null} \cup Task]
      BY DEF TypeInv
    <3>2. \A t, u \in Tasks :
              task[t] # Null /\ task[u] # Null /\ task[t].key = task[u].key => t = u
      BY DEF TasksInv, OneHandlerPerPartition, Running
    <3>3. PICK t \in Tasks : task' = [task EXCEPT ![t] = NewTask(Head(dirty))]
      BY <2>2, <2>4, <3>1, <3>2, Spawned
    <3>4. task' \in [Tasks -> {Null} \cup Task]
      BY <2>2, <3>1, <3>3, NewTaskIsTask
    <3>. QED BY <2>1, <2>2, <2>4, <3>4 DEF TypeInv
  <2>. QED BY <1>1, <2>3, <2>4 DEF ReceiveDirty
<1>2. CASE ReceiveClosed
  BY <1>2 DEF ReceiveClosed, TypeInv
<1>3. CASE JoinNext
  <2>. PICK t \in Tasks :
         /\ Running(t) /\ task[t].at = "ok"
         /\ LET k == task[t].key
                others == [task EXCEPT ![t] = Null]
            IN  \/ /\ MustRerun(k)
                   /\ pending' = pending \ {k}
                   /\ SpawnPartitionTask(others, k)
                   /\ UNCHANGED active
                \/ /\ ~MustRerun(k)
                   /\ active' = active \ {k}
                   /\ task' = others
                   /\ UNCHANGED pending
    BY <1>3 DEF JoinNext
  <2>. DEFINE k == task[t].key
              others == [task EXCEPT ![t] = Null]
  <2>1. k \in Keys /\ others \in [Tasks -> {Null} \cup Task]
    BY DEF TypeInv, Running, Task
  <2>2. SupervisorOnly /\ UNCHANGED <<dirty, dirty_rx_closed, supervisor>>
    BY <1>3 DEF JoinNext
  <2>3. CASE MustRerun(k)
    <3>1. pending' = pending \ {k} /\ SpawnPartitionTask(others, k) /\ UNCHANGED active
      BY <2>3
    <3>2. \A u, v \in Tasks :
              others[u] # Null /\ others[v] # Null /\ others[u].key = others[v].key => u = v
      BY DEF TypeInv, TasksInv, OneHandlerPerPartition, Running
    <3>. HIDE DEF others, k
    <3>4. PICK u \in Tasks : task' = [others EXCEPT ![u] = NewTask(k)]
      BY <2>1, <3>1, <3>2, Spawned
    <3>3. task' \in [Tasks -> {Null} \cup Task]
      BY <2>1, <3>4, NewTaskIsTask
    <3>. QED BY <2>2, <3>1, <3>3 DEF TypeInv
  <2>4. CASE ~MustRerun(k)
    BY <2>1, <2>2, <2>4 DEF TypeInv, MustRerun
  <2>. QED BY <2>3, <2>4
<1>4. CASE JoinFailed
  BY <1>4 DEF JoinFailed, TypeInv
<1>5. CASE SupervisorReturns
  BY <1>5 DEF SupervisorReturns, TypeInv
<1>. QED BY <1>1, <1>2, <1>3, <1>4, <1>5 DEF SupervisorStep

LEMMA TypeStep == TypeInv /\ TasksInv /\ [Next]_vars => TypeInv'
<1>. SUFFICES ASSUME TypeInv, TasksInv, [Next]_vars
              PROVE  TypeInv'
  OBVIOUS
<1>1. CASE MainActions
  BY <1>1, MainTypes
<1>2. CASE MainFails
  BY <1>2 DEF MainFails, MainGoto, MainOnly, supervisorVars, handled, TypeInv, MainSteps
<1>3. CASE SupervisorStep
  BY <1>3, SupervisorTypes
<1>4. ASSUME NEW t \in Tasks, TaskStep(t) \/ TaskFails(t)
      PROVE  TypeInv'
  <2>1. Running(t) /\ task[t] \in Task /\ TaskOnly /\ task' \in [Tasks -> {Null} \cup Task]
    BY <1>4, TaskMoves DEF TypeInv
  <2>2. offsets' \in [Keys -> Nat] /\ projected' \in [Keys -> Seq(Nat)]
    <3>1. CASE ProjectEvent(t)
      <4>1. task[t].cursor + 1 \in Nat /\ task[t].key \in Keys
        BY <2>1 DEF Task
      <4>2. Append(projected[task[t].key], task[t].cursor + 1) \in Seq(Nat)
        BY <4>1, AppendProperties DEF TypeInv
      <4>. QED BY <3>1, <4>2 DEF ProjectEvent, TypeInv
    <3>2. CASE StoresOffset(t)
      BY <2>1, <3>2 DEF StoresOffset, Checkpoint, Task, TypeInv
    <3>3. CASE TaskLooksUp(t) \/ TaskOpens(t) \/ ReadsOffset(t) \/ Loads(t) \/ TaskFails(t)
      BY <3>3 DEF TaskLooksUp, TaskOpens, ReadsOffset, Loads, TaskFails, handled, TypeInv
    <3>. QED BY <1>4, <3>1, <3>2, <3>3 DEF TaskStep
  <2>. QED BY <2>1, <2>2 DEF TaskOnly, mainVars, supervisorVars, TypeInv
<1>5. CASE SupervisorIsStopped
  BY <1>5 DEF SupervisorIsStopped, SupervisorOnly, mainVars, handled, TypeInv
<1>6. ASSUME NEW t \in Tasks, AbortTask(t)
      PROVE  TypeInv'
  BY <1>6 DEF AbortTask, TaskOnly, mainVars, supervisorVars, handled, TypeInv
<1>7. CASE UNCHANGED vars
  BY <1>7 DEF vars, mainVars, supervisorVars, handled, TypeInv
<1>. QED BY <1>1, <1>2, <1>3, <1>4, <1>5, <1>6, <1>7 DEF Next, MainStep, MainActions

-----------------------------------------------------------------------------
(* One task per active partition *)

LEMMA TasksInit == Init => TasksInv
BY DEF Init, TasksInv, OneHandlerPerPartition, Running, NoTask, Busy

(* What the two branches of the supervisor's select do to slots and sets.    *)
LEMMA DirtyReceived ==
    ASSUME TypeInv, TasksInv, ReceiveDirty
    PROVE  LET k == Head(dirty) IN
           /\ supervisor = "running" /\ dirty # <<>> /\ dirty' = Tail(dirty) /\ k \in Keys
           /\ UNCHANGED <<main, version, dirty_tx, offsets, projected, dirty_rx_closed, supervisor>>
           /\ \/ k \in active /\ pending' = pending \cup {k} /\ UNCHANGED <<active, task>>
              \/ /\ k \notin active /\ active' = active \cup {k} /\ UNCHANGED pending
                 /\ \E t \in Tasks : task[t] = Null /\ task' = [task EXCEPT ![t] = NewTask(k)]
<1>1. supervisor = "running" /\ dirty # <<>> /\ dirty' = Tail(dirty)
      /\ UNCHANGED <<main, version, dirty_tx, offsets, projected, dirty_rx_closed, supervisor>>
  BY DEF ReceiveDirty, SupervisorOnly, mainVars, handled
<1>. DEFINE k == Head(dirty)
<1>2. k \in Keys
  BY <1>1, HeadTailProperties DEF TypeInv
<1>3. task \in [Tasks -> {Null} \cup Task]
      /\ \A t, u \in Tasks :
              task[t] # Null /\ task[u] # Null /\ task[t].key = task[u].key => t = u
  BY DEF TypeInv, TasksInv, OneHandlerPerPartition, Running
<1>4. SpawnPartitionTask(task, k) =>
          \E t \in Tasks : task[t] = Null /\ task' = [task EXCEPT ![t] = NewTask(k)]
  BY <1>2, <1>3, Spawned
<1>. QED BY <1>1, <1>2, <1>4 DEF ReceiveDirty, MustWait

LEMMA TaskJoined ==
    ASSUME TypeInv, TasksInv, JoinNext
    PROVE  /\ supervisor = "running"
           /\ UNCHANGED <<main, version, dirty_tx, offsets, projected, dirty, dirty_rx_closed,
                          supervisor>>
           /\ \E t \in Tasks :
               LET k == task[t].key
                   others == [task EXCEPT ![t] = Null]
               IN  /\ Running(t) /\ task[t].at = "ok" /\ k \in Keys
                   /\ \/ /\ k \in pending /\ pending' = pending \ {k} /\ UNCHANGED active
                         /\ \E u \in Tasks :
                             others[u] = Null /\ task' = [others EXCEPT ![u] = NewTask(k)]
                      \/ /\ k \notin pending /\ active' = active \ {k} /\ UNCHANGED pending
                         /\ task' = others
<1>1. supervisor = "running"
      /\ UNCHANGED <<main, version, dirty_tx, offsets, projected, dirty, dirty_rx_closed, supervisor>>
  BY DEF JoinNext, SupervisorOnly, mainVars, handled
<1>. PICK t \in Tasks :
       /\ Running(t) /\ task[t].at = "ok"
       /\ LET k == task[t].key
              others == [task EXCEPT ![t] = Null]
          IN  \/ /\ MustRerun(k)
                 /\ pending' = pending \ {k}
                 /\ SpawnPartitionTask(others, k)
                 /\ UNCHANGED active
              \/ /\ ~MustRerun(k)
                 /\ active' = active \ {k}
                 /\ task' = others
                 /\ UNCHANGED pending
  BY DEF JoinNext
<1>. DEFINE k == task[t].key
            others == [task EXCEPT ![t] = Null]
<1>2. k \in Keys /\ others \in [Tasks -> {Null} \cup Task]
  BY DEF TypeInv, Running, Task
<1>3. \A u, v \in Tasks :
          others[u] # Null /\ others[v] # Null /\ others[u].key = others[v].key => u = v
  BY DEF TypeInv, TasksInv, OneHandlerPerPartition, Running
<1>4. SpawnPartitionTask(others, k) =>
          \E u \in Tasks : others[u] = Null /\ task' = [others EXCEPT ![u] = NewTask(k)]
  <2>. HIDE DEF others, k
  <2>. QED BY <1>2, <1>3, Spawned
<1>. QED BY <1>1, <1>2, <1>4 DEF MustRerun

LEMMA TasksStep == TypeInv /\ TasksInv /\ [Next]_vars => TasksInv'
<1>. SUFFICES ASSUME TypeInv, TasksInv, [Next]_vars
              PROVE  TasksInv'
  OBVIOUS
<1>. USE DEF TasksInv, OneHandlerPerPartition, Running, Busy, NoTask
<1>1. CASE MainActions
  BY <1>1 DEF MainActions, MainChooses, MainLooksUp, MainOpens, MainAppends, MainSends,
              MainDropsSender, MainJoins, Reconfigure, MainOnly, supervisorVars
<1>2. CASE MainFails \/ SupervisorReturns \/ SupervisorIsStopped
  BY <1>2 DEF MainFails, SupervisorReturns, SupervisorIsStopped, MainOnly, supervisorVars
<1>8. CASE JoinFailed
  <2>1. PICK t \in Tasks : task' = [task EXCEPT ![t] = Null]
    BY <1>8 DEF JoinFailed
  <2>. QED BY <1>8, <2>1 DEF JoinFailed, TypeInv
<1>9. ASSUME NEW t \in Tasks, AbortTask(t)
      PROVE  TasksInv'
  BY <1>9 DEF AbortTask, TaskOnly, supervisorVars, TypeInv
<1>3. CASE ReceiveDirty
  <2>. DEFINE k == Head(dirty)
  <2>1. CASE k \in active /\ UNCHANGED <<active, task, supervisor>>
    BY <2>1
  <2>2. CASE /\ supervisor = "running" /\ UNCHANGED supervisor
             /\ k \in Keys /\ k \notin active /\ active' = active \cup {k}
             /\ \E t \in Tasks : task[t] = Null /\ task' = [task EXCEPT ![t] = NewTask(k)]
    <3>. PICK t \in Tasks : task[t] = Null /\ task' = [task EXCEPT ![t] = NewTask(k)]
      BY <2>2
    <3>1. NewTask(k).key = k /\ NewTask(k) # Null
      BY <2>2, NewTaskIsTask DEF NewTask
    <3>2. task'[t] = NewTask(k) /\ \A u \in Tasks \ {t} : task'[u] = task[u]
      BY DEF TypeInv
    <3>. HIDE DEF k
    <3>3. \A u \in Tasks : task[u] # Null => task[u].key \in Keys /\ task[u].key # k
      BY <2>2 DEF TypeInv, Task
    <3>. QED BY <2>2, <3>1, <3>2, <3>3
  <2>. QED BY <1>3, <2>1, <2>2, DirtyReceived
<1>4. CASE ReceiveClosed
  BY <1>4 DEF ReceiveClosed
<1>5. CASE JoinNext
  <2>. PICK t \in Tasks :
         LET k == task[t].key
             others == [task EXCEPT ![t] = Null]
         IN  /\ Running(t) /\ task[t].at = "ok" /\ k \in Keys
             /\ \/ /\ k \in pending /\ pending' = pending \ {k} /\ UNCHANGED active
                   /\ \E u \in Tasks :
                       others[u] = Null /\ task' = [others EXCEPT ![u] = NewTask(k)]
                \/ /\ k \notin pending /\ active' = active \ {k} /\ UNCHANGED pending
                   /\ task' = others
    BY <1>5, TaskJoined
  <2>. DEFINE k == task[t].key
              others == [task EXCEPT ![t] = Null]
  <2>1. supervisor = "running" /\ UNCHANGED supervisor
    BY <1>5, TaskJoined
  <2>2. k \in Keys /\ \A v \in Tasks \ {t} : task[v] # Null => task[v].key \in Keys /\ task[v].key # k
    BY DEF TypeInv, Task
  <2>3. others[t] = Null /\ \A v \in Tasks \ {t} : others[v] = task[v]
    BY DEF TypeInv
  <2>4. CASE UNCHANGED active
             /\ \E u \in Tasks : others[u] = Null /\ task' = [others EXCEPT ![u] = NewTask(k)]
    <3>. PICK u \in Tasks : others[u] = Null /\ task' = [others EXCEPT ![u] = NewTask(k)]
      BY <2>4
    <3>1. NewTask(k).key = k /\ NewTask(k) # Null
      BY <2>2, NewTaskIsTask DEF NewTask
    <3>2. task'[u] = NewTask(k) /\ \A v \in Tasks \ {u} : task'[v] = others[v]
      BY DEF TypeInv
    <3>3. k \in active
      BY <2>1, <2>2
    <3>. HIDE DEF k, others
    <3>4. \A v \in Tasks : others[v] # Null => v # t /\ others[v] = task[v] /\ others[v].key # k
      BY <2>2, <2>3
    <3>5. \A j \in Keys \ {k} : j \in active <=> \E v \in Tasks : others[v] # Null /\ others[v].key = j
      BY <2>1, <2>2, <2>3 DEF k
    <3>. QED BY <2>1, <2>4, <3>1, <3>2, <3>3, <3>4, <3>5
  <2>5. CASE active' = active \ {k} /\ task' = others
    BY <2>1, <2>2, <2>3, <2>5
  <2>. QED BY <2>4, <2>5
<1>6. ASSUME NEW t \in Tasks, TaskStep(t) \/ TaskFails(t)
      PROVE  TasksInv'
  <2>1. Running(t) /\ task[t] \in Task /\ TaskOnly
    BY <1>6, TaskMoves
  <2>2. PICK x \in Task : x.key = task[t].key /\ task' = [task EXCEPT ![t] = x]
    BY <1>6, TaskMoves
  <2>3. x # Null
    BY WorkerPoolAssumption
  <2>4. \A u \in Tasks : (task'[u] # Null <=> task[u] # Null) /\ (task[u] # Null => task'[u].key = task[u].key)
    BY <2>1, <2>2, <2>3 DEF TypeInv
  <2>5. supervisor # "returned"
    BY <2>1
  <2>. QED BY <2>1, <2>4, <2>5 DEF TaskOnly, supervisorVars
<1>7. CASE UNCHANGED vars
  BY <1>7 DEF vars, supervisorVars
<1>. QED BY <1>1, <1>2, <1>3, <1>4, <1>5, <1>6, <1>7, <1>8, <1>9
         DEF Next, MainStep, MainActions, SupervisorStep

-----------------------------------------------------------------------------
(* Offsets, projections and what a task knows of them *)

LEMMA DrainInit == Init => DrainInv
<1>. SUFFICES ASSUME Init PROVE DrainInv
  OBVIOUS
<1>1. \A k \in Keys : version[k] = 0 /\ offsets[k] = 0 /\ Len(projected[k]) = 0
  BY EmptySeq DEF Init
<1>2. \A t \in Tasks : ~Running(t)
  BY DEF Init, Running
<1>. QED BY <1>1, <1>2 DEF DrainInv

(* Appending makes versions grow and changes nothing else a task relies on.  *)
LEMMA MainKeeps ==
    ASSUME TypeInv, MainActions
    PROVE  /\ UNCHANGED <<supervisorVars, task, handled>>
           /\ \A k \in Keys : version[k] <= version'[k]
<1>1. UNCHANGED <<supervisorVars, task, handled>>
  BY DEF MainActions, MainChooses, MainLooksUp, MainOpens, MainAppends, MainSends,
         MainDropsSender, MainJoins, Reconfigure, MainOnly
<1>2. UNCHANGED version \/ MainAppends
  BY DEF MainActions, MainChooses, MainLooksUp, MainOpens, MainSends,
         MainDropsSender, MainJoins, Reconfigure, mainVars
<1>3. MainAppends => \A k \in Keys : version[k] <= version'[k]
  BY DEF MainAppends, TypeInv
<1>. QED BY <1>1, <1>2, <1>3 DEF TypeInv

LEMMA LeastIsBound == \A a, b \in Nat : Least(a, b) \in Nat /\ Least(a, b) <= b
BY DEF Least

(* A step of a task touches its own partition only, and keeps in step there. *)
LEMMA TaskDrains ==
    ASSUME TypeInv, TypeInv', TasksInv, TasksInv', DrainInv,
           NEW t \in Tasks, TaskStep(t) \/ TaskFails(t)
    PROVE  DrainInv'
<1>. DEFINE k == task[t].key
            x == task'[t]
<1>1. Running(t) /\ task[t] \in Task /\ k \in Keys /\ TaskOnly
  BY TaskMoves DEF Task
<1>2. UNCHANGED <<version, supervisor>>
  BY <1>1 DEF TaskOnly, mainVars, supervisorVars
<1>3. x \in Task /\ x.key = k /\ \A u \in Tasks \ {t} : task'[u] = task[u]
  <2>1. PICK y \in Task : y.key = task[t].key /\ task' = [task EXCEPT ![t] = y]
    BY TaskMoves
  <2>. QED BY <2>1 DEF TypeInv
<1>4. TaskInStep(task[t]) /\ offsets[k] <= version[k]
  BY <1>1 DEF DrainInv
<1>5. /\ offsets[k] \in Nat /\ version[k] \in Nat /\ projected[k] \in Seq(Nat)
      /\ task[t].cursor \in Nat /\ task[t].last \in Nat /\ ReadLimit \in Nat \ {0}
  BY <1>1, WorkerPoolAssumption DEF TypeInv, Task
<1>6. task[t].cursor + ReadLimit \in Nat
  BY <1>5
<1>7. /\ TaskInStep(task[t])' /\ offsets'[k] <= version'[k]
      /\ \A j \in Keys \ {k} : offsets'[j] = offsets[j] /\ projected'[j] = projected[j]
  <2>. USE <1>1, <1>2, <1>3, <1>4, <1>5 DEF TaskInStep, InStep, At, Goto, TypeInv
  <2>1. CASE TaskLooksUp(t)
    <3>1. (Goto(t, "cursor") \/ Goto(t, "open")) /\ UNCHANGED <<offsets, projected>> /\ task[t].at = "look_up"
      BY <2>1 DEF TaskLooksUp, handled
    <3>2. \A step \in TaskSteps : Goto(t, step) => x.at = step
      BY DEF Task
    <3>3. x.at \in {"cursor", "open"}
      BY <3>1, <3>2 DEF TaskSteps
    <3>. QED BY <3>1, <3>3
  <2>2. CASE TaskOpens(t)
    BY <2>2 DEF TaskOpens, handled
  <2>3. CASE ReadsOffset(t)
    BY <2>3 DEF ReadsOffset, handled
  <2>4. CASE Loads(t)
    <3>. DEFINE last == Least(task[t].cursor + ReadLimit, version[k])
    <3>1. UNCHANGED <<offsets, projected>> /\ task[t].at = "load"
      BY <2>4 DEF Loads, handled
    <3>2. last \in Nat /\ last <= version[k]
      BY <1>6, LeastIsBound
    <3>3. CASE Goto(t, "ok")
      BY <3>1, <3>3
    <3>4. CASE last > task[t].cursor
               /\ task' = [task EXCEPT ![t].at = "project", ![t].last = last]
      <4>1. x.at = "project" /\ x.last = last /\ x.cursor = task[t].cursor
        BY <3>4 DEF Task
      <4>. HIDE DEF last
      <4>. QED BY <3>1, <3>2, <3>4, <4>1
    <3>. QED BY <2>4, <3>3, <3>4 DEF Loads
  <2>5. CASE ProjectEvent(t)
    <3>1. /\ projected'[k] = Append(projected[k], task[t].cursor + 1)
          /\ \A j \in Keys \ {k} : projected'[j] = projected[j]
          /\ UNCHANGED offsets
      BY <2>5 DEF ProjectEvent
    <3>2. Len(projected'[k]) = Len(projected[k]) + 1
      BY <3>1, AppendProperties
    <3>3. task[t].at = "project" /\ x.cursor = task[t].cursor + 1 /\ x.last = task[t].last
          /\ x.at = IF x.cursor = x.last THEN "checkpoint" ELSE "project"
      BY <2>5 DEF ProjectEvent, Task
    <3>4. Len(projected[k]) \in Nat
      BY LenProperties
    <3>5. task[t].cursor = Len(projected[k]) /\ task[t].cursor < task[t].last
          /\ task[t].last <= version[k]
      BY <3>3
    <3>. HIDE DEF k, x
    <3>6. InStep(x, offsets'[k], Len(projected'[k]), version[k])
      BY <3>2, <3>3, <3>5
    <3>7. TaskInStep(task[t])' /\ offsets'[k] <= version'[k]
      BY <3>1, <3>6 DEF k, x
    <3>8. \A j \in Keys \ {k} : offsets'[j] = offsets[j] /\ projected'[j] = projected[j]
      BY <3>1
    <3>. QED BY <3>7, <3>8, Zenon
  <2>6. CASE StoresOffset(t)
    BY <2>6 DEF StoresOffset, Checkpoint
  <2>7. CASE TaskFails(t)
    BY <2>7 DEF TaskFails, handled
  <2>. QED BY <2>1, <2>2, <2>3, <2>4, <2>5, <2>6, <2>7 DEF TaskStep
<1>8. \A j \in Keys : offsets'[j] <= version'[j]
  BY <1>2, <1>7 DEF DrainInv
<1>9. ASSUME NEW u \in Tasks, u # t, task[u] # Null
      PROVE  TaskInStep(task[u])'
  <2>1. task'[u] = task[u] /\ task[u].key \in Keys \ {k} /\ TaskInStep(task[u])
    BY <1>1, <1>3, <1>9 DEF TypeInv, Task, TasksInv, OneHandlerPerPartition, DrainInv, Running
  <2>. QED BY <1>2, <1>7, <2>1 DEF TaskInStep, InStep
<1>10. \A u \in Tasks : Running(u)' => TaskInStep(task[u])'
  BY <1>3, <1>7, <1>9 DEF Running
<1>11. ASSUME supervisor = "running"
       PROVE  \A j \in Keys : Busy(j)' \/ offsets'[j] = Len(projected'[j])
  <2>1. \E u \in Tasks : task'[u] # Null /\ task'[u].key = k
    BY <1>3, WorkerPoolAssumption
  <2>2. \A j \in Keys \ {k} : Busy(j) => Busy(j)'
    BY <1>3 DEF Busy, Running
  <2>3. \A j \in Keys : Busy(j) \/ offsets[j] = Len(projected[j])
    BY <1>11 DEF DrainInv
  <2>. SUFFICES ASSUME NEW j \in Keys
                PROVE  Busy(j)' \/ offsets'[j] = Len(projected'[j])
    OBVIOUS
  <2>4. CASE j = k
    BY <2>1, <2>4 DEF Busy, Running
  <2>5. CASE j # k
    BY <1>7, <2>2, <2>3, <2>5
  <2>. QED BY <2>4, <2>5
<1>. QED BY <1>2, <1>8, <1>10, <1>11 DEF DrainInv

LEMMA DrainStep ==
    ASSUME TypeInv, TypeInv', TasksInv, TasksInv', DrainInv, [Next]_vars
    PROVE  DrainInv'
<1>1. CASE MainActions
  <2>1. UNCHANGED <<supervisor, task, offsets, projected>>
        /\ \A k \in Keys : version[k] <= version'[k]
    BY <1>1, MainKeeps DEF supervisorVars, handled
  <2>2. \A k \in Keys : version[k] \in Nat /\ version'[k] \in Nat /\ offsets[k] \in Nat
    BY DEF TypeInv
  <2>3. \A k \in Keys : offsets'[k] <= version'[k]
    BY <2>1, <2>2 DEF DrainInv
  <2>4. ASSUME NEW t \in Tasks, task[t] # Null
        PROVE  TaskInStep(task[t])'
    <3>1. task[t] \in Task /\ TaskInStep(task[t])
      BY <2>4 DEF TypeInv, DrainInv, Running
    <3>2. task[t].key \in Keys /\ task[t].last \in Nat
      BY <3>1 DEF Task
    <3>. QED BY <2>1, <2>2, <3>1, <3>2 DEF TaskInStep, InStep
  <2>5. supervisor' = "running" => \A k \in Keys : Busy(k)' \/ offsets'[k] = Len(projected'[k])
    BY <2>1 DEF DrainInv, Busy, Running
  <2>. QED BY <2>1, <2>3, <2>4, <2>5 DEF DrainInv, Running
<1>2. CASE MainFails
  BY <1>2 DEF MainFails, MainOnly, supervisorVars, handled, DrainInv, Running, Busy, TaskInStep,
              InStep
<1>8. ASSUME UNCHANGED <<version, offsets, projected>>, supervisor' # "running",
             \A u \in Tasks : task'[u] \in {task[u], Null}
      PROVE  DrainInv'
  <2>1. ASSUME NEW u \in Tasks, task'[u] # Null
        PROVE  TaskInStep(task[u])'
    <3>1. task'[u] = task[u] /\ TaskInStep(task[u])
      BY <1>8, <2>1 DEF DrainInv, Running
    <3>. QED BY <1>8, <3>1 DEF TaskInStep
  <2>. QED BY <1>8, <2>1 DEF DrainInv, Running
<1>9. CASE JoinFailed \/ SupervisorReturns \/ SupervisorIsStopped
  <2>1. UNCHANGED <<version, offsets, projected>> /\ supervisor' # "running"
    BY <1>9 DEF JoinFailed, SupervisorReturns, SupervisorIsStopped, SupervisorOnly, mainVars, handled
  <2>2. UNCHANGED task \/ \E t \in Tasks : task' = [task EXCEPT ![t] = Null]
    BY <1>9 DEF JoinFailed, SupervisorReturns, SupervisorIsStopped
  <2>3. \A u \in Tasks : task'[u] \in {task[u], Null}
    BY <2>2 DEF TypeInv
  <2>. QED BY <1>8, <2>1, <2>3
<1>10. ASSUME NEW t \in Tasks, AbortTask(t)
       PROVE  DrainInv'
  <2>1. /\ UNCHANGED <<version, offsets, projected>> /\ supervisor' # "running"
        /\ task' = [task EXCEPT ![t] = Null]
    BY <1>10 DEF AbortTask, TaskOnly, mainVars, supervisorVars, handled
  <2>2. \A u \in Tasks : task'[u] \in {task[u], Null}
    BY <2>1 DEF TypeInv
  <2>. QED BY <1>8, <2>1, <2>2
<1>3. CASE ReceiveDirty
  <2>. DEFINE k == Head(dirty)
  <2>1. supervisor = "running" /\ k \in Keys /\ UNCHANGED <<version, offsets, projected, supervisor>>
    BY <1>3, DirtyReceived
  <2>2. CASE UNCHANGED <<active, task>>
    BY <2>1, <2>2 DEF DrainInv, Running, Busy, TaskInStep, InStep
  <2>3. CASE k \notin active
             /\ \E t \in Tasks : task[t] = Null /\ task' = [task EXCEPT ![t] = NewTask(k)]
    <3>. PICK t \in Tasks : task[t] = Null /\ task' = [task EXCEPT ![t] = NewTask(k)]
      BY <2>3
    <3>1. task'[t] = NewTask(k) /\ \A u \in Tasks \ {t} : task'[u] = task[u]
      BY DEF TypeInv
    <3>2. offsets[k] = Len(projected[k])
      BY <2>1, <2>3 DEF TasksInv, DrainInv
    <3>3. InStep(NewTask(k), offsets'[k], Len(projected'[k]), version'[k]) /\ NewTask(k).key = k /\ NewTask(k) # Null
      BY <2>1, <3>2, NewTaskIsTask DEF TaskInStep, InStep, NewTask
    <3>. HIDE DEF k
    <3>4. \A u \in Tasks : task'[u] # Null => TaskInStep(task[u])'
      BY <2>1, <3>1, <3>3 DEF DrainInv, Running, TaskInStep, InStep
    <3>5. \A j \in Keys : Busy(j) => Busy(j)'
      BY <3>1 DEF Busy, Running
    <3>. QED BY <2>1, <3>4, <3>5 DEF DrainInv, Running
  <2>. QED BY <1>3, <2>2, <2>3, DirtyReceived
<1>4. CASE ReceiveClosed
  BY <1>4 DEF ReceiveClosed, SupervisorOnly, mainVars, handled, DrainInv, Running, Busy, TaskInStep, InStep
<1>5. CASE JoinNext
  <2>. PICK t \in Tasks :
         LET k == task[t].key
             others == [task EXCEPT ![t] = Null]
         IN  /\ Running(t) /\ task[t].at = "ok" /\ k \in Keys
             /\ \/ /\ k \in pending /\ pending' = pending \ {k} /\ UNCHANGED active
                   /\ \E u \in Tasks :
                       others[u] = Null /\ task' = [others EXCEPT ![u] = NewTask(k)]
                \/ /\ k \notin pending /\ active' = active \ {k} /\ UNCHANGED pending
                   /\ task' = others
    BY <1>5, TaskJoined
  <2>. DEFINE k == task[t].key
              others == [task EXCEPT ![t] = Null]
  <2>1. UNCHANGED <<version, offsets, projected, supervisor>> /\ supervisor = "running"
    BY <1>5, TaskJoined
  <2>2. offsets[k] = Len(projected[k])
    BY DEF DrainInv, TaskInStep, InStep
  <2>3. others[t] = Null /\ \A v \in Tasks \ {t} : others[v] = task[v]
    BY DEF TypeInv
  <2>4. \A v \in Tasks : others[v] # Null => 
          InStep(others[v], offsets'[others[v].key], Len(projected'[others[v].key]), version'[others[v].key])
    BY <2>1, <2>3 DEF DrainInv, Running, TaskInStep, InStep
  <2>5. CASE \E u \in Tasks : others[u] = Null /\ task' = [others EXCEPT ![u] = NewTask(k)]
    <3>. PICK u \in Tasks : others[u] = Null /\ task' = [others EXCEPT ![u] = NewTask(k)]
      BY <2>5
    <3>1. task'[u] = NewTask(k) /\ \A v \in Tasks \ {u} : task'[v] = others[v]
      BY DEF TypeInv
    <3>2. InStep(NewTask(k), offsets'[k], Len(projected'[k]), version'[k]) /\ NewTask(k).key = k /\ NewTask(k) # Null
      BY <2>1, <2>2, NewTaskIsTask DEF TaskInStep, InStep, NewTask
    <3>. HIDE DEF k, others
    <3>3. \A v \in Tasks : task'[v] # Null => TaskInStep(task[v])'
      BY <2>4, <3>1, <3>2 DEF TaskInStep
    <3>4. \A j \in Keys : Busy(j) => Busy(j)'
      BY <2>3, <3>1, <3>2 DEF Busy, Running, k
    <3>. QED BY <2>1, <3>3, <3>4 DEF DrainInv, Running
  <2>6. CASE task' = others
    <3>1. \A j \in Keys : Busy(j) => Busy(j)' \/ j = k
      BY <2>3, <2>6 DEF Busy, Running
    <3>. QED BY <2>1, <2>2, <2>4, <2>6, <3>1 DEF DrainInv, Running, TaskInStep
  <2>. QED BY <2>5, <2>6
<1>6. ASSUME NEW t \in Tasks, TaskStep(t) \/ TaskFails(t)
      PROVE  DrainInv'
  BY <1>6, TaskDrains
<1>7. CASE UNCHANGED vars
  BY <1>7 DEF vars, mainVars, supervisorVars, handled, DrainInv, Running, Busy, TaskInStep, InStep
<1>. QED BY <1>1, <1>2, <1>3, <1>4, <1>5, <1>6, <1>7, <1>9, <1>10
         DEF Next, MainStep, MainActions, SupervisorStep

-----------------------------------------------------------------------------
(* Nothing is forgotten *)

LEMMA AnnouncedInit == Init => AnnouncedInv
BY DEF Init, AnnouncedInv

LEMMA MainAnnounces ==
    ASSUME TypeInv, AnnouncedInv, MainActions
    PROVE  AnnouncedInv'
<1>1. UNCHANGED <<supervisorVars, task, handled>>
  BY MainKeeps
<1>. USE <1>1 DEF supervisorVars, handled
<1>2. ASSUME UNCHANGED <<version, dirty>>, main.at # "send",
             ~dirty_tx' => main'.at \in MainEnds,
             dirty_tx' => dirty_tx,
             main.at \in MainEnds => main'.at \in MainEnds
      PROVE  AnnouncedInv'
  BY <1>2 DEF AnnouncedInv, Announced, Running, TypeInv
<1>3. CASE MainChooses \/ MainLooksUp \/ MainOpens
  <2>1. UNCHANGED <<version, dirty, dirty_tx>> /\ main.at \in {"choose", "look_up", "open"}
    BY <1>3 DEF MainChooses, MainLooksUp, MainOpens
  <2>2. CASE supervisor = "running"
    BY <1>2, <2>1, <2>2 DEF AnnouncedInv, MainEnds
  <2>3. CASE supervisor # "running"
    BY <2>1, <2>3 DEF AnnouncedInv, MainEnds
  <2>. QED BY <2>2, <2>3
<1>4. CASE MainDropsSender \/ MainJoins
  BY <1>2, <1>4 DEF MainDropsSender, MainJoins, MainGoto, TypeInv, MainEnds
<1>5. CASE Reconfigure
  BY <1>5 DEF Reconfigure, mainVars, AnnouncedInv, Announced, Running
<1>6. CASE MainAppends
  <2>1. main.at = "append" /\ main'.at = "send" /\ main'.key = main.key /\ main.key \in Keys
        /\ version' = [version EXCEPT ![main.key] = @ + 1] /\ UNCHANGED <<dirty, dirty_tx>>
    BY <1>6 DEF MainAppends, MainGoto, TypeInv
  <2>2. \A k \in Keys \ {main.key} : version'[k] = version[k] /\ (Announced(k) => Announced(k)')
    BY <2>1 DEF Announced, Running, TypeInv
  <2>3. Announced(main.key)'
    BY <2>1 DEF Announced
  <2>4. \A k \in Keys : k = main.key => k = main'.key
    BY <2>1
  <2>. QED BY <2>1, <2>2, <2>3, <2>4 DEF AnnouncedInv, MainEnds
<1>7. CASE MainSends
  <2>1. main.at = "send" /\ main.key \in Keys /\ UNCHANGED <<version, dirty_tx>>
    BY <1>7 DEF MainSends, TypeInv
  <2>2. CASE supervisor = "running" /\ dirty' = Append(dirty, main.key) /\ main'.at = "choose"
    <3>1. dirty_tx /\ ~dirty_rx_closed
      BY <2>1, <2>2 DEF AnnouncedInv, MainEnds
    <3>2. Len(dirty') = Len(dirty) + 1 /\ dirty'[Len(dirty) + 1] = main.key
          /\ \A i \in 1..Len(dirty) : dirty'[i] = dirty[i]
      BY <2>1, <2>2, AppendProperties DEF TypeInv
    <3>3. Len(dirty) \in Nat
      BY LenProperties DEF TypeInv
    <3>4. \A k \in Keys : Announced(k) => Announced(k)'
      <4>1. ASSUME NEW k \in Keys, \E i \in 1..Len(dirty) : dirty[i] = k
            PROVE  \E i \in 1..Len(dirty') : dirty'[i] = k
        BY <3>2, <3>3, <4>1
      <4>2. \E i \in 1..Len(dirty') : dirty'[i] = main.key
        BY <3>2, <3>3
      <4>. QED BY <4>1, <4>2 DEF Announced, Running
    <3>. QED BY <2>1, <2>2, <3>1, <3>4 DEF AnnouncedInv
  <2>3. CASE supervisor # "running"
    BY <2>1, <2>3 DEF AnnouncedInv, MainEnds
  <2>. QED BY <1>7, <2>2, <2>3 DEF MainSends, MainGoto, TypeInv
<1>. QED BY <1>3, <1>4, <1>5, <1>6, <1>7 DEF MainActions

LEMMA SupervisorAnnounces ==
    ASSUME TypeInv, TasksInv, DrainInv, AnnouncedInv, SupervisorStep
    PROVE  AnnouncedInv'
<1>1. CASE ReceiveDirty
  <2>. DEFINE k == Head(dirty)
  <2>1. /\ supervisor = "running" /\ dirty # <<>> /\ dirty' = Tail(dirty) /\ k \in Keys
        /\ UNCHANGED <<main, version, dirty_tx, offsets, projected, dirty_rx_closed, supervisor>>
    BY <1>1, DirtyReceived
  <2>2. ~dirty_rx_closed
    BY <2>1 DEF AnnouncedInv
  <2>3. ASSUME NEW j \in Keys, j # k, \E i \in 1..Len(dirty) : dirty[i] = j
        PROVE  \E i \in 1..Len(dirty') : dirty'[i] = j
    <3>1. PICK i \in 1..Len(dirty) : dirty[i] = j
      BY <2>3
    <3>2. /\ Len(dirty') = Len(dirty) - 1 /\ Len(dirty) \in Nat
          /\ \A n \in 1..Len(dirty') : dirty'[n] = dirty[n + 1]
          /\ Head(dirty) = dirty[1]
      BY <2>1, HeadTailProperties, LenProperties DEF TypeInv
    <3>3. i # 1 /\ i - 1 \in 1..Len(dirty')
      BY <2>3, <3>1, <3>2
    <3>4. dirty'[i - 1] = dirty[i - 1 + 1] /\ i - 1 + 1 = i
      BY <3>2, <3>3
    <3>. QED BY <3>1, <3>3, <3>4
  <2>4. CASE k \in active /\ pending' = pending \cup {k} /\ UNCHANGED <<active, task>>
    <3>1. \A j \in Keys : Announced(j) => Announced(j)'
      <4>. HIDE DEF k
      <4>. QED BY <2>1, <2>3, <2>4 DEF Announced, Running
    <3>. QED BY <2>1, <2>2, <3>1 DEF AnnouncedInv
  <2>5. CASE /\ k \notin active /\ UNCHANGED pending
             /\ \E t \in Tasks : task[t] = Null /\ task' = [task EXCEPT ![t] = NewTask(k)]
    <3>. PICK t \in Tasks : task[t] = Null /\ task' = [task EXCEPT ![t] = NewTask(k)]
      BY <2>5
    <3>1. task'[t] = NewTask(k) /\ \A u \in Tasks \ {t} : task'[u] = task[u]
      BY DEF TypeInv
    <3>2. NewTask(k) # Null /\ NewTask(k).key = k /\ NewTask(k).at # "ok"
      BY <2>1, NewTaskIsTask DEF NewTask
    <3>3. \A j \in Keys : Announced(j) => Announced(j)'
      <4>. HIDE DEF k
      <4>. QED BY <2>1, <2>3, <2>5, <3>1, <3>2 DEF Announced, Running
    <3>. QED BY <2>1, <2>2, <3>3 DEF AnnouncedInv
  <2>. QED BY <1>1, <2>4, <2>5, DirtyReceived
<1>2. CASE ReceiveClosed
  BY <1>2 DEF ReceiveClosed, SupervisorOnly, mainVars, handled, AnnouncedInv, Announced, Running
<1>3. CASE JoinNext
  <2>. PICK t \in Tasks :
         LET k == task[t].key
             others == [task EXCEPT ![t] = Null]
         IN  /\ Running(t) /\ task[t].at = "ok" /\ k \in Keys
             /\ \/ /\ k \in pending /\ pending' = pending \ {k} /\ UNCHANGED active
                   /\ \E u \in Tasks :
                       others[u] = Null /\ task' = [others EXCEPT ![u] = NewTask(k)]
                \/ /\ k \notin pending /\ active' = active \ {k} /\ UNCHANGED pending
                   /\ task' = others
    BY <1>3, TaskJoined
  <2>. DEFINE k == task[t].key
              others == [task EXCEPT ![t] = Null]
  <2>1. /\ supervisor = "running"
        /\ UNCHANGED <<main, version, dirty_tx, offsets, projected, dirty, dirty_rx_closed,
                       supervisor>>
    BY <1>3, TaskJoined
  <2>2. others[t] = Null /\ \A v \in Tasks \ {t} : others[v] = task[v]
    BY DEF TypeInv
  <2>3. CASE /\ pending' = pending \ {k}
             /\ \E u \in Tasks : others[u] = Null /\ task' = [others EXCEPT ![u] = NewTask(k)]
    <3>. PICK u \in Tasks : others[u] = Null /\ task' = [others EXCEPT ![u] = NewTask(k)]
      BY <2>3
    <3>1. task'[u] = NewTask(k) /\ \A v \in Tasks \ {u} : task'[v] = others[v]
      BY DEF TypeInv
    <3>2. NewTask(k) # Null /\ NewTask(k).key = k /\ NewTask(k).at # "ok"
      BY NewTaskIsTask DEF NewTask
    <3>. HIDE DEF k, others
    <3>3. \A v \in Tasks : task[v] # Null /\ task[v].at # "ok" => task'[v] = task[v]
      BY <2>2, <3>1
    <3>4. \A j \in Keys : Announced(j) => Announced(j)'
      BY <2>1, <2>3, <3>1, <3>2, <3>3 DEF Announced, Running
    <3>. QED BY <2>1, <3>4 DEF AnnouncedInv
  <2>4. CASE UNCHANGED pending /\ task' = others
    <3>1. \A j \in Keys : Announced(j) => Announced(j)'
      BY <2>1, <2>2, <2>4 DEF Announced, Running
    <3>. QED BY <2>1, <3>1 DEF AnnouncedInv
  <2>. QED BY <2>3, <2>4
<1>4. CASE JoinFailed
  BY <1>4 DEF JoinFailed, AnnouncedInv
<1>5. CASE SupervisorReturns
  <2>1. /\ supervisor = "running" /\ dirty_rx_closed /\ task = NoTask /\ supervisor' = "returned"
        /\ UNCHANGED <<main, version, projected>>
    BY <1>5 DEF SupervisorReturns, SupervisorOnly, mainVars, handled
  <2>2. dirty = <<>> /\ main.at \in MainEnds
    BY <2>1 DEF AnnouncedInv
  <2>3. \A t \in Tasks : ~Running(t)
    BY <2>1 DEF NoTask, Running
  <2>4. active = {} /\ pending = {}
    BY <2>1, <2>3 DEF TasksInv, TypeInv, Busy
  <2>5. Len(dirty) = 0
    BY <2>2
  <2>6. \A k \in Keys : ~Announced(k)
    BY <2>2, <2>3, <2>4, <2>5 DEF Announced, MainEnds
  <2>7. \A k \in Keys : Len(projected[k]) = version[k]
    BY <2>1, <2>3, <2>6 DEF AnnouncedInv, DrainInv, Busy
  <2>. QED BY <2>1, <2>2, <2>7 DEF AnnouncedInv
<1>. QED BY <1>1, <1>2, <1>3, <1>4, <1>5 DEF SupervisorStep

LEMMA TaskAnnounces ==
    ASSUME TypeInv, TasksInv, DrainInv, AnnouncedInv,
           NEW t \in Tasks, TaskStep(t) \/ TaskFails(t)
    PROVE  AnnouncedInv'
<1>. DEFINE k == task[t].key
            x == task'[t]
<1>1. Running(t) /\ task[t] \in Task /\ k \in Keys /\ TaskOnly
  BY TaskMoves DEF Task
<1>2. supervisor # "returned"
      /\ UNCHANGED <<main, version, dirty, dirty_tx, dirty_rx_closed, supervisor, pending>>
  BY <1>1 DEF TasksInv, Running, NoTask, TaskOnly, mainVars, supervisorVars
<1>3. x # Null /\ x.key = k /\ \A u \in Tasks \ {t} : task'[u] = task[u]
  <2>1. PICK y \in Task : y.key = task[t].key /\ task' = [task EXCEPT ![t] = y]
    BY TaskMoves
  <2>. QED BY <2>1, WorkerPoolAssumption DEF TypeInv
<1>4. \A j \in Keys \ {k} : offsets'[j] = offsets[j]
  BY <1>1 DEF TaskStep, TaskLooksUp, TaskOpens, ReadsOffset, Loads, ProjectEvent, StoresOffset,
              Checkpoint, TaskFails, handled, TypeInv
<1>5. x.at # "ok" \/ offsets'[k] = version[k]
  <2>1. CASE Loads(t)
    <3>1. task[t].cursor = offsets[k] /\ offsets[k] <= version[k] /\ UNCHANGED offsets
      BY <1>1, <2>1 DEF Loads, At, handled, DrainInv, TaskInStep, InStep
    <3>2. offsets[k] \in Nat /\ version[k] \in Nat /\ ReadLimit \in Nat \ {0}
      BY <1>1, WorkerPoolAssumption DEF TypeInv
    <3>3. CASE Least(offsets[k] + ReadLimit, version[k]) <= offsets[k]
      BY <3>1, <3>2, <3>3 DEF Least
    <3>4. CASE task' = [task EXCEPT ![t].at = "project",
                                    ![t].last = Least(offsets[k] + ReadLimit, version[k])]
      BY <1>1, <3>4 DEF Task, TypeInv
    <3>. QED BY <2>1, <3>1, <3>3, <3>4 DEF Loads
  <2>2. CASE TaskLooksUp(t) \/ TaskOpens(t) \/ StoresOffset(t) \/ TaskFails(t)
    <3>1. \E step \in TaskSteps \ {"ok"} : Goto(t, step)
      BY <2>2 DEF TaskLooksUp, TaskOpens, StoresOffset, TaskFails, TaskSteps
    <3>. QED BY <1>1, <3>1 DEF Goto, Task, TypeInv
  <2>3. CASE ReadsOffset(t)
    BY <1>1, <2>3 DEF ReadsOffset, Task, TypeInv
  <2>4. CASE ProjectEvent(t)
    BY <1>1, <2>4 DEF ProjectEvent, At, Task, TypeInv
  <2>. QED BY <2>1, <2>2, <2>3, <2>4 DEF TaskStep
<1>6. \A j \in Keys \ {k} : Announced(j) => Announced(j)'
  BY <1>2, <1>3 DEF Announced, Running
<1>7. x.at # "ok" => \A j \in Keys : j = k => Announced(j)'
  BY <1>1, <1>2, <1>3 DEF Announced, Running
<1>8. supervisor = "running" => \A j \in Keys : offsets'[j] = version'[j] \/ Announced(j)'
  BY <1>2, <1>4, <1>5, <1>6, <1>7 DEF AnnouncedInv
<1>. QED BY <1>2, <1>8 DEF AnnouncedInv

LEMMA AnnouncedStep ==
    TypeInv /\ TasksInv /\ DrainInv /\ AnnouncedInv /\ [Next]_vars => AnnouncedInv'
<1>. SUFFICES ASSUME TypeInv, TasksInv, DrainInv, AnnouncedInv, [Next]_vars
              PROVE  AnnouncedInv'
  OBVIOUS
<1>1. CASE MainFails
  <2>1. main.at \in {"open", "append"} /\ main'.at = "failed" /\ ~dirty_tx'
        /\ UNCHANGED <<version, dirty, supervisorVars, task, handled>>
    BY <1>1 DEF MainFails, MainGoto, MainOnly, TypeInv
  <2>2. \A k \in Keys : Announced(k) => Announced(k)'
    BY <2>1 DEF Announced, Running, supervisorVars
  <2>. QED BY <2>1, <2>2 DEF AnnouncedInv, MainEnds, supervisorVars, handled
<1>3. CASE SupervisorIsStopped
  BY <1>3 DEF SupervisorIsStopped, AnnouncedInv
<1>4. ASSUME NEW t \in Tasks, AbortTask(t)
      PROVE  AnnouncedInv'
  BY <1>4 DEF AbortTask, TaskOnly, supervisorVars, AnnouncedInv
<1>2. CASE UNCHANGED vars
  BY <1>2 DEF vars, mainVars, supervisorVars, handled, AnnouncedInv, Announced, Running
<1>. QED BY <1>1, <1>2, <1>3, <1>4, MainAnnounces, SupervisorAnnounces, TaskAnnounces
         DEF Next, MainStep, MainActions

-----------------------------------------------------------------------------
(* The cache and the bounds *)

CachedStore == [key : Keys, stream : {AnyStream}]

CacheInv ==
    /\ max_open_stores \in StoreLimits
    /\ stores \in Seq(CachedStore)
    /\ CacheWithinLimit

\* main chooses a partition and appends to it later; nobody else appends.
BoundInv ==
    /\ \A k \in Keys : version[k] <= MaxAppends[k]
    /\ main.at \in {"look_up", "open", "append"} => version[main.key] < MaxAppends[main.key]
    /\ Len(dirty) <= ChannelCapacity
    /\ faults \in 0..MaxFaults

LEMMA LimitIsPositive == \A limit \in StoreLimits : limit \in Nat /\ limit >= 1
BY PartitionCacheAssumption

LEMMA LeastNumber ==
    ASSUME NEW T, T \subseteq Nat, T # {}
    PROVE  Min(T) \in T
<1>. DEFINE R == {ss \in Nat \X Nat : ss[1] < ss[2]}
<1>1. IsWellFoundedOn(R, Nat)
  BY NatLessThanWellFounded DEF OpToRel
<1>2. PICK n \in T : \A m \in T : ~ (<<m, n>> \in R)
  BY <1>1, WFMin
<1>3. \A m \in T : ~ (m < n)
  BY <1>2
<1>4. \A m \in T : n <= m
  BY <1>3
<1>. QED BY <1>4 DEF Min

LEMMA Suffix ==
    ASSUME NEW entries \in Seq(CachedStore), NEW n \in 1 .. Len(entries) + 1
    PROVE  /\ SubSeq(entries, n, Len(entries)) \in Seq(CachedStore)
           /\ Len(SubSeq(entries, n, Len(entries))) = Len(entries) + 1 - n
<1>1. Len(entries) \in Nat /\ \A i \in 1..Len(entries) : entries[i] \in CachedStore
  BY LenProperties, ElementOfSeq
<1>2. \A i \in n .. Len(entries) : entries[i] \in CachedStore
  BY <1>1
<1>3. /\ SubSeq(entries, n, Len(entries)) \in Seq(CachedStore)
      /\ Len(SubSeq(entries, n, Len(entries))) = IF n <= Len(entries) THEN Len(entries) - n + 1 ELSE 0
  BY <1>1, <1>2, SubSeqProperties
<1>. HIDE DEF CachedStore
<1>. QED BY <1>1, <1>3

(* evict_idle lets go of entries, and evict_to_capacity makes room for one.  *)
LEMMA Evicted ==
    ASSUME NEW entries \in Seq(CachedStore)
    PROVE  /\ \A kept \in EvictIdle(entries) :
                kept \in Seq(CachedStore) /\ Len(kept) <= Len(entries)
           /\ \A limit \in StoreLimits :
                /\ EvictToCapacity(entries, limit) \in Seq(CachedStore)
                /\ Len(EvictToCapacity(entries, limit)) < limit
<1>1. Len(entries) \in Nat
  BY LenProperties
<1>2. ASSUME NEW kept \in EvictIdle(entries)
      PROVE  kept \in Seq(CachedStore) /\ Len(kept) <= Len(entries)
  <2>1. PICK n \in 1 .. Len(entries) + 1 : kept = SubSeq(entries, n, Len(entries))
    BY <1>2 DEF EvictIdle
  <2>2. kept \in Seq(CachedStore) /\ Len(kept) = Len(entries) + 1 - n
    BY <2>1, Suffix
  <2>. QED BY <1>1, <2>2
<1>3. ASSUME NEW limit \in StoreLimits
      PROVE  /\ EvictToCapacity(entries, limit) \in Seq(CachedStore)
             /\ Len(EvictToCapacity(entries, limit)) < limit
  <2>1. limit \in Nat /\ limit >= 1
    BY LimitIsPositive
  <2>2. CASE Len(entries) < limit
    BY <1>1, <2>1, <2>2 DEF EvictToCapacity
  <2>3. CASE Len(entries) >= limit
    <3>. DEFINE n == Len(entries) - limit + 2
    <3>1. n \in 1 .. Len(entries) + 1 /\ Len(entries) + 1 - n < limit
      BY <1>1, <2>1, <2>3
    <3>2. EvictToCapacity(entries, limit) = SubSeq(entries, n, Len(entries))
      BY <2>3 DEF EvictToCapacity
    <3>. HIDE DEF n
    <3>. QED BY <3>1, <3>2, Suffix
  <2>. QED BY <1>1, <2>1, <2>2, <2>3
<1>. QED BY <1>2, <1>3

(* A re-entered key takes the place of its old entry.                        *)
LEMMA WithoutOne ==
    ASSUME NEW entries \in Seq(CachedStore), NEW key
    PROVE  /\ WithoutKey(entries, key) \in Seq(CachedStore)
           /\ Len(WithoutKey(entries, key)) <= Len(entries)
           /\ (\E i \in DOMAIN entries : entries[i].key = key) =>
                Len(WithoutKey(entries, key)) < Len(entries)
<1>1. Len(entries) \in Nat /\ DOMAIN entries = 1..Len(entries)
      /\ \A i \in 1..Len(entries) : entries[i] \in CachedStore
  BY LenProperties, ElementOfSeq
<1>. DEFINE rest == WithoutKey(entries, key)
            I == {i \in 1..Len(entries) : entries[i].key = key}
<1>2. CASE I = {}
  <2>1. rest = entries
    BY <1>2 DEF WithoutKey, RemoveFirstMatch
  <2>. QED BY <1>1, <1>2, <2>1
<1>3. CASE I # {}
  <2>1. I \subseteq Nat
    OBVIOUS
  <2>2. PICK i \in 1..Len(entries) : i = Min(I)
    BY <1>3, <2>1, LeastNumber
  <2>3. rest = SubSeq(entries, 1, i - 1) \o SubSeq(entries, i + 1, Len(entries))
    BY <1>3, <2>2 DEF WithoutKey, RemoveFirstMatch, RemoveAt, SelectInSeq
  <2>. DEFINE front == SubSeq(entries, 1, i - 1)
              back == SubSeq(entries, i + 1, Len(entries))
  <2>4. front \in Seq(CachedStore) /\ Len(front) = i - 1
    <3>1. \A j \in 1 .. i - 1 : entries[j] \in CachedStore
      BY <1>1
    <3>2. /\ front \in Seq(CachedStore)
          /\ Len(front) = IF 1 <= i - 1 THEN i - 1 - 1 + 1 ELSE 0
      BY <1>1, <3>1, SubSeqProperties
    <3>. HIDE DEF front, CachedStore
    <3>. QED BY <3>2
  <2>5. back \in Seq(CachedStore) /\ Len(back) = Len(entries) - i
    <3>1. i + 1 \in 1 .. Len(entries) + 1
      BY <1>1
    <3>2. back \in Seq(CachedStore) /\ Len(back) = Len(entries) + 1 - (i + 1)
      BY <3>1, Suffix
    <3>. HIDE DEF back, CachedStore
    <3>3. Len(entries) \in Nat /\ i \in Nat
      BY <1>1
    <3>4. Len(entries) + 1 - (i + 1) = Len(entries) - i
      BY <3>3
    <3>. QED BY <3>2, <3>4
  <2>6. rest \in Seq(CachedStore) /\ Len(rest) = Len(front) + Len(back)
    <3>. HIDE DEF front, back, CachedStore, rest
    <3>1. rest = front \o back
      BY <2>3 DEF front, back, rest
    <3>. QED BY <2>4, <2>5, <3>1, ConcatProperties
  <2>7. Len(rest) < Len(entries)
    <3>. HIDE DEF front, back, rest
    <3>. QED BY <1>1, <2>4, <2>5, <2>6
  <2>8. Len(rest) <= Len(entries)
    <3>1. Len(rest) \in Nat
      BY <2>6, LenProperties
    <3>. HIDE DEF rest
    <3>. QED BY <1>1, <2>7, <3>1
  <2>. QED BY <2>6, <2>7, <2>8
<1>. QED BY <1>2, <1>3

LEMMA HitKeepsCache ==
    ASSUME CacheInv, NEW key \in Keys, HitStore(key, AnyStream)
    PROVE  CacheInv'
<1>. DEFINE entry == [key |-> key, stream |-> AnyStream]
<1>1. PICK kept \in EvictIdle(stores) :
            /\ \E i \in DOMAIN kept : kept[i] = entry
            /\ stores' = Append(WithoutKey(kept, key), entry)
  BY DEF HitStore
<1>2. kept \in Seq(CachedStore) /\ Len(kept) <= Len(stores)
  BY Evicted DEF CacheInv
<1>3. \E i \in DOMAIN kept : kept[i].key = key
  BY <1>1
<1>. DEFINE rest == WithoutKey(kept, key)
<1>4. rest \in Seq(CachedStore) /\ Len(rest) < Len(kept)
  BY <1>2, <1>3, WithoutOne
<1>5. entry \in CachedStore
  BY DEF CachedStore
<1>. HIDE DEF entry, rest
<1>6. stores' \in Seq(CachedStore) /\ Len(stores') = Len(rest) + 1
  BY <1>1, <1>4, <1>5, AppendProperties DEF rest
<1>7. UNCHANGED max_open_stores /\ max_open_stores \in Nat
  BY LimitIsPositive DEF HitStore, CacheInv
<1>8. Len(rest) \in Nat /\ Len(kept) \in Nat /\ Len(stores) \in Nat
  BY <1>2, <1>4, LenProperties DEF CacheInv
<1>9. Len(stores') <= max_open_stores
  BY <1>2, <1>4, <1>6, <1>7, <1>8 DEF CacheInv, CacheWithinLimit
<1>. QED BY <1>6, <1>7, <1>9 DEF CacheInv, CacheWithinLimit

LEMMA InsertKeepsCache ==
    ASSUME CacheInv, NEW key \in Keys, InsertStore(key, AnyStream)
    PROVE  CacheInv'
<1>. DEFINE entry == [key |-> key, stream |-> AnyStream]
<1>1. PICK kept \in EvictIdle(stores) :
            stores' = Append(WithoutKey(EvictToCapacity(kept, max_open_stores), key), entry)
  BY DEF InsertStore
<1>2. kept \in Seq(CachedStore)
  BY Evicted DEF CacheInv
<1>. DEFINE room == EvictToCapacity(kept, max_open_stores)
            rest == WithoutKey(room, key)
<1>3. room \in Seq(CachedStore) /\ Len(room) < max_open_stores
  BY <1>2, Evicted DEF CacheInv
<1>. HIDE DEF room
<1>4. rest \in Seq(CachedStore) /\ Len(rest) <= Len(room)
  BY <1>3, WithoutOne
<1>5. entry \in CachedStore
  BY DEF CachedStore
<1>. HIDE DEF entry, rest
<1>6. stores' \in Seq(CachedStore) /\ Len(stores') = Len(rest) + 1
  BY <1>1, <1>4, <1>5, AppendProperties DEF rest, room
<1>7. UNCHANGED max_open_stores /\ max_open_stores \in Nat
  BY LimitIsPositive DEF InsertStore, CacheInv
<1>8. Len(rest) \in Nat /\ Len(room) \in Nat
  BY <1>3, <1>4, LenProperties
<1>9. Len(stores') <= max_open_stores
  BY <1>3, <1>4, <1>6, <1>7, <1>8
<1>. QED BY <1>6, <1>7, <1>9 DEF CacheInv, CacheWithinLimit

LEMMA EvictionKeepsCache ==
    ASSUME CacheInv, stores' \in EvictIdle(stores), UNCHANGED max_open_stores
    PROVE  CacheInv'
<1>1. stores' \in Seq(CachedStore) /\ Len(stores') <= Len(stores)
  BY Evicted DEF CacheInv
<1>2. max_open_stores \in Nat /\ Len(stores) \in Nat /\ Len(stores') \in Nat
  BY <1>1, LimitIsPositive, LenProperties DEF CacheInv
<1>3. Len(stores') <= max_open_stores
  BY <1>1, <1>2 DEF CacheInv, CacheWithinLimit
<1>. QED BY <1>1, <1>3 DEF CacheInv, CacheWithinLimit

LEMMA LimitKeepsCache ==
    ASSUME CacheInv, NEW limit \in StoreLimits, WithMaxOpenStores(limit)
    PROVE  CacheInv'
<1>1. stores' \in Seq(CachedStore) /\ Len(stores') < limit
  BY Evicted DEF CacheInv, WithMaxOpenStores
<1>2. max_open_stores' = limit /\ limit \in Nat /\ Len(stores') \in Nat
  BY <1>1, LimitIsPositive, LenProperties DEF WithMaxOpenStores
<1>3. Len(stores') <= max_open_stores'
  BY <1>1, <1>2
<1>. QED BY <1>1, <1>2, <1>3 DEF CacheInv, CacheWithinLimit

LEMMA CacheStep == TypeInv /\ CacheInv /\ [Next]_vars => CacheInv'
<1>. SUFFICES ASSUME TypeInv, CacheInv, [Next]_vars PROVE CacheInv'
  OBVIOUS
<1>0. ASSUME UNCHANGED cacheVars PROVE CacheInv'
  BY <1>0 DEF CacheInv, CacheWithinLimit, cacheVars
<1>1. CASE MainLooksUp
  <2>1. main.key \in Keys
    BY <1>1 DEF MainLooksUp, TypeInv
  <2>2. CASE HitStore(main.key, AnyStream)
    BY <2>1, <2>2, HitKeepsCache
  <2>3. CASE MissStore(main.key)
    BY <2>3, EvictionKeepsCache DEF MissStore
  <2>. QED BY <1>1, <2>2, <2>3 DEF MainLooksUp
<1>2. CASE MainOpens
  <2>1. main.key \in Keys /\ InsertStore(main.key, AnyStream)
    BY <1>2 DEF MainOpens, TypeInv
  <2>. QED BY <2>1, InsertKeepsCache
<1>3. CASE MainStep /\ ~MainLooksUp /\ ~MainOpens
  <2>1. UNCHANGED cacheVars
    BY <1>3 DEF MainStep, MainChooses, MainAppends, MainSends, MainDropsSender, MainJoins
  <2>. QED BY <1>0, <2>1
<1>4. CASE MainFails \/ SupervisorStep \/ SupervisorIsStopped \/ \E t \in Tasks : AbortTask(t)
  <2>1. UNCHANGED cacheVars
    BY <1>4 DEF MainFails, SupervisorStep, ReceiveDirty, ReceiveClosed, JoinNext, JoinFailed,
                SupervisorReturns, SupervisorIsStopped, SupervisorOnly, AbortTask
  <2>. QED BY <1>0, <2>1
<1>5. ASSUME NEW t \in Tasks, TaskStep(t) \/ TaskFails(t)
      PROVE  CacheInv'
  <2>1. task[t].key \in Keys
    BY <1>5, TaskMoves DEF Task
  <2>2. CASE HitStore(task[t].key, AnyStream)
    BY <2>1, <2>2, HitKeepsCache
  <2>3. CASE MissStore(task[t].key)
    BY <2>3, EvictionKeepsCache DEF MissStore
  <2>4. CASE InsertStore(task[t].key, AnyStream)
    BY <2>1, <2>4, InsertKeepsCache
  <2>5. CASE UNCHANGED cacheVars
    BY <1>0, <2>5
  <2>6. \/ HitStore(task[t].key, AnyStream) \/ MissStore(task[t].key)
        \/ InsertStore(task[t].key, AnyStream) \/ UNCHANGED cacheVars
    BY <1>5 DEF TaskStep, TaskFails, TaskLooksUp, TaskOpens, ReadsOffset, Loads, ProjectEvent,
                StoresOffset
  <2>. QED BY <2>2, <2>3, <2>4, <2>5, <2>6
<1>6. CASE Reconfigure
  <2>1. CASE WithIdleStoreTtl
    BY <2>1, EvictionKeepsCache DEF WithIdleStoreTtl
  <2>2. CASE \E limit \in StoreLimits : WithMaxOpenStores(limit)
    BY <2>2, LimitKeepsCache
  <2>. QED BY <1>6, <2>1, <2>2 DEF Reconfigure
<1>7. CASE UNCHANGED vars
  BY <1>0, <1>7 DEF vars
<1>. QED BY <1>1, <1>2, <1>3, <1>4, <1>5, <1>6, <1>7 DEF Next

LEMMA CacheInit == Init => CacheInv
<1>. SUFFICES ASSUME Init PROVE CacheInv
  OBVIOUS
<1>1. stores = <<>> /\ max_open_stores \in StoreLimits
  BY DEF Init, InitCache
<1>2. stores \in Seq(CachedStore) /\ Len(stores) = 0
  BY <1>1, EmptySeq
<1>3. max_open_stores \in Nat
  BY <1>1, LimitIsPositive
<1>. QED BY <1>1, <1>2, <1>3 DEF CacheInv, CacheWithinLimit

LEMMA BoundInit == Init => BoundInv
BY WorkerPoolAssumption, EmptySeq DEF Init, BoundInv

LEMMA BoundStep == TypeInv /\ BoundInv /\ [Next]_vars => BoundInv'
<1>. SUFFICES ASSUME TypeInv, BoundInv, [Next]_vars PROVE BoundInv'
  OBVIOUS
<1>. USE DEF MainOnly, SupervisorOnly, TaskOnly, MainGoto, mainVars, supervisorVars, handled
<1>0. ASSUME UNCHANGED <<main, version, faults>>,
             dirty' = dirty \/ (dirty # <<>> /\ dirty' = Tail(dirty))
      PROVE  BoundInv'
  <2>1. Len(dirty') <= Len(dirty) /\ Len(dirty) \in Nat /\ Len(dirty') \in Nat
    BY <1>0, HeadTailProperties, LenProperties DEF TypeInv
  <2>2. Len(dirty') <= ChannelCapacity
    BY <2>1, WorkerPoolAssumption DEF BoundInv
  <2>. QED BY <1>0, <2>2 DEF BoundInv
<1>1. CASE MainChooses
  BY <1>1 DEF MainChooses, BoundInv, TypeInv
<1>2. CASE MainLooksUp \/ MainOpens
  <2>1. /\ UNCHANGED <<version, dirty, faults>> /\ main'.key = main.key
        /\ main.at \in {"look_up", "open"}
    BY <1>2 DEF MainLooksUp, MainOpens, TypeInv
  <2>. QED BY <2>1 DEF BoundInv
<1>3. CASE MainAppends
  <2>1. main.key \in Keys /\ version[main.key] \in Nat /\ MaxAppends[main.key] \in Nat
    BY <1>3, WorkerPoolAssumption DEF MainAppends, TypeInv
  <2>2. version[main.key] < MaxAppends[main.key]
    BY <1>3 DEF MainAppends, BoundInv
  <2>3. version' = [version EXCEPT ![main.key] = version[main.key] + 1] /\ main'.at = "send"
    BY <1>3 DEF MainAppends, TypeInv
  <2>4. version[main.key] + 1 <= MaxAppends[main.key]
    BY <2>1, <2>2
  <2>5. \A k \in Keys : version'[k] <= MaxAppends[k]
    BY <2>3, <2>4 DEF BoundInv, TypeInv
  <2>. QED BY <1>3, <2>3, <2>5 DEF MainAppends, BoundInv
<1>4. CASE MainSends
  <2>1. UNCHANGED <<version, faults>> /\ main'.at \in {"choose", "done"}
    BY <1>4 DEF MainSends, TypeInv
  <2>2. Len(dirty') <= ChannelCapacity
    <3>1. CASE UNCHANGED dirty
      BY <3>1 DEF BoundInv
    <3>2. CASE Len(dirty) < ChannelCapacity /\ dirty' = Append(dirty, main.key)
      <4>1. Len(dirty') = Len(dirty) + 1 /\ Len(dirty) \in Nat
        BY <1>4, <3>2, AppendProperties, LenProperties DEF MainSends, TypeInv
      <4>. QED BY <3>2, <4>1, WorkerPoolAssumption
    <3>. QED BY <1>4, <3>1, <3>2 DEF MainSends
  <2>. QED BY <2>1, <2>2 DEF BoundInv
<1>5. CASE MainDropsSender \/ MainJoins
  <2>1. UNCHANGED <<version, dirty, faults>> /\ main'.at \in {"join", "done"}
    BY <1>5 DEF MainDropsSender, MainJoins, TypeInv
  <2>. QED BY <2>1 DEF BoundInv
<1>6. CASE MainFails
  <2>1. UNCHANGED <<version, dirty>> /\ main'.at = "failed" /\ Fault
    BY <1>6 DEF MainFails, TypeInv
  <2>2. faults' \in 0..MaxFaults
    BY <2>1, WorkerPoolAssumption DEF BoundInv, Fault
  <2>. QED BY <2>1, <2>2 DEF BoundInv
<1>7. CASE SupervisorStep \/ SupervisorIsStopped \/ \E t \in Tasks : AbortTask(t)
  BY <1>0, <1>7 DEF SupervisorStep, ReceiveDirty, ReceiveClosed, JoinNext, JoinFailed,
                    SupervisorReturns, SupervisorIsStopped, AbortTask
<1>8. ASSUME NEW t \in Tasks, TaskStep(t) PROVE BoundInv'
  BY <1>0, <1>8 DEF TaskStep, TaskLooksUp, TaskOpens, ReadsOffset, Loads, ProjectEvent,
                    StoresOffset
<1>9. ASSUME NEW t \in Tasks, TaskFails(t) PROVE BoundInv'
  <2>1. UNCHANGED <<main, version, dirty>> /\ Fault
    BY <1>9 DEF TaskFails
  <2>2. faults' \in 0..MaxFaults
    BY <2>1, WorkerPoolAssumption DEF BoundInv, Fault
  <2>. QED BY <2>1, <2>2 DEF BoundInv
<1>10. CASE Reconfigure \/ UNCHANGED vars
  BY <1>0, <1>10 DEF Reconfigure, vars
<1>. QED BY <1>1, <1>2, <1>3, <1>4, <1>5, <1>6, <1>7, <1>8, <1>9, <1>10 DEF Next, MainStep

-----------------------------------------------------------------------------
(* The theorems *)

LEMMA Invariance == Spec => []IInv
<1>1. Init => IInv
  BY TypeInit, TasksInit, DrainInit, AnnouncedInit DEF IInv
<1>2. IInv /\ [Next]_vars => IInv'
  BY TypeStep, TasksStep, DrainStep, AnnouncedStep DEF IInv
<1>. QED BY <1>1, <1>2, PTL DEF Spec

LEMMA LimitsHold == Spec => [](CacheInv /\ BoundInv)
<1>1. Init => CacheInv /\ BoundInv
  BY CacheInit, BoundInit
<1>2. IInv /\ CacheInv /\ BoundInv /\ [Next]_vars => (CacheInv /\ BoundInv)'
  BY CacheStep, BoundStep DEF IInv
<1>. QED BY <1>1, <1>2, Invariance, PTL DEF Spec

(* Every variable of the pool and of the cache it uses has its type.         *)
THEOREM WorkersAreTyped == Spec => []TypeOK
<1>1. IInv /\ CacheInv /\ BoundInv => TypeOK
  BY DEF IInv, TypeInv, CacheInv, CachedStore, BoundInv, TypeOK
<1>. QED BY <1>1, Invariance, LimitsHold, PTL

(* open_cached and with_max_open_stores never leave more open streams than   *)
(* configured, whoever opens what at once and however often the limit is     *)
(* lowered between a look and the entry that follows it.                     *)
THEOREM CacheStaysWithinLimit == Spec => []CacheWithinLimit
<1>1. CacheInv => CacheWithinLimit
  BY DEF CacheInv
<1>. QED BY <1>1, LimitsHold, PTL

(* A partition's events are handled by one task at a time: two announcements *)
(* of a partition never lead to two drains of it, and the drain that follows *)
(* one that was joined starts after it ended.                                *)
THEOREM OneHandler == Spec => []OneHandlerPerPartition
<1>1. IInv => OneHandlerPerPartition
  BY DEF IInv, TasksInv
<1>. QED BY <1>1, Invariance, PTL

(* run_supervisor does not return Ok before every event that was appended is *)
(* projected: none is lost between the channel, the pending set and the last *)
(* load of a task.                                                           *)
THEOREM NothingIsLeft == Spec => []NothingLeftBehind
<1>1. IInv => NothingLeftBehind
  BY DEF IInv, AnnouncedInv, NothingLeftBehind
<1>. QED BY <1>1, Invariance, PTL

(* The pool implements Projection, its fairness aside: drain_partition       *)
(* projects the events of a partition in version order and each once, also   *)
(* while the tasks of a pool that gave up run on.                            *)
THEOREM ProjectsInOrder == Spec => Handlers!SafeSpec
<1>1. Init => Handlers!Init
  BY DEF Init, GaveUp, Handlers!Init
<1>2. IInv /\ [Next]_vars => [Handlers!Next]_(Handlers!vars)
  <2>. SUFFICES ASSUME IInv, [Next]_vars
                PROVE  Handlers!Next \/ UNCHANGED Handlers!vars
    OBVIOUS
  <2>. USE DEF IInv, Handlers!vars
  <2>1. CASE MainAppends
    <3>1. main.key \in Keys
      BY <2>1 DEF MainAppends, TypeInv
    <3>2. Handlers!Publish(main.key)
      BY <2>1 DEF MainAppends, MainGoto, MainOnly, supervisorVars, handled, GaveUp, TypeInv,
                Handlers!Publish
    <3>. QED BY <3>1, <3>2 DEF Handlers!Next
  <2>2. CASE MainActions /\ ~MainAppends
    <3>1. UNCHANGED <<version, projected, supervisor>>
      BY <2>2 DEF MainActions, MainChooses, MainLooksUp, MainOpens, MainSends, MainDropsSender,
                  MainJoins, Reconfigure, MainOnly, mainVars, supervisorVars, handled
    <3>2. main'.at = "failed" <=> main.at = "failed"
      BY <2>2 DEF MainActions, MainChooses, MainLooksUp, MainOpens, MainSends, MainDropsSender,
                  MainJoins, Reconfigure, MainGoto, mainVars, TypeInv
    <3>. QED BY <3>1, <3>2 DEF GaveUp
  <2>3. CASE MainFails \/ JoinFailed \/ SupervisorIsStopped
    <3>1. GaveUp' /\ UNCHANGED <<version, projected>>
      BY <2>3 DEF MainFails, JoinFailed, SupervisorIsStopped, MainGoto, MainOnly, SupervisorOnly,
                  mainVars, handled, GaveUp, TypeInv
    <3>. QED BY <3>1 DEF Handlers!Next, Handlers!Fail
  <2>4. CASE ReceiveDirty \/ ReceiveClosed \/ JoinNext \/ SupervisorReturns
    BY <2>4 DEF ReceiveDirty, ReceiveClosed, JoinNext, SupervisorReturns,
                SupervisorOnly, mainVars, handled, GaveUp
  <2>5. ASSUME NEW t \in Tasks, TaskStep(t) \/ TaskFails(t)
        PROVE  Handlers!Next \/ UNCHANGED Handlers!vars
    <3>1. Running(t) /\ task[t] \in Task /\ TaskOnly
      BY <2>5, TaskMoves
    <3>2. UNCHANGED <<version, GaveUp>>
      BY <3>1 DEF TaskOnly, mainVars, supervisorVars, GaveUp
    <3>3. CASE ProjectEvent(t)
      <4>. DEFINE k == task[t].key
      <4>1. k \in Keys /\ task[t].last \in Nat /\ version[k] \in Nat
        BY <3>1 DEF Task, TypeInv
      <4>2. task[t].cursor = Len(projected[k]) /\ task[t].cursor < task[t].last
            /\ task[t].last <= version[k]
        BY <3>1, <3>3 DEF ProjectEvent, At, DrainInv, TaskInStep, InStep
      <4>3. Len(projected[k]) \in Nat
        BY <4>1, LenProperties DEF TypeInv
      <4>4. Len(projected[k]) < version[k]
        BY <4>1, <4>2, <4>3
      <4>5. projected' = [projected EXCEPT ![k] = Append(@, Len(@) + 1)]
        BY <3>3, <4>2 DEF ProjectEvent
      <4>6. Handlers!Project(k)
        BY <3>2, <4>4, <4>5 DEF Handlers!Project
      <4>. QED BY <4>1, <4>6 DEF Handlers!Next
    <3>4. CASE TaskLooksUp(t) \/ TaskOpens(t) \/ ReadsOffset(t) \/ Loads(t) \/ StoresOffset(t)
               \/ TaskFails(t)
      BY <3>2, <3>4 DEF TaskLooksUp, TaskOpens, ReadsOffset, Loads, StoresOffset, TaskFails, handled
    <3>. QED BY <2>5, <3>3, <3>4 DEF TaskStep
  <2>6. CASE UNCHANGED vars
    BY <2>6 DEF vars, mainVars, supervisorVars, handled, GaveUp
  <2>7. ASSUME NEW t \in Tasks, AbortTask(t)
        PROVE  UNCHANGED Handlers!vars
    BY <2>7 DEF AbortTask, TaskOnly, mainVars, supervisorVars, handled, GaveUp
  <2>. QED BY <2>1, <2>2, <2>3, <2>4, <2>5, <2>6, <2>7 DEF Next, MainStep, MainActions, SupervisorStep
<1>. QED BY <1>1, <1>2, Invariance, PTL DEF Spec, Handlers!SafeSpec

=============================================================================
