---------------------------- MODULE DatabasePool ----------------------------
(* The pool of Database instances and the connection each keeps for reuse    *)
(* (pool.rs).  A task gets the instance of a file, takes a connection from   *)
(* it, uses it and drops it.  What is done with the connection is left to    *)
(* the module that EXTENDS this one, as is the connection's transaction.     *)
(*                                                                           *)
(* An action is what happens under one lock, or between two awaits: the map  *)
(* is looked up under its read lock, entered under its write lock, and that  *)
(* one is kept while eviction waits for the mutex of one instance after the  *)
(* other; connections come and go under the mutex of their instance alone.   *)
EXTENDS Integers, SequencesExt

CONSTANTS
    Null,
    Paths,                  \* database files
    Tasks,
    max_cached_databases

VARIABLES
    databases,              \* entries [path, instance], oldest last_access first
    instances,              \* the DatabaseInstances somebody refers to
    task                    \* per task: step, file and what it holds

poolVars == <<databases, instances, task>>

ASSUME DatabasePoolAssumption ==
    /\ max_cached_databases \in Nat \ {0}
    /\ IsFiniteSet(Tasks)
    /\ Null \notin Tasks \cup Paths \cup Nat \cup [path : Paths, number : Nat]

\* Of the instances of a file, and the connections of an instance, the number
\* tells them apart; a number may be used again.
Numbers == 1 .. 1 + Cardinality(Tasks)
InstanceIds == [path : Paths, number : Numbers]
DatabaseInstance == [active_connections : Nat, cached_connection : Numbers \cup {Null}]

NewInstance == [active_connections |-> 0, cached_connection |-> Null]

Idle == [at |-> "idle", path |-> Null, instance |-> Null, connection |-> Null,
         todo |-> <<>>, target |-> 0]

InitPool ==
    /\ databases = <<>>
    /\ instances = <<>>
    /\ task = [t \in Tasks |-> Idle]

Entries(cache) == {cache[n] : n \in DOMAIN cache}
\* A map: one entry per path, at most.
WithoutPath(cache, path) == RemoveFirstMatch(cache, LAMBDA e : e.path = path)

At(t, step) == task[t].at = step
Goto(t, step) == task' = [task EXCEPT ![t].at = step]

\* The write lock of databases is held from one step to the next.
WriteLocked == \E t \in Tasks : At(t, "evict")

\* A connection on its way back still counts as used, though no longer held.
Users(i) == {t \in Tasks : task[t].instance = i /\ task[t].connection # Null}
Holders(i) == {t \in Users(i) : ~At(t, "release")}

OpenConnections(i) ==
    {task[t].connection : t \in Holders(i)} \cup ({instances[i].cached_connection} \ {Null})

(* Mutant: a task's reference to an instance does not keep it. *)
ReferencesOfMap(cache, tasks) == {e.instance : e \in Entries(cache)}

References(cache, tasks) ==
    ({e.instance : e \in Entries(cache)} \cup {tasks[t].instance : t \in Tasks}) \ {Null}

\* An instance goes, and closes its connection, with the last reference to it.
InstancesMayGo == instances' = Restrict(instances, References(databases', task'))

-----------------------------------------------------------------------------
(* get_database *)

FindsDatabase(t, path) ==
    /\ At(t, "idle") /\ ~WriteLocked
    /\ \E e \in Entries(databases) :
        /\ e.path = path
        /\ databases' = Append(WithoutPath(databases, path), e)
        /\ task' = [task EXCEPT ![t] = [Idle EXCEPT !.at = "connect", !.path = path,
                                                    !.instance = e.instance]]
    /\ UNCHANGED instances

(* The new instance is the task's own until it is entered. *)
MissesDatabase(t, path) ==
    /\ At(t, "idle") /\ ~WriteLocked
    /\ \A e \in Entries(databases) : e.path # path
    /\ LET number == Min({n \in Numbers : [path |-> path, number |-> n] \notin DOMAIN instances})
           i      == [path |-> path, number |-> number]
       IN  /\ task' = [task EXCEPT ![t] = [Idle EXCEPT !.at = "insert", !.path = path,
                                                       !.instance = i]]
           /\ instances' = [j \in DOMAIN instances \cup {i} |->
                    IF j = i THEN NewInstance ELSE instances[j]]
    /\ UNCHANGED databases

(* The new entry replaces one that another task entered for the file.  Its   *)
(* last_access is from before the lock was awaited: others may be later.     *)
Enters(t, cache) ==
    \E n \in 0..Len(WithoutPath(cache, task[t].path)) :
        LET others == WithoutPath(cache, task[t].path)
            entry  == [path |-> task[t].path, instance |-> task[t].instance]
        IN  databases' = SubSeq(others, 1, n) \o <<entry>> \o SubSeq(others, n + 1, Len(others))

EvictionTarget == Len(databases) - max_cached_databases + 1

(* evict_old_databases looks at its list only above the maximum. *)
InsertsDatabase(t) ==
    /\ At(t, "insert") /\ ~WriteLocked
    /\ \/ /\ Len(databases) <= max_cached_databases
          /\ Enters(t, databases)
          /\ Goto(t, "connect")
       \/ /\ Len(databases) > max_cached_databases
          /\ task' = [task EXCEPT ![t].at = "evict", ![t].todo = databases,
                                  ![t].target = EvictionTarget]
          /\ UNCHANGED databases
    /\ InstancesMayGo

(* Mutant: databases in use are evicted too. *)
MayEvictAny(i) == TRUE

MayEvict(i) == instances[i].active_connections = 0

(* One turn of the loop, oldest first. *)
EvictsDatabase(t) ==
    /\ At(t, "evict")
    /\ task[t].target > 0 /\ task[t].todo # <<>>
    /\ LET e == Head(task[t].todo) IN
        \/ /\ MayEvict(e.instance)
           /\ databases' = WithoutPath(databases, e.path)
           /\ task' = [task EXCEPT ![t].todo = Tail(@), ![t].target = @ - 1]
        \/ /\ ~MayEvict(e.instance)
           /\ task' = [task EXCEPT ![t].todo = Tail(@)]
           /\ UNCHANGED databases
    /\ InstancesMayGo

EndsEviction(t) ==
    /\ At(t, "evict")
    /\ task[t].target = 0 \/ task[t].todo = <<>>
    /\ Enters(t, databases)
    /\ task' = [task EXCEPT ![t].at = "connect", ![t].todo = <<>>, ![t].target = 0]
    /\ InstancesMayGo

-----------------------------------------------------------------------------
(* get_connection, and PooledConnection's drop *)

(* Mutant: the cached connection is lent without being taken. *)
LeaveConnection(instance) == [instance EXCEPT !.active_connections = @ + 1]

TakeConnection(instance) ==
    [instance EXCEPT !.active_connections = @ + 1, !.cached_connection = Null]

GetsConnection(t) ==
    /\ At(t, "connect")
    /\ LET i      == task[t].instance
           cached == instances[i].cached_connection
       IN  /\ \/ /\ cached # Null
                 /\ task' = [task EXCEPT ![t].at = "use", ![t].connection = cached]
              \/ /\ cached = Null
                 /\ task' = [task EXCEPT ![t].at = "configure",
                        ![t].connection = Min(Numbers \ OpenConnections(i))]
           /\ instances' = [instances EXCEPT ![i] = TakeConnection(@)]
    /\ UNCHANGED databases

(* configure_connection sets a timeout; when it fails the connection is      *)
(* closed and the count corrected.                                           *)
ConfiguresConnection(t) ==
    /\ At(t, "configure")
    /\ Goto(t, "use") \/ Goto(t, "release")
    /\ UNCHANGED <<databases, instances>>

(* Drop tries the mutex.  When another thread has it at that moment, or      *)
(* another connection came first and is replaced, a connection is closed.    *)
ReturnsConnection(t) ==
    /\ At(t, "drop")
    /\ \/ instances' = [instances EXCEPT ![task[t].instance].cached_connection = task[t].connection]
       \/ UNCHANGED instances
    /\ Goto(t, "release")
    /\ UNCHANGED databases

(* Mutant: only a connection that was closed is counted down. *)
ReleaseIfClosed(instance) ==
    IF instance.cached_connection # Null THEN instance
    ELSE [instance EXCEPT !.active_connections = @ - 1]

ReleaseCount(instance) ==
    IF instance.active_connections = 0 THEN instance
    ELSE [instance EXCEPT !.active_connections = @ - 1]

ReleasesConnection(t) ==
    /\ At(t, "release")
    /\ LET i == task[t].instance IN
        /\ task' = [task EXCEPT ![t] = Idle]
        /\ instances' = Restrict([instances EXCEPT ![i] = ReleaseCount(@)],
                                 References(databases, task'))
    /\ UNCHANGED databases

(* An error of the database, or the caller drops the future. *)
GivesUp(t) ==
    /\ task[t].at \in {"insert", "evict", "connect"}
    /\ task' = [task EXCEPT ![t] = Idle]
    /\ UNCHANGED databases
    /\ InstancesMayGo

PoolStep(t) ==
    \/ \E path \in Paths : FindsDatabase(t, path) \/ MissesDatabase(t, path)
    \/ InsertsDatabase(t) \/ EvictsDatabase(t) \/ EndsEviction(t)
    \/ GetsConnection(t) \/ ConfiguresConnection(t)
    \/ ReturnsConnection(t) \/ ReleasesConnection(t) \/ GivesUp(t)

-----------------------------------------------------------------------------
(* Properties *)

(* The count an eviction goes by is that of the connections lent, whichever  *)
(* of get_connection's error paths were taken, instances were replaced in    *)
(* the map or connections could not be given back.                           *)
ActiveCountIsExact ==
    \A i \in DOMAIN instances :
        instances[i].active_connections = Cardinality(Users(i))

(* A connection is lent to one task at a time, and never while it waits in   *)
(* its instance for the next one.                                            *)
ConnectionIsExclusive ==
    \A i \in DOMAIN instances : \A t \in Holders(i) :
        /\ \A u \in Holders(i) \ {t} : task[u].connection # task[t].connection
        /\ instances[i].cached_connection # task[t].connection

(* What eviction achieves.  It is less than the "maximum number of cached    *)
(* Database instances" of pool.rs: at exactly its maximum the pool evicts    *)
(* nothing before it inserts, and above one more it keeps no more databases  *)
(* than there are tasks to use them.                                         *)
PoolIsBounded ==
    \/ Len(databases) <= max_cached_databases + 1
    \/ Len(databases) <= Cardinality(Tasks)

(* A file leaves the map only while nobody uses a connection of its instance.*)
EvictionSparesUsed ==
    [][\A e \in Entries(databases) :
        (\A f \in Entries(databases)' : f.path # e.path) => Users(e.instance) = {}]_poolVars
=============================================================================
