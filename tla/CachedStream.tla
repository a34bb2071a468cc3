---------------------------- MODULE CachedStream ----------------------------
(* Callers that get the stream of one partition from the cache of its        *)
(* EventNamespaces (partitions.rs) before they append to it                  *)
(* (event_stream.rs).  A stream that is entered in the cache, evicted from   *)
(* it or replaced in it is a handle of EventStream; dropping the entry does  *)
(* nothing to the callers that hold the stream.                              *)
EXTENDS EventStream, PartitionCache

CONSTANT Partition      \* the key of the partition, one of Keys

VARIABLES
    opening,        \* per caller: the handle it opens after a miss, or Null
    holds           \* per caller: whether it has the stream handle[p]

cachedVars == <<vars, cacheVars, opening, holds>>

InitCached ==
    /\ Init /\ InitCache
    /\ opening = [p \in Procs |-> Null]
    /\ holds = [p \in Procs |-> FALSE]

NeedsStream(p) == pc[p] = "idle" /\ ~holds[p] /\ opening[p] = Null

GetsStream(p, h) ==
    /\ handle' = [handle EXCEPT ![p] = h]
    /\ holds' = [holds EXCEPT ![p] = TRUE]
    /\ UNCHANGED <<now, fileVars, catalogVars, handleVars, pc, job, call, outcome, stamp,
                   resume, calls, faults, outages>>

FindsStream(p) ==
    /\ NeedsStream(p)
    /\ \E h \in Handles : HitStore(Partition, h) /\ GetsStream(p, h)
    /\ UNCHANGED opening

\* Every miss makes an EventStream of its own.
UnusedHandles ==
    {h \in Handles : pc[h] = "closed" /\ \A p \in Procs : opening[p] # h}

MissesStream(p) ==
    /\ NeedsStream(p)
    /\ MissStore(Partition)
    /\ \E h \in UnusedHandles :
        /\ opening' = [opening EXCEPT ![p] = h]
        /\ OpenPartitioned(h)
    /\ UNCHANGED holds

Opens(p) ==
    /\ opening[p] # Null
    /\ OpenStep(opening[p])
    /\ UNCHANGED <<cacheVars, opening, holds>>

EntersStream(p) ==
    /\ opening[p] # Null /\ IsOpen(opening[p])
    /\ InsertStore(Partition, opening[p])
    /\ GetsStream(p, opening[p])
    /\ opening' = [opening EXCEPT ![p] = Null]

OpenFails(p) ==
    /\ opening[p] # Null /\ pc[opening[p]] = "closed"
    /\ opening' = [opening EXCEPT ![p] = Null]
    /\ UNCHANGED <<vars, cacheVars, holds>>

(* Nothing tells a caller that its stream left the cache. *)
Appends(p) ==
    /\ holds[p]
    /\ Invoke(p) \/ AppendStep(p)
    /\ UNCHANGED <<cacheVars, opening, holds>>

ReleasesStream(p) ==
    /\ pc[p] = "idle" /\ holds[p]
    /\ holds' = [holds EXCEPT ![p] = FALSE]
    /\ UNCHANGED <<vars, cacheVars, opening>>

OtherPartitionEntered ==
    /\ \E key \in Keys \ {Partition} : InsertStore(key, Null)
    /\ UNCHANGED <<vars, opening, holds>>

NextCached ==
    \/ \E p \in Procs :
        \/ FindsStream(p) \/ MissesStream(p) \/ Opens(p) \/ EntersStream(p) \/ OpenFails(p)
        \/ Appends(p) \/ ReleasesStream(p)
    \/ OtherPartitionEntered
    \/ Tick /\ UNCHANGED <<cacheVars, opening, holds>>

SpecCached == InitCached /\ [][NextCached]_cachedVars
=============================================================================
