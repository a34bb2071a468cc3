--------------------------- MODULE PartitionCache ---------------------------
(* The opened EventStreams an EventNamespaces keeps for reuse                *)
(* (partitions.rs).  The operators are what happens under the cache's mutex; *)
(* the opening of a partition lies between MissStore and InsertStore, with   *)
(* the mutex released, and belongs to the module that uses the cache.        *)
(*                                                                           *)
(* stores lists the entries in the order of last_access, oldest first.  The  *)
(* clock is left out: any number of the oldest entries may have outlived     *)
(* idle_store_ttl by the next look.                                          *)
EXTENDS Naturals, SequencesExt

CONSTANTS
    Keys,               \* namespace/partition_key
    StoreLimits         \* values max_open_stores may be given

VARIABLES
    max_open_stores,
    stores              \* entries [key, stream]

cacheVars == <<max_open_stores, stores>>

\* with_max_open_stores refuses zero.
ASSUME PartitionCacheAssumption == StoreLimits \subseteq Nat \ {0}

InitCache ==
    /\ max_open_stores \in StoreLimits
    /\ stores = <<>>

KeysOf(entries) == {entries[i].key : i \in DOMAIN entries}

\* A map: one entry per key, at most.
WithoutKey(entries, key) == RemoveFirstMatch(entries, LAMBDA e : e.key = key)

(* What evict_idle may leave. *)
EvictIdle(entries) == {SubSeq(entries, n, Len(entries)) : n \in 1 .. Len(entries) + 1}

(* Mutant: room is made only when there is one entry too many. *)
EvictBeyondLimit(entries, limit) ==
    IF Len(entries) > limit
    THEN SubSeq(entries, Len(entries) - limit + 1, Len(entries)) ELSE entries

(* The oldest entries go until there is room for one more. *)
EvictToCapacity(entries, limit) ==
    IF Len(entries) >= limit
    THEN SubSeq(entries, Len(entries) - limit + 2, Len(entries)) ELSE entries

(* open_cached finds an entry, which is then the one used last. *)
HitStore(key, stream) ==
    /\ \E kept \in EvictIdle(stores) :
        /\ \E i \in DOMAIN kept : kept[i] = [key |-> key, stream |-> stream]
        /\ stores' = Append(WithoutKey(kept, key), [key |-> key, stream |-> stream])
    /\ UNCHANGED max_open_stores

(* open_cached finds none and goes on to open the partition. *)
MissStore(key) ==
    /\ \E kept \in EvictIdle(stores) : key \notin KeysOf(kept) /\ stores' = kept
    /\ UNCHANGED max_open_stores

(* The stream is open and is entered.  Nobody looks whether another caller   *)
(* entered one for the key in the meantime; its entry is replaced.           *)
InsertStore(key, stream) ==
    /\ \E kept \in EvictIdle(stores) :
        stores' = Append(WithoutKey(EvictToCapacity(kept, max_open_stores), key),
                         [key |-> key, stream |-> stream])
    /\ UNCHANGED max_open_stores

WithMaxOpenStores(limit) ==
    /\ max_open_stores' = limit
    /\ stores' = EvictToCapacity(stores, limit)

WithIdleStoreTtl ==
    /\ stores' \in EvictIdle(stores)
    /\ UNCHANGED max_open_stores

(* The cache never holds more streams than configured, though two callers    *)
(* that open at once each make room and enter, and the limit may be lowered  *)
(* in between.                                                               *)
CacheWithinLimit == Len(stores) <= max_open_stores
=============================================================================
