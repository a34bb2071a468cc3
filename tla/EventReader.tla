----------------------------- MODULE EventReader -----------------------------
(* Event handlers that follow a partition: each keeps a durable cursor, loads*)
(* the events after it with load_after_version, or those of one workflow with*)
(* load_workflow_after_version, and moves the cursor past what it has        *)
(* handled.  A load is one look at the catalog and then one query per range, *)
(* so appends and rotations can come in between.                             *)
EXTENDS EventStream

CONSTANTS
    Readers,        \* event handlers
    Limits,         \* read limits they use
    Follows         \* what a handler may follow: all versions, or those of
                    \* the events of one workflow

VARIABLES
    follows,        \* per reader: one of Follows
    cursor,         \* per reader: the durable offset
    handled,        \* per reader: the versions it has processed
    load            \* per reader: the load_after_version in progress, or Null

readerVars == <<follows, cursor, handled, load>>
allVars == <<vars, readerVars>>

ASSUME EventReaderAssumption ==
    /\ Limits \subseteq Nat \ {0}
    /\ \A versions \in Follows : versions \subseteq Nat

InitReader ==
    /\ Init
    /\ follows \in [Readers -> Follows]
    /\ cursor = [r \in Readers |-> 0]
    /\ handled = [r \in Readers |-> {}]
    /\ load = [r \in Readers |-> Null]

BeginLoad(r) ==
    /\ load[r] = Null
    /\ \E h \in Handles : IsOpen(h)
    /\ \E limit \in Limits :
        load' = [load EXCEPT ![r] =
          [todo  |-> {[first |-> catalog[n].first_version, name |-> n] :
                        n \in GetEventFileRangesAfterVersion(catalog, cursor[r])},
           found |-> {},
           limit |-> limit]]
    /\ UNCHANGED <<vars, follows, cursor, handled>>

(* Mutant: the limit is applied without regard to the order of versions. *)
AnyRows(versions, limit) ==
    IF Cardinality(versions) <= limit THEN versions
    ELSE {v \in versions : Cardinality({w \in versions : w >= v}) <= limit}

(* ORDER BY version LIMIT limit *)
FirstRows(versions, limit) ==
    {v \in versions : Cardinality({w \in versions : w <= v}) <= limit}

(* The rows a query may find: those committed or, on the pooled connection   *)
(* an append was abandoned on, also those of its open transaction.           *)
VisibleRows(name) ==
    IF abandoned[name] # Null THEN {rows[name], rows[name] \cup abandoned[name].rows}
    ELSE {rows[name]}

(* One turn of the loop over the ranges, in the order of the snapshot.  The  *)
(* query of a workflow's events is restricted by workflow.                   *)
QueryRange(r) ==
    /\ load[r] # Null
    /\ \E range \in load[r].todo : \E visible \in VisibleRows(range.name) :
        LET remaining == load[r].limit - Cardinality(load[r].found)
            after     == {v \in visible \cap follows[r] : v > cursor[r]}
        IN  /\ \A other \in load[r].todo \ {range} :
                  RangeBefore(range.first, range.name, other.first, other.name)
            /\ remaining > 0
            /\ load' = [load EXCEPT
                  ![r].todo = @ \ {range},
                  ![r].found = @ \cup
                      {[name |-> range.name, version |-> v] : v \in FirstRows(after, remaining)}]
    /\ UNCHANGED <<vars, follows, cursor, handled>>

(* The load returns in version order; the handler processes the batch and    *)
(* stores the last version as its new offset.                                *)
FinishLoad(r) ==
    /\ load[r] # Null
    /\ load[r].todo = {} \/ Cardinality(load[r].found) = load[r].limit
    /\ LET versions == {e.version : e \in load[r].found}
       IN  /\ handled' = [handled EXCEPT ![r] = @ \cup versions]
           /\ cursor' = [cursor EXCEPT ![r] = Max(versions \cup {@})]
    /\ load' = [load EXCEPT ![r] = Null]
    /\ UNCHANGED <<vars, follows>>

(* The load or the handling of its batch fails; the offset stays. *)
AbandonLoad(r) ==
    /\ load[r] # Null
    /\ load' = [load EXCEPT ![r] = Null]
    /\ UNCHANGED <<vars, follows, cursor, handled>>

ReaderStep(r) == BeginLoad(r) \/ QueryRange(r) \/ FinishLoad(r)

(* The end of the process ends the loads in progress. *)
StreamStep ==
    /\ Next
    /\ load' = IF \E h \in Handles : IsOpen(h)' THEN load ELSE [r \in Readers |-> Null]
    /\ UNCHANGED <<follows, cursor, handled>>

NextReader == StreamStep \/ \E r \in Readers : ReaderStep(r) \/ AbandonLoad(r)

SpecReader == InitReader /\ [][NextReader]_allVars

(* Handlers keep loading, and from some time on their loads succeed: a load  *)
(* that ends was finished.  (One that found nothing may be called either.)   *)
LiveSpecReader ==
    /\ SpecReader
    /\ Fairness
    /\ \A r \in Readers : WF_allVars(ReaderStep(r))
    /\ <>[][\A r \in Readers : AbandonLoad(r) => FinishLoad(r)]_allVars

-----------------------------------------------------------------------------
(* Properties *)

(* The versions a handler has processed are exactly those it follows up to   *)
(* its cursor: no event is skipped, whatever moved between two queries of a  *)
(* load or between two loads.                                                *)
HandledInOrder ==
    \A r \in Readers : handled[r] = follows[r] \cap 1..cursor[r]

(* Every committed event reaches every handler that follows it. *)
EventsAreHandled ==
    \A v \in 1 .. MaxCalls * Max(BatchSizes \cup {0}) : \A r \in Readers :
        v \in AllVersions \cap follows[r] ~> v \in handled[r]
=============================================================================
