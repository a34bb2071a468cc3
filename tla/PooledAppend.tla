---------------------------- MODULE PooledAppend ----------------------------
(* append's transaction and the reads, on connections of the pool            *)
(* (event_stream.rs), for one partition with its active file; the other      *)
(* files of the pool are only read.  EventStream takes the transaction as    *)
(* one step; here it is the statements it is made of, and a future that is   *)
(* dropped between two of them leaves its transaction to the connection's    *)
(* next user.                                                                *)
(*                                                                           *)
(* The database (turso) is external: one transaction that writes per file, a *)
(* transaction ends with its connection, and a connection reads its own rows.*)
EXTENDS DatabasePool

CONSTANTS
    ActiveFile,
    MaxLength,          \* bound on committed events
    MaxAbandoned        \* bound on transactions left open

VARIABLES
    appender,           \* who has active.write(), or Null
    transaction,        \* the open transactions: connection :> rows
    length,             \* committed events of the active file
    acknowledged,       \* appends whose COMMIT succeeded
    abandoned           \* transactions left open so far

appendVars == <<appender, transaction, length, acknowledged, abandoned>>
vars == <<poolVars, appendVars>>

ASSUME PooledAppendAssumption ==
    /\ ActiveFile \in Paths
    /\ {MaxLength, MaxAbandoned} \subseteq Nat

Init ==
    /\ InitPool
    /\ appender = Null
    /\ transaction = <<>>
    /\ length = 0 /\ acknowledged = 0 /\ abandoned = 0

Connection(t) == <<task[t].instance, task[t].connection>>

Open(c) == c[1] \in DOMAIN instances /\ c[2] \in OpenConnections(c[1])

(* A step of the pool.  An append asks for the active file; its lock goes    *)
(* when it is through, and a transaction goes with its connection.           *)
UsesPool(t) ==
    /\ PoolStep(t)
    /\ appender = t => task'[t].path \in {ActiveFile, Null}
    /\ appender' = IF appender = t /\ task'[t].at = "idle" THEN Null ELSE appender
    /\ transaction' = Restrict(transaction, {c \in DOMAIN transaction : Open(c)'})
    /\ UNCHANGED <<length, acknowledged, abandoned>>

StartsAppend(t) ==
    /\ At(t, "idle")
    /\ length < MaxLength
    /\ appender = Null
    /\ appender' = t
    /\ UNCHANGED <<poolVars, transaction, length, acknowledged, abandoned>>

StatementOnly == UNCHANGED <<databases, instances, appender>>

(* Mutant: the result of BEGIN IMMEDIATE is not looked at. *)
BeginsAnyway(t) == TRUE

(* A connection cannot begin twice, and the file has one writer. *)
MayBegin(t) == transaction = <<>>

Begins(t) ==
    /\ At(t, "use") /\ appender = t
    /\ \/ /\ MayBegin(t)
          /\ transaction' = [c \in DOMAIN transaction \cup {Connection(t)} |->
                    IF c \in DOMAIN transaction THEN transaction[c] ELSE 0]
          /\ Goto(t, "begun")
       \/ /\ ~MayBegin(t)
          /\ Goto(t, "drop")
          /\ UNCHANGED transaction
    /\ StatementOnly /\ UNCHANGED <<length, acknowledged, abandoned>>

InsertsEvents(t) ==
    /\ At(t, "begun")
    /\ transaction' = [transaction EXCEPT ![Connection(t)] = @ + 1]
    /\ Goto(t, "inserted")
    /\ StatementOnly /\ UNCHANGED <<length, acknowledged, abandoned>>

(* Mutant: the transaction stays open. *)
ForgetRollback(c) == transaction

Rollback(c) == Restrict(transaction, DOMAIN transaction \ {c})

(* The expected version does not match, or a statement fails. *)
RollsBack(t) ==
    /\ task[t].at \in {"begun", "inserted"}
    /\ transaction' = Rollback(Connection(t))
    /\ Goto(t, "drop")
    /\ StatementOnly /\ UNCHANGED <<length, acknowledged, abandoned>>

Commits(t) ==
    /\ At(t, "inserted")
    /\ length' = length + transaction[Connection(t)]
    /\ acknowledged' = acknowledged + 1
    /\ transaction' = Restrict(transaction, DOMAIN transaction \ {Connection(t)})
    /\ Goto(t, "drop")
    /\ StatementOnly /\ UNCHANGED abandoned

(* The future is dropped, or a ROLLBACK whose result is discarded fails. *)
LeavesOpen(t) ==
    /\ task[t].at \in {"begun", "inserted"}
    /\ abandoned < MaxAbandoned
    /\ abandoned' = abandoned + 1
    /\ Goto(t, "drop")
    /\ StatementOnly /\ UNCHANGED <<transaction, length, acknowledged>>

(* A query, or the future of an append dropped before BEGIN. *)
Reads(t) ==
    /\ At(t, "use")
    /\ Goto(t, "drop")
    /\ StatementOnly /\ UNCHANGED <<transaction, length, acknowledged, abandoned>>

Next == \E t \in Tasks :
    \/ UsesPool(t)
    \/ StartsAppend(t)
    \/ Begins(t) \/ InsertsEvents(t) \/ RollsBack(t) \/ Commits(t) \/ LeavesOpen(t) \/ Reads(t)

Spec == Init /\ [][Next]_vars

-----------------------------------------------------------------------------
(* Properties *)

TypeOK ==
    /\ databases \in Seq([path : Paths, instance : InstanceIds])
    /\ DOMAIN instances \subseteq InstanceIds
    /\ \A i \in DOMAIN instances : instances[i] \in DatabaseInstance
    /\ \A t \in Tasks :
        /\ task[t].path \in Paths \cup {Null}
        /\ task[t].instance \in DOMAIN instances \cup {Null}
        /\ task[t].connection \in Numbers \cup {Null}
    /\ appender \in Tasks \cup {Null}
    /\ \A c \in DOMAIN transaction : Open(c) /\ transaction[c] \in 0..MaxLength
    /\ {length, acknowledged} \subseteq 0..MaxLength

(* What the file holds is what acknowledged appends put there: rows that a   *)
(* dropped or failed append left in a transaction are never committed by the *)
(* next append on the same connection.                                       *)
CommitsAreAcknowledged == length = acknowledged

(* As long as no future was dropped and no ROLLBACK failed, nobody is lent a *)
(* connection within a transaction: a read returns committed rows, and BEGIN *)
(* IMMEDIATE waits for nobody but other writers.                             *)
ConnectionsAreClean ==
    abandoned = 0 => \A t \in Tasks : At(t, "use") => Connection(t) \notin DOMAIN transaction
=============================================================================
