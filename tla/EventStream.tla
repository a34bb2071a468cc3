----------------------------- MODULE EventStream -----------------------------
(* One partition of the event store (event_stream.rs): event files that each *)
(* hold a slice of one version sequence, a catalog that routes reads to      *)
(* them, and handles (EventStream values) through which callers append.      *)
(*                                                                           *)
(* An action is one step between two points where the code can be preempted  *)
(* in a way another task or a restart can see: one database statement or     *)
(* transaction, one read-locked look at the active partition, one clock      *)
(* sample.  The write lock of a rotation is held across actions; sections    *)
(* under a read lock, and the append transaction under the write lock, are   *)
(* actions that need the lock free.                                          *)
EXTENDS Catalog, FiniteSetsExt

CONSTANTS
    Procs,          \* concurrent callers of append
    Handles,        \* EventStream values opened on the partition
    Window,         \* RotationPolicy: window, in ticks
    MaxBytes,       \* RotationPolicy: max_bytes, or Null
    FileSizes,      \* sizes the active file may be found to have
    Expectations,   \* the ExpectedVersions callers pass
    BatchSizes,     \* the numbers of events callers pass
    MaxClock,       \* bound on the clock
    MaxCalls,       \* bound on the number of append calls
    MaxFaults,      \* bound on failed or cancelled operations
    MaxOutages,     \* bound on ends of the process
    Faults,         \* what may happen to an operation: it fails, or an append
                    \* is abandoned within its transaction
    Outages         \* what may happen to the process and, while the
                    \* partition is closed, to its catalog

VARIABLES
    now,            \* the system clock
    phase, rows, head,      \* per event file: schema progress, the versions
                            \* stored, current_version of its append head
    abandoned,              \* per event file: the transaction left open in it
    catalogPhase, catalog,  \* catalog.db: schema progress, its ranges
    active, lock,           \* per handle: RwLock<ActivePartition>, its writer
    pc, job,                \* per agent: where it is, the file it is creating
    handle, call, outcome,  \* per caller: its handle, request, last result
    stamp, resume,          \* per caller: now_ms, where a rotation returns to
    calls, faults, outages  \* how much of each bound is used up

fileVars    == <<phase, rows, head, abandoned>>
catalogVars == <<catalogPhase, catalog>>
handleVars  == <<active, lock>>
callVars    == <<handle, call, outcome, stamp, resume, calls>>
vars == <<now, fileVars, catalogVars, handleVars, pc, job, callVars, faults, outages>>

-----------------------------------------------------------------------------
WindowStarts == {FloorToWindowMs(t, Window) : t \in 0..MaxClock}

Names ==
    [unit : {LabelUnit(Window)},
     label : {LabelFor(start, Window) : start \in WindowStarts},
     ordinal : 0..MaxOverflowOrdinal]

Agents == Procs \cup Handles

\* absent: no file; created: an empty database; tables: the schema script ran
\* (or started to) without being recorded; migrated: recorded in _migrations
Phases == {"absent", "created", "tables", "migrated"}

ActivePartition == [name : Names, start : Int]
Job == [name : Names, start : Int, head : Nat]
ExpectedVersion == [kind : {"any", "no_stream", "exact"}, version : Nat]
Request == [expected : ExpectedVersion, count : Nat]

\* Seen only through the pool of one handle: what it inserted, the head it left.
OpenTransaction == [handle : Handles, rows : SUBSET (Nat \ {0}), head : Nat]

RotationSteps == {"seal", "create", "schema", "record", "init_head", "add_range"}
CallSteps == {"maybe_rotate", "clock", "begin", "window", "rotate", "commit"}
OpenSteps == {"closed", "catalog_schema", "catalog_record", "ranges", "new", "open"}

ASSUME EventStreamAssumption ==
    /\ Procs \cap Handles = {}
    /\ Window \in Nat \ {0} /\ MaxBytes \in Nat \cup {Null}
    /\ FileSizes \subseteq Nat /\ BatchSizes \subseteq Nat
    /\ Expectations \subseteq ExpectedVersion
    /\ {MaxClock, MaxCalls, MaxFaults, MaxOutages} \subseteq Nat
    /\ Faults \subseteq {"error", "abandon"}
    /\ Outages \subseteq {"crash", "shutdown", "damage"}
    /\ Null \notin Agents \cup ActivePartition \cup Job \cup Request \cup OpenTransaction

HandleOf(a) == IF a \in Handles THEN a ELSE handle[a]
IsOpen(h) == pc[h] = "open"

(* Mutant: nobody waits for a rotation under way. *)
NeverLocked(h) == TRUE

Unlocked(h) == lock[h] = Null

(* A writer also waits for the caller that samples the clock under its read  *)
(* lock.                                                                     *)
Writable(h) ==
    Unlocked(h) /\ \A p \in Procs : ~(pc[p] = "clock" /\ handle[p] = h)

AllVersions == UNION {rows[n] : n \in Names}

(* What a read of the append head of n by handle h may yield: the committed  *)
(* head or, on the pooled connection an append was abandoned on, the head in *)
(* its open transaction.                                                     *)
HeadsSeen(h, n) ==
    IF abandoned[n] # Null /\ abandoned[n].handle = h THEN {head[n], abandoned[n].head}
    ELSE {head[n]}

\* The version of the last event of the partition, wherever it is stored.
StreamVersion == CHOOSE v \in AllVersions \cup {0} : \A w \in AllVersions : w <= v

Goto(a, step) == pc' = [pc EXCEPT ![a] = step]

(* Mutant: the guard outlives the call. *)
KeepGuards(a) == lock

(* The lock state once the guard of agent a is dropped. *)
DropGuards(a) == [h \in Handles |-> IF lock[h] = a THEN Null ELSE lock[h]]

(* The Result of whatever a was running is returned: guards are dropped and  *)
(* its locals are gone.                                                      *)
Finish(a, result) ==
    /\ job' = [job EXCEPT ![a] = Null]
    /\ lock' = DropGuards(a)
    /\ IF a \in Handles
       THEN Goto(a, "closed") /\ UNCHANGED <<call, outcome, stamp, resume>>
       ELSE /\ Goto(a, "idle")
            /\ call' = [call EXCEPT ![a] = Null]
            /\ outcome' = [outcome EXCEPT ![a] = result]
            /\ stamp' = [stamp EXCEPT ![a] = 0]
            /\ resume' = [resume EXCEPT ![a] = "begin"]
    /\ UNCHANGED <<active, handle, calls>>

Init ==
    /\ now = 0
    /\ phase = [n \in Names |-> "absent"]
    /\ rows = [n \in Names |-> {}]
    /\ head = [n \in Names |-> Null]
    /\ abandoned = [n \in Names |-> Null]
    /\ catalogPhase = "absent"
    /\ catalog = EmptyCatalog(Names)
    /\ active = [h \in Handles |-> Null]
    /\ lock = [h \in Handles |-> Null]
    /\ pc = [a \in Agents |-> IF a \in Handles THEN "closed" ELSE "idle"]
    /\ job = [a \in Agents |-> Null]
    /\ handle \in [Procs -> Handles]
    /\ call = [p \in Procs |-> Null]
    /\ outcome = [p \in Procs |-> "none"]
    /\ stamp = [p \in Procs |-> 0]
    /\ resume = [p \in Procs |-> "begin"]
    /\ calls = 0 /\ faults = 0 /\ outages = 0

Tick ==
    /\ now < MaxClock
    /\ now' = now + 1
    /\ UNCHANGED <<fileVars, catalogVars, handleVars, pc, job, callVars, faults, outages>>

-----------------------------------------------------------------------------
(* Creating an event file: create_partition_db and the range that follows,   *)
(* the tail of a rotation and of the first open alike.                       *)

(* open_partition_db makes the file if it is missing; the migration runner   *)
(* then looks up what is recorded as applied.                                *)
CreateFile(a) ==
    LET n == job[a].name
    IN  /\ pc[a] = "create"
        /\ phase' = [phase EXCEPT ![n] = IF @ = "absent" THEN "created" ELSE @]
        /\ Goto(a, IF phase[n] = "migrated" THEN "init_head" ELSE "schema")
        /\ UNCHANGED <<now, rows, head, abandoned, catalogVars, handleVars, job, callVars,
                       faults, outages>>

(* The script's CREATE TABLE fails when a table is already there. *)
ApplySchema(a) ==
    LET n == job[a].name
    IN  /\ pc[a] = "schema"
        /\ IF phase[n] = "created"
           THEN /\ phase' = [phase EXCEPT ![n] = "tables"]
                /\ Goto(a, "record")
                /\ UNCHANGED <<handleVars, job, callVars>>
           ELSE Finish(a, "error") /\ UNCHANGED phase
        /\ UNCHANGED <<now, rows, head, abandoned, catalogVars, faults, outages>>

(* The name of a recorded migration is UNIQUE. *)
RecordMigration(a) ==
    LET n == job[a].name
    IN  /\ pc[a] = "record"
        /\ IF phase[n] = "tables"
           THEN /\ phase' = [phase EXCEPT ![n] = "migrated"]
                /\ Goto(a, "init_head")
                /\ UNCHANGED <<handleVars, job, callVars>>
           ELSE Finish(a, "error") /\ UNCHANGED phase
        /\ UNCHANGED <<now, rows, head, abandoned, catalogVars, faults, outages>>

(* An upsert: the head of a file that already exists is overwritten. *)
InitializeEventFileAppendHead(a) ==
    /\ pc[a] = "init_head"
    /\ abandoned[job[a].name] = Null
    /\ head' = [head EXCEPT ![job[a].name] = job[a].head]
    /\ Goto(a, "add_range")
    /\ UNCHANGED <<now, phase, rows, abandoned, catalogVars, handleVars, job, callVars,
                   faults, outages>>

(* A rotation back to a file in which an append was abandoned: the upsert    *)
(* runs on a connection of its own and finds the file locked.                *)
HeadIsLocked(a) ==
    /\ pc[a] = "init_head"
    /\ abandoned[job[a].name] # Null
    /\ Finish(a, "error")
    /\ UNCHANGED <<now, fileVars, catalogVars, faults, outages>>

(* The file becomes the active one in the catalog and in memory, and the     *)
(* write lock of a rotation is released.                                     *)
AddRange(a) ==
    LET h == HandleOf(a)
    IN  /\ pc[a] = "add_range"
        /\ catalog' = CreateEventFileRange(catalog, job[a].name, job[a].head + 1)
        /\ active' = [active EXCEPT ![h] = [name |-> job[a].name, start |-> job[a].start]]
        /\ lock' = DropGuards(a)
        /\ Goto(a, IF a \in Handles THEN "open" ELSE resume[a])
        /\ job' = [job EXCEPT ![a] = Null]
        /\ UNCHANGED <<now, fileVars, catalogPhase, callVars, faults, outages>>

CreationStep(a) ==
    \/ CreateFile(a) \/ ApplySchema(a) \/ RecordMigration(a)
    \/ InitializeEventFileAppendHead(a) \/ HeadIsLocked(a) \/ AddRange(a)

-----------------------------------------------------------------------------
(* open_partitioned: migrate the catalog, find the active partition.         *)

OpenPartitioned(h) ==
    /\ pc[h] = "closed"
    /\ Goto(h, IF catalogPhase = "migrated" THEN "ranges" ELSE "catalog_schema")
    /\ UNCHANGED <<now, fileVars, catalogVars, handleVars, job, callVars, faults, outages>>

ApplyCatalogSchema(h) ==
    /\ pc[h] = "catalog_schema"
    /\ IF catalogPhase = "absent"
       THEN /\ catalogPhase' = "tables"
            /\ Goto(h, "catalog_record")
            /\ UNCHANGED <<handleVars, job, callVars>>
       ELSE Finish(h, "error") /\ UNCHANGED catalogPhase
    /\ UNCHANGED <<now, fileVars, catalog, faults, outages>>

(* Mutant: the script of the catalog is applied and not recorded. *)
ForgetCatalogMigration(h) ==
    /\ pc[h] = "catalog_record"
    /\ Goto(h, "ranges")
    /\ UNCHANGED <<now, fileVars, catalogVars, handleVars, job, callVars, faults, outages>>

RecordCatalogMigration(h) ==
    /\ pc[h] = "catalog_record"
    /\ IF catalogPhase = "tables"
       THEN /\ catalogPhase' = "migrated"
            /\ Goto(h, "ranges")
            /\ UNCHANGED <<handleVars, job, callVars>>
       ELSE Finish(h, "error") /\ UNCHANGED catalogPhase
    /\ UNCHANGED <<now, fileVars, catalog, faults, outages>>

(* The partition becomes usable with n as its active file.  Start and        *)
(* ordinal are what the name says.                                           *)
Attach(h, n) ==
    /\ active' = [active EXCEPT ![h] = [name |-> n, start |-> ParsePartitionName(n).start]]
    /\ Goto(h, "open")
    /\ UNCHANGED <<lock, job>>

(* Exactly one unsealed range: the catalog is believed as it stands. *)
UseCatalog(h) ==
    /\ pc[h] = "ranges"
    /\ \E n \in Names : UnsealedRanges(catalog) = {n} /\ Attach(h, n)
    /\ UNCHANGED <<now, fileVars, catalogVars, callVars, faults, outages>>

CatalogIsAmbiguous == \A n \in Names : UnsealedRanges(catalog) # {n}
PresentFiles == {n \in Names : phase[n] # "absent"}

(* Mutant: the rows are ignored. *)
FirstVersionByHead(n) == head[n] + 1

\* read_first_event_version, or where the file's first event would go
FirstVersion(n) == IF rows[n] = {} THEN head[n] + 1 ELSE Min(rows[n])

(* Mutant: the survey sorts the other way round. *)
FileAfter(a, b) == RangeBefore(FirstVersion(b), b, FirstVersion(a), a)

FileBefore(a, b) == RangeBefore(FirstVersion(a), a, FirstVersion(b), b)

(* Mutant: a sealed range ends one version short. *)
RebuiltRangeOneShort(n, last) ==
    IF n = last THEN ActiveRange(FirstVersion(n))
    ELSE [first_version |-> FirstVersion(n), last_version |-> head[n] - 1, sealed |-> TRUE]

(* Every file but the last in the order of (first version, name) is sealed   *)
(* at its own append head.                                                   *)
RebuiltRange(n, last) ==
    IF n = last THEN ActiveRange(FirstVersion(n))
    ELSE [first_version |-> FirstVersion(n), last_version |-> head[n], sealed |-> TRUE]

(* Otherwise the files on disk are surveyed and the catalog is replaced.     *)
(* The survey and the replacement are one step: while the only handle of a   *)
(* partition opens, nothing else touches its files.                          *)
RebuildEventFileRanges(h) ==
    /\ pc[h] = "ranges"
    /\ CatalogIsAmbiguous
    /\ \A n \in PresentFiles : head[n] # Null
    /\ IF PresentFiles = {}
       THEN /\ catalog' = EmptyCatalog(Names)
            /\ Goto(h, "new")
            /\ UNCHANGED <<handleVars, job>>
       ELSE \E last \in PresentFiles :
            /\ \A n \in PresentFiles \ {last} : FileBefore(n, last)
            /\ catalog' = ReplaceEventFileRanges(Names,
                  [n \in PresentFiles |-> RebuiltRange(n, last)])
            /\ Attach(h, last)
    /\ UNCHANGED <<now, fileVars, catalogPhase, callVars, faults, outages>>

(* A file without the append head table, or without its row, ends the survey. *)
SurveyFails(h) ==
    /\ pc[h] = "ranges"
    /\ CatalogIsAmbiguous
    /\ \E n \in PresentFiles : head[n] = Null
    /\ Finish(h, "error")
    /\ UNCHANGED <<now, fileVars, catalogVars, faults, outages>>

CreateNewActivePartition(h) ==
    LET start == FloorToWindowMs(now, Window)
    IN  /\ pc[h] = "new"
        /\ job' = [job EXCEPT ![h] =
              [name |-> GeneratePartitionName(start, Window, 0), start |-> start, head |-> 0]]
        /\ Goto(h, "create")
        /\ UNCHANGED <<now, fileVars, catalogVars, handleVars, callVars, faults, outages>>

OpenStep(h) ==
    \/ ApplyCatalogSchema(h) \/ RecordCatalogMigration(h) \/ UseCatalog(h)
    \/ RebuildEventFileRanges(h) \/ SurveyFails(h) \/ CreateNewActivePartition(h)
    \/ CreationStep(h)

-----------------------------------------------------------------------------
(* append *)

Invoke(p) ==
    /\ pc[p] = "idle"
    /\ IsOpen(handle[p])
    /\ calls < MaxCalls
    /\ calls' = calls + 1
    /\ \E expected \in Expectations, count \in BatchSizes :
        call' = [call EXCEPT ![p] = [expected |-> expected, count |-> count]]
    /\ outcome' = [outcome EXCEPT ![p] = "none"]
    /\ Goto(p, "maybe_rotate")
    /\ UNCHANGED <<now, fileVars, catalogVars, handleVars, job, handle, stamp, resume,
                   faults, outages>>

(* maybe_rotate, under a read lock: should_rotate looks at the size of the   *)
(* active file and at the clock, in whole seconds; a tick is at least one.   *)
MaybeRotate(p) ==
    LET h == handle[p]
    IN  /\ pc[p] = "maybe_rotate"
        /\ Unlocked(h)
        /\ \E size \in FileSizes :
            Goto(p, IF ShouldRotate(Window, MaxBytes, size, active[h].start, now)
                    THEN "clock" ELSE "begin")
        /\ UNCHANGED <<now, fileVars, catalogVars, handleVars, job, callVars, faults, outages>>

(* A second look at the clock says when to rotate to.  The rotation itself   *)
(* comes after the release of the read lock.                                 *)
SampleRotationClock(p) ==
    /\ pc[p] = "clock"
    /\ stamp' = [stamp EXCEPT ![p] = now]
    /\ Goto(p, "rotate")
    /\ UNCHANGED <<now, fileVars, catalogVars, handleVars, job, handle, call, outcome,
                   resume, calls, faults, outages>>

(* An empty batch is done here. *)
ReturnEmptyBatch(p) ==
    /\ pc[p] = "begin"
    /\ call[p].count = 0
    /\ Finish(p, "empty")
    /\ UNCHANGED <<now, fileVars, catalogVars, faults, outages>>

(* validate_events: payload size and workflow metadata are not modelled, so  *)
(* any batch may be refused.                                                 *)
RejectEvents(p) ==
    /\ pc[p] = "begin"
    /\ call[p].count > 0
    /\ Finish(p, "error")
    /\ UNCHANGED <<now, fileVars, catalogVars, faults, outages>>

(* The clock is read once, for the window and for the time of the events. *)
SampleClock(p) ==
    /\ pc[p] = "begin"
    /\ call[p].count > 0
    /\ stamp' = [stamp EXCEPT ![p] = now]
    /\ resume' = [resume EXCEPT ![p] = "window"]
    /\ Goto(p, "window")
    /\ UNCHANGED <<now, fileVars, catalogVars, handleVars, job, handle, call, outcome, calls,
                   faults, outages>>

(* One turn of rotate_until_current_window.  The window is that of the       *)
(* caller's clock sample, which may be older than the active file's.         *)
RotateUntilCurrentWindow(p) ==
    LET h == handle[p]
    IN  /\ pc[p] = "window"
        /\ Unlocked(h)
        /\ Goto(p, IF FloorToWindowMs(stamp[p], Window) = active[h].start
                   THEN "commit" ELSE "rotate")
        /\ UNCHANGED <<now, fileVars, catalogVars, handleVars, job, callVars, faults, outages>>

(* rotate_partition takes the write lock.  The decision to rotate is not     *)
(* made again.                                                               *)
RotatePartition(p) ==
    LET h    == handle[p]
        old  == active[h]
        info == DetermineNewPartitionInfo(Window, old.start,
                    ParsePartitionName(old.name).ordinal, stamp[p])
    IN  /\ pc[p] = "rotate"
        /\ Writable(h)
        /\ IF info = Null \/ head[old.name] = Null
           THEN Finish(p, "error")
           ELSE /\ lock' = [lock EXCEPT ![h] = p]
                /\ \E seen \in HeadsSeen(h, old.name) :
                      job' = [job EXCEPT ![p] =
                        [name |-> info.name, start |-> info.start, head |-> seen]]
                /\ Goto(p, "seal")
                /\ UNCHANGED <<active, callVars>>
        /\ UNCHANGED <<now, fileVars, catalogVars, faults, outages>>

SealActiveRange(p) ==
    /\ pc[p] = "seal"
    /\ catalog' = SealEventFileRange(catalog, active[handle[p]].name, job[p].head)
    /\ Goto(p, "create")
    /\ UNCHANGED <<now, fileVars, catalogPhase, handleVars, job, callVars, faults, outages>>

(* Mutant: the version an Exact caller names is not compared. *)
MismatchOfNoStream(expected, current) == expected.kind = "no_stream" /\ current # 0

(* validate_expected_version_against *)
Mismatch(expected, current) ==
    \/ (expected.kind = "no_stream" /\ current # 0)
    \/ (expected.kind = "exact" /\ expected.version # current)

ExactStart(expected) == expected.kind = "exact" /\ expected.version = 0

(* Mutant: counting starts one too high. *)
NewVersionsAfterGap(current, count) == current + 2 .. current + count + 1

(* Mutant: the first event gets the version of the head. *)
VersionsFromHead(current, count) == current .. current + count - 1

(* The versions insert_events gives to count events behind the head. *)
NewVersions(current, count) == current + 1 .. current + count

(* The transaction of an append, from BEGIN IMMEDIATE to COMMIT or ROLLBACK, *)
(* in the file that is active by then: it fails (also behind a transaction   *)
(* that was left open in the file), it conflicts (with what the              *)
(* caller expected or with UNIQUE(version)), or it commits the events and    *)
(* the head together.                                                        *)
AtTransaction(p) == pc[p] = "commit" /\ Writable(handle[p])
ActiveFile(p) == active[handle[p]].name
Unusable(p) ==
    \/ head[ActiveFile(p)] = Null \/ abandoned[ActiveFile(p)] # Null
    \/ ExactStart(call[p].expected)
BatchVersions(p) == NewVersions(head[ActiveFile(p)], call[p].count)
Conflicting(p) ==
    \/ Mismatch(call[p].expected, head[ActiveFile(p)])
    \/ BatchVersions(p) \cap rows[ActiveFile(p)] # {}

AppendFails(p) ==
    /\ AtTransaction(p) /\ Unusable(p)
    /\ Finish(p, "error")
    /\ UNCHANGED <<now, fileVars, catalogVars, faults, outages>>

AppendConflicts(p) ==
    /\ AtTransaction(p) /\ ~Unusable(p) /\ Conflicting(p)
    /\ Finish(p, "conflict")
    /\ UNCHANGED <<now, fileVars, catalogVars, faults, outages>>

AppendCommits(p) ==
    /\ AtTransaction(p) /\ ~Unusable(p) /\ ~Conflicting(p)
    /\ rows' = [rows EXCEPT ![ActiveFile(p)] = @ \cup BatchVersions(p)]
    /\ head' = [head EXCEPT ![ActiveFile(p)] = @ + call[p].count]
    /\ Finish(p, "appended")
    /\ UNCHANGED <<now, phase, abandoned, catalogVars, faults, outages>>

AppendStep(p) ==
    \/ MaybeRotate(p) \/ SampleRotationClock(p) \/ ReturnEmptyBatch(p) \/ RejectEvents(p)
    \/ SampleClock(p) \/ RotateUntilCurrentWindow(p) \/ RotatePartition(p)
    \/ SealActiveRange(p) \/ CreationStep(p)
    \/ AppendFails(p) \/ AppendConflicts(p) \/ AppendCommits(p)

-----------------------------------------------------------------------------
(* current_version: the head of the active file. *)
CurrentVersions(h) == HeadsSeen(h, active[h].name)

-----------------------------------------------------------------------------
(* The environment *)

(* A database or file operation fails, or the caller drops the future at an  *)
(* await outside the transaction of an append: the error path returns,       *)
(* releases the lock and rolls back an open transaction.  Statements already *)
(* executed stay executed.                                                   *)
Fault(a) ==
    /\ "error" \in Faults
    /\ faults < MaxFaults
    /\ faults' = faults + 1
    /\ pc[a] \notin {"idle", "closed", "open"}
    /\ Finish(a, "error")
    /\ UNCHANGED <<now, fileVars, catalogVars, outages>>

(* The caller drops the future within the transaction, or its ROLLBACK fails.*)
(* The connection goes back to the pool of the handle with the transaction   *)
(* open, whatever part of the batch, and of the head behind it, is written.  *)
Insertable(p) == IF Unusable(p) \/ Conflicting(p) THEN 0 ELSE call[p].count

AbandonAppend(p) ==
    LET n == ActiveFile(p)
    IN  /\ "abandon" \in Faults
        /\ faults < MaxFaults
        /\ faults' = faults + 1
        /\ AtTransaction(p) /\ head[n] # Null /\ abandoned[n] = Null
        /\ \E inserted \in 0..Insertable(p), counted \in {0, call[p].count} :
            /\ counted # 0 => inserted = counted
            /\ abandoned' = [abandoned EXCEPT ![n] =
                  [handle |-> handle[p], rows |-> NewVersions(head[n], inserted),
                   head |-> head[n] + counted]]
        /\ Finish(p, "error")
        /\ UNCHANGED <<now, phase, rows, head, catalogVars, outages>>

(* The pool closes the connection: another one was returned to its place, or *)
(* its database was evicted.                                                 *)
AbandonedRollsBack(n) ==
    /\ abandoned[n] # Null
    /\ abandoned' = [abandoned EXCEPT ![n] = Null]
    /\ UNCHANGED <<now, phase, rows, head, catalogVars, handleVars, pc, job, callVars,
                   faults, outages>>

(* The process ends and nothing it holds outlives it: handles, locks, calls. *)
(* Every transaction that was committed is on disk.                          *)
EndProcess ==
    /\ outages < MaxOutages
    /\ outages' = outages + 1
    /\ abandoned' = [n \in Names |-> Null]
    /\ active' = [h \in Handles |-> Null]
    /\ lock' = [h \in Handles |-> Null]
    /\ pc' = [a \in Agents |-> IF a \in Handles THEN "closed" ELSE "idle"]
    /\ job' = [a \in Agents |-> Null]
    /\ call' = [p \in Procs |-> Null]
    /\ outcome' = [p \in Procs |-> "none"]
    /\ stamp' = [p \in Procs |-> 0]
    /\ resume' = [p \in Procs |-> "begin"]
    /\ UNCHANGED <<now, phase, rows, head, catalogVars, handle, calls, faults>>

(* At any point. *)
Crash == "crash" \in Outages /\ EndProcess

(* With every handle open and no call in progress. *)
Shutdown ==
    /\ "shutdown" \in Outages
    /\ \A a \in Agents : pc[a] \in {"idle", "open"}
    /\ EndProcess

(* Catalog metadata goes missing, or comes back with every range unsealed,   *)
(* while nothing is open: the damage the rebuild on open is there for.       *)
DamageCatalog ==
    /\ "damage" \in Outages
    /\ \A h \in Handles : pc[h] = "closed"
    /\ \/ catalog' = EmptyCatalog(Names)
       \/ catalog' = [n \in Names |->
              IF catalog[n] = Null THEN Null ELSE ActiveRange(catalog[n].first_version)]
    /\ UNCHANGED <<now, fileVars, catalogPhase, handleVars, pc, job, callVars, faults, outages>>

Next ==
    \/ Tick \/ Crash \/ Shutdown \/ DamageCatalog
    \/ \E h \in Handles : OpenPartitioned(h) \/ OpenStep(h)
    \/ \E p \in Procs : Invoke(p) \/ AppendStep(p)
    \/ \E a \in Agents : Fault(a)
    \/ \E p \in Procs : AbandonAppend(p)
    \/ \E n \in Names : AbandonedRollsBack(n)

Spec == Init /\ [][Next]_vars

(* Tasks are scheduled and statements return; tokio's RwLock queues its      *)
(* waiters, so one that finds the lock free again and again gets it.         *)
Fairness ==
    /\ \A h \in Handles : WF_vars(OpenPartitioned(h)) /\ WF_vars(OpenStep(h))
    /\ \A p \in Procs : SF_vars(AppendStep(p))

-----------------------------------------------------------------------------
(* Properties *)

(* Every variable has its type. *)
TypeOK ==
    /\ now \in 0..MaxClock
    /\ phase \in [Names -> Phases]
    /\ rows \in [Names -> SUBSET (Nat \ {0})]
    /\ head \in [Names -> Nat \cup {Null}]
    /\ abandoned \in [Names -> OpenTransaction \cup {Null}]
    /\ catalogPhase \in {"absent", "tables", "migrated"}
    /\ catalog \in [Names -> EventFileRange \cup {Null}]
    /\ active \in [Handles -> ActivePartition \cup {Null}]
    /\ lock \in [Handles -> Procs \cup {Null}]
    /\ pc \in [Agents -> {"idle"} \cup RotationSteps \cup CallSteps \cup OpenSteps]
    /\ job \in [Agents -> Job \cup {Null}]
    /\ handle \in [Procs -> Handles]
    /\ call \in [Procs -> Request \cup {Null}]
    /\ outcome \in [Procs -> {"none", "appended", "empty", "conflict", "error"}]
    /\ stamp \in [Procs -> 0..MaxClock]
    /\ resume \in [Procs -> {"begin", "window"}]
    /\ {calls, faults, outages} \subseteq Nat

(* No version is given to two events: a file's UNIQUE(version) cannot see    *)
(* the other files, so only the head handed from file to file prevents it    *)
(* (rotate_partition, rebuild_event_file_ranges).                            *)
VersionsUnique ==
    \A n, m \in Names : n # m => rows[n] \cap rows[m] = {}

(* A new event gets a version behind that of every stored event of the       *)
(* partition, whatever failed or was abandoned before ("monotonic inside one *)
(* partition store").                                                        *)
VersionsAscend ==
    [][\A n \in Names : \A v \in rows'[n] \ rows[n] : v > StreamVersion]_vars

(* The versions in use are 1, 2, 3, ... without a gap, whatever appends,     *)
(* failed appends and rotations were interleaved.                            *)
Gapless == AllVersions = 1..StreamVersion

(* What current_version reads through an open handle is the version of the   *)
(* last event of the whole partition.                                        *)
CurrentVersionIsLast ==
    \A h \in Handles : IsOpen(h) => CurrentVersions(h) = {StreamVersion}

(* Each range of the catalog says which versions its file holds: from        *)
(* first_version up to last_version, or to the append head while unsealed.   *)
RangesDescribeFiles ==
    \A n \in Names : catalog[n] # Null =>
        rows[n] = catalog[n].first_version ..
                    (IF catalog[n].sealed THEN catalog[n].last_version ELSE head[n])

(* No committed event is out of load_after_version's reach: its file has a   *)
(* range, and the range is consulted for every cursor before the event.      *)
CommittedIsReachable ==
    (\E h \in Handles : IsOpen(h)) =>
        \A n \in Names : \A v \in rows[n] :
            n \in GetEventFileRangesAfterVersion(catalog, v - 1)

(* While no rotation is under way the catalog has one unsealed range, that   *)
(* of the active file; running out of ordinals must not leave it sealed.     *)
OneUnsealedRange ==
    \A h \in Handles :
        IsOpen(h) /\ Unlocked(h) => UnsealedRanges(catalog) = {active[h].name}

(* A rotation moves on to a file that does not exist yet ("a new active file *)
(* is created"); the upserts on its way would rewrite an existing one.       *)
RotationTargetIsNew ==
    \A p \in Procs : pc[p] = "create" => phase[job[p].name] = "absent"

(* A file whose range is sealed gets no more events. *)
SealedFilesDoNotGrow ==
    [][\A n \in Names :
        catalog[n] # Null /\ rows'[n] # rows[n] => ~catalog[n].sealed]_vars

(* Seen by its callers the partition is one log. *)
Log == INSTANCE EventLog WITH length <- StreamVersion

IsOneLog == Log!Spec

(* Every append comes back to its caller, through rotations, lock waits and  *)
(* errors.                                                                   *)
CallsReturn == \A p \in Procs : call[p] # Null ~> call[p] = Null

(* A partition that was shut down in good order opens again, whatever became *)
(* of its catalog's rows, and with the migrations of the last time.          *)
PartitionOpens == \A h \in Handles : pc[h] = "closed" ~> IsOpen(h)

(* The survey that repairs the catalog never stumbles over a file.           *)
CatalogIsRepairable ==
    \A h \in Handles :
        pc[h] = "ranges" /\ CatalogIsAmbiguous => \A n \in PresentFiles : head[n] # Null
=============================================================================
