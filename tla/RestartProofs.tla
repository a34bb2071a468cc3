---------------------------- MODULE RestartProofs ----------------------------
(* Theorems about EventStream across restarts: what the process leaves on    *)
(* disk when it ends, in good order or not, and what the next one makes of   *)
(* it, for any number of callers, rotations and restarts.                    *)
EXTENDS EventStreamProofs, WindowProofs

Win(t) == FloorToWindowMs(t, Window)

(* Nothing cuts a call short but the end of the process, and the catalog is  *)
(* damaged only where the process always ends in good order.                 *)
Undisturbed ==
    /\ MaxFaults = 0
    /\ Outages \subseteq {"crash", "shutdown"} \/ Outages \subseteq {"shutdown", "damage"}

(* No rotation goes back in time: nobody but the caller that rotates has a   *)
(* look at the clock that could have aged, or all looks fall in one window.  *)
RotationsGoOnward ==
    /\ \A t \in 0..MaxClock : LabelFor(Win(t), Window) = Win(t)
    /\ (\A p, q \in Procs : p = q) \/ (\A t \in 0..MaxClock : Win(t) = 0)

Restartable == OneHandle /\ Undisturbed /\ RotationsGoOnward

-----------------------------------------------------------------------------
(* The inductive invariant: the files and the catalog                        *)

Present(n) == phase[n] # "absent"
Newest(n) == Present(n) /\ \A m \in Names : Present(m) => m = n \/ NameBefore(m, n)

(* The versions of a file are those from its first to its append head, and   *)
(* all the versions below are stored somewhere.                              *)
FileHolds(n) ==
    /\ head[n] = Null => rows[n] = {} /\ catalog[n] = Null
    /\ head[n] # Null =>
        /\ Present(n)
        /\ FirstVersion(n) \in 1 .. head[n] + 1
        /\ rows[n] = FirstVersion(n) .. head[n]
        /\ \A v \in 1 .. head[n] : \E m \in Names : v \in rows[m]

FilesInv == \A n \in Names : FileHolds(n)

(* In the order of their names each file starts behind the ones before, and  *)
(* only the last can be without its head.                                    *)
ChainInv ==
    \A m, n \in Names :
        Present(m) /\ Present(n) /\ NameBefore(m, n) =>
            head[m] # Null /\ (head[n] # Null => head[m] < FirstVersion(n))

RangeInv ==
    \A n \in Names : catalog[n] # Null =>
        /\ head[n] # Null
        /\ catalog[n].first_version = FirstVersion(n)
        /\ catalog[n].last_version = IF catalog[n].sealed THEN head[n] ELSE Null

AllInCatalog == \A m \in Names : Present(m) => catalog[m] # Null

(* A catalog that is believed as it stands names the newest file, and        *)
(* leaves out none.                                                          *)
CatalogInv ==
    \A n \in Names : UnsealedRanges(catalog) = {n} => Newest(n) /\ AllInCatalog

DiskInv == FilesInv /\ ChainInv /\ RangeInv /\ CatalogInv

-----------------------------------------------------------------------------
(* The inductive invariant: the agents                                       *)

(* After an orderly end the catalog knows every file, unless it is damaged.  *)
SettledInv ==
    "damage" \in Outages =>
        \A h \in Handles : ~IsOpen(h) => AllInCatalog \/ catalog = EmptyCatalog(Names)

Rotating == \E p \in Procs : pc[p] \in RotationSteps \ {"seal"}

OpenInv ==
    \A h \in Handles :
        /\ IsOpen(h) => head[active[h].name] # Null
        /\ IsOpen(h) /\ ~Rotating => UnsealedRanges(catalog) = {active[h].name}
        /\ pc[h] = "new" => \A m \in Names : ~Present(m)
        /\ pc[h] \in RotationSteps => \A m \in Names \ {job[h].name} : ~Present(m)

(* The file an agent creates is new, and goes on where the others end.       *)
TargetHolds(a) ==
    LET k == job[a].name
    IN  /\ pc[a] \in {"seal", "create"} =>
            ~Present(k) /\ \A m \in Names : Present(m) => NameBefore(m, k)
        /\ pc[a] \notin {"seal", "create"} => Newest(k)
        /\ rows[k] = {} /\ catalog[k] = Null
        /\ head[k] = IF pc[a] = "add_range" THEN job[a].head ELSE Null
        /\ pc[a] = "schema" => phase[k] = "created"
        /\ pc[a] = "record" => phase[k] = "tables"
        /\ \A m \in Names \ {k} : Present(m) => head[m] \in 0 .. job[a].head
        /\ \A v \in 1 .. job[a].head : \E m \in Names : v \in rows[m]
        /\ pc[a] # "seal" =>
            /\ UnsealedRanges(catalog) = {}
            /\ \A m \in Names \ {k} : Present(m) => catalog[m] # Null

TargetInv == \A a \in Agents : pc[a] \in RotationSteps => TargetHolds(a)

(* The memory of the process agrees with the names, and nobody is about to   *)
(* rotate to a window before the active one.                                 *)
ClockInv ==
    /\ \A n \in Names : Present(n) => n.label <= Win(now)
    /\ \A h \in Handles : IsOpen(h) =>
        active[h].start = active[h].name.label /\ active[h].start <= Win(now)
    /\ \A a \in Agents : pc[a] \in RotationSteps =>
        job[a].start = job[a].name.label /\ job[a].start <= Win(now)
    /\ \A p \in Procs :
        /\ stamp[p] <= now
        /\ pc[p] \in RotationSteps => job[p].start = Win(stamp[p])
        /\ pc[p] \in {"window", "rotate"} => active[handle[p]].start <= Win(stamp[p])

(* Without faults a rotation goes on from the head of the file it seals.     *)
RotatesAlone ==
    \A p \in Procs : pc[p] \in RotationSteps =>
        lock[handle[p]] = p /\ head[active[handle[p]].name] = job[p].head

AgentInv == SettledInv /\ OpenInv /\ TargetInv /\ RotatesAlone /\ ClockInv

\* Without faults every append ends its transaction.
NothingOpen == \A n \in Names : abandoned[n] = Null

IInv == TypeInv /\ NothingOpen /\ DiskInv /\ AgentInv

LEMMA HeadsAreCommitted ==
    ASSUME NothingOpen, NEW h, NEW n \in Names
    PROVE  HeadsSeen(h, n) = {head[n]}
BY DEF NothingOpen, HeadsSeen

LEMMA NothingOpens ==
    ASSUME MaxFaults = 0, TypeInv, NothingOpen, [Next]_vars
    PROVE  NothingOpen'
<1>1. AbandonedIsAhead
  BY DEF NothingOpen, AbandonedIsAhead
<1>2. AbandonedIsAhead'
  BY <1>1, AbandonedStep
<1>. QED BY <1>2 DEF NothingOpen, AbandonedIsAhead

-----------------------------------------------------------------------------
(* Names, first versions and points in time                                  *)

LEMMA NamesOrdered ==
    /\ \A m, n \in Names : m = n \/ NameBefore(m, n) \/ NameBefore(n, m)
    /\ \A m, n \in Names : NameBefore(m, n) => ~NameBefore(n, m)
    /\ \A l, m, n \in Names : NameBefore(l, m) /\ NameBefore(m, n) => NameBefore(l, n)
    /\ \A n \in Names : ~NameBefore(n, n)
<1>1. \A n \in Names : n.label \in Int /\ n.ordinal \in Nat /\ n.unit = LabelUnit(Window)
  BY RotationAssumption, NamesParse DEF Names, ParsePartitionName
<1>2. \A m, n \in Names : m.label = n.label /\ m.ordinal = n.ordinal => m = n
  BY <1>1 DEF Names
<1>. QED BY <1>1, <1>2 DEF NameBefore

LEMMA NewestIsOne ==
    ASSUME NEW m \in Names, NEW n \in Names, Newest(m), Newest(n)
    PROVE  m = n
BY NamesOrdered DEF Newest

(* The first version of a file that holds the versions first..last.          *)
LEMMA FirstOfRange ==
    ASSUME NEW last \in Nat, NEW first \in 1 .. last + 1
    PROVE  (IF first..last = {} THEN last + 1 ELSE Min(first..last)) = first
<1>1. CASE first = last + 1
  BY <1>1
<1>2. CASE first <= last
  <2>1. first..last # {} /\ first \in first..last /\ first..last \in SUBSET Nat
    BY <1>2
  <2>2. Min(first..last) \in first..last /\ Min(first..last) <= first
    BY <2>1, MinOfNats
  <2>. QED BY <2>1, <2>2
<1>. QED BY <1>1, <1>2

LEMMA WindowFacts ==
    ASSUME NEW t \in 0..MaxClock, NEW u \in 0..MaxClock
    PROVE  /\ Win(t) \in Nat
           /\ t <= u => Win(t) <= Win(u)
BY FloorIsBelow, FloorIsMonotone, EventStreamAssumption DEF Win

LEMMA GeneratedName ==
    ASSUME RotationsGoOnward, NEW t \in 0..MaxClock, NEW ordinal \in 0..MaxOverflowOrdinal
    PROVE  LET n == GeneratePartitionName(Win(t), Window, ordinal)
           IN  n \in Names /\ n.label = Win(t) /\ n.ordinal = ordinal
BY GeneratedIsName DEF Win, RotationsGoOnward, GeneratePartitionName

(* Where a rotation leads is behind where it starts.                         *)
LEMMA InfoIsBehind ==
    ASSUME RotationsGoOnward, NEW n \in Names, NEW start \in Int, NEW t \in 0..MaxClock,
           start = n.label, start <= Win(t)
    PROVE  LET info == DetermineNewPartitionInfo(Window, start, ParsePartitionName(n).ordinal, t)
           IN  info # Null =>
                /\ info.name \in Names /\ NameBefore(n, info.name)
                /\ info.start = Win(t) /\ info.name.label = Win(t)
<1>. DEFINE ordinal == ParsePartitionName(n).ordinal
            next == IF Win(t) = start THEN GetNextOrdinal(ordinal) ELSE 0
            info == DetermineNewPartitionInfo(Window, start, ordinal, t)
<1>1. ordinal \in 0..MaxOverflowOrdinal /\ ordinal = n.ordinal
  BY NamesParse DEF ParsePartitionName
<1>2. MaxOverflowOrdinal \in Nat /\ Null \notin Int /\ Win(t) \in Nat
  BY RotationAssumption, WindowFacts
<1>3. info = IF next = Null THEN Null
             ELSE [name |-> GeneratePartitionName(Win(t), Window, next), start |-> Win(t)]
  BY DEF DetermineNewPartitionInfo, Win
<1>4. SUFFICES ASSUME info # Null
               PROVE  /\ info.name \in Names /\ NameBefore(n, info.name)
                      /\ info.start = Win(t) /\ info.name.label = Win(t)
  OBVIOUS
<1>5. next # Null /\ info = [name |-> GeneratePartitionName(Win(t), Window, next), start |-> Win(t)]
  BY <1>3, <1>4
<1>6. next \in 0..MaxOverflowOrdinal /\ (Win(t) = start => n.ordinal < next)
  BY <1>1, <1>2, <1>5 DEF GetNextOrdinal
<1>. HIDE DEF next, info
<1>7. info.name \in Names /\ info.name.label = Win(t) /\ info.name.ordinal = next
  BY <1>5, <1>6, GeneratedName
<1>8. NameBefore(n, info.name)
  BY <1>2, <1>6, <1>7 DEF NameBefore
<1>. QED BY <1>5, <1>7, <1>8

-----------------------------------------------------------------------------
(* Steps that leave the disk and the rotation under way alone                *)

\* The one handle, and the one agent that creates a file.
LEMMA OneHandleOnly == ASSUME OneHandle PROVE \A g, h \in Handles : g = h
BY DEF OneHandle

LEMMA OneRotation ==
    ASSUME OneHandle, IInv, NEW a \in Agents, NEW b \in Agents,
           pc[a] \in RotationSteps, pc[b] \in RotationSteps
    PROVE  a = b
<1>1. \A p, q \in Procs : handle[p] = handle[q]
  BY OneHandleOnly DEF IInv, TypeInv, TypeOK
<1>2. \A p, q \in Procs : pc[p] \in RotationSteps /\ pc[q] \in RotationSteps => p = q
  BY <1>1 DEF IInv, AgentInv, RotatesAlone
<1>3. \A p \in Procs : pc[p] \in RotationSteps => \A h \in Handles : pc[h] = "open"
  <2>1. \A p \in Procs : pc[p] \in RotationSteps => pc[p] # "idle" /\ handle[p] \in Handles
    BY DEF RotationSteps, IInv, TypeInv, TypeOK
  <2>. QED BY <2>1, OneHandleOnly DEF IInv, TypeInv, StepFacts, IsOpen
<1>4. \A h \in Handles : pc[h] \in RotationSteps => pc[h] # "open"
  BY DEF RotationSteps
<1>. QED BY <1>2, <1>3, <1>4, OneHandleOnly DEF Agents

QuietStep ==
    /\ UNCHANGED <<phase, rows, head, catalog, active, handle>>
    /\ \A h \in Handles : (pc'[h] = "open" <=> pc[h] = "open") /\ (pc'[h] = "new" => pc[h] = "new")
    /\ \A a \in Agents : pc[a] \in RotationSteps \/ pc'[a] \in RotationSteps =>
        pc'[a] = pc[a] /\ job'[a] = job[a]
    /\ \A p \in Procs : pc[p] \in RotationSteps =>
        lock'[handle[p]] = lock[handle[p]] /\ stamp'[p] = stamp[p]
    /\ now' \in {now, now + 1}
    /\ \A p \in Procs :
        /\ stamp'[p] \in {stamp[p], now, 0}
        /\ pc'[p] \in {"window", "rotate"} =>
            stamp'[p] = now \/ (stamp'[p] = stamp[p] /\ pc[p] \in {"window", "rotate"})

LEMMA DiskKept ==
    ASSUME DiskInv, UNCHANGED <<phase, rows, head, catalog>>
    PROVE  DiskInv'
<1>1. \A n \in Names : (FirstVersion(n) = FirstVersion(n)') /\ (Present(n) <=> Present(n)')
  BY DEF FirstVersion, Present
<1>2. FilesInv'
  BY <1>1 DEF DiskInv, FilesInv, FileHolds
<1>3. ChainInv'
  BY <1>1 DEF DiskInv, ChainInv
<1>4. RangeInv'
  BY <1>1 DEF DiskInv, RangeInv
<1>5. CatalogInv'
  BY <1>1 DEF DiskInv, CatalogInv, Newest, AllInCatalog
<1>. QED BY <1>2, <1>3, <1>4, <1>5 DEF DiskInv

LEMMA TargetKept ==
    ASSUME NEW a \in Agents, TargetHolds(a), UNCHANGED <<phase, rows, head, catalog>>,
           pc'[a] = pc[a], job'[a] = job[a]
    PROVE  TargetHolds(a)'
<1>1. \A n \in Names : (Present(n) <=> Present(n)') /\ (Newest(n) <=> Newest(n)')
  BY DEF Newest, Present
<1>. QED BY <1>1 DEF TargetHolds, Present, Newest

\* The clock and its samples are points in time that windows are known for.
LEMMA ClockTypes ==
    ASSUME TypeInv
    PROVE  /\ now \in 0..MaxClock /\ now \in Nat
           /\ \A p \in Procs : stamp[p] \in 0..MaxClock /\ stamp[p] \in Nat
           /\ MaxClock \in Nat
BY EventStreamAssumption DEF TypeInv, TypeOK

LEMMA ClockKept ==
    ASSUME TypeInv, TypeInv', ClockInv, QuietStep
    PROVE  ClockInv'
<1>1. /\ now \in 0..MaxClock /\ now' \in 0..MaxClock /\ now <= now'
      /\ \A p \in Procs : stamp[p] \in Nat /\ stamp'[p] \in Nat
  BY EventStreamAssumption DEF TypeInv, TypeOK, QuietStep
<1>2. Win(now) \in Int /\ Win(now') \in Int /\ Win(now) <= Win(now')
  BY <1>1, WindowFacts
<1>3. \A n \in Names : Present(n)' => n.label <= Win(now')
  <2>1. \A n \in Names : n.label \in Int
    BY NamesParse DEF ParsePartitionName
  <2>2. \A n \in Names : Present(n)' => n.label <= Win(now)
    BY DEF ClockInv, Present, QuietStep
  <2>. QED BY <1>2, <2>1, <2>2
<1>4. ASSUME NEW h \in Handles, IsOpen(h)'
      PROVE  active'[h].start = active'[h].name.label /\ active'[h].start <= Win(now')
  <2>1. active[h].start = active[h].name.label /\ active[h].start <= Win(now) /\ active'[h] = active[h]
    BY <1>4 DEF ClockInv, QuietStep, IsOpen
  <2>2. active[h].start \in Int
    BY <1>4 DEF QuietStep, IsOpen, TypeInv, StepFacts, ActivePartition
  <2>. QED BY <1>2, <2>1, <2>2
<1>5. ASSUME NEW a \in Agents, pc'[a] \in RotationSteps
      PROVE  job'[a].start = job'[a].name.label /\ job'[a].start <= Win(now')
  <2>1. job[a].start = job[a].name.label /\ job[a].start <= Win(now) /\ job'[a] = job[a]
    BY <1>5 DEF ClockInv, QuietStep
  <2>2. job[a].start \in Int
    BY <1>5 DEF QuietStep, TypeInv, StepFacts, Job
  <2>. QED BY <1>2, <2>1, <2>2
<1>6. ASSUME NEW p \in Procs
      PROVE  /\ stamp'[p] <= now'
             /\ pc'[p] \in RotationSteps => job'[p].start = Win(stamp'[p])
  <2>1. stamp'[p] \in {stamp[p], now, 0} /\ stamp[p] <= now
    BY DEF QuietStep, ClockInv
  <2>2. stamp'[p] <= now'
    BY <1>1, <2>1
  <2>3. pc'[p] \in RotationSteps => job'[p].start = Win(stamp'[p])
    BY DEF QuietStep, ClockInv, Agents
  <2>. QED BY <2>2, <2>3
<1>7. ASSUME NEW p \in Procs, pc'[p] \in {"window", "rotate"}
      PROVE  active'[handle'[p]].start <= Win(stamp'[p])
  <2>1. CASE stamp'[p] = stamp[p] /\ pc[p] \in {"window", "rotate"}
    BY <2>1 DEF QuietStep, ClockInv
  <2>2. CASE stamp'[p] = now
    <3>1. handle'[p] \in Handles /\ IsOpen(handle[p])'
      BY <1>7 DEF TypeInv, TypeOK, StepFacts
    <3>2. IsOpen(handle[p])
      BY <3>1 DEF QuietStep, IsOpen
    <3>. QED BY <2>2, <3>1, <3>2 DEF QuietStep, ClockInv
  <2>. QED BY <1>7, <2>1, <2>2 DEF QuietStep
<1>. QED BY <1>3, <1>4, <1>5, <1>6, <1>7 DEF ClockInv

LEMMA QuietKeeps ==
    ASSUME IInv, TypeInv', NothingOpen', QuietStep
    PROVE  IInv'
<1>1. DiskInv'
  BY DiskKept DEF IInv, QuietStep
<1>2. SettledInv'
  BY DEF IInv, AgentInv, SettledInv, AllInCatalog, Present, IsOpen, QuietStep
<1>3. OpenInv'
  <2>1. Rotating <=> Rotating'
    BY DEF Rotating, QuietStep, Agents
  <2>2. \A h \in Handles : pc'[h] \in RotationSteps => pc[h] \in RotationSteps /\ job'[h] = job[h]
    BY DEF QuietStep, Agents
  <2>. QED BY <2>1, <2>2 DEF IInv, AgentInv, OpenInv, IsOpen, Present, QuietStep
<1>4. TargetInv'
  <2>. SUFFICES ASSUME NEW a \in Agents, pc'[a] \in RotationSteps
                PROVE  TargetHolds(a)'
    BY DEF TargetInv
  <2>1. pc'[a] = pc[a] /\ job'[a] = job[a] /\ UNCHANGED <<phase, rows, head, catalog>>
    BY DEF QuietStep
  <2>2. TargetHolds(a)
    BY <2>1 DEF IInv, AgentInv, TargetInv
  <2>. QED BY <2>1, <2>2, TargetKept
<1>5. RotatesAlone'
  <2>1. \A p \in Procs : pc'[p] \in RotationSteps => pc[p] \in RotationSteps /\ job'[p] = job[p]
    BY DEF QuietStep, Agents
  <2>. QED BY <2>1 DEF IInv, AgentInv, RotatesAlone, QuietStep
<1>6. ClockInv'
  BY ClockKept DEF IInv, AgentInv
<1>. QED BY <1>1, <1>2, <1>3, <1>4, <1>5, <1>6 DEF IInv, AgentInv

(* Returning from a call, or from an attempt to open, that creates no file.  *)
LEMMA FinishIsQuiet ==
    ASSUME IInv, NEW a \in Agents, NEW result, pc[a] # "open", pc[a] \notin RotationSteps,
           Finish(a, result), UNCHANGED <<now, fileVars, catalog>>
    PROVE  QuietStep
<1>. AgentTypes
  BY TypeParts DEF IInv
<1>0. Procs \cap Handles = {} /\ Null \notin Procs
  BY EventStreamAssumption, NullIsNoRecord
<1>1. pc' = [pc EXCEPT ![a] = IF a \in Handles THEN "closed" ELSE "idle"]
  BY DEF Finish, Goto
<1>2. \A b \in Agents : b # a => pc'[b] = pc[b] /\ job'[b] = job[b]
  BY <1>1 DEF Finish, AgentTypes
<1>3. pc'[a] \notin RotationSteps /\ pc'[a] \in {"closed", "idle"}
  BY <1>1 DEF AgentTypes, RotationSteps
<1>4. \A b \in Procs : pc[b] \in RotationSteps => lock'[handle[b]] = lock[handle[b]]
  BY DEF IInv, AgentInv, RotatesAlone, Finish, DropGuards, AgentTypes
<1>5. \A p \in Procs :
        /\ stamp'[p] \in {stamp[p], 0}
        /\ p # a => stamp'[p] = stamp[p]
  BY DEF Finish, AgentTypes
<1>6. \A h \in Handles : (pc'[h] = "open" <=> pc[h] = "open") /\ (pc'[h] = "new" => pc[h] = "new")
  BY <1>2, <1>3 DEF Agents
<1>7. \A p \in Procs : pc'[p] \in {"window", "rotate"} => stamp'[p] = stamp[p] /\ pc[p] \in {"window", "rotate"}
  BY <1>2, <1>3, <1>5 DEF Agents
<1>8. UNCHANGED <<phase, rows, head, catalog, active, handle, now>>
  BY DEF Finish, fileVars
<1>9. \A p \in Procs : pc[p] \in RotationSteps => stamp'[p] = stamp[p]
  BY <1>5
<1>. QED BY <1>2, <1>3, <1>4, <1>5, <1>6, <1>7, <1>8, <1>9 DEF QuietStep, Agents

(* A step to somewhere else than a rotation or an open handle.               *)
LEMMA GotoIsQuiet ==
    ASSUME TypeInv, NEW a \in Agents, NEW step, Goto(a, step),
           pc[a] # "open", pc[a] \notin RotationSteps,
           step \notin RotationSteps \cup {"open", "new"},
           UNCHANGED <<now, fileVars, catalog, handleVars, job, handle>>,
           \A p \in Procs : stamp'[p] = stamp[p] \/ (p = a /\ stamp'[p] = now),
           step \in {"window", "rotate"} =>
                stamp'[a] = now \/ (stamp'[a] = stamp[a] /\ pc[a] \in {"window", "rotate"})
    PROVE  QuietStep
<1>. AgentTypes
  BY TypeParts
<1>1. pc' = [pc EXCEPT ![a] = step]
  BY DEF Goto
<1>2. \A b \in Agents : b # a => pc'[b] = pc[b]
  BY <1>1 DEF AgentTypes
<1>3. pc'[a] = step
  BY <1>1 DEF AgentTypes
<1>4. \A h \in Handles : (pc'[h] = "open" <=> pc[h] = "open") /\ (pc'[h] = "new" => pc[h] = "new")
  BY <1>2, <1>3 DEF Agents
<1>5. \A b \in Agents : pc[b] \in RotationSteps \/ pc'[b] \in RotationSteps => pc'[b] = pc[b]
  BY <1>2, <1>3
<1>6. \A p \in Procs : pc[p] \in RotationSteps => stamp'[p] = stamp[p]
  OBVIOUS
<1>7. \A p \in Procs : pc'[p] \in {"window", "rotate"} =>
            stamp'[p] = now \/ (stamp'[p] = stamp[p] /\ pc[p] \in {"window", "rotate"})
  BY <1>2, <1>3 DEF Agents
<1>. QED BY <1>4, <1>5, <1>6, <1>7 DEF QuietStep, fileVars, handleVars

QuietActions(a) ==
    \/ a \in Handles /\ \/ OpenPartitioned(a) \/ ApplyCatalogSchema(a)
                        \/ RecordCatalogMigration(a) \/ SurveyFails(a)
    \/ a \in Procs /\ \/ Invoke(a) \/ MaybeRotate(a) \/ SampleRotationClock(a)
                      \/ ReturnEmptyBatch(a) \/ RejectEvents(a) \/ SampleClock(a)
                      \/ RotateUntilCurrentWindow(a) \/ AppendFails(a) \/ AppendConflicts(a)

LEMMA QuietActionsAreQuiet ==
    ASSUME IInv, NEW a \in Agents, QuietActions(a)
    PROVE  QuietStep
<1>. TypeInv /\ AgentTypes
  BY TypeParts DEF IInv
<1>. USE DEF callVars, catalogVars, handleVars
<1>0. Procs \cap Handles = {}
  BY EventStreamAssumption
<1>1. ASSUME a \in Handles, OpenPartitioned(a)
      PROVE  QuietStep
  <2>. DEFINE step == IF catalogPhase = "migrated" THEN "ranges" ELSE "catalog_schema"
  <2>1. /\ Goto(a, step) /\ pc[a] = "closed"
        /\ UNCHANGED <<now, fileVars, catalog, handleVars, job, handle, stamp>>
    BY <1>1 DEF OpenPartitioned
  <2>2. step \notin RotationSteps \cup {"open", "new", "window", "rotate"} /\ "closed" \notin RotationSteps
    BY DEF RotationSteps
  <2>. HIDE DEF step
  <2>. QED BY <2>1, <2>2, GotoIsQuiet
<1>2. ASSUME a \in Handles, ApplyCatalogSchema(a) \/ RecordCatalogMigration(a)
      PROVE  QuietStep
  <2>1. pc[a] \in {"catalog_schema", "catalog_record"} /\ UNCHANGED <<now, fileVars, catalog>>
    BY <1>2 DEF ApplyCatalogSchema, RecordCatalogMigration
  <2>2. CASE Finish(a, "error")
    BY <2>1, <2>2, FinishIsQuiet DEF RotationSteps
  <2>3. ASSUME NEW step \in {"catalog_record", "ranges"}, Goto(a, step),
               UNCHANGED <<handleVars, job, callVars>>
        PROVE  QuietStep
    BY <2>1, <2>3, GotoIsQuiet DEF RotationSteps
  <2>. QED BY <1>2, <2>2, <2>3 DEF ApplyCatalogSchema, RecordCatalogMigration
<1>3. ASSUME a \in Handles, SurveyFails(a)
      PROVE  QuietStep
  BY <1>3, FinishIsQuiet DEF SurveyFails, RotationSteps
<1>4. ASSUME a \in Procs, Invoke(a)
      PROVE  QuietStep
  BY <1>4, GotoIsQuiet DEF Invoke, RotationSteps
<1>5. ASSUME a \in Procs, MaybeRotate(a)
      PROVE  QuietStep
  <2>1. PICK step \in {"clock", "begin"} : Goto(a, step)
    BY <1>5 DEF MaybeRotate
  <2>. QED BY <1>5, <2>1, GotoIsQuiet DEF MaybeRotate, RotationSteps
<1>6. ASSUME a \in Procs, SampleRotationClock(a) \/ SampleClock(a)
      PROVE  QuietStep
  <2>1. PICK step \in {"rotate", "window"} : Goto(a, step)
    BY <1>6 DEF SampleRotationClock, SampleClock
  <2>2. /\ pc[a] \in {"clock", "begin"} /\ stamp' = [stamp EXCEPT ![a] = now]
        /\ UNCHANGED <<now, fileVars, catalog, handleVars, job, handle>>
    BY <1>6 DEF SampleRotationClock, SampleClock
  <2>3. stamp'[a] = now /\ \A p \in Procs : stamp'[p] = stamp[p] \/ (p = a /\ stamp'[p] = now)
    BY <1>6, <2>2 DEF AgentTypes
  <2>. QED BY <2>1, <2>2, <2>3, GotoIsQuiet DEF RotationSteps
<1>7. ASSUME a \in Procs, RotateUntilCurrentWindow(a)
      PROVE  QuietStep
  <2>1. PICK step \in {"commit", "rotate"} : Goto(a, step)
    BY <1>7 DEF RotateUntilCurrentWindow
  <2>. QED BY <1>7, <2>1, GotoIsQuiet DEF RotateUntilCurrentWindow, RotationSteps
<1>8. ASSUME a \in Procs, ReturnEmptyBatch(a) \/ RejectEvents(a) \/ AppendFails(a) \/ AppendConflicts(a)
      PROVE  QuietStep
  <2>1. /\ pc[a] \in {"begin", "commit"} /\ UNCHANGED <<now, fileVars, catalog>>
        /\ \E result : Finish(a, result)
    BY <1>8 DEF ReturnEmptyBatch, RejectEvents, AppendFails, AppendConflicts, AtTransaction
  <2>. QED BY <2>1, FinishIsQuiet DEF RotationSteps
<1>. QED BY <1>1, <1>2, <1>3, <1>4, <1>5, <1>6, <1>7, <1>8 DEF QuietActions

LEMMA TickIsQuiet ==
    ASSUME IInv, Tick \/ UNCHANGED vars
    PROVE  QuietStep
BY DEF Tick, vars, fileVars, catalogVars, handleVars, callVars, QuietStep

-----------------------------------------------------------------------------
(* Creating a file                                                           *)

LEMMA CreatesAlone ==
    ASSUME OneHandle, IInv, NEW a \in Agents, pc[a] \in RotationSteps
    PROVE  /\ TargetHolds(a) /\ job[a] \in Job /\ job[a].name \in Names /\ job[a].head \in Nat
           /\ \A b \in Agents \ {a} : pc[b] \notin RotationSteps
           /\ a \in Handles => \A h \in Handles : h = a /\ ~IsOpen(h)
           /\ a \in Procs => \A h \in Handles : h = handle[a] /\ IsOpen(h)
<1>1. TargetHolds(a) /\ job[a] \in Job
  BY DEF IInv, AgentInv, TargetInv, TypeInv, StepFacts
<1>2. a \in Handles => \A h \in Handles : h = a /\ ~IsOpen(h)
  BY OneHandleOnly DEF IsOpen, RotationSteps
<1>3. a \in Procs => \A h \in Handles : h = handle[a] /\ IsOpen(h)
  <2>1. a \in Procs => pc[a] # "idle" /\ handle[a] \in Handles
    BY DEF RotationSteps, IInv, TypeInv, TypeOK
  <2>2. a \in Procs => IsOpen(handle[a])
    BY <2>1 DEF IInv, TypeInv, StepFacts
  <2>. QED BY <2>1, <2>2, OneHandleOnly
<1>. QED BY <1>1, <1>2, <1>3, OneRotation DEF Job

(* While the first file of a partition is created the catalog is empty.      *)
LEMMA NothingElseOpening ==
    ASSUME OneHandle, IInv, NEW a \in Handles, pc[a] \in RotationSteps
    PROVE  catalog = EmptyCatalog(Names)
<1>1. TargetHolds(a)
  BY CreatesAlone DEF Agents
<1>2. ASSUME NEW n \in Names PROVE catalog[n] = Null
  <2>1. CASE n = job[a].name
    BY <1>1, <2>1 DEF TargetHolds
  <2>2. CASE n # job[a].name
    <3>1. ~Present(n)
      BY <2>2 DEF IInv, AgentInv, OpenInv
    <3>. QED BY <3>1 DEF IInv, DiskInv, FilesInv, FileHolds
  <2>. QED BY <2>1, <2>2
<1>. QED BY <1>2 DEF EmptyCatalog, IInv, TypeInv, TypeOK

LEMMA CreationFrame ==
    ASSUME OneHandle, IInv, NEW a \in Agents,
           pc[a] \in {"create", "schema", "record", "init_head"},
           NEW step \in {"schema", "record", "init_head", "add_range"}, Goto(a, step),
           UNCHANGED <<now, catalog, handleVars, job, callVars>>,
           phase'[job[a].name] # "absent",
           \A n \in Names \ {job[a].name} : phase'[n] = phase[n] /\ head'[n] = head[n]
    PROVE  /\ SettledInv' /\ OpenInv' /\ RotatesAlone' /\ ClockInv'
           /\ TargetHolds(a)' => TargetInv'
<1>. TypeInv /\ AgentTypes
  BY TypeParts DEF IInv
<1>. DEFINE k == job[a].name
<1>0. /\ pc[a] \in RotationSteps /\ step \in RotationSteps
      /\ pc[a] \in RotationSteps \ {"seal"} /\ step \in RotationSteps \ {"seal"}
  BY DEF RotationSteps
<1>1. /\ TargetHolds(a) /\ job[a] \in Job /\ k \in Names
      /\ \A b \in Agents \ {a} : pc[b] \notin RotationSteps
      /\ a \in Handles => \A h \in Handles : h = a /\ ~IsOpen(h)
      /\ a \in Procs => \A h \in Handles : h = handle[a] /\ IsOpen(h)
  BY <1>0, CreatesAlone
<1>2. /\ pc'[a] = step
      /\ \A b \in Agents \ {a} : pc'[b] = pc[b]
  BY DEF Goto, AgentTypes
<1>3. head[k] = Null
  BY <1>1 DEF TargetHolds
<1>4. \A h \in Handles : IsOpen(h) => active[h].name # k /\ active[h].name \in Names
  BY <1>3 DEF IInv, AgentInv, OpenInv, TypeInv, StepFacts, ActivePartition
<1>5. \A h \in Handles : IsOpen(h)' <=> IsOpen(h)
  <2>1. Procs \cap Handles = {} /\ step # "open"
    BY EventStreamAssumption
  <2>. QED BY <1>1, <1>2, <2>1 DEF IsOpen, Agents
<1>6. SettledInv'
  <2>1. CASE a \in Procs
    BY <1>1, <1>5, <2>1 DEF SettledInv
  <2>2. CASE a \in Handles
    <3>1. catalog' = EmptyCatalog(Names)
      BY <1>0, <2>2, NothingElseOpening
    <3>. QED BY <3>1 DEF SettledInv
  <2>. QED BY <2>1, <2>2 DEF Agents
<1>7. OpenInv'
  <2>. SUFFICES ASSUME NEW h \in Handles
                PROVE  /\ IsOpen(h)' => head'[active'[h].name] # Null
                       /\ IsOpen(h)' /\ ~Rotating' => UnsealedRanges(catalog') = {active'[h].name}
                       /\ pc'[h] = "new" => \A m \in Names : ~Present(m)'
                       /\ pc'[h] \in RotationSteps => \A m \in Names \ {job'[h].name} : ~Present(m)'
    BY DEF OpenInv
  <2>1. IsOpen(h)' => head'[active'[h].name] # Null
    BY <1>4, <1>5 DEF IInv, AgentInv, OpenInv, handleVars
  <2>2. IsOpen(h)' => Rotating'
    BY <1>0, <1>1, <1>2, <1>5 DEF Rotating, Agents
  <2>3. pc'[h] # "new"
    BY <1>1, <1>2 DEF Agents, IsOpen
  <2>4. pc'[h] \in RotationSteps => \A m \in Names \ {job'[h].name} : ~Present(m)'
    <3>1. CASE a \in Handles
      BY <1>0, <1>1, <3>1 DEF IInv, AgentInv, OpenInv, Present
    <3>2. CASE a \in Procs
      BY <1>1, <1>5, <3>2 DEF IsOpen, RotationSteps
    <3>. QED BY <3>1, <3>2 DEF Agents
  <2>. QED BY <2>1, <2>2, <2>3, <2>4
<1>8. RotatesAlone'
  <2>. SUFFICES ASSUME NEW p \in Procs, pc'[p] \in RotationSteps
                PROVE  lock'[handle'[p]] = p /\ head'[active'[handle'[p]].name] = job'[p].head
    BY DEF RotatesAlone
  <2>1. p = a
    BY <1>1, <1>2 DEF Agents
  <2>2. lock[handle[p]] = p /\ head[active[handle[p]].name] = job[p].head
    BY <1>0, <2>1 DEF IInv, AgentInv, RotatesAlone
  <2>3. handle[p] \in Handles /\ IsOpen(handle[p])
    BY <1>1, <2>1 DEF AgentTypes
  <2>. QED BY <1>4, <2>2, <2>3 DEF handleVars, callVars
<1>9. ClockInv'
  <2>1. job[a].start = k.label /\ k.label <= Win(now)
    BY <1>0 DEF IInv, AgentInv, ClockInv
  <2>2. \A n \in Names : Present(n)' => n.label <= Win(now)
    BY <2>1 DEF IInv, AgentInv, ClockInv, Present
  <2>3. \A b \in Agents : pc'[b] \in RotationSteps => pc[b] \in RotationSteps
    BY <1>0, <1>2
  <2>4. \A p \in Procs : pc'[p] \in {"window", "rotate"} => pc[p] = pc'[p]
    BY <1>2 DEF Agents
  <2>. QED BY <1>5, <2>2, <2>3, <2>4 DEF IInv, AgentInv, ClockInv, handleVars, callVars, Agents
<1>10. TargetHolds(a)' => TargetInv'
  BY <1>1, <1>2 DEF TargetInv
<1>. QED BY <1>6, <1>7, <1>8, <1>9, <1>10

(* The file and its schema: nothing is stored in it yet.                     *)
LEMMA SchemaKeeps ==
    ASSUME OneHandle, IInv, NEW a \in Agents,
           CreateFile(a) \/ ApplySchema(a) \/ RecordMigration(a)
    PROVE  DiskInv' /\ AgentInv'
<1>. TypeInv /\ StoreTypes /\ AgentTypes
  BY TypeParts DEF IInv
<1>. DEFINE k == job[a].name
<1>0. pc[a] \in {"create", "schema", "record"} /\ pc[a] \in RotationSteps
  BY DEF CreateFile, ApplySchema, RecordMigration, RotationSteps
<1>1. /\ TargetHolds(a) /\ job[a] \in Job /\ k \in Names /\ job[a].head \in Nat
  BY <1>0, CreatesAlone
<1>2. PICK step \in {"schema", "record", "init_head"} :
        /\ Goto(a, step) /\ UNCHANGED <<now, rows, head, catalog, handleVars, job, callVars>>
        /\ phase'[k] = (IF step = "schema" THEN "created"
                        ELSE IF step = "record" THEN "tables" ELSE "migrated")
        /\ \A n \in Names \ {k} : phase'[n] = phase[n]
  <2>1. CASE CreateFile(a)
    <3>1. phase[k] = "absent"
      BY <1>1, <2>1 DEF CreateFile, TargetHolds, Present
    <3>. QED BY <1>1, <2>1, <3>1 DEF CreateFile, StoreTypes, catalogVars
  <2>2. CASE ApplySchema(a)
    <3>1. phase[k] = "created"
      BY <1>1, <2>2 DEF ApplySchema, TargetHolds
    <3>. QED BY <1>1, <2>2, <3>1 DEF ApplySchema, StoreTypes, catalogVars
  <2>3. CASE RecordMigration(a)
    <3>1. phase[k] = "tables"
      BY <1>1, <2>3 DEF RecordMigration, TargetHolds
    <3>. QED BY <1>1, <2>3, <3>1 DEF RecordMigration, StoreTypes, catalogVars
  <2>. QED BY <2>1, <2>2, <2>3
<1>3. phase'[k] # "absent"
  BY <1>2
<1>4. /\ SettledInv' /\ OpenInv' /\ RotatesAlone' /\ ClockInv'
      /\ TargetHolds(a)' => TargetInv'
  BY <1>0, <1>2, <1>3, CreationFrame
<1>5. /\ \A m \in Names : Present(m)' <=> (m = k \/ Present(m))
      /\ \A n \in Names : FirstVersion(n)' = FirstVersion(n)
  BY <1>2, <1>3 DEF Present, FirstVersion
<1>6. \A m \in Names : Present(m) => m = k \/ NameBefore(m, k)
  BY <1>1 DEF TargetHolds, Newest
<1>7. /\ job' = job /\ UNCHANGED <<head, rows, catalog>>
      /\ phase'[k] # "absent"
      /\ \A m \in Names : phase'[m] # "absent" => m = k \/ NameBefore(m, k)
  BY <1>2, <1>3, <1>5, <1>6 DEF Present
<1>8. TargetHolds(a)'
  <2>1. pc'[a] = step
    BY <1>2 DEF Goto, AgentTypes
  <2>2. /\ head[k] = Null /\ rows[k] = {} /\ catalog[k] = Null
        /\ UnsealedRanges(catalog) = {}
        /\ \A m \in Names \ {k} : Present(m) => head[m] \in 0 .. job[a].head /\ catalog[m] # Null
        /\ \A v \in 1 .. job[a].head : \E m \in Names : v \in rows[m]
    BY <1>0, <1>1 DEF TargetHolds
  <2>3. step \notin {"seal", "create", "add_range"}
        /\ (step = "schema" => phase'[k] = "created") /\ (step = "record" => phase'[k] = "tables")
    BY <1>2
  <2>4. \A m \in Names : m # k /\ phase'[m] # "absent" => head[m] \in 0 .. job[a].head /\ catalog[m] # Null
    BY <1>5, <2>2 DEF Present
  <2>5. /\ job'[a] = job[a] /\ pc'[a] \notin {"seal", "create", "add_range"}
        /\ rows'[k] = {} /\ catalog'[k] = Null /\ head'[k] = Null /\ UnsealedRanges(catalog') = {}
    BY <1>7, <2>1, <2>2, <2>3
  <2>6. /\ pc'[a] = "schema" => phase'[k] = "created"
        /\ pc'[a] = "record" => phase'[k] = "tables"
    BY <2>1, <2>3
  <2>7. \A m \in Names \ {k} : phase'[m] # "absent" => head'[m] \in 0 .. job[a].head /\ catalog'[m] # Null
    BY <1>7, <2>4
  <2>8. \A v \in 1 .. job[a].head : \E m \in Names : v \in rows'[m]
    BY <1>7, <2>2
  <2>. HIDE DEF k
  <2>9. job'[a].name = k /\ job'[a].head = job[a].head
    BY <2>5 DEF k
  <2>. QED BY <1>7, <2>5, <2>6, <2>7, <2>8, <2>9 DEF TargetHolds, Newest, Present
<1>9. FilesInv'
  BY <1>2, <1>5 DEF IInv, DiskInv, FilesInv, FileHolds
<1>10. ChainInv'
  <2>. SUFFICES ASSUME NEW m \in Names, NEW n \in Names, Present(m)', Present(n)', NameBefore(m, n)
                PROVE  head[m] # Null /\ (head[n] # Null => head[m] < FirstVersion(n))
    BY <1>2, <1>5 DEF ChainInv
  <2>1. m # k
    BY <1>5, <1>6, NamesOrdered
  <2>2. Present(m)
    BY <1>5, <2>1
  <2>3. CASE n = k
    <3>1. head[k] = Null /\ head[m] \in 0 .. job[a].head
      BY <1>0, <1>1, <2>1, <2>2 DEF TargetHolds
    <3>. QED BY <1>1, <2>3, <3>1, NullIsNoRecord
  <2>4. CASE n # k
    BY <1>5, <2>2, <2>4 DEF IInv, DiskInv, ChainInv
  <2>. QED BY <2>3, <2>4
<1>11. RangeInv'
  BY <1>2, <1>5 DEF IInv, DiskInv, RangeInv
<1>12. CatalogInv'
  <2>1. UnsealedRanges(catalog') = {}
    BY <1>0, <1>1, <1>2 DEF TargetHolds
  <2>. QED BY <2>1 DEF CatalogInv
<1>. QED BY <1>4, <1>8, <1>9, <1>10, <1>11, <1>12 DEF DiskInv, AgentInv

(* The new file goes on where the old one ends.                              *)
LEMMA InitHeadKeeps ==
    ASSUME OneHandle, IInv, NEW a \in Agents, InitializeEventFileAppendHead(a)
    PROVE  DiskInv' /\ AgentInv'
<1>. TypeInv /\ StoreTypes /\ AgentTypes
  BY TypeParts DEF IInv
<1>. DEFINE k == job[a].name
            end == job[a].head
<1>0. pc[a] = "init_head" /\ pc[a] \in RotationSteps
  BY DEF InitializeEventFileAppendHead, RotationSteps
<1>1. TargetHolds(a) /\ job[a] \in Job /\ k \in Names /\ end \in Nat
  BY <1>0, CreatesAlone
<1>2. /\ Goto(a, "add_range") /\ head' = [head EXCEPT ![k] = end]
      /\ UNCHANGED <<now, phase, rows, catalog, handleVars, job, callVars>>
  BY DEF InitializeEventFileAppendHead, catalogVars
<1>3. /\ Newest(k) /\ head[k] = Null /\ rows[k] = {} /\ catalog[k] = Null
      /\ UnsealedRanges(catalog) = {}
      /\ \A m \in Names \ {k} : Present(m) => head[m] \in 0 .. end /\ catalog[m] # Null
      /\ \A v \in 1 .. end : \E m \in Names : v \in rows[m]
  BY <1>0, <1>1 DEF TargetHolds
<1>. HIDE DEF k, end
<1>4. /\ head'[k] = end
      /\ \A n \in Names \ {k} : head'[n] = head[n]
      /\ UNCHANGED <<phase, rows, catalog, job>>
      /\ end # Null
  BY <1>1, <1>2, NullIsNoRecord DEF StoreTypes
<1>5. /\ \A n \in Names : phase[n] # "absent" <=> Present(n)
      /\ phase'[k] # "absent"
  BY <1>3, <1>4 DEF Newest, Present
<1>6. /\ SettledInv' /\ OpenInv' /\ RotatesAlone' /\ ClockInv'
      /\ TargetHolds(a)' => TargetInv'
  BY <1>0, <1>2, <1>4, <1>5, CreationFrame DEF k
<1>7. TargetHolds(a)'
  <2>1. pc'[a] = "add_range"
    BY <1>2 DEF Goto, AgentTypes
  <2>2. job'[a].name = k /\ job'[a].head = end
    BY <1>4 DEF k, end
  <2>3. \A m \in Names \ {k} : phase'[m] # "absent" => head'[m] \in 0 .. end /\ catalog'[m] # Null
    BY <1>3, <1>4, <1>5
  <2>4. phase'[k] # "absent" /\ \A m \in Names : phase'[m] # "absent" => m = k \/ NameBefore(m, k)
    BY <1>3, <1>4, <1>5 DEF Newest
  <2>5. /\ rows'[k] = {} /\ catalog'[k] = Null /\ head'[k] = end /\ UnsealedRanges(catalog') = {}
        /\ \A v \in 1 .. end : \E m \in Names : v \in rows'[m]
    BY <1>3, <1>4
  <2>. QED BY <2>1, <2>2, <2>3, <2>4, <2>5 DEF TargetHolds, Newest, Present
<1>8. /\ \A n \in Names \ {k} : FirstVersion(n)' = FirstVersion(n)
      /\ \A n \in Names : n = k => FirstVersion(n)' = end + 1
      /\ \A n \in Names : Present(n)' <=> Present(n)
  BY <1>1, <1>3, <1>4 DEF FirstVersion, Present
<1>9. FilesInv'
  <2>. SUFFICES ASSUME NEW n \in Names PROVE FileHolds(n)'
    BY DEF FilesInv
  <2>1. CASE n = k
    <3>1. /\ rows'[n] = {} /\ head'[n] = end /\ FirstVersion(n)' = end + 1 /\ Present(n)'
      BY <1>3, <1>4, <1>8, <2>1 DEF Newest
    <3>2. (end + 1) .. end = {} /\ end + 1 \in 1 .. end + 1
      BY <1>1
    <3>3. \A v \in 1 .. end : \E m \in Names : v \in rows'[m]
      BY <1>3, <1>4
    <3>. QED BY <1>4, <3>1, <3>2, <3>3 DEF FileHolds
  <2>2. CASE n # k
    BY <1>4, <1>8, <2>2 DEF IInv, DiskInv, FilesInv, FileHolds
  <2>. QED BY <2>1, <2>2
<1>10. ChainInv'
  <2>. SUFFICES ASSUME NEW m \in Names, NEW n \in Names, Present(m), Present(n), NameBefore(m, n)
                PROVE  head'[m] # Null /\ (head'[n] # Null => head'[m] < FirstVersion(n)')
    BY <1>8 DEF ChainInv
  <2>1. m # k
    BY <1>3, NamesOrdered DEF Newest
  <2>2. CASE n = k
    <3>1. head'[m] \in 0 .. end /\ FirstVersion(n)' = end + 1
      BY <1>3, <1>4, <1>8, <2>1, <2>2
    <3>. QED BY <1>1, <3>1, NullIsNoRecord
  <2>3. CASE n # k
    BY <1>4, <1>8, <2>1, <2>3 DEF IInv, DiskInv, ChainInv
  <2>. QED BY <2>2, <2>3
<1>11. RangeInv'
  BY <1>3, <1>4, <1>8 DEF IInv, DiskInv, RangeInv
<1>12. CatalogInv'
  BY <1>3, <1>4 DEF CatalogInv
<1>. QED BY <1>6, <1>7, <1>9, <1>10, <1>11, <1>12 DEF DiskInv, AgentInv

(* The new file becomes the active one.                                      *)
LEMMA AddRangeKeeps ==
    ASSUME OneHandle, RotationsGoOnward, IInv, NEW a \in Agents, AddRange(a)
    PROVE  DiskInv' /\ AgentInv'
<1>. TypeInv /\ StoreTypes /\ AgentTypes
  BY TypeParts DEF IInv
<1>. DEFINE k == job[a].name
            end == job[a].head
            h == HandleOf(a)
<1>0. pc[a] = "add_range" /\ pc[a] \in RotationSteps
  BY DEF AddRange, RotationSteps
<1>1. /\ TargetHolds(a) /\ job[a] \in Job /\ k \in Names /\ end \in Nat /\ job[a].start \in Int
      /\ \A b \in Agents \ {a} : pc[b] \notin RotationSteps
      /\ a \in Handles => \A g \in Handles : g = a /\ ~IsOpen(g)
      /\ a \in Procs => \A g \in Handles : g = handle[a] /\ IsOpen(g)
  BY <1>0, CreatesAlone DEF Job
<1>2. /\ catalog' = CreateEventFileRange(catalog, k, end + 1)
      /\ active' = [active EXCEPT ![h] = [name |-> k, start |-> job[a].start]]
      /\ Goto(a, IF a \in Handles THEN "open" ELSE resume[a])
      /\ job' = [job EXCEPT ![a] = Null]
      /\ UNCHANGED <<now, phase, rows, head, callVars>>
  BY DEF AddRange, fileVars
<1>3. /\ Newest(k) /\ head[k] = end /\ rows[k] = {} /\ catalog[k] = Null
      /\ UnsealedRanges(catalog) = {}
      /\ \A m \in Names \ {k} : Present(m) => head[m] \in 0 .. end /\ catalog[m] # Null
  BY <1>0, <1>1 DEF TargetHolds
<1>4. /\ h \in Handles /\ \A g \in Handles : g = h
      /\ active'[h].name = k /\ active'[h].start = job[a].start
  <2>1. h \in Handles
    BY DEF HandleOf, AgentTypes, Agents
  <2>. QED BY <1>2, <2>1, OneHandleOnly DEF AgentTypes
<1>5. job[a].start = k.label /\ job[a].start <= Win(now)
  BY <1>0 DEF IInv, AgentInv, ClockInv
<1>6. /\ a \in Procs => job[a].start = Win(stamp[a])
      /\ a \in Procs => handle[a] \in Handles
  BY <1>0 DEF IInv, AgentInv, ClockInv, AgentTypes
<1>7. /\ \A b \in Agents \ {a} : pc'[b] = pc[b]
      /\ a \in Handles => pc'[a] = "open"
      /\ a \in Procs => pc'[a] \in {"begin", "window"}
  <2>1. a \in Procs => a \notin Handles
    BY EventStreamAssumption
  <2>. QED BY <1>2, <2>1 DEF Goto, AgentTypes
<1>8. \A b \in Agents : pc'[b] \notin RotationSteps
  BY <1>1, <1>7 DEF RotationSteps, Agents
<1>9. pc'[h] = "open"
  <2>1. CASE a \in Handles
    BY <1>7, <2>1 DEF IsOpen, HandleOf
  <2>2. CASE a \in Procs
    <3>1. h = handle[a] /\ IsOpen(h) /\ h # a
      BY <1>1, <1>4, <2>2, EventStreamAssumption
    <3>. QED BY <1>4, <1>7, <3>1 DEF IsOpen, Agents
  <2>. QED BY <2>1, <2>2 DEF Agents
<1>. HIDE DEF k, end, h
<1>10. /\ catalog' = [catalog EXCEPT ![k] = ActiveRange(end + 1)]
       /\ catalog'[k] = ActiveRange(end + 1)
       /\ \A n \in Names \ {k} : catalog'[n] = catalog[n]
       /\ catalog'[k] # Null
       /\ ActiveRange(end + 1).first_version = end + 1
       /\ ActiveRange(end + 1).last_version = Null
       /\ ActiveRange(end + 1).sealed = FALSE
  <2>1. catalog' = [catalog EXCEPT ![k] = ActiveRange(end + 1)]
    BY <1>2 DEF CreateEventFileRange
  <2>2. ActiveRange(end + 1) \in EventFileRange
    BY <1>1 DEF ActiveRange, EventFileRange
  <2>. QED BY <1>1, <2>1, <2>2, NullIsNoRecord DEF StoreTypes, ActiveRange
<1>11. UnsealedRanges(catalog') = {k}
  <2>1. DOMAIN catalog' = Names /\ DOMAIN catalog = Names
    BY <1>10 DEF StoreTypes
  <2>2. \A n \in Names : catalog[n] = Null \/ catalog[n].sealed
    BY <1>3, <2>1 DEF UnsealedRanges
  <2>. QED BY <1>1, <1>10, <2>1, <2>2 DEF UnsealedRanges
<1>12. /\ \A n \in Names : FirstVersion(n)' = FirstVersion(n)
       /\ \A n \in Names : Present(n)' <=> Present(n)
       /\ FirstVersion(k) = end + 1
  BY <1>2, <1>3 DEF FirstVersion, Present
<1>13. end # Null
  BY <1>1, NullIsNoRecord
<1>14. DiskInv'
  <2>1. FilesInv'
    <3>1. \A n \in Names : head[n] = Null => catalog'[n] = Null
      BY <1>3, <1>10, <1>13 DEF IInv, DiskInv, FilesInv, FileHolds
    <3>. QED BY <1>2, <1>12, <3>1 DEF IInv, DiskInv, FilesInv, FileHolds
  <2>2. ChainInv'
    BY <1>2, <1>12 DEF IInv, DiskInv, ChainInv
  <2>3. RangeInv'
    <3>. SUFFICES ASSUME NEW n \in Names, catalog'[n] # Null
                  PROVE  /\ head'[n] # Null
                         /\ catalog'[n].first_version = FirstVersion(n)'
                         /\ catalog'[n].last_version = IF catalog'[n].sealed THEN head'[n] ELSE Null
      BY DEF RangeInv
    <3>1. CASE n = k
      BY <1>2, <1>3, <1>10, <1>12, <1>13, <3>1
    <3>2. CASE n # k
      BY <1>2, <1>10, <1>12, <3>2 DEF IInv, DiskInv, RangeInv
    <3>. QED BY <3>1, <3>2
  <2>4. CatalogInv'
    <3>1. AllInCatalog'
      BY <1>3, <1>10, <1>12 DEF AllInCatalog
    <3>2. ASSUME NEW n \in Names, UnsealedRanges(catalog') = {n} PROVE Newest(n)'
      <4>1. n = k
        BY <1>11, <3>2
      <4>2. phase'[k] # "absent" /\ \A m \in Names : phase'[m] # "absent" => m = k \/ NameBefore(m, k)
        BY <1>2, <1>3 DEF Newest, Present
      <4>. QED BY <4>1, <4>2 DEF Newest, Present
    <3>. QED BY <3>1, <3>2 DEF CatalogInv
  <2>. QED BY <2>1, <2>2, <2>3, <2>4 DEF DiskInv
<1>15. SettledInv'
  BY <1>4, <1>9 DEF SettledInv, IsOpen
<1>16. OpenInv'
  <2>1. head'[active'[h].name] # Null /\ UnsealedRanges(catalog') = {active'[h].name}
    BY <1>2, <1>3, <1>4, <1>11, <1>13
  <2>2. pc'[h] = "open" /\ "open" \notin RotationSteps
    BY <1>9 DEF RotationSteps
  <2>. QED BY <1>4, <2>1, <2>2 DEF OpenInv
<1>17. TargetInv' /\ RotatesAlone'
  BY <1>8 DEF TargetInv, RotatesAlone, Agents
<1>18. ClockInv'
  <2>1. ASSUME NEW p \in Procs, pc'[p] \in {"window", "rotate"}
        PROVE  active'[handle'[p]].start <= Win(stamp'[p])
    <3>1. handle'[p] = h /\ stamp'[p] = stamp[p]
      BY <1>2, <1>4 DEF callVars, AgentTypes
    <3>2. stamp[p] \in 0..MaxClock /\ Win(stamp[p]) \in Nat
      BY ClockTypes, WindowFacts
    <3>3. CASE a \in Procs
      <4>1. stamp[a] \in 0..MaxClock /\ job[a].start = Win(stamp[a])
        BY <1>6, <3>3, ClockTypes
      <4>2. Win(stamp[p]) = Win(stamp[a])
        BY <3>2, <3>3, <4>1 DEF RotationsGoOnward
      <4>. QED BY <1>4, <3>1, <3>2, <4>1, <4>2
    <3>4. CASE a \in Handles
      <4>1. pc[p] = "idle"
        BY <1>1, <3>4 DEF StepFacts, AgentTypes
      <4>2. p # a
        BY <3>4, EventStreamAssumption
      <4>. QED BY <1>7, <2>1, <4>1, <4>2 DEF Agents
    <3>. QED BY <3>3, <3>4 DEF Agents
  <2>2. \A n \in Names : Present(n)' => n.label <= Win(now')
    BY <1>2, <1>12 DEF IInv, AgentInv, ClockInv
  <2>3. \A g \in Handles : active'[g].start = active'[g].name.label /\ active'[g].start <= Win(now')
    BY <1>2, <1>4, <1>5
  <2>4. \A p \in Procs : stamp'[p] <= now'
    BY <1>2 DEF IInv, AgentInv, ClockInv, callVars
  <2>. QED BY <1>8, <2>1, <2>2, <2>3, <2>4 DEF ClockInv, Agents
<1>. QED BY <1>14, <1>15, <1>16, <1>17, <1>18 DEF AgentInv

-----------------------------------------------------------------------------
(* Appending and rotating                                                    *)

(* Whoever may write finds the active file the newest, and no rotation.      *)
LEMMA WriterFindsNewest ==
    ASSUME OneHandle, IInv, NEW p \in Procs, pc[p] # "idle",
           (\A q \in Procs : pc[q] \notin RotationSteps \ {"seal"})
    PROVE  LET n == active[handle[p]].name
           IN  /\ handle[p] \in Handles /\ IsOpen(handle[p]) /\ \A h \in Handles : h = handle[p]
               /\ n \in Names /\ Newest(n) /\ AllInCatalog
               /\ UnsealedRanges(catalog) = {n} /\ catalog[n] # Null /\ ~catalog[n].sealed
               /\ head[n] \in Nat
<1>. TypeInv /\ StoreTypes /\ AgentTypes
  BY TypeParts DEF IInv
<1>1. handle[p] \in Handles /\ IsOpen(handle[p]) /\ \A h \in Handles : h = handle[p]
  BY OneHandleOnly DEF AgentTypes, StepFacts
<1>. DEFINE n == active[handle[p]].name
<1>2. n \in Names /\ head[n] # Null /\ UnsealedRanges(catalog) = {n}
  BY <1>1 DEF StepFacts, AgentTypes, ActivePartition, IInv, AgentInv, OpenInv, Rotating
<1>3. Newest(n) /\ AllInCatalog
  BY <1>2 DEF IInv, DiskInv, CatalogInv
<1>4. catalog[n] # Null /\ ~catalog[n].sealed
  BY <1>2 DEF UnsealedRanges
<1>. QED BY <1>1, <1>2, <1>3, <1>4 DEF StoreTypes

LEMMA UnlockedIsQuiet ==
    ASSUME OneHandle, IInv, NEW h \in Handles, Unlocked(h)
    PROVE  \A a \in Agents : pc[a] \in RotationSteps => a = h
<1>1. \A p \in Procs : pc[p] \in RotationSteps => lock[h] = p /\ p # Null
  BY OneHandleOnly, NullIsNoRecord DEF IInv, TypeInv, TypeOK, AgentInv, RotatesAlone
<1>. QED BY <1>1, OneHandleOnly DEF Unlocked, Agents

LEMMA RotatePartitionKeeps ==
    ASSUME OneHandle, RotationsGoOnward, IInv, TypeInv', NothingOpen', NEW p \in Procs,
           RotatePartition(p)
    PROVE  DiskInv' /\ AgentInv'
<1>. TypeInv /\ StoreTypes /\ AgentTypes
  BY TypeParts DEF IInv
<1>. DEFINE h == handle[p]
            old == active[h]
            info == DetermineNewPartitionInfo(Window, old.start, ParsePartitionName(old.name).ordinal,
                                              stamp[p])
<1>0. /\ pc[p] = "rotate" /\ Unlocked(h) /\ p \in Agents /\ p \notin Handles
      /\ UNCHANGED <<now, fileVars, catalog>>
  BY EventStreamAssumption DEF RotatePartition, Writable, catalogVars, Agents
<1>1. CASE info = Null \/ head[old.name] = Null
  <2>1. Finish(p, "error")
    BY <1>1 DEF RotatePartition
  <2>2. QuietStep
    BY <1>0, <2>1, FinishIsQuiet DEF RotationSteps
  <2>. QED BY <2>2, QuietKeeps DEF IInv
<1>2. CASE ~(info = Null \/ head[old.name] = Null)
  <2>1. /\ lock' = [lock EXCEPT ![h] = p]
        /\ job' = [job EXCEPT ![p] =
              [name |-> info.name, start |-> info.start, head |-> head[old.name]]]
        /\ Goto(p, "seal")
        /\ UNCHANGED <<active, callVars>>
    <3>1. old.name \in Names
      BY <1>0 DEF AgentTypes, StepFacts, ActivePartition
    <3>2. HeadsSeen(h, old.name) = {head[old.name]}
      BY <3>1, HeadsAreCommitted DEF IInv
    <3>. QED BY <1>2, <3>2 DEF RotatePartition
  <2>2. /\ h \in Handles /\ IsOpen(h) /\ \A g \in Handles : g = h
        /\ \A a \in Agents : pc[a] \notin RotationSteps
    <3>1. h \in Handles /\ IsOpen(h) /\ \A g \in Handles : g = h
      BY <1>0, OneHandleOnly DEF AgentTypes, StepFacts
    <3>. QED BY <1>0, <3>1, UnlockedIsQuiet DEF IsOpen, RotationSteps
  <2>3. /\ old.name \in Names /\ Newest(old.name) /\ AllInCatalog
        /\ head[old.name] \in Nat
    BY <1>0, <2>2, WriterFindsNewest DEF Agents
  <2>4. /\ old.start \in Int /\ old.start = old.name.label /\ old.start <= Win(stamp[p])
        /\ stamp[p] \in 0..MaxClock
    BY <1>0, <2>2 DEF IInv, AgentInv, ClockInv, StepFacts, AgentTypes, ActivePartition
  <2>5. /\ info.name \in Names /\ NameBefore(old.name, info.name)
        /\ info.start = Win(stamp[p]) /\ info.name.label = Win(stamp[p])
    <3>. HIDE DEF old
    <3>. QED BY <1>2, <2>3, <2>4, InfoIsBehind
  <2>. DEFINE k == info.name
              end == head[old.name]
  <2>6. /\ job'[p].name = k /\ job'[p].start = Win(stamp[p]) /\ job'[p].head = end
        /\ pc'[p] = "seal" /\ lock'[h] = p
        /\ \A a \in Agents \ {p} : pc'[a] = pc[a] /\ job'[a] = job[a]
    BY <1>0, <2>1, <2>2, <2>5 DEF Goto, AgentTypes
  <2>. HIDE DEF k, end, info, old, h
  <2>7. ~Present(k) /\ \A m \in Names : Present(m) => NameBefore(m, k) /\ m # k
    BY <2>3, <2>5, NamesOrdered DEF Newest, k
  <2>8. head[k] = Null /\ rows[k] = {} /\ catalog[k] = Null
    BY <2>5, <2>7 DEF IInv, DiskInv, FilesInv, FileHolds, k
  <2>9. \A m \in Names : Present(m) => head[m] \in 0 .. end
    <3>. SUFFICES ASSUME NEW m \in Names, Present(m) PROVE head[m] \in 0 .. end
      OBVIOUS
    <3>1. CASE m = old.name
      BY <2>3, <3>1 DEF end
    <3>2. CASE m # old.name
      <4>1. NameBefore(m, old.name) /\ Present(old.name)
        BY <2>3, <3>2 DEF Newest
      <4>2. head[m] # Null /\ head[m] < FirstVersion(old.name)
        BY <2>3, <4>1, NullIsNoRecord DEF IInv, DiskInv, ChainInv
      <4>3. FirstVersion(old.name) \in 1 .. end + 1
        BY <2>3, NullIsNoRecord DEF IInv, DiskInv, FilesInv, FileHolds, end
      <4>4. head[m] \in Nat /\ end \in Nat
        BY <2>3, <4>2 DEF StoreTypes, end
      <4>. QED BY <4>2, <4>3, <4>4
    <3>. QED BY <3>1, <3>2
  <2>10. \A v \in 1 .. end : \E m \in Names : v \in rows[m]
    BY <2>3, NullIsNoRecord DEF IInv, DiskInv, FilesInv, FileHolds, end
  <2>11. /\ UNCHANGED <<phase, rows, head, catalog, active, now, handle, stamp>>
    BY <1>0, <2>1 DEF fileVars, callVars
  <2>12. DiskInv'
    BY <2>11, DiskKept DEF IInv
  <2>13. \A g \in Handles : pc'[g] = pc[g] /\ pc'[g] = "open"
    BY <1>0, <2>2, <2>6 DEF Agents, IsOpen
  <2>14. SettledInv'
    BY <2>13 DEF SettledInv, IsOpen
  <2>15. OpenInv'
    <3>1. ~Rotating
      BY <2>2 DEF Rotating, Agents
    <3>2. \A g \in Handles : head[active[g].name] # Null /\ UnsealedRanges(catalog) = {active[g].name}
      BY <2>13, <3>1 DEF IInv, AgentInv, OpenInv, IsOpen
    <3>. QED BY <2>11, <2>13, <3>2 DEF OpenInv, RotationSteps
  <2>16. TargetInv'
    <3>1. TargetHolds(p)'
      <4>1. \A m \in Names : phase'[m] # "absent" => NameBefore(m, k) /\ head'[m] \in 0 .. end
        BY <2>7, <2>9, <2>11 DEF Present
      <4>2. phase'[k] = "absent"
        BY <2>7, <2>11 DEF Present
      <4>3. head'[k] = Null /\ rows'[k] = {} /\ catalog'[k] = Null
            /\ \A v \in 1 .. end : \E m \in Names : v \in rows'[m]
        BY <2>8, <2>10, <2>11
      <4>. QED BY <2>6, <4>1, <4>2, <4>3 DEF TargetHolds, Present
    <3>. QED BY <2>2, <2>6, <3>1 DEF TargetInv
  <2>17. RotatesAlone'
    <3>1. head'[active'[h].name] = end
      BY <2>11 DEF end, old
    <3>2. \A q \in Procs : pc'[q] \in RotationSteps => q = p
      BY <2>2, <2>6 DEF Agents
    <3>. QED BY <2>6, <2>11, <3>1, <3>2 DEF RotatesAlone, h
  <2>18. ClockInv'
    <3>1. stamp[p] <= now /\ now \in 0..MaxClock /\ Win(stamp[p]) <= Win(now)
      BY <2>4, ClockTypes, WindowFacts DEF IInv, AgentInv, ClockInv
    <3>2. \A a \in Agents : pc'[a] \in RotationSteps => a = p
      BY <2>2, <2>6
    <3>3. job'[p].start = job'[p].name.label /\ job'[p].start <= Win(now')
      BY <2>5, <2>6, <2>11, <3>1 DEF k
    <3>4. \A q \in Procs : pc'[q] \in {"window", "rotate"} => pc[q] = pc'[q]
      BY <2>6 DEF Agents
    <3>5. \A q \in Procs : pc'[q] \in RotationSteps => job'[q].start = Win(stamp'[q])
      BY <2>6, <2>11, <3>2 DEF Agents
    <3>6. \A n \in Names : Present(n)' => n.label <= Win(now')
      BY <2>11 DEF IInv, AgentInv, ClockInv, Present
    <3>7. \A g \in Handles : active'[g].start = active'[g].name.label /\ active'[g].start <= Win(now')
      BY <2>11, <2>13 DEF IInv, AgentInv, ClockInv, IsOpen
    <3>8. \A q \in Procs : /\ stamp'[q] <= now'
                           /\ pc'[q] \in {"window", "rotate"} => active'[handle'[q]].start <= Win(stamp'[q])
      BY <2>11, <3>4 DEF IInv, AgentInv, ClockInv
    <3>. QED BY <3>2, <3>3, <3>5, <3>6, <3>7, <3>8 DEF ClockInv
  <2>. QED BY <2>12, <2>14, <2>15, <2>16, <2>17, <2>18 DEF AgentInv
<1>. QED BY <1>1, <1>2

LEMMA SealKeeps ==
    ASSUME OneHandle, IInv, NEW p \in Procs, SealActiveRange(p)
    PROVE  DiskInv' /\ AgentInv'
<1>. TypeInv /\ StoreTypes /\ AgentTypes
  BY TypeParts DEF IInv
<1>. DEFINE n == active[handle[p]].name
            k == job[p].name
            end == job[p].head
<1>0. /\ pc[p] = "seal" /\ pc[p] \in RotationSteps /\ p \in Agents
  BY DEF SealActiveRange, RotationSteps, Agents
<1>1. /\ TargetHolds(p) /\ job[p] \in Job /\ k \in Names /\ end \in Nat
      /\ \A b \in Agents \ {p} : pc[b] \notin RotationSteps
      /\ \A g \in Handles : g = handle[p] /\ IsOpen(g)
  BY <1>0, CreatesAlone
<1>2. /\ n \in Names /\ Newest(n) /\ AllInCatalog
      /\ UnsealedRanges(catalog) = {n} /\ catalog[n] # Null /\ ~catalog[n].sealed
      /\ head[n] \in Nat
  <2>1. \A q \in Procs : pc[q] \notin RotationSteps \ {"seal"}
    BY <1>0, <1>1 DEF Agents
  <2>2. pc[p] # "idle"
    BY <1>0
  <2>. QED BY <2>1, <2>2, WriterFindsNewest
<1>3. head[n] = end /\ lock[handle[p]] = p
  BY <1>0 DEF IInv, AgentInv, RotatesAlone
<1>4. /\ catalog' = SealEventFileRange(catalog, n, end)
      /\ Goto(p, "create")
      /\ UNCHANGED <<now, phase, rows, head, active, lock, job, callVars>>
  BY DEF SealActiveRange, fileVars, handleVars
<1>5. /\ ~Present(k) /\ \A m \in Names : Present(m) => NameBefore(m, k)
      /\ head[k] = Null /\ rows[k] = {} /\ catalog[k] = Null
  BY <1>0, <1>1 DEF TargetHolds
<1>6. /\ pc'[p] = "create"
      /\ \A b \in Agents \ {p} : pc'[b] = pc[b]
  BY <1>0, <1>4 DEF Goto, AgentTypes
<1>. HIDE DEF n, k, end
<1>. DEFINE range == [first_version |-> catalog[n].first_version, last_version |-> end, sealed |-> TRUE]
<1>7. /\ catalog'[n] = range /\ range # Null
      /\ \A m \in Names \ {n} : catalog'[m] = catalog[m]
      /\ DOMAIN catalog' = Names
  <2>1. catalog' = [catalog EXCEPT ![n] = range]
    BY <1>2, <1>4 DEF SealEventFileRange
  <2>2. range \in EventFileRange
    BY <1>1, <1>2 DEF EventFileRange, StoreTypes
  <2>. QED BY <1>2, <2>1, <2>2, NullIsNoRecord DEF StoreTypes
<1>8. UnsealedRanges(catalog') = {}
  <2>1. DOMAIN catalog = Names
    BY DEF StoreTypes
  <2>2. \A m \in Names \ {n} : catalog[m] = Null \/ catalog[m].sealed
    BY <1>2, <2>1 DEF UnsealedRanges
  <2>. QED BY <1>7, <2>2 DEF UnsealedRanges
<1>9. /\ \A m \in Names : FirstVersion(m)' = FirstVersion(m)
      /\ \A m \in Names : Present(m)' <=> Present(m)
  BY <1>4 DEF FirstVersion, Present
<1>10. \A m \in Names : catalog'[m] # Null <=> catalog[m] # Null
  BY <1>2, <1>7
<1>11. DiskInv'
  <2>1. FilesInv'
    BY <1>4, <1>9, <1>10 DEF IInv, DiskInv, FilesInv, FileHolds
  <2>2. ChainInv'
    BY <1>4, <1>9 DEF IInv, DiskInv, ChainInv
  <2>3. RangeInv'
    <3>. SUFFICES ASSUME NEW m \in Names, catalog'[m] # Null
                  PROVE  /\ head'[m] # Null
                         /\ catalog'[m].first_version = FirstVersion(m)'
                         /\ catalog'[m].last_version = IF catalog'[m].sealed THEN head'[m] ELSE Null
      BY DEF RangeInv
    <3>0. /\ head[m] # Null
          /\ catalog[m].first_version = FirstVersion(m)
          /\ catalog[m].last_version = IF catalog[m].sealed THEN head[m] ELSE Null
      BY <1>10 DEF IInv, DiskInv, RangeInv
    <3>1. CASE m = n
      BY <1>3, <1>4, <1>7, <1>9, <3>0, <3>1 DEF n
    <3>2. CASE m # n
      BY <1>4, <1>7, <1>9, <3>0, <3>2
    <3>. QED BY <3>1, <3>2
  <2>4. CatalogInv'
    BY <1>8 DEF CatalogInv
  <2>. QED BY <2>1, <2>2, <2>3, <2>4 DEF DiskInv
<1>12. \A g \in Handles : pc'[g] = "open"
  <2>1. Procs \cap Handles = {}
    BY EventStreamAssumption
  <2>. QED BY <1>1, <1>6, <2>1 DEF IsOpen, Agents
<1>13. SettledInv'
  BY <1>12 DEF SettledInv, IsOpen
<1>14. OpenInv'
  <2>1. Rotating'
    BY <1>6 DEF Rotating, RotationSteps
  <2>2. \A g \in Handles : head[active[g].name] # Null
    BY <1>1 DEF IInv, AgentInv, OpenInv
  <2>. QED BY <1>4, <1>12, <2>1, <2>2 DEF OpenInv, RotationSteps
<1>15. TargetInv'
  <2>1. TargetHolds(p)'
    <3>1. phase'[k] = "absent" /\ \A m \in Names : phase'[m] # "absent" => NameBefore(m, k)
      BY <1>4, <1>5 DEF Present
    <3>2. head'[k] = Null /\ rows'[k] = {} /\ catalog'[k] = Null
      BY <1>1, <1>4, <1>5, <1>10
    <3>3. \A m \in Names \ {k} : phase'[m] # "absent" => head'[m] \in 0 .. end /\ catalog'[m] # Null
      BY <1>1, <1>2, <1>4, <1>10 DEF TargetHolds, Present, AllInCatalog, k, end
    <3>4. \A v \in 1 .. end : \E m \in Names : v \in rows'[m]
      BY <1>1, <1>4 DEF TargetHolds, end
    <3>5. job'[p].name = k /\ job'[p].head = end
      BY <1>4 DEF k, end
    <3>. QED BY <1>6, <1>8, <3>1, <3>2, <3>3, <3>4, <3>5 DEF TargetHolds, Present
  <2>. QED BY <1>1, <1>6, <2>1 DEF TargetInv
<1>16. RotatesAlone'
  <2>1. \A q \in Procs : pc'[q] \in RotationSteps => q = p
    BY <1>1, <1>6 DEF Agents
  <2>. QED BY <1>0, <1>3, <1>4, <2>1 DEF RotatesAlone, callVars, n, end
<1>17. ClockInv'
  <2>1. \A a \in Agents : pc'[a] \in RotationSteps => pc[a] \in RotationSteps
    BY <1>0, <1>6
  <2>2. \A q \in Procs : pc'[q] \in {"window", "rotate"} => pc[q] = pc'[q]
    BY <1>6 DEF Agents
  <2>. QED BY <1>1, <1>4, <1>9, <2>1, <2>2 DEF IInv, AgentInv, ClockInv, callVars, Agents
<1>. QED BY <1>11, <1>13, <1>14, <1>15, <1>16, <1>17 DEF AgentInv

(* An append extends the newest file, behind all that is stored.             *)
Extends(p, n, last) ==
    /\ n = active[handle[p]].name
    /\ Newest(n) /\ AllInCatalog
    /\ UnsealedRanges(catalog) = {n} /\ catalog[n] # Null /\ ~catalog[n].sealed
    /\ head[n] \in Nat /\ head[n] # Null /\ head[n] <= last
    /\ head'[n] = last /\ last # Null
    /\ rows'[n] = rows[n] \cup (head[n] + 1 .. last)
    /\ rows'[n] = FirstVersion(n) .. last
    /\ FirstVersion(n) \in 1 .. head[n] + 1 /\ FirstVersion(n) \in 1 .. last + 1
    /\ \A v \in 1 .. head[n] : \E m \in Names : v \in rows[m]
    /\ \A m \in Names \ {n} : head'[m] = head[m] /\ rows'[m] = rows[m]
    /\ \A m \in Names : FirstVersion(m)' = FirstVersion(m)

LEMMA AppendExtends ==
    ASSUME OneHandle, IInv, NEW p \in Procs, AppendCommits(p)
    PROVE  \E n \in Names, last \in Nat : Extends(p, n, last)
<1>. TypeInv /\ StoreTypes /\ AgentTypes
  BY TypeParts DEF IInv
<1>. DEFINE n == active[handle[p]].name
            count == call[p].count
            last == head[n] + count
<1>0. /\ pc[p] = "commit" /\ Unlocked(handle[p]) /\ p \in Agents /\ p \notin Handles
      /\ Finish(p, "appended")
      /\ UNCHANGED <<now, phase, catalog>>
  BY EventStreamAssumption DEF AppendCommits, AtTransaction, Writable, Agents, catalogVars
<1>1. /\ handle[p] \in Handles /\ IsOpen(handle[p]) /\ \A g \in Handles : g = handle[p]
      /\ call[p] \in Request
  BY <1>0, OneHandleOnly DEF AgentTypes, StepFacts
<1>2. \A a \in Agents : pc[a] \notin RotationSteps
  BY <1>0, <1>1, UnlockedIsQuiet DEF IsOpen, RotationSteps
<1>3. /\ n \in Names /\ Newest(n) /\ AllInCatalog
      /\ UnsealedRanges(catalog) = {n} /\ catalog[n] # Null /\ ~catalog[n].sealed
      /\ head[n] \in Nat
  BY <1>0, <1>2, WriterFindsNewest DEF Agents
<1>4. count \in Nat
  BY <1>1 DEF Request
<1>. HIDE DEF n, count
<1>5. /\ head' = [head EXCEPT ![n] = last]
      /\ rows' = [rows EXCEPT ![n] = @ \cup (head[n] + 1 .. last)]
  BY DEF AppendCommits, ActiveFile, BatchVersions, NewVersions, n, count
<1>6. /\ head'[n] = last /\ rows'[n] = rows[n] \cup (head[n] + 1 .. last)
      /\ \A m \in Names \ {n} : head'[m] = head[m] /\ rows'[m] = rows[m]
      /\ last \in Nat /\ last # Null /\ head[n] # Null
  BY <1>3, <1>4, <1>5, NullIsNoRecord DEF StoreTypes
<1>. DEFINE first == FirstVersion(n)
<1>7. /\ first \in 1 .. head[n] + 1 /\ rows[n] = first .. head[n]
      /\ \A v \in 1 .. head[n] : \E m \in Names : v \in rows[m]
  BY <1>3, <1>6 DEF IInv, DiskInv, FilesInv, FileHolds
<1>. HIDE DEF first
<1>8. /\ rows'[n] = first .. last /\ first \in 1 .. last + 1
  <2>1. (first .. head[n]) \cup (head[n] + 1 .. last) = first .. last
    BY <1>3, <1>4, <1>7
  <2>. QED BY <1>3, <1>4, <1>6, <1>7, <2>1
<1>9. \A m \in Names : FirstVersion(m)' = FirstVersion(m)
  <2>. SUFFICES ASSUME NEW m \in Names PROVE FirstVersion(m)' = FirstVersion(m)
    OBVIOUS
  <2>1. CASE m = n
    <3>1. (IF first .. last = {} THEN last + 1 ELSE Min(first .. last)) = first
      BY <1>6, <1>8, FirstOfRange
    <3>. QED BY <1>6, <1>8, <2>1, <3>1 DEF FirstVersion, first
  <2>2. CASE m # n
    BY <1>6, <2>2 DEF FirstVersion
  <2>. QED BY <2>1, <2>2
<1>10. head[n] <= last
  BY <1>3, <1>4
<1>. QED BY <1>3, <1>6, <1>7, <1>8, <1>9, <1>10 DEF Extends, n, first

LEMMA AppendKeeps ==
    ASSUME OneHandle, IInv, NEW p \in Procs, AppendCommits(p)
    PROVE  DiskInv' /\ AgentInv'
<1>. TypeInv /\ StoreTypes /\ AgentTypes
  BY TypeParts DEF IInv
<1>0. /\ pc[p] = "commit" /\ Unlocked(handle[p]) /\ p \in Agents /\ p \notin Handles
      /\ Finish(p, "appended")
      /\ UNCHANGED <<now, phase, catalog>>
  BY EventStreamAssumption DEF AppendCommits, AtTransaction, Writable, Agents, catalogVars
<1>1. handle[p] \in Handles /\ IsOpen(handle[p]) /\ \A g \in Handles : g = handle[p]
  BY <1>0, OneHandleOnly DEF AgentTypes, StepFacts
<1>2. \A a \in Agents : pc[a] \notin RotationSteps
  BY <1>0, <1>1, UnlockedIsQuiet DEF IsOpen, RotationSteps
<1>3. PICK n \in Names, last \in Nat : Extends(p, n, last)
  BY AppendExtends
<1>. DEFINE first == FirstVersion(n)
<1>4. first \in 1 .. head[n] + 1 /\ rows'[n] = first .. last /\ first \in 1 .. last + 1
  BY <1>3 DEF Extends
<1>5. \A m \in Names : Present(m)' <=> Present(m)
  BY <1>0 DEF Present
<1>. HIDE DEF first
<1>6. DiskInv'
  <2>1. FilesInv'
    <3>. SUFFICES ASSUME NEW m \in Names PROVE FileHolds(m)'
      BY DEF FilesInv
    <3>1. \A i \in Names : rows[i] \subseteq rows'[i]
      BY <1>3 DEF Extends
    <3>2. CASE m = n
      <4>1. ASSUME NEW v \in 1 .. last PROVE \E i \in Names : v \in rows'[i]
        <5>1. CASE v \in 1 .. head[n]
          BY <1>3, <3>1, <5>1 DEF Extends
        <5>2. CASE v \notin 1 .. head[n]
          <6>1. v \in first .. last
            BY <1>3, <1>4, <5>2 DEF Extends, first
          <6>. QED BY <1>3, <1>4, <6>1 DEF Extends
        <5>. QED BY <5>1, <5>2
      <4>2. Present(m)' /\ FirstVersion(m)' = first /\ head'[m] = last /\ rows'[m] = first .. last
        BY <1>3, <1>5, <1>4, <3>2 DEF Newest, first, Extends
      <4>. QED BY <1>3, <1>4, <4>1, <4>2 DEF FileHolds, Extends
    <3>3. CASE m # n
      <4>1. /\ head'[m] = head[m] /\ rows'[m] = rows[m] /\ FirstVersion(m)' = FirstVersion(m)
            /\ catalog'[m] = catalog[m] /\ (Present(m)' <=> Present(m))
        BY <1>0, <1>3, <1>5, <3>3 DEF Extends
      <4>2. FileHolds(m)
        BY DEF IInv, DiskInv, FilesInv
      <4>. QED BY <3>1, <4>1, <4>2 DEF FileHolds
    <3>. QED BY <3>2, <3>3
  <2>2. ChainInv'
    <3>. SUFFICES ASSUME NEW l \in Names, NEW m \in Names, Present(l), Present(m), NameBefore(l, m)
                  PROVE  head'[l] # Null /\ (head'[m] # Null => head'[l] < FirstVersion(m))
      BY <1>5, <1>3 DEF ChainInv, Extends
    <3>1. l # n
      BY <1>3, NamesOrdered DEF Newest, Extends
    <3>. QED BY <1>3, <3>1 DEF IInv, DiskInv, ChainInv, Extends
  <2>3. RangeInv'
    <3>. SUFFICES ASSUME NEW m \in Names, catalog[m] # Null
                  PROVE  /\ head'[m] # Null
                         /\ catalog[m].first_version = FirstVersion(m)
                         /\ catalog[m].last_version = IF catalog[m].sealed THEN head'[m] ELSE Null
      BY <1>0, <1>3 DEF RangeInv, Extends
    <3>. QED BY <1>3 DEF IInv, DiskInv, RangeInv, Extends
  <2>4. CatalogInv'
    BY <1>0, <1>5 DEF IInv, DiskInv, CatalogInv, Newest, AllInCatalog
  <2>. QED BY <2>1, <2>2, <2>3, <2>4 DEF DiskInv
<1>7. /\ pc' = [pc EXCEPT ![p] = "idle"]
      /\ stamp' = [stamp EXCEPT ![p] = 0]
      /\ UNCHANGED <<active, handle>>
  BY <1>0 DEF Finish, Goto
<1>8. /\ \A a \in Agents : pc'[a] \notin RotationSteps
      /\ \A g \in Handles : pc'[g] = "open"
      /\ \A q \in Procs : pc'[q] \in {"window", "rotate"} => pc'[q] = pc[q] /\ q # p
      /\ \A q \in Procs : stamp'[q] \in {stamp[q], 0} /\ (q # p => stamp'[q] = stamp[q])
  BY <1>0, <1>1, <1>2, <1>7 DEF AgentTypes, IsOpen, RotationSteps, Agents
<1>9. SettledInv' /\ TargetInv' /\ RotatesAlone'
  BY <1>8 DEF SettledInv, IsOpen, TargetInv, RotatesAlone, Agents
<1>10. OpenInv'
  <2>1. \A g \in Handles : active'[g].name = n
    BY <1>1, <1>3, <1>7 DEF Extends
  <2>2. head'[n] # Null /\ UnsealedRanges(catalog') = {n}
    BY <1>0, <1>3 DEF Extends
  <2>3. \A g \in Handles : pc'[g] # "new" /\ pc'[g] \notin RotationSteps
    BY <1>8 DEF RotationSteps
  <2>. QED BY <2>1, <2>2, <2>3 DEF OpenInv
<1>11. ClockInv'
  <2>1. \A q \in Procs : stamp'[q] <= now
    BY <1>8, ClockTypes DEF IInv, AgentInv, ClockInv
  <2>2. \A m \in Names : Present(m)' => m.label <= Win(now)
    BY <1>5 DEF IInv, AgentInv, ClockInv
  <2>3. \A g \in Handles : active'[g].start = active'[g].name.label /\ active'[g].start <= Win(now)
    BY <1>1, <1>7 DEF IInv, AgentInv, ClockInv
  <2>4. \A q \in Procs : pc'[q] \in {"window", "rotate"} => active'[handle'[q]].start <= Win(stamp'[q])
    BY <1>7, <1>8 DEF IInv, AgentInv, ClockInv
  <2>5. \A q \in Procs : pc'[q] \notin RotationSteps
    BY <1>8 DEF Agents
  <2>. QED BY <1>0, <1>8, <2>1, <2>2, <2>3, <2>4, <2>5 DEF ClockInv
<1>. QED BY <1>6, <1>9, <1>10, <1>11 DEF AgentInv

-----------------------------------------------------------------------------
(* Opening a partition                                                       *)

\* While the handle is not open there are no calls.
LEMMA OpensAlone ==
    ASSUME OneHandle, IInv, NEW h \in Handles, pc[h] \notin RotationSteps \cup {"open"}
    PROVE  /\ \A g \in Handles : g = h
           /\ \A p \in Procs : pc[p] = "idle" /\ p # h
           /\ \A a \in Agents : pc[a] \notin RotationSteps
           /\ h \in Agents
<1>1. \A g \in Handles : g = h
  BY OneHandleOnly
<1>2. \A p \in Procs : pc[p] = "idle"
  BY <1>1 DEF IInv, TypeInv, TypeOK, StepFacts, IsOpen
<1>. QED BY <1>1, <1>2, EventStreamAssumption DEF Agents, RotationSteps

(* The handle opens at the file the catalog names as the active one.         *)
LEMMA AttachKeeps ==
    ASSUME OneHandle, IInv, NEW h \in Handles, pc[h] = "ranges", NEW n \in Names, Attach(h, n),
           Present(n), head[n] # Null, UnsealedRanges(catalog') = {n},
           UNCHANGED <<now, fileVars, callVars>>
    PROVE  AgentInv'
<1>. TypeInv /\ StoreTypes /\ AgentTypes
  BY TypeParts DEF IInv
<1>0. /\ \A g \in Handles : g = h
      /\ \A p \in Procs : pc[p] = "idle" /\ p # h
      /\ \A a \in Agents : pc[a] \notin RotationSteps
      /\ h \in Agents
  BY OpensAlone DEF RotationSteps
<1>1. /\ pc' = [pc EXCEPT ![h] = "open"]
      /\ active' = [active EXCEPT ![h] = [name |-> n, start |-> n.label]]
      /\ UNCHANGED <<now, phase, rows, head, stamp>>
  BY DEF Attach, Goto, ParsePartitionName, fileVars, callVars
<1>2. /\ \A g \in Handles : pc'[g] = "open"
      /\ \A p \in Procs : pc'[p] = "idle"
      /\ \A g \in Handles : active'[g].name = n /\ active'[g].start = n.label
  BY <1>0, <1>1 DEF AgentTypes, Agents
<1>3. \A a \in Agents : pc'[a] \notin RotationSteps
  BY <1>2 DEF RotationSteps, Agents
<1>4. SettledInv' /\ TargetInv' /\ RotatesAlone'
  BY <1>2, <1>3 DEF SettledInv, IsOpen, TargetInv, RotatesAlone, Agents
<1>5. OpenInv'
  BY <1>1, <1>2, <1>3 DEF OpenInv, Agents
<1>6. ClockInv'
  <2>1. \A m \in Names : Present(m)' => m.label <= Win(now)
    BY <1>1 DEF IInv, AgentInv, ClockInv, Present
  <2>2. n.label <= Win(now)
    BY DEF IInv, AgentInv, ClockInv
  <2>3. \A p \in Procs : stamp[p] <= now
    BY DEF IInv, AgentInv, ClockInv
  <2>4. \A p \in Procs : stamp'[p] <= now' /\ pc'[p] \notin RotationSteps \cup {"window", "rotate"}
    BY <1>1, <1>2, <2>3 DEF RotationSteps
  <2>5. \A g \in Handles : active'[g].start = active'[g].name.label /\ active'[g].start <= Win(now')
    BY <1>1, <1>2, <2>2
  <2>. QED BY <1>1, <1>3, <2>1, <2>4, <2>5 DEF ClockInv
<1>. QED BY <1>4, <1>5, <1>6 DEF AgentInv

LEMMA UseCatalogKeeps ==
    ASSUME OneHandle, IInv, NEW h \in Handles, UseCatalog(h)
    PROVE  DiskInv' /\ AgentInv'
<1>1. PICK n \in Names : UnsealedRanges(catalog) = {n} /\ Attach(h, n)
  BY DEF UseCatalog
<1>2. pc[h] = "ranges" /\ UNCHANGED <<now, fileVars, callVars, catalog>>
  BY DEF UseCatalog, catalogVars
<1>3. Newest(n) /\ catalog[n] # Null
  BY <1>1 DEF IInv, DiskInv, CatalogInv, UnsealedRanges
<1>4. head[n] # Null
  BY <1>3 DEF IInv, DiskInv, RangeInv
<1>5. AgentInv'
  BY <1>1, <1>2, <1>3, <1>4, AttachKeeps DEF Newest
<1>6. DiskInv'
  BY <1>2, DiskKept DEF IInv, fileVars
<1>. QED BY <1>5, <1>6

(* ORDER BY first_version, name is the order of the names alone.             *)
LEMMA SurveyOrder ==
    ASSUME IInv, NEW m \in Names, NEW n \in Names, Present(m), Present(n),
           head[m] # Null, head[n] # Null, FileBefore(m, n)
    PROVE  NameBefore(m, n)
<1>1. /\ head[m] \in Nat /\ head[n] \in Nat
      /\ FirstVersion(m) \in 1 .. head[m] + 1 /\ FirstVersion(n) \in 1 .. head[n] + 1
  BY DEF IInv, TypeInv, TypeOK, DiskInv, FilesInv, FileHolds
<1>2. CASE NameBefore(n, m)
  <2>1. head[n] < FirstVersion(m)
    BY <1>2 DEF IInv, DiskInv, ChainInv
  <2>2. FirstVersion(n) <= FirstVersion(m)
    BY <1>1, <2>1
  <2>3. FirstVersion(m) = FirstVersion(n) /\ NameBefore(m, n)
    BY <1>1, <2>2 DEF FileBefore, RangeBefore
  <2>. QED BY <2>3
<1>3. CASE m = n
  BY <1>1, <1>3, NamesOrdered DEF FileBefore, RangeBefore
<1>. QED BY <1>2, <1>3, NamesOrdered

LEMMA RebuildKeeps ==
    ASSUME OneHandle, IInv, NEW h \in Handles, RebuildEventFileRanges(h)
    PROVE  DiskInv' /\ AgentInv'
<1>. TypeInv /\ StoreTypes /\ AgentTypes
  BY TypeParts DEF IInv
<1>0. /\ pc[h] = "ranges"
      /\ \A n \in Names : Present(n) => head[n] # Null
      /\ UNCHANGED <<now, fileVars, callVars, phase, rows, head>>
  BY DEF RebuildEventFileRanges, PresentFiles, Present, fileVars
<1>1. /\ \A n \in Names : FirstVersion(n)' = FirstVersion(n)
      /\ \A n \in Names : Present(n)' <=> Present(n)
  BY <1>0 DEF FirstVersion, Present
<1>2. ChainInv'
  BY <1>0, <1>1 DEF IInv, DiskInv, ChainInv
<1>3. CASE PresentFiles = {}
  <2>1. catalog' = EmptyCatalog(Names) /\ Goto(h, "new") /\ UNCHANGED <<handleVars, job>>
    BY <1>3 DEF RebuildEventFileRanges
  <2>2. \A n \in Names : ~Present(n) /\ catalog'[n] = Null
    BY <1>3, <2>1 DEF PresentFiles, Present, EmptyCatalog
  <2>3. UnsealedRanges(catalog') = {}
    BY <2>1 DEF UnsealedRanges, EmptyCatalog
  <2>4. FilesInv' /\ RangeInv' /\ CatalogInv'
    BY <1>0, <1>1, <2>2, <2>3 DEF IInv, DiskInv, FilesInv, FileHolds, RangeInv, CatalogInv
  <2>5. SettledInv'
    BY <2>1 DEF SettledInv
  <2>6. /\ \A g \in Handles : g = h
        /\ \A p \in Procs : pc[p] = "idle" /\ p # h
        /\ h \in Agents
    BY <1>0, OpensAlone DEF RotationSteps
  <2>7. pc'[h] = "new" /\ \A p \in Procs : pc'[p] = "idle"
    BY <2>1, <2>6 DEF Goto, AgentTypes, Agents
  <2>8. \A a \in Agents : pc'[a] \notin RotationSteps
    BY <2>6, <2>7 DEF Agents, RotationSteps
  <2>9. OpenInv'
    BY <1>1, <2>2, <2>6, <2>7 DEF OpenInv, IsOpen, RotationSteps
  <2>10. TargetInv' /\ RotatesAlone'
    BY <2>8 DEF TargetInv, RotatesAlone, Agents
  <2>11. ClockInv'
    <3>1. \A m \in Names : Present(m)' => m.label <= Win(now')
      BY <1>0, <1>1 DEF IInv, AgentInv, ClockInv
    <3>2. \A g \in Handles : pc'[g] # "open"
      BY <2>6, <2>7
    <3>3. \A p \in Procs : stamp'[p] <= now' /\ pc'[p] \notin RotationSteps \cup {"window", "rotate"}
      BY <1>0, <2>7 DEF IInv, AgentInv, ClockInv, callVars, RotationSteps
    <3>. QED BY <2>8, <3>1, <3>2, <3>3 DEF ClockInv, IsOpen
  <2>. QED BY <1>2, <2>4, <2>5, <2>9, <2>10, <2>11 DEF DiskInv, AgentInv
<1>4. CASE PresentFiles # {}
  <2>1. PICK n \in Names :
            /\ Present(n)
            /\ \A m \in PresentFiles \ {n} : FileBefore(m, n)
            /\ catalog' = [m \in Names |->
                    IF m \in PresentFiles THEN RebuiltRange(m, n) ELSE Null]
            /\ Attach(h, n)
    BY <1>4 DEF RebuildEventFileRanges, ReplaceEventFileRanges, PresentFiles, Present
  <2>2. Newest(n)
    <3>1. \A m \in Names : Present(m) /\ m # n => NameBefore(m, n)
      BY <1>0, <2>1, SurveyOrder DEF PresentFiles, Present
    <3>. QED BY <2>1, <3>1 DEF Newest
  <2>3. ASSUME NEW m \in Names
        PROVE  /\ ~Present(m) => catalog'[m] = Null
               /\ Present(m) =>
                    /\ catalog'[m] # Null
                    /\ catalog'[m].first_version = FirstVersion(m)
                    /\ m = n => ~catalog'[m].sealed
                    /\ m # n => catalog'[m].sealed
                    /\ catalog'[m].last_version = IF m # n THEN head[m] ELSE Null
    <3>1. CASE Present(m)
      <4>1. catalog'[m] = RebuiltRange(m, n)
        BY <2>1, <3>1 DEF PresentFiles, Present
      <4>2. FirstVersion(m) \in Int /\ head[m] \in Nat
        BY <1>0, <3>1 DEF IInv, DiskInv, FilesInv, FileHolds, StoreTypes
      <4>3. RebuiltRange(m, n) \in EventFileRange
        BY <4>2, RotationAssumption DEF RebuiltRange, ActiveRange, EventFileRange
      <4>4. catalog'[m] # Null
        BY <4>1, <4>3, NullIsNoRecord
      <4>5. CASE m = n
        <5>1. catalog'[m] = ActiveRange(FirstVersion(m))
          BY <4>1, <4>5 DEF RebuiltRange
        <5>. QED BY <3>1, <4>4, <4>5, <5>1 DEF ActiveRange
      <4>6. CASE m # n
        <5>1. catalog'[m] = [first_version |-> FirstVersion(m), last_version |-> head[m], sealed |-> TRUE]
          BY <4>1, <4>6 DEF RebuiltRange
        <5>. QED BY <3>1, <4>4, <4>6, <5>1
      <4>. QED BY <4>5, <4>6
    <3>2. CASE ~Present(m)
      BY <2>1, <3>2 DEF PresentFiles, Present
    <3>. QED BY <3>1, <3>2
  <2>4. DOMAIN catalog' = Names
    BY <2>1
  <2>5. UnsealedRanges(catalog') = {n}
    BY <2>1, <2>3, <2>4 DEF UnsealedRanges
  <2>6. RangeInv'
    BY <1>0, <1>1, <2>3 DEF RangeInv
  <2>7. FilesInv'
    <3>1. \A m \in Names : head[m] = Null => catalog'[m] = Null
      BY <1>0, <2>3
    <3>. QED BY <1>0, <1>1, <3>1 DEF IInv, DiskInv, FilesInv, FileHolds
  <2>8. CatalogInv'
    <3>1. AllInCatalog'
      BY <1>1, <2>3 DEF AllInCatalog
    <3>2. \A m \in Names : UnsealedRanges(catalog') = {m} => m = n
      BY <2>5
    <3>3. Newest(n)'
      BY <1>1, <2>2 DEF Newest
    <3>. QED BY <3>1, <3>2, <3>3 DEF CatalogInv
  <2>9. AgentInv'
    BY <1>0, <2>1, <2>5, AttachKeeps
  <2>. QED BY <1>2, <2>6, <2>7, <2>8, <2>9 DEF DiskInv
<1>. QED BY <1>3, <1>4

(* No file yet: the first one is named after the present window.             *)
LEMMA NewPartitionKeeps ==
    ASSUME OneHandle, RotationsGoOnward, IInv, NEW h \in Handles, CreateNewActivePartition(h)
    PROVE  DiskInv' /\ AgentInv'
<1>. TypeInv /\ StoreTypes /\ AgentTypes
  BY TypeParts DEF IInv
<1>. DEFINE k == GeneratePartitionName(Win(now), Window, 0)
<1>0. /\ pc[h] = "new"
      /\ job' = [job EXCEPT ![h] = [name |-> k, start |-> Win(now), head |-> 0]]
      /\ Goto(h, "create")
      /\ UNCHANGED <<now, phase, rows, head, catalog, active, callVars>>
  BY DEF CreateNewActivePartition, Win, fileVars, catalogVars, handleVars
<1>1. /\ \A g \in Handles : g = h
      /\ \A p \in Procs : pc[p] = "idle" /\ p # h
      /\ \A a \in Agents : pc[a] \notin RotationSteps
      /\ h \in Agents
  BY <1>0, OpensAlone DEF RotationSteps
<1>2. k \in Names /\ k.label = Win(now)
  BY RotationAssumption, GeneratedName DEF StoreTypes
<1>. HIDE DEF k
<1>3. /\ job'[h].name = k /\ job'[h].start = Win(now) /\ job'[h].head = 0
      /\ pc'[h] = "create"
      /\ \A p \in Procs : pc'[p] = "idle"
      /\ "create" \in RotationSteps
  BY <1>0, <1>1 DEF AgentTypes, Goto, Agents, RotationSteps
<1>4. \A n \in Names : ~Present(n) /\ head[n] = Null /\ rows[n] = {} /\ catalog[n] = Null
  <2>1. \A n \in Names : ~Present(n)
    BY <1>0 DEF IInv, AgentInv, OpenInv
  <2>. QED BY <2>1 DEF IInv, DiskInv, FilesInv, FileHolds
<1>5. DiskInv'
  BY <1>0, DiskKept DEF IInv
<1>6. catalog' = EmptyCatalog(Names) /\ UnsealedRanges(catalog') = {}
  <2>1. catalog = EmptyCatalog(Names)
    BY <1>4 DEF EmptyCatalog, StoreTypes
  <2>. QED BY <1>0, <2>1 DEF EmptyCatalog, UnsealedRanges
<1>7. SettledInv'
  BY <1>6 DEF SettledInv
<1>8. \A n \in Names : phase'[n] = "absent"
  BY <1>0, <1>4 DEF Present
<1>9. OpenInv'
  BY <1>1, <1>3, <1>8 DEF OpenInv, IsOpen, Present
<1>10. TargetInv'
  <2>1. TargetHolds(h)'
    <3>1. head'[k] = Null /\ rows'[k] = {} /\ catalog'[k] = Null
      BY <1>0, <1>2, <1>4
    <3>2. phase'[k] = "absent" /\ \A m \in Names : phase'[m] = "absent"
      BY <1>2, <1>8
    <3>3. 1 .. job'[h].head = {}
      BY <1>3
    <3>. QED BY <1>3, <1>6, <3>1, <3>2, <3>3 DEF TargetHolds, Present
  <2>2. \A a \in Agents : pc'[a] \in RotationSteps => a = h
    BY <1>1, <1>3 DEF Agents, RotationSteps
  <2>. QED BY <2>1, <2>2 DEF TargetInv
<1>11. RotatesAlone'
  BY <1>3 DEF RotatesAlone, RotationSteps
<1>12. ClockInv'
  <2>1. Win(now) \in Int /\ now' = now
    BY <1>0, WindowFacts DEF StoreTypes
  <2>2. \A a \in Agents : pc'[a] \in RotationSteps => a = h
    BY <1>1, <1>3 DEF Agents, RotationSteps
  <2>3. \A p \in Procs : stamp'[p] <= now' /\ pc'[p] \notin RotationSteps \cup {"window", "rotate"}
    BY <1>0, <1>3 DEF IInv, AgentInv, ClockInv, callVars, RotationSteps
  <2>4. job'[h].start = job'[h].name.label /\ job'[h].start <= Win(now')
    BY <1>2, <1>3, <2>1
  <2>5. \A g \in Handles : pc'[g] # "open"
    BY <1>1, <1>3
  <2>6. \A n \in Names : ~Present(n)'
    BY <1>8 DEF Present
  <2>. QED BY <2>2, <2>3, <2>4, <2>5, <2>6 DEF ClockInv, IsOpen
<1>. QED BY <1>5, <1>7, <1>9, <1>10, <1>11, <1>12 DEF AgentInv

-----------------------------------------------------------------------------
(* The ends of the process, and what happens between                         *)

(* Only the disk is left.                                                    *)
LEMMA EndKeeps ==
    ASSUME OneHandle, Undisturbed, IInv, Crash \/ Shutdown
    PROVE  DiskInv' /\ AgentInv'
<1>. TypeInv /\ StoreTypes /\ AgentTypes
  BY TypeParts DEF IInv
<1>0. /\ UNCHANGED <<now, phase, rows, head, catalog>>
      /\ pc' = [a \in Agents |-> IF a \in Handles THEN "closed" ELSE "idle"]
      /\ stamp' = [p \in Procs |-> 0]
  BY DEF Crash, Shutdown, EndProcess, fileVars, catalogVars
<1>1. DiskInv'
  BY <1>0, DiskKept DEF IInv
<1>2. /\ \A a \in Agents : pc'[a] \notin RotationSteps \cup {"open", "new", "window", "rotate"}
      /\ \A h \in Handles : h \in Agents
      /\ \A p \in Procs : p \in Agents
  BY <1>0 DEF RotationSteps, Agents
<1>3. SettledInv'
  <2>. SUFFICES ASSUME "damage" \in Outages, NEW h \in Handles PROVE AllInCatalog
    BY <1>0 DEF SettledInv, AllInCatalog, Present
  <2>1. Shutdown
    BY DEF Undisturbed, Crash
  <2>2. \A a \in Agents : pc[a] \in {"idle", "open"}
    BY <2>1 DEF Shutdown
  <2>3. IsOpen(h) /\ ~Rotating
    BY <2>2 DEF AgentTypes, StepFacts, OpenSteps, RotationSteps, Agents, IsOpen, Rotating
  <2>4. UnsealedRanges(catalog) = {active[h].name} /\ active[h].name \in Names
    BY <2>3 DEF IInv, AgentInv, OpenInv, AgentTypes, StepFacts, ActivePartition
  <2>. QED BY <2>4 DEF IInv, DiskInv, CatalogInv
<1>4. OpenInv' /\ TargetInv' /\ RotatesAlone'
  BY <1>2 DEF OpenInv, IsOpen, TargetInv, RotatesAlone
<1>5. ClockInv'
  <2>1. \A n \in Names : Present(n)' => n.label <= Win(now')
    BY <1>0 DEF IInv, AgentInv, ClockInv, Present
  <2>2. \A p \in Procs : stamp'[p] <= now'
    BY <1>0, ClockTypes
  <2>. QED BY <1>2, <2>1, <2>2 DEF ClockInv, IsOpen
<1>. QED BY <1>1, <1>3, <1>4, <1>5 DEF AgentInv

(* A damaged catalog misses all ranges, or none.                             *)
LEMMA DamageKeeps ==
    ASSUME OneHandle, IInv, DamageCatalog
    PROVE  DiskInv' /\ AgentInv'
<1>. TypeInv /\ StoreTypes /\ AgentTypes
  BY TypeParts DEF IInv
<1>0. /\ UNCHANGED <<now, phase, rows, head, active, lock, pc, job, callVars>>
      /\ \A h \in Handles : pc[h] = "closed"
      /\ "damage" \in Outages
  BY DEF DamageCatalog, fileVars, handleVars
<1>1. /\ \A n \in Names : FirstVersion(n)' = FirstVersion(n)
      /\ \A n \in Names : Present(n)' <=> Present(n)
  BY <1>0 DEF FirstVersion, Present
<1>2. /\ \A n \in Names : catalog[n] = Null => catalog'[n] = Null
      /\ \A n \in Names : catalog'[n] # Null =>
            /\ catalog[n] # Null
            /\ catalog'[n].first_version = catalog[n].first_version
            /\ catalog'[n].last_version = Null /\ ~catalog'[n].sealed
      /\ DOMAIN catalog' = Names
  BY DEF DamageCatalog, EmptyCatalog, ActiveRange
<1>3. FilesInv' /\ ChainInv'
  BY <1>0, <1>1, <1>2 DEF IInv, DiskInv, FilesInv, FileHolds, ChainInv
<1>4. RangeInv'
  BY <1>0, <1>1, <1>2 DEF IInv, DiskInv, RangeInv
<1>5. catalog' = EmptyCatalog(Names) \/ \A n \in Names : catalog[n] # Null => catalog'[n] # Null
  <2>1. ASSUME NEW n \in Names, catalog[n] # Null
        PROVE  ActiveRange(catalog[n].first_version) # Null
    <3>1. catalog[n].first_version \in Int
      BY <2>1 DEF StoreTypes, EventFileRange
    <3>2. ActiveRange(catalog[n].first_version) \in EventFileRange
      BY <3>1 DEF ActiveRange, EventFileRange
    <3>. QED BY <3>2, NullIsNoRecord
  <2>. QED BY <2>1 DEF DamageCatalog
<1>6. AllInCatalog' \/ catalog' = EmptyCatalog(Names)
  <2>. SUFFICES ASSUME catalog' # EmptyCatalog(Names) PROVE AllInCatalog'
    OBVIOUS
  <2>1. \A n \in Names : catalog[n] # Null => catalog'[n] # Null
    BY <1>5
  <2>2. CASE Handles = {}
    BY <2>2 DEF OneHandle
  <2>3. CASE AllInCatalog
    BY <1>1, <2>1, <2>3 DEF AllInCatalog
  <2>4. CASE catalog = EmptyCatalog(Names)
    <3>1. catalog' = EmptyCatalog(Names)
      BY <2>4 DEF DamageCatalog, EmptyCatalog
    <3>. QED BY <3>1
  <2>5. \A h \in Handles : ~IsOpen(h)
    BY <1>0 DEF IsOpen
  <2>. QED BY <1>0, <2>2, <2>3, <2>4, <2>5 DEF IInv, AgentInv, SettledInv
<1>7. CatalogInv'
  <2>. SUFFICES ASSUME NEW n \in Names, UnsealedRanges(catalog') = {n}
                PROVE  Newest(n)' /\ AllInCatalog'
    BY DEF CatalogInv
  <2>1. catalog'[n] # Null /\ \A m \in Names : catalog'[m] # Null => m = n
    BY <1>2 DEF UnsealedRanges
  <2>2. AllInCatalog'
    BY <1>6, <2>1 DEF EmptyCatalog
  <2>3. Present(n)'
    BY <1>1, <1>2, <2>1 DEF IInv, DiskInv, RangeInv, FilesInv, FileHolds
  <2>4. \A m \in Names : Present(m)' => m = n
    BY <2>1, <2>2 DEF AllInCatalog
  <2>. QED BY <2>2, <2>3, <2>4 DEF Newest
<1>8. SettledInv'
  BY <1>6 DEF SettledInv
<1>9. \A a \in Agents : pc[a] \notin RotationSteps
  BY <1>0, OpensAlone DEF RotationSteps, OneHandle
<1>10. OpenInv' /\ TargetInv' /\ RotatesAlone'
  BY <1>0, <1>9 DEF OpenInv, IsOpen, TargetInv, RotatesAlone, Agents
<1>11. ClockInv'
  <2>1. UNCHANGED <<stamp, handle>>
    BY <1>0 DEF callVars
  <2>2. \A n \in Names : Present(n)' => n.label <= Win(now')
    BY <1>0, <1>1 DEF IInv, AgentInv, ClockInv
  <2>3. \A a \in Agents : pc'[a] \notin RotationSteps
    BY <1>0, <1>9
  <2>4. \A p \in Procs : /\ stamp'[p] <= now'
                         /\ pc'[p] \in {"window", "rotate"} => active'[handle'[p]].start <= Win(stamp'[p])
    BY <1>0, <2>1 DEF IInv, AgentInv, ClockInv
  <2>. QED BY <1>0, <2>2, <2>3, <2>4 DEF ClockInv, IsOpen, Agents
<1>. QED BY <1>3, <1>4, <1>7, <1>8, <1>10, <1>11 DEF DiskInv, AgentInv

LEMMA RestartInit == Init => IInv
<1>. SUFFICES ASSUME Init PROVE IInv
  OBVIOUS
<1>1. TypeInv /\ NothingOpen
  BY TypeInit DEF Init, NothingOpen
<1>2. \A n \in Names : ~Present(n) /\ head[n] = Null /\ rows[n] = {} /\ catalog[n] = Null
  BY DEF Init, Present, EmptyCatalog
<1>3. catalog = EmptyCatalog(Names) /\ UnsealedRanges(catalog) = {}
  BY DEF Init, EmptyCatalog, UnsealedRanges
<1>4. DiskInv
  BY <1>2, <1>3 DEF DiskInv, FilesInv, FileHolds, ChainInv, RangeInv, CatalogInv
<1>5. \A a \in Agents : pc[a] \notin RotationSteps \cup {"open", "new", "window", "rotate"}
  BY DEF Init, RotationSteps
<1>6. SettledInv /\ OpenInv /\ TargetInv /\ RotatesAlone
  BY <1>3, <1>5 DEF SettledInv, OpenInv, IsOpen, TargetInv, RotatesAlone, Agents
<1>7. ClockInv
  <2>1. \A p \in Procs : stamp[p] <= now
    BY DEF Init
  <2>2. \A p \in Procs : pc[p] \notin RotationSteps \cup {"window", "rotate"}
    BY <1>5 DEF Agents
  <2>3. \A h \in Handles : pc[h] # "open"
    BY <1>5 DEF Agents
  <2>. QED BY <1>2, <1>5, <2>1, <2>2, <2>3 DEF ClockInv, IsOpen
<1>. QED BY <1>1, <1>4, <1>6, <1>7 DEF IInv, AgentInv

LEMMA CreationKeeps ==
    ASSUME OneHandle, RotationsGoOnward, IInv, NEW a \in Agents, CreationStep(a)
    PROVE  DiskInv' /\ AgentInv'
<1>1. ~HeadIsLocked(a)
  <2>1. pc[a] \in RotationSteps => job[a].name \in Names
    BY DEF IInv, TypeInv, StepFacts, Job
  <2>. QED BY <2>1 DEF HeadIsLocked, IInv, NothingOpen, RotationSteps
<1>. QED BY <1>1, SchemaKeeps, InitHeadKeeps, AddRangeKeeps DEF CreationStep

LEMMA OpenKeeps ==
    ASSUME OneHandle, RotationsGoOnward, IInv, TypeInv', NothingOpen', NEW h \in Handles,
           OpenPartitioned(h) \/ OpenStep(h)
    PROVE  IInv'
<1>. h \in Agents
  BY DEF Agents
<1>1. CASE QuietActions(h)
  BY <1>1, QuietActionsAreQuiet, QuietKeeps
<1>2. CASE UseCatalog(h) \/ RebuildEventFileRanges(h) \/ CreateNewActivePartition(h) \/ CreationStep(h)
  BY <1>2, UseCatalogKeeps, RebuildKeeps, NewPartitionKeeps, CreationKeeps DEF IInv
<1>. QED BY <1>1, <1>2 DEF OpenStep, QuietActions

LEMMA CallKeeps ==
    ASSUME OneHandle, RotationsGoOnward, IInv, TypeInv', NothingOpen', NEW p \in Procs,
           Invoke(p) \/ AppendStep(p)
    PROVE  IInv'
<1>. p \in Agents
  BY DEF Agents
<1>1. CASE QuietActions(p)
  BY <1>1, QuietActionsAreQuiet, QuietKeeps
<1>2. CASE RotatePartition(p) \/ SealActiveRange(p) \/ CreationStep(p) \/ AppendCommits(p)
  BY <1>2, RotatePartitionKeeps, SealKeeps, CreationKeeps, AppendKeeps DEF IInv
<1>. QED BY <1>1, <1>2 DEF AppendStep, QuietActions

LEMMA RestartStep ==
    ASSUME Restartable
    PROVE  IInv /\ [Next]_vars => IInv'
<1>. SUFFICES ASSUME IInv, [Next]_vars PROVE IInv'
  OBVIOUS
<1>0. TypeInv' /\ NothingOpen' /\ OneHandle /\ Undisturbed /\ RotationsGoOnward
  BY TypeStep, NothingOpens DEF IInv, Restartable, Undisturbed
<1>1. ASSUME NEW h \in Handles, OpenPartitioned(h) \/ OpenStep(h) PROVE IInv'
  BY <1>0, <1>1, OpenKeeps
<1>2. ASSUME NEW p \in Procs, Invoke(p) \/ AppendStep(p) PROVE IInv'
  BY <1>0, <1>2, CallKeeps
<1>3. CASE Tick \/ UNCHANGED vars
  BY <1>0, <1>3, TickIsQuiet, QuietKeeps
<1>4. CASE Crash \/ Shutdown \/ DamageCatalog
  BY <1>0, <1>4, EndKeeps, DamageKeeps DEF IInv
<1>5. /\ \A a \in Agents : ~Fault(a)
      /\ \A p \in Procs : ~AbandonAppend(p)
      /\ \A n \in Names : ~AbandonedRollsBack(n)
  BY <1>0 DEF Fault, AbandonAppend, AbandonedRollsBack, Undisturbed, IInv, TypeInv, TypeOK,
     NothingOpen
<1>. QED BY <1>1, <1>2, <1>3, <1>4, <1>5 DEF Next

LEMMA RestartHolds ==
    ASSUME Restartable
    PROVE  Spec => []IInv
BY RestartInit, RestartStep, PTL DEF Spec

-----------------------------------------------------------------------------
(* What the partition promises across restarts                               *)

(* When rotations go onward: one caller, and windows of whole minutes, hours *)
(* or days, as their labels count; or all of it within the first window.     *)
LEMMA OneCallerGoesOnward ==
    ASSUME \A p, q \in Procs : p = q, Window % LabelUnit(Window) = 0
    PROVE  RotationsGoOnward
BY LabelIsExact, EventStreamAssumption DEF RotationsGoOnward, Win

LEMMA OneWindowGoesOnward ==
    ASSUME MaxClock < Window
    PROVE  RotationsGoOnward
<1>1. \A t \in 0..MaxClock : Win(t) = 0
  BY FloorInFirstWindow, EventStreamAssumption DEF Win
<1>2. LabelFor(0, Window) = 0
  <2>1. LabelUnit(Window) \in Nat \ {0}
    BY UnitIsPositive, EventStreamAssumption
  <2>. QED BY <2>1, FloorInFirstWindow DEF LabelFor
<1>. QED BY <1>1, <1>2 DEF RotationsGoOnward

\* Of the files of a set one comes last.
LEMMA LastOfNames ==
    ASSUME NEW S \in SUBSET Names, S # {}, NEW bound \in Int, \A n \in S : n.label <= bound
    PROVE  \E n \in S : \A m \in S : m = n \/ NameBefore(m, n)
<1>0. /\ \A n \in Names : n.label \in Int /\ n.ordinal \in 0..MaxOverflowOrdinal
      /\ MaxOverflowOrdinal \in Nat
  BY NamesParse, RotationAssumption DEF ParsePartitionName
<1>. DEFINE D == {bound - n.label : n \in S}
<1>1. D \in SUBSET Nat /\ D # {}
  BY <1>0
<1>2. PICK last \in S : \A m \in S : m.label <= last.label
  <2>1. Min(D) \in D /\ \A d \in D : Min(D) <= d
    BY <1>1, MinOfNats
  <2>2. PICK n \in S : Min(D) = bound - n.label
    BY <2>1
  <2>3. \A m \in S : bound - n.label <= bound - m.label
    BY <2>1, <2>2
  <2>. QED BY <1>0, <2>3
<1>. DEFINE T == {n \in S : n.label = last.label}
            E == {MaxOverflowOrdinal - n.ordinal : n \in T}
<1>3. E \in SUBSET Nat /\ E # {}
  BY <1>0
<1>4. PICK n \in T : \A m \in T : m.ordinal <= n.ordinal
  <2>1. Min(E) \in E /\ \A e \in E : Min(E) <= e
    BY <1>3, MinOfNats
  <2>2. PICK n \in T : Min(E) = MaxOverflowOrdinal - n.ordinal
    BY <2>1
  <2>3. \A m \in T : MaxOverflowOrdinal - n.ordinal <= MaxOverflowOrdinal - m.ordinal
    BY <2>1, <2>2
  <2>. QED BY <1>0, <2>3
<1>5. ASSUME NEW m \in S, m # n PROVE NameBefore(m, n)
  <2>1. ~NameBefore(n, m)
    BY <1>0, <1>2, <1>4 DEF NameBefore
  <2>. QED BY <1>5, <2>1, NamesOrdered
<1>. QED BY <1>5

\* A head that no other exceeds counts everything.
LEMMA HighestHeadCounts ==
    ASSUME FilesInv, NEW k \in Names, head[k] \in Nat,
           \A m \in Names : rows[m] # {} => head[m] \in 0 .. head[k]
    PROVE  AllVersions = 1 .. head[k] /\ StreamVersion = head[k]
<1>1. head[k] # Null
  BY NullIsNoRecord
<1>2. \A v \in 1 .. head[k] : \E m \in Names : v \in rows[m]
  BY <1>1 DEF FilesInv, FileHolds
<1>3. ASSUME NEW m \in Names, NEW v \in rows[m] PROVE v \in 1 .. head[k]
  <2>1. head[m] \in 0 .. head[k] /\ head[m] # Null
    BY NullIsNoRecord
  <2>2. FirstVersion(m) \in 1 .. head[m] + 1 /\ rows[m] = FirstVersion(m) .. head[m]
    BY <2>1 DEF FilesInv, FileHolds
  <2>. QED BY <2>1, <2>2
<1>4. AllVersions = 1 .. head[k]
  BY <1>2, <1>3 DEF AllVersions
<1>5. StreamVersion = head[k]
  <2>1. head[k] \in AllVersions \cup {0} /\ \A w \in AllVersions : w <= head[k]
    BY <1>4
  <2>2. \A v \in AllVersions \cup {0} : (\A w \in AllVersions : w <= v) => v = head[k]
    BY <1>4
  <2>. QED BY <2>1, <2>2 DEF StreamVersion
<1>. QED BY <1>4, <1>5

\* An earlier file ends before a later one starts.
LEMMA HeadsAscend ==
    ASSUME TypeInv, DiskInv, NEW m \in Names, NEW n \in Names,
           NameBefore(m, n), head[m] # Null, head[n] # Null
    PROVE  head[m] < FirstVersion(n) /\ head[m] \in 0 .. head[n]
<1>1. head[m] \in Nat /\ head[n] \in Nat
  BY DEF TypeInv, TypeOK
<1>2. Present(m) /\ Present(n) /\ FirstVersion(n) \in 1 .. head[n] + 1
  BY DEF DiskInv, FilesInv, FileHolds
<1>3. head[m] < FirstVersion(n)
  BY <1>2 DEF DiskInv, ChainInv
<1>. QED BY <1>1, <1>2, <1>3

LEMMA ActiveHeadIsHighest ==
    ASSUME OneHandle, IInv, NEW h \in Handles, IsOpen(h)
    PROVE  LET k == active[h].name
           IN  /\ k \in Names /\ head[k] \in Nat
               /\ \A m \in Names : rows[m] # {} => head[m] \in 0 .. head[k] /\ catalog[m] # Null
<1>. TypeInv /\ StoreTypes /\ AgentTypes
  BY TypeParts DEF IInv
<1>. DEFINE k == active[h].name
<1>1. k \in Names /\ head[k] \in Nat
  BY DEF AgentTypes, StepFacts, ActivePartition, StoreTypes, IInv, AgentInv, OpenInv
<1>2. \A m \in Names : rows[m] # {} => head[m] # Null /\ Present(m)
  BY DEF IInv, DiskInv, FilesInv, FileHolds
<1>3. CASE ~Rotating
  <2>1. Newest(k) /\ AllInCatalog
    BY <1>1, <1>3 DEF IInv, AgentInv, OpenInv, DiskInv, CatalogInv
  <2>2. \A m \in Names : rows[m] # {} => m = k \/ NameBefore(m, k)
    BY <1>2, <2>1 DEF Newest
  <2>3. \A m \in Names : rows[m] # {} => head[m] \in 0 .. head[k]
    BY <1>1, <1>2, <2>2, HeadsAscend, NullIsNoRecord DEF IInv
  <2>. QED BY <1>1, <1>2, <2>1, <2>3 DEF AllInCatalog
<1>4. CASE Rotating
  <2>1. PICK p \in Procs : pc[p] \in RotationSteps /\ pc[p] # "seal"
    BY <1>4 DEF Rotating
  <2>2. TargetHolds(p) /\ h = handle[p]
    BY <2>1, CreatesAlone DEF Agents
  <2>3. head[k] = job[p].head
    BY <2>1, <2>2 DEF IInv, AgentInv, RotatesAlone
  <2>4. \A m \in Names : rows[m] # {} => m # job[p].name
    BY <2>2 DEF TargetHolds
  <2>. QED BY <1>1, <1>2, <2>1, <2>2, <2>3, <2>4 DEF TargetHolds
<1>. QED BY <1>3, <1>4

(* No version is given twice, by this process and those before it: wherever  *)
(* the process ended, and whatever became of the catalog, the next one       *)
(* continues behind the last committed event (rebuild_event_file_ranges,     *)
(* rotate_partition).                                                        *)
THEOREM VersionsStayUnique ==
    ASSUME Restartable
    PROVE  Spec => []VersionsUnique
<1>1. ASSUME IInv PROVE VersionsUnique
  <2>1. ASSUME NEW m \in Names, NEW n \in Names, NameBefore(m, n)
        PROVE  rows[m] \cap rows[n] = {}
    <3>1. CASE rows[m] # {} /\ rows[n] # {}
      <4>1. head[m] # Null /\ head[n] # Null
        BY <1>1, <3>1 DEF IInv, DiskInv, FilesInv, FileHolds
      <4>2. head[m] < FirstVersion(n) /\ head[m] \in 0 .. head[n]
        BY <1>1, <2>1, <4>1, HeadsAscend DEF IInv
      <4>3. /\ rows[m] = FirstVersion(m) .. head[m] /\ FirstVersion(m) \in 1 .. head[m] + 1
            /\ rows[n] = FirstVersion(n) .. head[n] /\ FirstVersion(n) \in 1 .. head[n] + 1
        BY <1>1, <4>1 DEF IInv, DiskInv, FilesInv, FileHolds
      <4>4. head[m] \in Nat /\ head[n] \in Nat
        BY <1>1, <4>1 DEF IInv, TypeInv, TypeOK
      <4>. QED BY <4>2, <4>3, <4>4
    <3>2. CASE rows[m] = {} \/ rows[n] = {}
      BY <3>2
    <3>. QED BY <3>1, <3>2
  <2>. QED BY <2>1, NamesOrdered DEF VersionsUnique
<1>. QED BY <1>1, RestartHolds, PTL

(* Nor is one left out, at any point of a rotation or of a recovery.         *)
THEOREM VersionsStayGapless ==
    ASSUME Restartable
    PROVE  Spec => []Gapless
<1>1. ASSUME IInv PROVE Gapless
  <2>. DEFINE S == {n \in Names : head[n] # Null}
  <2>1. CASE S = {}
    <3>1. AllVersions = {}
      BY <1>1, <2>1 DEF IInv, DiskInv, FilesInv, FileHolds, AllVersions
    <3>2. StreamVersion = 0
      BY <3>1 DEF StreamVersion
    <3>. QED BY <3>1, <3>2 DEF Gapless
  <2>2. CASE S # {}
    <3>1. Win(now) \in Int /\ \A n \in S : n.label <= Win(now)
      BY <1>1, ClockTypes, WindowFacts
         DEF IInv, AgentInv, ClockInv, DiskInv, FilesInv, FileHolds
    <3>2. PICK k \in S : \A m \in S : m = k \/ NameBefore(m, k)
      BY <2>2, <3>1, LastOfNames
    <3>3. head[k] \in Nat
      BY <1>1 DEF IInv, TypeInv, TypeOK
    <3>4. \A m \in Names : rows[m] # {} => head[m] \in 0 .. head[k]
      <4>1. \A m \in Names : rows[m] # {} => m \in S
        BY <1>1 DEF IInv, DiskInv, FilesInv, FileHolds
      <4>. QED BY <1>1, <3>2, <3>3, <4>1, HeadsAscend DEF IInv
    <3>. QED BY <1>1, <3>3, <3>4, HighestHeadCounts DEF Gapless, IInv, DiskInv
  <2>. QED BY <2>1, <2>2
<1>. QED BY <1>1, RestartHolds, PTL

(* current_version is the version of the last event of the whole partition,  *)
(* whichever file the opening or the last rotation made the active one.      *)
THEOREM CurrentVersionStaysLast ==
    ASSUME Restartable
    PROVE  Spec => []CurrentVersionIsLast
<1>0. OneHandle
  BY DEF Restartable
<1>1. ASSUME IInv PROVE CurrentVersionIsLast
  <2>. SUFFICES ASSUME NEW h \in Handles, IsOpen(h) PROVE CurrentVersions(h) = {StreamVersion}
    BY DEF CurrentVersionIsLast
  <2>1. head[active[h].name] = StreamVersion
    BY <1>0, <1>1, ActiveHeadIsHighest, HighestHeadCounts DEF IInv, DiskInv
  <2>2. active[h].name \in Names
    BY <1>1 DEF IInv, TypeInv, StepFacts, ActivePartition
  <2>. QED BY <1>1, <2>1, <2>2, HeadsAreCommitted DEF CurrentVersions, IInv
<1>. QED BY <1>1, RestartHolds, PTL

(* Each range says exactly which versions its file holds, in the middle of a *)
(* rotation, after a crash there, and once a damaged catalog is rebuilt.     *)
THEOREM RangesStayTrue ==
    ASSUME Restartable
    PROVE  Spec => []RangesDescribeFiles
<1>1. ASSUME IInv PROVE RangesDescribeFiles
  <2>. SUFFICES ASSUME NEW n \in Names, catalog[n] # Null
                PROVE  rows[n] = catalog[n].first_version ..
                            (IF catalog[n].sealed THEN catalog[n].last_version ELSE head[n])
    BY DEF RangesDescribeFiles
  <2>1. /\ head[n] # Null
        /\ catalog[n].first_version = FirstVersion(n)
        /\ catalog[n].sealed => catalog[n].last_version = head[n]
    BY <1>1 DEF IInv, DiskInv, RangeInv
  <2>2. rows[n] = FirstVersion(n) .. head[n]
    BY <1>1, <2>1 DEF IInv, DiskInv, FilesInv, FileHolds
  <2>. QED BY <2>1, <2>2
<1>. QED BY <1>1, RestartHolds, PTL

(* load_after_version consults the file of every committed event, from       *)
(* whatever cursor before it and however often files were replaced.          *)
THEOREM CommittedStaysReachable ==
    ASSUME Restartable
    PROVE  Spec => []CommittedIsReachable
<1>0. OneHandle
  BY DEF Restartable
<1>1. ASSUME IInv PROVE CommittedIsReachable
  <2>. SUFFICES ASSUME NEW h \in Handles, IsOpen(h), NEW n \in Names, NEW v \in rows[n]
                PROVE  n \in GetEventFileRangesAfterVersion(catalog, v - 1)
    BY DEF CommittedIsReachable
  <2>1. catalog[n] # Null
    BY <1>0, <1>1, ActiveHeadIsHighest
  <2>2. head[n] # Null /\ rows[n] = FirstVersion(n) .. head[n]
        /\ FirstVersion(n) \in 1 .. head[n] + 1
    BY <1>1 DEF IInv, DiskInv, FilesInv, FileHolds
  <2>3. head[n] \in Nat /\ DOMAIN catalog = Names
    BY <1>1, <2>2 DEF IInv, TypeInv, TypeOK
  <2>4. v \in Int /\ v - 1 < head[n]
    BY <2>2, <2>3
  <2>5. catalog[n].last_version = Null \/ catalog[n].last_version = head[n]
    BY <1>1, <2>1 DEF IInv, DiskInv, RangeInv
  <2>. QED BY <2>1, <2>3, <2>4, <2>5 DEF GetEventFileRangesAfterVersion
<1>. QED BY <1>1, RestartHolds, PTL

(* Unless a rotation is under way the catalog's one unsealed range is the    *)
(* file that appends go to; a crash may leave none, and opening mends that.  *)
THEOREM OneRangeStaysUnsealed ==
    ASSUME Restartable
    PROVE  Spec => []OneUnsealedRange
<1>0. OneHandle
  BY DEF Restartable
<1>1. ASSUME IInv PROVE OneUnsealedRange
  <2>. SUFFICES ASSUME NEW h \in Handles, IsOpen(h), Unlocked(h)
                PROVE  UnsealedRanges(catalog) = {active[h].name}
    BY DEF OneUnsealedRange
  <2>1. \A p \in Procs : pc[p] \notin RotationSteps
    <3>1. \A p \in Procs : p # h
      BY EventStreamAssumption
    <3>. QED BY <1>0, <1>1, <3>1, UnlockedIsQuiet DEF Agents
  <2>2. ~Rotating
    BY <2>1 DEF Rotating
  <2>. QED BY <1>1, <2>2 DEF IInv, AgentInv, OpenInv
<1>. QED BY <1>1, RestartHolds, PTL

(* A rotation never reuses a file, so its upserts of the append head and of  *)
(* the range overwrite nothing.                                              *)
THEOREM RotationsCreateFiles ==
    ASSUME Restartable
    PROVE  Spec => []RotationTargetIsNew
<1>1. ASSUME IInv PROVE RotationTargetIsNew
  <2>. SUFFICES ASSUME NEW p \in Procs, pc[p] = "create" PROVE phase[job[p].name] = "absent"
    BY DEF RotationTargetIsNew
  <2>1. TargetHolds(p)
    BY <1>1 DEF IInv, AgentInv, TargetInv, RotationSteps, Agents
  <2>. QED BY <2>1 DEF TargetHolds, Present
<1>. QED BY <1>1, RestartHolds, PTL

(* Events only ever go to a file whose range is unsealed: no append, decided *)
(* before a rotation or a restart, is carried out after it in the old file.  *)
THEOREM SealedFilesStay ==
    ASSUME Restartable
    PROVE  Spec => SealedFilesDoNotGrow
<1>. DEFINE Kept == \A n \in Names : catalog[n] # Null /\ rows'[n] # rows[n] => ~catalog[n].sealed
<1>0. OneHandle
  BY DEF Restartable
<1>1. IInv /\ [Next]_vars => [Kept]_vars
  <2>. SUFFICES ASSUME IInv, Next, NEW n \in Names, catalog[n] # Null, rows'[n] # rows[n]
                PROVE  ~catalog[n].sealed
    OBVIOUS
  <2>1. rows' # rows
    OBVIOUS
  <2>2. PICK p \in Procs : AppendCommits(p)
    BY <2>1 DEF Next, Tick, Crash, Shutdown, EndProcess, DamageCatalog, Fault, AbandonAppend,
         AbandonedRollsBack, OpenPartitioned, OpenStep, ApplyCatalogSchema,
         RecordCatalogMigration, UseCatalog, RebuildEventFileRanges,
         SurveyFails, CreateNewActivePartition, CreationStep, CreateFile, ApplySchema,
         RecordMigration, InitializeEventFileAppendHead, HeadIsLocked, AddRange, Invoke,
         AppendStep, MaybeRotate,
         SampleRotationClock, ReturnEmptyBatch, RejectEvents, SampleClock, RotateUntilCurrentWindow,
         RotatePartition, SealActiveRange, AppendFails, AppendConflicts, fileVars
  <2>3. pc[p] = "commit" /\ Unlocked(handle[p]) /\ p \in Agents /\ handle[p] \in Handles
    BY <2>2 DEF AppendCommits, AtTransaction, Writable, Agents, IInv, TypeInv, TypeOK
  <2>4. \A q \in Procs : pc[q] \notin RotationSteps
    <3>1. \A q \in Procs : q # handle[p]
      BY <2>3, EventStreamAssumption
    <3>. QED BY <1>0, <2>3, <3>1, UnlockedIsQuiet DEF Agents
  <2>5. /\ UnsealedRanges(catalog) = {active[handle[p]].name}
        /\ ~catalog[active[handle[p]].name].sealed
    BY <1>0, <2>3, <2>4, WriterFindsNewest
  <2>6. n = active[handle[p]].name
    BY <2>2 DEF AppendCommits, ActiveFile, IInv, TypeInv, TypeOK
  <2>. QED BY <2>5, <2>6
<1>2. Spec => [][Kept]_vars
  BY <1>1, RestartHolds, PTL DEF Spec
<1>. QED BY <1>2 DEF SealedFilesDoNotGrow

(* Callers cannot tell the partition from one log that outlives the process: *)
(* a crash, an orderly end or the loss of the catalog forgets calls, never   *)
(* an event, and every append that returned took effect, or was rightly      *)
(* refused, at one instant at the version its caller expected.               *)
THEOREM StreamStaysOneLog ==
    ASSUME Restartable
    PROVE  Spec => IsOneLog
<1>1. Spec => [](TypeInv /\ Gapless /\ CurrentVersionIsLast)
  <2>1. IInv => TypeInv
    BY DEF IInv
  <2>. QED BY <2>1, RestartHolds, VersionsStayGapless, CurrentVersionStaysLast, PTL
<1>2. Spec => []CallFacts
  BY <1>1, InitImplemented, CallStep, PTL DEF Spec
<1>3. Init => Log!Init
  BY InitImplemented
<1>. QED BY <1>1, <1>2, <1>3, StepImplemented, PTL DEF Spec, IsOneLog, Log!Spec
=============================================================================
