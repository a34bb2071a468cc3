-------------------------- MODULE EventStreamProofs --------------------------
(* Theorems about EventStream, for every value of its constants.             *)
EXTENDS EventStream, WellFoundedInduction, TLAPS

-----------------------------------------------------------------------------
(* Arithmetic and naming *)

(* A non-empty set of versions has a first one (read_first_event_version).   *)
LEMMA MinOfNats ==
    ASSUME NEW S \in SUBSET Nat, S # {}
    PROVE  Min(S) \in S /\ \A v \in S : Min(S) <= v
<1>1. \E x \in S : \A y \in S : <<y, x>> \notin OpToRel(<, Nat)
  BY WFMin, NatLessThanWellFounded, Zenon
<1>2. PICK x \in S : \A y \in S : ~(y < x)
  BY <1>1 DEF OpToRel
<1>3. \A y \in S : x <= y
  BY <1>2
<1>. QED BY <1>3 DEF Min

(* Windows and labels start at a point in time, for every clock value.       *)
LEMMA FloorIsInt ==
    ASSUME NEW t \in Int, NEW w \in Nat \ {0}
    PROVE  FloorToWindowMs(t, w) \in Int
<1>1. t \div w \in Int  OBVIOUS
<1>2. \A q \in Int : q * w \in Int  OBVIOUS
<1>. QED BY <1>1, <1>2 DEF FloorToWindowMs

LEMMA LabelIsInt ==
    ASSUME NEW start \in Int
    PROVE  LabelFor(start, Window) \in Int
<1>1. LabelUnit(Window) \in Nat \ {0}
  BY RotationAssumption DEF LabelUnit
<1>. QED BY <1>1, FloorIsInt DEF LabelFor

LEMMA WindowIsInt ==
    ASSUME NEW t \in 0..MaxClock
    PROVE  FloorToWindowMs(t, Window) \in Int
<1>1. t \in Int  BY EventStreamAssumption
<1>. QED BY <1>1, FloorIsInt, EventStreamAssumption

(* A name parses to a start and an ordinal within bounds.                    *)
LEMMA NamesParse ==
    ASSUME NEW n \in Names
    PROVE  /\ ParsePartitionName(n).start \in Int
           /\ ParsePartitionName(n).ordinal \in 0..MaxOverflowOrdinal
<1>1. \A start \in WindowStarts : LabelFor(start, Window) \in Int
  BY WindowIsInt, LabelIsInt DEF WindowStarts
<1>. QED BY <1>1 DEF Names, ParsePartitionName

(* What is generated for a window of the clock is one of the Names.          *)
LEMMA GeneratedIsName ==
    ASSUME NEW t \in 0..MaxClock, NEW ordinal \in 0..MaxOverflowOrdinal
    PROVE  GeneratePartitionName(FloorToWindowMs(t, Window), Window, ordinal) \in Names
BY DEF GeneratePartitionName, Names, WindowStarts

(* determine_new_partition_info returns an error or a usable file name.      *)
LEMMA NewPartitionInfo ==
    ASSUME NEW n \in Names, NEW start \in Int, NEW t \in 0..MaxClock
    PROVE  LET info == DetermineNewPartitionInfo(Window, start,
                            ParsePartitionName(n).ordinal, t)
           IN  info # Null => info.name \in Names /\ info.start \in Int
<1> DEFINE ordinal == ParsePartitionName(n).ordinal
           newStart == FloorToWindowMs(t, Window)
           next == IF newStart = start THEN GetNextOrdinal(ordinal) ELSE 0
<1>1. ordinal \in 0..MaxOverflowOrdinal
  BY NamesParse
<1>2. next = Null \/ next \in 0..MaxOverflowOrdinal
  BY <1>1, RotationAssumption DEF GetNextOrdinal
<1>3. newStart \in Int
  BY WindowIsInt
<1>4. ASSUME next \in 0..MaxOverflowOrdinal
      PROVE  GeneratePartitionName(newStart, Window, next) \in Names
  BY <1>4, GeneratedIsName
<1> HIDE DEF ordinal, newStart, next
<1>5. DetermineNewPartitionInfo(Window, start, ordinal, t) =
        IF next = Null THEN Null
        ELSE [name |-> GeneratePartitionName(newStart, Window, next), start |-> newStart]
  BY DEF DetermineNewPartitionInfo, next, newStart
<1>. QED BY <1>2, <1>3, <1>4, <1>5 DEF ordinal

-----------------------------------------------------------------------------
(* Types *)

(* What a program counter says about the locals of its agent: a caller only  *)
(* works through an open handle, and a rotation knows the file it creates.   *)
StepFacts ==
    /\ \A h \in Handles : pc[h] \in OpenSteps \cup (RotationSteps \ {"seal"})
    /\ \A p \in Procs : pc[p] \in {"idle"} \cup CallSteps \cup RotationSteps
    /\ \A a \in Agents : pc[a] \in RotationSteps => job[a] \in Job
    /\ \A h \in Handles : IsOpen(h) => active[h] \in ActivePartition
    /\ \A p \in Procs : pc[p] # "idle" => IsOpen(handle[p]) /\ call[p] \in Request

TypeInv == TypeOK /\ StepFacts

(* Null is none of the records it stands in for.                             *)
LEMMA NullIsNoRecord ==
    /\ Null \notin ActivePartition /\ Null \notin Job
    /\ Null \notin Request /\ Null \notin EventFileRange /\ Null \notin OpenTransaction
    /\ Null \notin Procs /\ Null \notin Nat
BY EventStreamAssumption, CatalogAssumption, RotationAssumption DEF Agents

\* TypeOK and StepFacts by what they are about: the store on disk, the agents.
StoreTypes ==
    /\ now \in 0..MaxClock
    /\ phase \in [Names -> Phases]
    /\ rows \in [Names -> SUBSET (Nat \ {0})]
    /\ head \in [Names -> Nat \cup {Null}]
    /\ abandoned \in [Names -> OpenTransaction \cup {Null}]
    /\ catalogPhase \in {"absent", "tables", "migrated"}
    /\ catalog \in [Names -> EventFileRange \cup {Null}]
    /\ {calls, faults, outages} \subseteq Nat

AgentTypes ==
    /\ active \in [Handles -> ActivePartition \cup {Null}]
    /\ lock \in [Handles -> Procs \cup {Null}]
    /\ pc \in [Agents -> {"idle"} \cup RotationSteps \cup CallSteps \cup OpenSteps]
    /\ job \in [Agents -> Job \cup {Null}]
    /\ handle \in [Procs -> Handles]
    /\ call \in [Procs -> Request \cup {Null}]
    /\ outcome \in [Procs -> {"none", "appended", "empty", "conflict", "error"}]
    /\ stamp \in [Procs -> 0..MaxClock]
    /\ resume \in [Procs -> {"begin", "window"}]
    /\ StepFacts

LEMMA TypeParts == TypeInv <=> StoreTypes /\ AgentTypes
BY DEF TypeInv, TypeOK, StoreTypes, AgentTypes

LEMMA TypePartsNext == TypeInv' <=> StoreTypes' /\ AgentTypes'
BY DEF TypeInv, TypeOK, StoreTypes, AgentTypes

(* Whatever an agent was running, returning from it leaves the agents typed. *)
LEMMA FinishTypes ==
    ASSUME AgentTypes, NEW a \in Agents,
           NEW result \in {"appended", "empty", "conflict", "error"},
           pc[a] # "open", Finish(a, result)
    PROVE  AgentTypes'
<1>1. Procs \cap Handles = {} /\ 0 \in 0..MaxClock
  BY EventStreamAssumption
<1>2. CASE a \in Handles
  BY <1>1, <1>2 DEF AgentTypes, StepFacts, Finish, Goto, DropGuards, Agents, IsOpen,
       OpenSteps, RotationSteps, CallSteps
<1>3. CASE a \in Procs
  <2>1. /\ pc' = [pc EXCEPT ![a] = "idle"]
        /\ job' = [job EXCEPT ![a] = Null]
        /\ UNCHANGED <<active, handle>>
        /\ lock' = [h \in Handles |-> IF lock[h] = a THEN Null ELSE lock[h]]
        /\ call' = [call EXCEPT ![a] = Null]
        /\ outcome' = [outcome EXCEPT ![a] = result]
        /\ stamp' = [stamp EXCEPT ![a] = 0]
        /\ resume' = [resume EXCEPT ![a] = "begin"]
    BY <1>1, <1>3 DEF Finish, Goto, DropGuards
  <2>2. StepFacts'
    BY <1>1, <1>3, <2>1 DEF AgentTypes, StepFacts, Agents, IsOpen, RotationSteps, CallSteps
  <2>. QED BY <1>1, <1>3, <2>1, <2>2 DEF AgentTypes
<1>. QED BY <1>2, <1>3 DEF Agents

LEMMA TypeInit == Init => TypeInv
<1>. SUFFICES ASSUME Init PROVE StoreTypes /\ AgentTypes
  BY TypeParts
<1>1. Procs \cap Handles = {} /\ 0 \in 0..MaxClock
  BY EventStreamAssumption
<1>2. StoreTypes
  BY <1>1 DEF Init, StoreTypes, Phases, EmptyCatalog
<1>3. AgentTypes
  BY <1>1 DEF Init, AgentTypes, StepFacts, Agents, IsOpen, OpenSteps, RotationSteps, CallSteps
<1>. QED BY <1>2, <1>3

(* Creating a file.                                                          *)
LEMMA CreationTypes ==
    ASSUME TypeInv, NEW a \in Agents, CreationStep(a)
    PROVE  TypeInv'
<1>. SUFFICES StoreTypes' /\ AgentTypes'
  BY TypePartsNext
<1>. StoreTypes /\ AgentTypes
  BY TypeParts
<1>. USE DEF fileVars, catalogVars, handleVars, callVars
<1>0. /\ Procs \cap Handles = {}
      /\ pc[a] \in RotationSteps => job[a] \in Job
      /\ job[a] \in Job => job[a].name \in Names /\ job[a].start \in Int /\ job[a].head \in Nat
  BY EventStreamAssumption DEF AgentTypes, StepFacts, Job
<1>1. CASE CreateFile(a)
  <2>1. StoreTypes'
    BY <1>0, <1>1 DEF CreateFile, StoreTypes, Phases, RotationSteps
  <2>2. AgentTypes'
    BY <1>0, <1>1 DEF CreateFile, AgentTypes, StepFacts, Goto, Agents, IsOpen,
         OpenSteps, RotationSteps, CallSteps
  <2>. QED BY <2>1, <2>2
<1>2. CASE ApplySchema(a)
  <2>1. StoreTypes'
    BY <1>0, <1>2 DEF ApplySchema, StoreTypes, Phases, RotationSteps, Finish
  <2>2. AgentTypes'
    <3>1. CASE phase[job[a].name] = "created"
      BY <1>0, <1>2, <3>1 DEF ApplySchema, AgentTypes, StepFacts, Goto, Agents, IsOpen,
           OpenSteps, RotationSteps, CallSteps
    <3>2. CASE phase[job[a].name] # "created"
      BY <1>2, <3>2, FinishTypes DEF ApplySchema
    <3>. QED BY <3>1, <3>2
  <2>. QED BY <2>1, <2>2
<1>3. CASE RecordMigration(a)
  <2>1. StoreTypes'
    BY <1>0, <1>3 DEF RecordMigration, StoreTypes, Phases, RotationSteps, Finish
  <2>2. AgentTypes'
    <3>1. CASE phase[job[a].name] = "tables"
      BY <1>0, <1>3, <3>1 DEF RecordMigration, AgentTypes, StepFacts, Goto, Agents, IsOpen,
           OpenSteps, RotationSteps, CallSteps
    <3>2. CASE phase[job[a].name] # "tables"
      BY <1>3, <3>2, FinishTypes DEF RecordMigration
    <3>. QED BY <3>1, <3>2
  <2>. QED BY <2>1, <2>2
<1>4. CASE InitializeEventFileAppendHead(a)
  <2>1. StoreTypes'
    BY <1>0, <1>4 DEF InitializeEventFileAppendHead, StoreTypes, RotationSteps
  <2>2. AgentTypes'
    BY <1>0, <1>4 DEF InitializeEventFileAppendHead, AgentTypes, StepFacts, Goto, Agents,
         IsOpen, OpenSteps, RotationSteps, CallSteps
  <2>. QED BY <2>1, <2>2
<1>4a. CASE HeadIsLocked(a)
  <2>1. StoreTypes'
    BY <1>4a DEF HeadIsLocked, StoreTypes, Finish
  <2>. QED BY <1>4a, <2>1, FinishTypes DEF HeadIsLocked
<1>5. CASE AddRange(a)
  <2>0. job[a] \in Job
    BY <1>0, <1>5 DEF AddRange, RotationSteps
  <2>1. StoreTypes'
    <3>1. ActiveRange(job[a].head + 1) \in EventFileRange
      BY <1>0, <2>0 DEF ActiveRange, EventFileRange
    <3>. QED BY <1>0, <1>5, <2>0, <3>1 DEF AddRange, StoreTypes, CreateEventFileRange
  <2>2. [name |-> job[a].name, start |-> job[a].start] \in ActivePartition
    BY <1>0, <2>0 DEF ActivePartition
  <2>3. AgentTypes'
    BY <1>0, <1>5, <2>0, <2>2 DEF AddRange, AgentTypes, StepFacts, Goto, Agents, IsOpen,
         OpenSteps, RotationSteps, CallSteps, DropGuards, HandleOf
  <2>. QED BY <2>1, <2>3
<1>. QED BY <1>1, <1>2, <1>3, <1>4, <1>4a, <1>5 DEF CreationStep

(* Opening a handle.                                                         *)
LEMMA OpenTypes ==
    ASSUME TypeInv, NEW h \in Handles, OpenPartitioned(h) \/ OpenStep(h)
    PROVE  TypeInv'
<1>. SUFFICES StoreTypes' /\ AgentTypes'
  BY TypePartsNext
<1>. StoreTypes /\ AgentTypes
  BY TypeParts
<1>. USE DEF fileVars, catalogVars, handleVars, callVars
<1>0. Procs \cap Handles = {} /\ h \in Agents
  BY EventStreamAssumption DEF Agents
<1>1. CASE OpenPartitioned(h)
  <2>1. StoreTypes'
    BY <1>1 DEF OpenPartitioned, StoreTypes
  <2>2. AgentTypes'
    BY <1>0, <1>1 DEF OpenPartitioned, AgentTypes, StepFacts, Goto, Agents, IsOpen,
         OpenSteps, RotationSteps, CallSteps
  <2>. QED BY <2>1, <2>2
<1>2. CASE ApplyCatalogSchema(h)
  <2>1. StoreTypes'
    BY <1>2 DEF ApplyCatalogSchema, StoreTypes, Finish
  <2>2. AgentTypes'
    <3>1. CASE catalogPhase = "absent"
      BY <1>0, <1>2, <3>1 DEF ApplyCatalogSchema, AgentTypes, StepFacts, Goto, Agents,
           IsOpen, OpenSteps, RotationSteps, CallSteps
    <3>2. CASE catalogPhase # "absent"
      BY <1>0, <1>2, <3>2, FinishTypes DEF ApplyCatalogSchema
    <3>. QED BY <3>1, <3>2
  <2>. QED BY <2>1, <2>2
<1>3. CASE RecordCatalogMigration(h)
  <2>1. StoreTypes'
    BY <1>3 DEF RecordCatalogMigration, StoreTypes, Finish
  <2>2. AgentTypes'
    <3>1. CASE catalogPhase = "tables"
      BY <1>0, <1>3, <3>1 DEF RecordCatalogMigration, AgentTypes, StepFacts, Goto, Agents,
           IsOpen, OpenSteps, RotationSteps, CallSteps
    <3>2. CASE catalogPhase # "tables"
      BY <1>0, <1>3, <3>2, FinishTypes DEF RecordCatalogMigration
    <3>. QED BY <3>1, <3>2
  <2>. QED BY <2>1, <2>2
<1>4. ASSUME NEW n \in Names, Attach(h, n), pc[h] = "ranges", UNCHANGED callVars
      PROVE  AgentTypes'
  <2>1. [name |-> n, start |-> ParsePartitionName(n).start] \in ActivePartition
    BY NamesParse DEF ActivePartition
  <2>. QED BY <1>0, <1>4, <2>1 DEF Attach, AgentTypes, StepFacts, Goto, Agents, IsOpen,
         OpenSteps, RotationSteps, CallSteps
<1>5. CASE UseCatalog(h)
  <2>1. StoreTypes'
    BY <1>5 DEF UseCatalog, StoreTypes
  <2>. QED BY <1>4, <1>5, <2>1 DEF UseCatalog
<1>6. CASE RebuildEventFileRanges(h)
  <2>1. \A n \in PresentFiles : FirstVersion(n) \in Int
    BY <1>6, MinOfNats DEF RebuildEventFileRanges, PresentFiles, FirstVersion, StoreTypes
  <2>2. \A n, last \in PresentFiles : RebuiltRange(n, last) \in EventFileRange
    BY <1>6, <2>1 DEF RebuildEventFileRanges, PresentFiles, RebuiltRange, ActiveRange,
         EventFileRange, StoreTypes
  <2>3. catalog' \in [Names -> EventFileRange \cup {Null}]
    <3>1. CASE PresentFiles = {}
      BY <1>6, <3>1 DEF RebuildEventFileRanges, EmptyCatalog
    <3>2. CASE PresentFiles # {}
      <4>1. PICK last \in PresentFiles : catalog' = [n \in Names |->
                  IF n \in PresentFiles THEN RebuiltRange(n, last) ELSE Null]
        BY <1>6, <3>2 DEF RebuildEventFileRanges, ReplaceEventFileRanges, PresentFiles
      <4>. QED BY <2>2, <4>1
    <3>. QED BY <3>1, <3>2
  <2>4. StoreTypes'
    BY <1>6, <2>3 DEF RebuildEventFileRanges, StoreTypes
  <2>5. AgentTypes'
    <3>1. CASE PresentFiles = {}
      BY <1>0, <1>6, <3>1 DEF RebuildEventFileRanges, AgentTypes, StepFacts, Goto, Agents,
           IsOpen, OpenSteps, RotationSteps, CallSteps
    <3>2. CASE PresentFiles # {}
      BY <1>4, <1>6, <3>2 DEF RebuildEventFileRanges, PresentFiles
    <3>. QED BY <3>1, <3>2
  <2>. QED BY <2>4, <2>5
<1>7. CASE SurveyFails(h)
  <2>1. StoreTypes'
    BY <1>7 DEF SurveyFails, StoreTypes, Finish
  <2>. QED BY <1>0, <1>7, <2>1, FinishTypes DEF SurveyFails
<1>8. CASE CreateNewActivePartition(h)
  <2>1. StoreTypes'
    BY <1>8 DEF CreateNewActivePartition, StoreTypes
  <2>2. 0 \in 0..MaxOverflowOrdinal /\ now \in 0..MaxClock
    BY RotationAssumption DEF StoreTypes
  <2>3. job'[h] \in Job /\ job' = [job EXCEPT ![h] = job'[h]]
    BY <1>0, <1>8, <2>2, WindowIsInt, GeneratedIsName
       DEF CreateNewActivePartition, Job, AgentTypes
  <2>4. AgentTypes'
    BY <1>0, <1>8, <2>3 DEF CreateNewActivePartition, AgentTypes, StepFacts, Goto, Agents,
         IsOpen, OpenSteps, RotationSteps, CallSteps
  <2>. QED BY <2>1, <2>4
<1>9. CASE CreationStep(h)
  BY <1>0, <1>9, CreationTypes, TypePartsNext
<1>. QED
  BY <1>1, <1>2, <1>3, <1>5, <1>6, <1>7, <1>8, <1>9 DEF OpenStep

(* An append, up to its transaction.                                         *)
LEMMA AppendTypes ==
    ASSUME TypeInv, NEW p \in Procs, Invoke(p) \/ AppendStep(p)
    PROVE  TypeInv'
<1>. SUFFICES StoreTypes' /\ AgentTypes'
  BY TypePartsNext
<1>. StoreTypes /\ AgentTypes
  BY TypeParts
<1>. USE DEF fileVars, catalogVars, handleVars, callVars
<1>0. /\ Procs \cap Handles = {} /\ p \in Agents
      /\ handle[p] \in Handles
      /\ pc[p] # "idle" => /\ active[handle[p]] \in ActivePartition
                           /\ call[p] \in Request
  BY EventStreamAssumption DEF Agents, AgentTypes, StepFacts
<1>. DEFINE A == active[handle[p]]
<1>a. A \in ActivePartition => A.name \in Names /\ A.start \in Int
  BY DEF ActivePartition
<1>1. CASE Invoke(p)
  <2>1. StoreTypes'
    BY <1>1 DEF Invoke, StoreTypes
  <2>2. \A e \in Expectations, c \in BatchSizes : [expected |-> e, count |-> c] \in Request
    BY EventStreamAssumption DEF Request
  <2>3. PICK r \in Request : call' = [call EXCEPT ![p] = r]
    BY <1>1, <2>2 DEF Invoke
  <2>4. AgentTypes'
    BY <1>0, <1>1, <2>3 DEF Invoke, AgentTypes, StepFacts, Goto, Agents, IsOpen,
         OpenSteps, RotationSteps, CallSteps
  <2>. QED BY <2>1, <2>4
<1>2. CASE MaybeRotate(p)
  <2>1. StoreTypes'
    BY <1>2 DEF MaybeRotate, StoreTypes
  <2>2. PICK step \in {"clock", "begin"} : pc' = [pc EXCEPT ![p] = step]
    BY <1>2 DEF MaybeRotate, Goto
  <2>3. AgentTypes'
    BY <1>0, <1>2, <2>2 DEF MaybeRotate, AgentTypes, StepFacts, Goto, Agents, IsOpen,
         OpenSteps, RotationSteps, CallSteps
  <2>. QED BY <2>1, <2>3
<1>2a. CASE SampleRotationClock(p)
  <2>1. StoreTypes'
    BY <1>2a DEF SampleRotationClock, StoreTypes
  <2>2. AgentTypes'
    BY <1>0, <1>2a DEF SampleRotationClock, AgentTypes, StepFacts, Goto, Agents, IsOpen,
         OpenSteps, RotationSteps, CallSteps, StoreTypes
  <2>. QED BY <2>1, <2>2
<1>3. CASE ReturnEmptyBatch(p)
  <2>1. StoreTypes'
    BY <1>3 DEF ReturnEmptyBatch, StoreTypes, Finish
  <2>. QED BY <1>0, <1>3, <2>1, FinishTypes DEF ReturnEmptyBatch
<1>4. CASE RejectEvents(p)
  <2>1. StoreTypes'
    BY <1>4 DEF RejectEvents, StoreTypes, Finish
  <2>. QED BY <1>0, <1>4, <2>1, FinishTypes DEF RejectEvents
<1>5. CASE SampleClock(p)
  <2>1. StoreTypes'
    BY <1>5 DEF SampleClock, StoreTypes
  <2>2. AgentTypes'
    BY <1>0, <1>5 DEF SampleClock, AgentTypes, StepFacts, Goto, Agents, IsOpen,
         OpenSteps, RotationSteps, CallSteps, StoreTypes
  <2>. QED BY <2>1, <2>2
<1>6. CASE RotateUntilCurrentWindow(p)
  <2>1. StoreTypes'
    BY <1>6 DEF RotateUntilCurrentWindow, StoreTypes
  <2>2. pc' \in {[pc EXCEPT ![p] = "rotate"], [pc EXCEPT ![p] = "commit"]}
    BY <1>6 DEF RotateUntilCurrentWindow, Goto
  <2>3. AgentTypes'
    BY <1>0, <1>6, <2>2 DEF RotateUntilCurrentWindow, AgentTypes, StepFacts, Agents, IsOpen,
         OpenSteps, RotationSteps, CallSteps
  <2>. QED BY <2>1, <2>3
<1>7. CASE RotatePartition(p)
  <2>. DEFINE info == DetermineNewPartitionInfo(Window, A.start,
                          ParsePartitionName(A.name).ordinal, stamp[p])
  <2>1. StoreTypes'
    BY <1>7 DEF RotatePartition, StoreTypes, Finish
  <2>2. AgentTypes'
    <3>1. CASE info = Null \/ head[A.name] = Null
      BY <1>0, <1>7, <3>1, FinishTypes DEF RotatePartition
    <3>2. CASE info # Null /\ head[A.name] # Null
      <4>1. pc[p] = "rotate" /\ A.name \in Names /\ A.start \in Int
        BY <1>0, <1>a, <1>7 DEF RotatePartition
      <4>0. PICK seen \in HeadsSeen(handle[p], A.name) :
                job' = [job EXCEPT ![p] =
                          [name |-> info.name, start |-> info.start, head |-> seen]]
        BY <1>7, <3>2 DEF RotatePartition
      <4>. DEFINE new == [name |-> info.name, start |-> info.start, head |-> seen]
      <4>2. seen \in Nat /\ stamp[p] \in 0..MaxClock
        BY <3>2, <4>0, <4>1 DEF StoreTypes, AgentTypes, HeadsSeen, OpenTransaction
      <4>3. info.name \in Names /\ info.start \in Int
        BY <3>2, <4>1, <4>2, NewPartitionInfo
      <4>. HIDE DEF info
      <4>4. new \in Job
        BY <4>2, <4>3 DEF Job
      <4>5. /\ lock' = [lock EXCEPT ![handle[p]] = p]
            /\ job' = [job EXCEPT ![p] = new]
            /\ pc' = [pc EXCEPT ![p] = "seal"]
            /\ UNCHANGED <<active, callVars>>
        BY <1>7, <3>2, <4>0 DEF RotatePartition, Goto, info
      <4>. HIDE DEF new
      <4>. QED BY <1>0, <4>1, <4>4, <4>5 DEF AgentTypes, StepFacts, Agents, IsOpen,
             OpenSteps, RotationSteps, CallSteps
    <3>. QED BY <3>1, <3>2
  <2>. QED BY <2>1, <2>2
<1>8. CASE SealActiveRange(p)
  <2>1. job[p] \in Job /\ job[p].head \in Nat /\ A.name \in Names
    BY <1>0, <1>a, <1>8 DEF SealActiveRange, AgentTypes, StepFacts, RotationSteps, Job
  <2>2. catalog' \in [Names -> EventFileRange \cup {Null}]
    <3>1. CASE catalog[A.name] = Null
      BY <1>8, <3>1 DEF SealActiveRange, SealEventFileRange, StoreTypes
    <3>2. CASE catalog[A.name] # Null
      <4>. DEFINE range == [first_version |-> catalog[A.name].first_version,
                            last_version |-> job[p].head, sealed |-> TRUE]
      <4>1. range \in EventFileRange
        BY <2>1, <3>2 DEF StoreTypes, EventFileRange
      <4>2. catalog' = [catalog EXCEPT ![A.name] = range]
        BY <1>8, <3>2 DEF SealActiveRange, SealEventFileRange
      <4>. HIDE DEF range
      <4>. QED BY <2>1, <4>1, <4>2 DEF StoreTypes
    <3>. QED BY <3>1, <3>2
  <2>3. StoreTypes'
    BY <1>8, <2>2 DEF SealActiveRange, StoreTypes
  <2>4. AgentTypes'
    BY <1>0, <1>8, <2>1 DEF SealActiveRange, AgentTypes, StepFacts, Goto, Agents, IsOpen,
         OpenSteps, RotationSteps, CallSteps
  <2>. QED BY <2>3, <2>4
<1>9. CASE CreationStep(p)
  BY <1>0, <1>9, CreationTypes, TypePartsNext
<1>10. CASE AppendFails(p)
  <2>1. StoreTypes'
    BY <1>10 DEF AppendFails, StoreTypes, Finish
  <2>. QED BY <1>0, <1>10, <2>1, FinishTypes DEF AppendFails, AtTransaction
<1>11. CASE AppendConflicts(p)
  <2>1. StoreTypes'
    BY <1>11 DEF AppendConflicts, StoreTypes, Finish
  <2>. QED BY <1>0, <1>11, <2>1, FinishTypes DEF AppendConflicts, AtTransaction
<1>12. CASE AppendCommits(p)
  <2>1. /\ A.name \in Names /\ head[A.name] \in Nat /\ call[p].count \in Nat
    BY <1>0, <1>a, <1>12 DEF AppendCommits, AtTransaction, Unusable, ActiveFile, StoreTypes,
         Request
  <2>2. BatchVersions(p) \subseteq Nat \ {0}
    BY <2>1 DEF BatchVersions, NewVersions, ActiveFile
  <2>3. StoreTypes'
    BY <1>12, <2>1, <2>2 DEF AppendCommits, ActiveFile, StoreTypes, Finish
  <2>. QED BY <1>0, <1>12, <2>3, FinishTypes DEF AppendCommits, AtTransaction
<1>. QED
  BY <1>1, <1>2, <1>2a, <1>3, <1>4, <1>5, <1>6, <1>7, <1>8, <1>9, <1>10, <1>11, <1>12
     DEF AppendStep

(* The environment.                                                          *)
LEMMA EnvironmentTypes ==
    ASSUME TypeInv,
           \/ Tick \/ EndProcess \/ DamageCatalog \/ \E a \in Agents : Fault(a)
           \/ \E p \in Procs : AbandonAppend(p)
           \/ \E n \in Names : AbandonedRollsBack(n)
           \/ UNCHANGED vars
    PROVE  TypeInv'
<1>. SUFFICES StoreTypes' /\ AgentTypes'
  BY TypePartsNext
<1>. StoreTypes /\ AgentTypes
  BY TypeParts
<1>. USE DEF fileVars, catalogVars, handleVars, callVars
<1>0. Procs \cap Handles = {} /\ MaxClock \in Nat
  BY EventStreamAssumption
<1>1. CASE Tick
  <2>1. StoreTypes'
    BY <1>0, <1>1 DEF Tick, StoreTypes
  <2>2. AgentTypes'
    BY <1>1 DEF Tick, AgentTypes, StepFacts, IsOpen
  <2>. QED BY <2>1, <2>2
<1>2. CASE EndProcess
  <2>1. StoreTypes'
    BY <1>2 DEF EndProcess, StoreTypes
  <2>2. AgentTypes'
    BY <1>0, <1>2 DEF EndProcess, AgentTypes, StepFacts, Agents, IsOpen,
         OpenSteps, RotationSteps, CallSteps
  <2>. QED BY <2>1, <2>2
<1>3. CASE DamageCatalog
  <2>1. \A n \in Names : catalog[n] # Null =>
            ActiveRange(catalog[n].first_version) \in EventFileRange
    BY DEF StoreTypes, EventFileRange, ActiveRange
  <2>2. catalog' \in [Names -> EventFileRange \cup {Null}]
    BY <1>3, <2>1 DEF DamageCatalog, EmptyCatalog
  <2>3. StoreTypes'
    BY <1>3, <2>2 DEF DamageCatalog, StoreTypes
  <2>4. AgentTypes'
    BY <1>3 DEF DamageCatalog, AgentTypes, StepFacts, IsOpen
  <2>. QED BY <2>3, <2>4
<1>4. CASE \E a \in Agents : Fault(a)
  <2>1. PICK a \in Agents : Fault(a)
    BY <1>4
  <2>2. StoreTypes'
    BY <2>1 DEF Fault, StoreTypes, Finish
  <2>. QED BY <2>1, <2>2, FinishTypes DEF Fault
<1>5. CASE UNCHANGED vars
  <2>1. StoreTypes'
    BY <1>5 DEF vars, StoreTypes
  <2>2. AgentTypes'
    BY <1>5 DEF vars, AgentTypes, StepFacts, IsOpen
  <2>. QED BY <2>1, <2>2
<1>6. ASSUME NEW p \in Procs, AbandonAppend(p)
      PROVE  StoreTypes' /\ AgentTypes'
  <2>. DEFINE n == ActiveFile(p)
  <2>1. n \in Names /\ head[n] \in Nat /\ call[p].count \in Nat /\ handle[p] \in Handles
    BY <1>6 DEF AbandonAppend, AtTransaction, ActiveFile, StoreTypes, AgentTypes, StepFacts,
         ActivePartition, Request
  <2>2. PICK inserted \in 0..Insertable(p), counted \in {0, call[p].count} :
            abandoned' = [abandoned EXCEPT ![n] =
                  [handle |-> handle[p], rows |-> NewVersions(head[n], inserted),
                   head |-> head[n] + counted]]
    BY <1>6 DEF AbandonAppend
  <2>3. NewVersions(head[n], inserted) \subseteq Nat \ {0} /\ head[n] + counted \in Nat
    BY <2>1 DEF NewVersions, Insertable
  <2>4. abandoned' \in [Names -> OpenTransaction \cup {Null}]
    BY <2>1, <2>2, <2>3 DEF OpenTransaction, StoreTypes
  <2>5. StoreTypes'
    BY <1>6, <2>4 DEF AbandonAppend, StoreTypes, Finish
  <2>. QED BY <1>6, <2>5, FinishTypes DEF AbandonAppend, AtTransaction, Agents
<1>7. ASSUME NEW n \in Names, AbandonedRollsBack(n)
      PROVE  StoreTypes' /\ AgentTypes'
  <2>1. StoreTypes'
    BY <1>7 DEF AbandonedRollsBack, StoreTypes
  <2>2. AgentTypes'
    BY <1>7 DEF AbandonedRollsBack, AgentTypes, StepFacts, IsOpen
  <2>. QED BY <2>1, <2>2
<1>. QED BY <1>1, <1>2, <1>3, <1>4, <1>5, <1>6, <1>7

LEMMA TypeStep == TypeInv /\ [Next]_vars => TypeInv'
<1>. SUFFICES ASSUME TypeInv, [Next]_vars PROVE TypeInv'
  OBVIOUS
<1>1. CASE \E h \in Handles : OpenPartitioned(h) \/ OpenStep(h)
  BY <1>1, OpenTypes
<1>2. CASE \E p \in Procs : Invoke(p) \/ AppendStep(p)
  BY <1>2, AppendTypes
<1>3. CASE \/ Tick \/ Crash \/ Shutdown \/ DamageCatalog \/ \E a \in Agents : Fault(a)
           \/ \E p \in Procs : AbandonAppend(p)
           \/ \E n \in Names : AbandonedRollsBack(n)
           \/ UNCHANGED vars
  BY <1>3, EnvironmentTypes DEF Crash, Shutdown
<1>. QED BY <1>1, <1>2, <1>3 DEF Next

(* Every variable of an event stream has its type, for any number of callers *)
(* and handles, any policy, any clock and any faults and outages: in         *)
(* particular no rotation reaches an ordinal beyond MAX_OVERFLOW_ORDINAL, so *)
(* every file name written can be parsed again on open.                      *)
THEOREM TypeCorrect == Spec => []TypeOK
<1>1. TypeInv => TypeOK
  BY DEF TypeInv
<1>. QED BY TypeInit, TypeStep, <1>1, PTL DEF Spec

-----------------------------------------------------------------------------
(* Appends abandoned within their transaction.                               *)

(* Whether the callers drop an append only outside its transaction.          *)
NothingIsAbandoned == "abandon" \notin Faults

(* Nobody writes to a file in which a transaction is open; the head in it is *)
(* the committed one or the one behind the abandoned batch.                  *)
AbandonedIsAhead ==
    \A n \in Names : abandoned[n] # Null =>
        /\ ~NothingIsAbandoned /\ MaxFaults > 0
        /\ head[n] \in Nat /\ head[n] <= abandoned[n].head

LEMMA AbandonedStep == TypeInv /\ AbandonedIsAhead /\ [Next]_vars => AbandonedIsAhead'
<1>. SUFFICES ASSUME TypeInv, AbandonedIsAhead, [Next]_vars PROVE AbandonedIsAhead'
  OBVIOUS
<1>. StoreTypes /\ AgentTypes
  BY TypeParts
<1>. USE DEF fileVars
<1>1. ASSUME UNCHANGED <<head, abandoned>> PROVE AbandonedIsAhead'
  BY <1>1 DEF AbandonedIsAhead
<1>2. ASSUME NEW a \in Agents, CreationStep(a) PROVE AbandonedIsAhead'
  <2>1. CASE InitializeEventFileAppendHead(a)
    <3>1. /\ abandoned[job[a].name] = Null /\ abandoned' = abandoned
          /\ head' = [head EXCEPT ![job[a].name] = job[a].head]
      BY <2>1 DEF InitializeEventFileAppendHead
    <3>. QED BY <3>1 DEF AbandonedIsAhead, StoreTypes
  <2>. QED BY <1>1, <1>2, <2>1 DEF CreationStep, CreateFile, ApplySchema, RecordMigration,
         HeadIsLocked, AddRange
<1>3. ASSUME NEW h \in Handles, OpenPartitioned(h) \/ OpenStep(h) PROVE AbandonedIsAhead'
  BY <1>1, <1>2, <1>3 DEF OpenPartitioned, OpenStep, ApplyCatalogSchema,
     RecordCatalogMigration, UseCatalog, RebuildEventFileRanges, SurveyFails,
     CreateNewActivePartition, Agents
<1>4. ASSUME NEW p \in Procs, Invoke(p) \/ AppendStep(p) PROVE AbandonedIsAhead'
  <2>1. CASE AppendCommits(p)
    <3>1. /\ abandoned[ActiveFile(p)] = Null /\ abandoned' = abandoned
          /\ head' = [head EXCEPT ![ActiveFile(p)] = @ + call[p].count]
      BY <2>1 DEF AppendCommits, Unusable
    <3>. QED BY <3>1 DEF AbandonedIsAhead, StoreTypes
  <2>. QED BY <1>1, <1>2, <1>4, <2>1 DEF Invoke, AppendStep, MaybeRotate,
         SampleRotationClock, ReturnEmptyBatch, RejectEvents, SampleClock,
         RotateUntilCurrentWindow, RotatePartition, SealActiveRange, AppendFails,
         AppendConflicts, Agents
<1>5. ASSUME NEW p \in Procs, AbandonAppend(p) PROVE AbandonedIsAhead'
  <2>. DEFINE n == ActiveFile(p)
  <2>1. n \in Names /\ head[n] \in Nat /\ call[p].count \in Nat
    BY <1>5 DEF AbandonAppend, AtTransaction, ActiveFile, StoreTypes, AgentTypes, StepFacts,
         ActivePartition, Request
  <2>2. PICK inserted \in 0..Insertable(p), counted \in {0, call[p].count} :
            abandoned' = [abandoned EXCEPT ![n] =
                  [handle |-> handle[p], rows |-> NewVersions(head[n], inserted),
                   head |-> head[n] + counted]]
    BY <1>5 DEF AbandonAppend
  <2>3. head' = head /\ ~NothingIsAbandoned /\ MaxFaults > 0
    BY <1>5, EventStreamAssumption DEF AbandonAppend, NothingIsAbandoned, StoreTypes
  <2>4. abandoned'[n].head = head[n] + counted /\ head[n] <= head[n] + counted
    BY <2>1, <2>2 DEF StoreTypes
  <2>. HIDE DEF n
  <2>5. \A m \in Names : m # n => abandoned'[m] = abandoned[m]
    BY <2>2 DEF StoreTypes
  <2>. QED BY <2>1, <2>3, <2>4, <2>5 DEF AbandonedIsAhead
<1>6. ASSUME NEW n \in Names, AbandonedRollsBack(n) PROVE AbandonedIsAhead'
  BY <1>6 DEF AbandonedRollsBack, AbandonedIsAhead, StoreTypes
<1>7. CASE EndProcess
  BY <1>7 DEF EndProcess, AbandonedIsAhead
<1>8. CASE Tick \/ DamageCatalog \/ (\E a \in Agents : Fault(a)) \/ UNCHANGED vars
  BY <1>1, <1>8 DEF Tick, DamageCatalog, Fault, vars
<1>. QED BY <1>3, <1>4, <1>5, <1>6, <1>7, <1>8 DEF Next, Crash, Shutdown

LEMMA AbandonedHolds == Spec => [](TypeInv /\ AbandonedIsAhead)
<1>1. Init => AbandonedIsAhead
  BY DEF Init, AbandonedIsAhead
<1>. QED BY <1>1, TypeInit, TypeStep, AbandonedStep, PTL DEF Spec

(* What can be read of a head is not behind the committed one; without       *)
(* abandoned appends it is the committed one.                                *)
LEMMA SeenIsAhead ==
    ASSUME TypeInv, AbandonedIsAhead, NEW h \in Handles, NEW n \in Names, head[n] \in Nat,
           NEW seen \in HeadsSeen(h, n)
    PROVE  /\ seen \in Nat /\ head[n] <= seen
           /\ NothingIsAbandoned \/ MaxFaults = 0 => seen = head[n]
<1>1. CASE seen = head[n]
  BY <1>1
<1>2. CASE seen # head[n]
  <2>1. abandoned[n] # Null /\ seen = abandoned[n].head
    BY <1>2 DEF HeadsSeen
  <2>2. abandoned[n] \in OpenTransaction
    BY <2>1 DEF TypeInv, TypeOK
  <2>. QED BY <2>1, <2>2 DEF AbandonedIsAhead, OpenTransaction
<1>. QED BY <1>1, <1>2

-----------------------------------------------------------------------------
(* One handle, one life of the process: the versions of the partition.       *)

OneHandle == \E h \in Handles : \A g \in Handles : g = h

(* Until the handle is open there is nothing to be found on disk.            *)
NothingStored ==
    \A n \in Names : rows[n] = {} /\ head[n] \in {0, Null} /\ catalog[n] = Null

OpeningIsFresh ==
    \A h \in Handles : ~IsOpen(h) =>
        NothingStored /\ (pc[h] \in RotationSteps => job[h].head = 0)

(* A rotation holds the write lock and hands on the head it found; hence     *)
(* there is only one, and no append moves that head meanwhile.  It may have  *)
(* found the head of an abandoned append.                                    *)
RotationIsExclusive ==
    \A p \in Procs : pc[p] \in RotationSteps =>
        /\ lock[handle[p]] = p
        /\ head[active[handle[p]].name] <= job[p].head
        /\ NothingIsAbandoned => head[active[handle[p]].name] = job[p].head

(* The file about to become active has been given that head.                 *)
NewHeadIsReady ==
    \A a \in Agents : pc[a] = "add_range" => head[job[a].name] = job[a].head

(* No event of any file is beyond the head of the active file; unless an     *)
(* append was abandoned, that head counts the events of all files.           *)
HeadCountsAll ==
    \A h \in Handles : IsOpen(h) =>
        /\ head[active[h].name] \in Nat
        /\ \A n \in Names : rows[n] \subseteq 1..head[active[h].name]
        /\ NothingIsAbandoned =>
              \A v \in 1..head[active[h].name] : \E n \in Names : v \in rows[n]

LogFacts ==
    OpeningIsFresh /\ RotationIsExclusive /\ NewHeadIsReady /\ HeadCountsAll /\ VersionsUnique

LogInv == outages = 0 => LogFacts

\* What a step does to the facts is settled by where it leaves the agents that
\* are creating a file, unless it writes a head or a row or opens the handle.
RotationsGoOn ==
    \A a \in Agents : pc'[a] \in RotationSteps =>
        /\ pc[a] \in RotationSteps
        /\ job'[a] = job[a]
        /\ a \in Procs => lock'[handle[a]] = lock[handle[a]]
        /\ pc'[a] = "add_range" => pc[a] = "add_range"

LEMMA LogKept ==
    ASSUME TypeInv, LogFacts, RotationsGoOn,
           UNCHANGED <<rows, head, active, handle>>,
           \A h \in Handles : (pc'[h] = "open") <=> (pc[h] = "open"),
           \A h \in Handles : IsOpen(h) \/ UNCHANGED catalog
    PROVE  LogFacts'
<1>1. OpeningIsFresh'
  BY DEF LogFacts, OpeningIsFresh, NothingStored, RotationsGoOn, IsOpen, Agents
<1>2. RotationIsExclusive'
  BY DEF LogFacts, RotationIsExclusive, RotationsGoOn, Agents
<1>3. NewHeadIsReady'
  <2>1. "add_range" \in RotationSteps
    BY DEF RotationSteps
  <2>. QED BY <2>1 DEF LogFacts, NewHeadIsReady, RotationsGoOn
<1>4. HeadCountsAll'
  BY DEF LogFacts, HeadCountsAll, IsOpen
<1>5. VersionsUnique'
  BY DEF LogFacts, VersionsUnique
<1>. QED BY <1>1, <1>2, <1>3, <1>4, <1>5 DEF LogFacts

(* Dropping the guards of one agent leaves the rotation of another alone.    *)
LEMMA FinishGoesOn ==
    ASSUME TypeInv, LogFacts, NEW a \in Agents, NEW result,
           pc[a] # "open", Finish(a, result)
    PROVE  /\ RotationsGoOn
           /\ UNCHANGED <<active, handle>>
           /\ \A h \in Handles : (pc'[h] = "open") <=> (pc[h] = "open")
<1>. AgentTypes
  BY TypeParts
<1>0. Procs \cap Handles = {} /\ Null \notin Procs
  BY EventStreamAssumption, NullIsNoRecord
<1>1. pc' = [pc EXCEPT ![a] = IF a \in Handles THEN "closed" ELSE "idle"]
  BY DEF Finish, Goto
<1>2. \A b \in Agents : b # a => pc'[b] = pc[b] /\ job'[b] = job[b]
  BY <1>1 DEF Finish, AgentTypes
<1>3. pc'[a] \notin RotationSteps /\ pc'[a] # "open"
  BY <1>1 DEF AgentTypes, RotationSteps
<1>4. \A b \in Procs : pc[b] \in RotationSteps /\ b # a => lock'[handle[b]] = lock[handle[b]]
  BY DEF LogFacts, RotationIsExclusive, Finish, DropGuards, AgentTypes
<1>5. RotationsGoOn
  BY <1>2, <1>3, <1>4 DEF RotationsGoOn, Agents
<1>6. \A h \in Handles : (pc'[h] = "open") <=> (pc[h] = "open")
  BY <1>2, <1>3 DEF Agents
<1>. QED BY <1>5, <1>6 DEF Finish

LEMMA FinishKeepsLog ==
    ASSUME TypeInv, LogFacts, NEW a \in Agents, NEW result,
           pc[a] # "open", Finish(a, result), UNCHANGED <<rows, head, catalog>>
    PROVE  LogFacts'
BY FinishGoesOn, LogKept

LEMMA LogInit == Init => LogInv
<1>. SUFFICES ASSUME Init PROVE LogFacts
  BY DEF LogInv
<1>0. Procs \cap Handles = {}
  BY EventStreamAssumption
<1>1. OpeningIsFresh
  BY <1>0 DEF Init, OpeningIsFresh, NothingStored, EmptyCatalog, Agents, RotationSteps
<1>2. RotationIsExclusive /\ NewHeadIsReady
  BY <1>0 DEF Init, RotationIsExclusive, NewHeadIsReady, Agents, RotationSteps
<1>3. HeadCountsAll /\ VersionsUnique
  BY <1>0 DEF Init, HeadCountsAll, VersionsUnique, IsOpen, Agents
<1>. QED BY <1>1, <1>2, <1>3 DEF LogFacts

(* A creation step of a rotation, or of an opening handle.                   *)
LEMMA CreationKeepsLog ==
    ASSUME OneHandle, TypeInv, LogFacts, NEW a \in Agents, CreationStep(a)
    PROVE  LogFacts'
<1>. AgentTypes /\ StoreTypes
  BY TypeParts
<1>. USE DEF fileVars, catalogVars, handleVars, callVars
<1>0. /\ Procs \cap Handles = {}
      /\ pc[a] \in RotationSteps
      /\ job[a] \in Job /\ job[a].name \in Names /\ job[a].head \in Nat
  <2>1. pc[a] \in RotationSteps
    BY DEF CreationStep, CreateFile, ApplySchema, RecordMigration,
         InitializeEventFileAppendHead, HeadIsLocked, AddRange, RotationSteps
  <2>. QED BY <2>1, EventStreamAssumption DEF AgentTypes, StepFacts, Job
\* The head handed on is that of the active file, and nobody else creates one.
<1>a. a \in Procs => /\ IsOpen(handle[a])
                     /\ head[active[handle[a]].name] <= job[a].head
                     /\ NothingIsAbandoned => head[active[handle[a]].name] = job[a].head
  BY <1>0 DEF LogFacts, RotationIsExclusive, AgentTypes, StepFacts, RotationSteps
<1>b. a \in Handles => ~IsOpen(a) /\ job[a].head = 0 /\ NothingStored
  BY <1>0 DEF LogFacts, OpeningIsFresh, IsOpen, RotationSteps
<1>c. \A b \in Agents : pc[b] \in RotationSteps => b = a
  <2>. SUFFICES ASSUME NEW b \in Agents, pc[b] \in RotationSteps PROVE b = a
    OBVIOUS
  <2>1. CASE a \in Procs /\ b \in Procs
    <3>1. handle[a] = handle[b]
      BY <2>1 DEF OneHandle, AgentTypes
    <3>. QED BY <1>0, <2>1, <3>1 DEF LogFacts, RotationIsExclusive
  <2>2. CASE a \in Handles /\ b \in Handles
    BY <2>2 DEF OneHandle
  <2>3. CASE a \in Procs /\ b \in Handles
    BY <1>a, <2>3 DEF OneHandle, AgentTypes, IsOpen, RotationSteps
  <2>4. CASE a \in Handles /\ b \in Procs
    <3>1. IsOpen(handle[b])
      BY <2>4 DEF AgentTypes, StepFacts, RotationSteps
    <3>. QED BY <1>b, <2>4, <3>1 DEF OneHandle, AgentTypes
  <2>. QED BY <2>1, <2>2, <2>3, <2>4 DEF Agents
<1>1. ASSUME NEW step \in {"schema", "record", "init_head"},
             pc' = [pc EXCEPT ![a] = step], UNCHANGED <<handleVars, job, callVars>>,
             UNCHANGED <<rows, head, catalog>>
      PROVE  LogFacts'
  <2>1. RotationsGoOn
    BY <1>0, <1>1 DEF RotationsGoOn, RotationSteps, AgentTypes
  <2>2. \A h \in Handles : (pc'[h] = "open") <=> (pc[h] = "open")
    BY <1>0, <1>1 DEF RotationSteps, AgentTypes, Agents
  <2>. QED BY <1>1, <2>1, <2>2, LogKept
<1>2. CASE CreateFile(a)
  <2>1. /\ pc' = [pc EXCEPT ![a] =
                    IF phase[job[a].name] = "migrated" THEN "init_head" ELSE "schema"]
        /\ UNCHANGED <<handleVars, job, callVars>> /\ UNCHANGED <<rows, head, catalog>>
    BY <1>2 DEF CreateFile, Goto
  <2>. QED BY <1>1, <2>1
<1>3. CASE ApplySchema(a)
  <2>1. CASE phase[job[a].name] = "created"
    BY <1>1, <1>3, <2>1 DEF ApplySchema, Goto
  <2>2. CASE phase[job[a].name] # "created"
    BY <1>0, <1>3, <2>2, FinishKeepsLog DEF ApplySchema, RotationSteps
  <2>. QED BY <2>1, <2>2
<1>4. CASE RecordMigration(a)
  <2>1. CASE phase[job[a].name] = "tables"
    BY <1>1, <1>4, <2>1 DEF RecordMigration, Goto
  <2>2. CASE phase[job[a].name] # "tables"
    BY <1>0, <1>4, <2>2, FinishKeepsLog DEF RecordMigration, RotationSteps
  <2>. QED BY <2>1, <2>2
<1>5. CASE InitializeEventFileAppendHead(a)
  <2>1. /\ head' = [head EXCEPT ![job[a].name] = job[a].head]
        /\ pc' = [pc EXCEPT ![a] = "add_range"]
        /\ UNCHANGED <<rows, catalog, active, lock, handle, job>>
    BY <1>5 DEF InitializeEventFileAppendHead, Goto
  <2>2. \A h \in Handles : (pc'[h] = "open") <=> (pc[h] = "open")
    BY <1>0, <2>1 DEF RotationSteps, AgentTypes, Agents
  <2>3. ASSUME NEW h \in Handles, IsOpen(h)
        PROVE  /\ active[h].name \in Names /\ head[active[h].name] \in Nat
               /\ head'[active[h].name] \in Nat
               /\ head[active[h].name] <= head'[active[h].name]
               /\ head'[active[h].name] <= job[a].head
               /\ NothingIsAbandoned => /\ head'[active[h].name] = head[active[h].name]
                                        /\ head'[active[h].name] = job[a].head
    <3>1. active[h].name \in Names /\ head[active[h].name] \in Nat
      BY <2>3 DEF AgentTypes, StepFacts, ActivePartition, LogFacts, HeadCountsAll
    <3>2. a \in Procs /\ h = handle[a]
      BY <1>b, <2>3 DEF OneHandle, AgentTypes, Agents
    <3>3. head'[active[h].name] \in {head[active[h].name], job[a].head}
      BY <2>1, <3>1 DEF StoreTypes
    <3>. QED BY <1>0, <1>a, <3>1, <3>2, <3>3
  <2>4. OpeningIsFresh'
    <3>. SUFFICES ASSUME NEW h \in Handles, ~IsOpen(h)
                  PROVE  NothingStored' /\ (pc'[h] \in RotationSteps => job'[h].head = 0)
      BY <2>2 DEF OpeningIsFresh, IsOpen
    <3>1. a = h
      BY <1>a DEF OneHandle, AgentTypes, Agents
    <3>. QED BY <1>b, <2>1, <3>1 DEF NothingStored, StoreTypes
  <2>5. RotationIsExclusive'
    <3>. SUFFICES ASSUME NEW p \in Procs, pc'[p] \in RotationSteps
                  PROVE  /\ lock[handle[p]] = p
                         /\ head'[active[handle[p]].name] <= job[p].head
                         /\ NothingIsAbandoned =>
                               head'[active[handle[p]].name] = job[p].head
      BY <2>1 DEF RotationIsExclusive
    <3>1. p = a /\ pc[p] \in RotationSteps
      BY <1>0, <1>c, <2>1 DEF AgentTypes, Agents
    <3>2. IsOpen(handle[p]) /\ handle[p] \in Handles
      BY <1>a, <3>1 DEF AgentTypes
    <3>. QED BY <2>3, <3>1, <3>2 DEF LogFacts, RotationIsExclusive
  <2>6. NewHeadIsReady'
    <3>. SUFFICES ASSUME NEW b \in Agents, pc'[b] = "add_range"
                  PROVE  head'[job[b].name] = job[b].head
      BY <2>1 DEF NewHeadIsReady
    <3>1. b = a
      BY <1>c, <2>1 DEF AgentTypes, RotationSteps
    <3>. QED BY <1>0, <2>1, <3>1 DEF StoreTypes
  <2>7. HeadCountsAll'
    <3>. SUFFICES ASSUME NEW h \in Handles, IsOpen(h)
                  PROVE  LET k == head'[active[h].name]
                         IN  /\ k \in Nat
                             /\ \A n \in Names : rows[n] \subseteq 1..k
                             /\ NothingIsAbandoned =>
                                   \A v \in 1..k : \E n \in Names : v \in rows[n]
      BY <2>1, <2>2 DEF HeadCountsAll, IsOpen
    <3>. QED BY <2>3 DEF LogFacts, HeadCountsAll
  <2>8. VersionsUnique'
    BY <2>1 DEF LogFacts, VersionsUnique
  <2>. QED BY <2>4, <2>5, <2>6, <2>7, <2>8 DEF LogFacts
<1>5a. CASE HeadIsLocked(a)
  BY <1>0, <1>5a, FinishKeepsLog DEF HeadIsLocked, RotationSteps
<1>6. CASE AddRange(a)
  <2>. DEFINE h == HandleOf(a)
  <2>0. h \in Handles /\ \A g \in Handles : g = h
    BY DEF OneHandle, HandleOf, AgentTypes, Agents
  <2>1. /\ active' = [active EXCEPT ![h] = [name |-> job[a].name, start |-> job[a].start]]
        /\ pc' = [pc EXCEPT ![a] = IF a \in Handles THEN "open" ELSE resume[a]]
        /\ UNCHANGED <<rows, head, handle>>
        /\ pc[a] = "add_range"
    BY <1>6 DEF AddRange, Goto
  <2>2. active'[h].name = job[a].name /\ head[job[a].name] = job[a].head
    BY <2>0, <2>1 DEF LogFacts, NewHeadIsReady, AgentTypes
  <2>3. pc'[h] = "open"
    BY <1>0, <1>a, <2>0, <2>1 DEF IsOpen, HandleOf, AgentTypes, Agents
  <2>4. \A b \in Agents : pc'[b] \notin RotationSteps
    <3>1. pc'[a] \in {"open", "begin", "window"}
      BY <2>1 DEF AgentTypes, Agents
    <3>2. \A b \in Agents \ {a} : pc'[b] = pc[b]
      BY <2>1 DEF AgentTypes
    <3>. QED BY <1>c, <3>1, <3>2 DEF RotationSteps
  <2>5. OpeningIsFresh'
    BY <2>0, <2>3 DEF OpeningIsFresh, IsOpen
  <2>6. RotationIsExclusive' /\ NewHeadIsReady'
    BY <2>4 DEF RotationIsExclusive, NewHeadIsReady, Agents, RotationSteps
  <2>7. HeadCountsAll'
    <3>1. CASE a \in Procs
      <4>1. /\ h = handle[a] /\ IsOpen(h)
            /\ head[active[h].name] <= job[a].head
            /\ NothingIsAbandoned => head[active[h].name] = job[a].head
        BY <1>0, <1>a, <3>1 DEF HandleOf
      <4>. HIDE DEF h
      <4>2. /\ head[active[h].name] \in Nat /\ job[a].head \in Nat
            /\ \A n \in Names : rows[n] \subseteq 1..head[active[h].name]
            /\ NothingIsAbandoned =>
                  \A v \in 1..job[a].head : \E n \in Names : v \in rows[n]
        BY <1>0, <2>0, <4>1 DEF LogFacts, HeadCountsAll
      <4>3. \A n \in Names : rows[n] \subseteq 1..job[a].head
        BY <4>1, <4>2
      <4>. QED BY <2>0, <2>1, <2>2, <4>2, <4>3 DEF HeadCountsAll
    <3>2. CASE a \in Handles
      <4>. HIDE DEF h
      <4>. QED BY <1>b, <2>0, <2>1, <2>2, <3>2 DEF HeadCountsAll, NothingStored
    <3>. QED BY <3>1, <3>2 DEF Agents
  <2>8. VersionsUnique'
    BY <2>1 DEF LogFacts, VersionsUnique
  <2>. QED BY <2>5, <2>6, <2>7, <2>8 DEF LogFacts
<1>. QED BY <1>2, <1>3, <1>4, <1>5, <1>5a, <1>6 DEF CreationStep

(* Opening the handle.                                                       *)
LEMMA OpenKeepsLog ==
    ASSUME OneHandle, TypeInv, LogFacts, NEW h \in Handles,
           OpenPartitioned(h) \/ OpenStep(h)
    PROVE  LogFacts'
<1>. AgentTypes /\ StoreTypes
  BY TypeParts
<1>. USE DEF fileVars, catalogVars, handleVars, callVars
<1>0. h \in Agents /\ Procs \cap Handles = {}
  BY EventStreamAssumption DEF Agents
<1>1. CASE CreationStep(h)
  BY <1>0, <1>1, CreationKeepsLog
<1>2. CASE ~CreationStep(h)
  <2>0. /\ pc[h] # "open" /\ pc[h] \notin RotationSteps
        /\ NothingStored
        /\ \A a \in Agents : pc[a] \notin RotationSteps
    <3>1. pc[h] # "open" /\ pc[h] \notin RotationSteps
      BY <1>2 DEF OpenStep, OpenPartitioned, ApplyCatalogSchema, RecordCatalogMigration,
           UseCatalog, RebuildEventFileRanges, SurveyFails, CreateNewActivePartition,
           RotationSteps
    <3>2. \A p \in Procs : pc[p] = "idle"
      BY <3>1 DEF OneHandle, AgentTypes, StepFacts, IsOpen
    <3>3. "idle" \notin RotationSteps
      BY DEF RotationSteps
    <3>. QED BY <3>1, <3>2, <3>3 DEF LogFacts, OpeningIsFresh, OneHandle, IsOpen, Agents
  <2>1. ASSUME NEW step, step \notin {"open"} \cup RotationSteps,
               pc' = [pc EXCEPT ![h] = step],
               UNCHANGED <<rows, head, catalog, active, lock, handle, job>>
        PROVE  LogFacts'
    <3>1. RotationsGoOn
      BY <2>0, <2>1 DEF RotationsGoOn, AgentTypes
    <3>2. \A g \in Handles : (pc'[g] = "open") <=> (pc[g] = "open")
      BY <2>0, <2>1 DEF AgentTypes, Agents
    <3>. QED BY <2>1, <3>1, <3>2, LogKept
  <2>2. ASSUME NEW n \in Names, head[n] = 0, Attach(h, n),
               UNCHANGED <<rows, head, handle>>
        PROVE  LogFacts'
    <3>1. /\ \A g \in Handles : pc'[g] = "open" /\ head'[active'[g].name] = 0
          /\ \A a \in Agents : pc'[a] \notin RotationSteps
      BY <2>0, <2>2 DEF Attach, Goto, OneHandle, AgentTypes, Agents, RotationSteps
    <3>2. OpeningIsFresh'
      BY <3>1 DEF OpeningIsFresh, IsOpen
    <3>3. RotationIsExclusive' /\ NewHeadIsReady'
      BY <3>1 DEF RotationIsExclusive, NewHeadIsReady, Agents, RotationSteps
    <3>4. HeadCountsAll'
      BY <2>0, <2>2, <3>1 DEF HeadCountsAll, NothingStored
    <3>5. VersionsUnique'
      BY <2>2 DEF LogFacts, VersionsUnique
    <3>. QED BY <3>2, <3>3, <3>4, <3>5 DEF LogFacts
  <2>3. ASSUME Finish(h, "error"), UNCHANGED <<rows, head, catalog>>
        PROVE  LogFacts'
    BY <1>0, <2>0, <2>3, FinishKeepsLog
  <2>4. CASE OpenPartitioned(h)
    BY <2>1, <2>4 DEF OpenPartitioned, Goto, RotationSteps
  <2>5. CASE ApplyCatalogSchema(h)
    BY <2>1, <2>3, <2>5 DEF ApplyCatalogSchema, Goto, RotationSteps
  <2>6. CASE RecordCatalogMigration(h)
    BY <2>1, <2>3, <2>6 DEF RecordCatalogMigration, Goto, RotationSteps
  <2>7. CASE UseCatalog(h)
    BY <2>0, <2>7 DEF UseCatalog, NothingStored, UnsealedRanges, StoreTypes
  <2>8. CASE RebuildEventFileRanges(h)
    <3>1. CASE PresentFiles = {}
      <4>1. catalog' = catalog
        BY <2>0, <2>8, <3>1 DEF RebuildEventFileRanges, EmptyCatalog, NothingStored, StoreTypes
      <4>. QED BY <2>1, <2>8, <3>1, <4>1 DEF RebuildEventFileRanges, Goto, RotationSteps
    <3>2. CASE PresentFiles # {}
      <4>1. PICK last \in PresentFiles : Attach(h, last)
        BY <2>8, <3>2 DEF RebuildEventFileRanges
      <4>2. last \in Names /\ head[last] = 0
        BY <2>0, <2>8, <4>1 DEF RebuildEventFileRanges, PresentFiles, NothingStored
      <4>. QED BY <2>2, <2>8, <4>1, <4>2 DEF RebuildEventFileRanges
    <3>. QED BY <3>1, <3>2
  <2>9. CASE SurveyFails(h)
    BY <2>3, <2>9 DEF SurveyFails
  <2>10. CASE CreateNewActivePartition(h)
    <3>1. /\ pc' = [pc EXCEPT ![h] = "create"]
          /\ job'[h].head = 0
          /\ UNCHANGED <<rows, head, catalog, active, handle>>
      BY <1>0, <2>10 DEF CreateNewActivePartition, Goto, AgentTypes
    <3>2. \A g \in Handles : g = h /\ pc'[g] = "create"
      BY <1>0, <3>1 DEF OneHandle, AgentTypes
    <3>3. \A p \in Procs : pc'[p] \notin RotationSteps
      BY <1>0, <2>0, <3>1 DEF AgentTypes, Agents
    <3>4. OpeningIsFresh'
      BY <2>0, <3>1, <3>2 DEF OpeningIsFresh, NothingStored
    <3>5. RotationIsExclusive' /\ NewHeadIsReady'
      BY <3>2, <3>3 DEF RotationIsExclusive, NewHeadIsReady, Agents, RotationSteps
    <3>6. HeadCountsAll' /\ VersionsUnique'
      BY <3>1, <3>2 DEF LogFacts, HeadCountsAll, VersionsUnique, IsOpen
    <3>. QED BY <3>4, <3>5, <3>6 DEF LogFacts
  <2>. QED
    BY <1>2, <2>4, <2>5, <2>6, <2>7, <2>8, <2>9, <2>10 DEF OpenStep
<1>. QED BY <1>1, <1>2

(* An append, its rotation included.                                         *)
LEMMA AppendKeepsLog ==
    ASSUME OneHandle, TypeInv, AbandonedIsAhead, LogFacts, NEW p \in Procs,
           Invoke(p) \/ AppendStep(p)
    PROVE  LogFacts'
<1>. AgentTypes /\ StoreTypes
  BY TypeParts
<1>. USE DEF fileVars, catalogVars, handleVars, callVars
<1>. DEFINE h == handle[p]
            A == active[h].name
<1>0. /\ p \in Agents /\ h \in Handles /\ Procs \cap Handles = {}
      /\ pc[p] # "open"
      /\ pc[p] # "idle" => /\ IsOpen(h) /\ call[p] \in Request
                           /\ active[h] \in ActivePartition /\ A \in Names
  BY EventStreamAssumption DEF Agents, AgentTypes, StepFacts, ActivePartition, CallSteps,
     RotationSteps
<1>1. CASE CreationStep(p)
  BY <1>0, <1>1, CreationKeepsLog
\* A caller that moves on outside a rotation, with nothing written.
<1>2. ASSUME NEW step, step \notin {"open"} \cup RotationSteps,
             pc' = [pc EXCEPT ![p] = step],
             UNCHANGED <<rows, head, catalog, active, lock, handle, job>>
      PROVE  LogFacts'
  <2>1. RotationsGoOn
    BY <1>2 DEF RotationsGoOn, AgentTypes
  <2>2. \A g \in Handles : (pc'[g] = "open") <=> (pc[g] = "open")
    BY <1>0, <1>2 DEF AgentTypes, Agents
  <2>. QED BY <1>2, <2>1, <2>2, LogKept
<1>3. ASSUME NEW result, Finish(p, result), UNCHANGED <<rows, head, catalog>>
      PROVE  LogFacts'
  BY <1>0, <1>3, FinishKeepsLog
<1>4. CASE Invoke(p)
  BY <1>2, <1>4 DEF Invoke, Goto, RotationSteps
<1>5. CASE MaybeRotate(p)
  <2>1. PICK step \in {"clock", "begin"} : pc' = [pc EXCEPT ![p] = step]
    BY <1>5 DEF MaybeRotate, Goto
  <2>. QED BY <1>2, <1>5, <2>1 DEF MaybeRotate, RotationSteps
<1>6. CASE ReturnEmptyBatch(p) \/ RejectEvents(p) \/ AppendFails(p) \/ AppendConflicts(p)
  BY <1>3, <1>6 DEF ReturnEmptyBatch, RejectEvents, AppendFails, AppendConflicts
<1>7. CASE SampleClock(p) \/ SampleRotationClock(p)
  BY <1>2, <1>7 DEF SampleClock, SampleRotationClock, Goto, RotationSteps
<1>8. CASE RotateUntilCurrentWindow(p)
  <2>1. PICK step \in {"rotate", "commit"} : pc' = [pc EXCEPT ![p] = step]
    BY <1>8 DEF RotateUntilCurrentWindow, Goto
  <2>. QED BY <1>2, <1>8, <2>1 DEF RotateUntilCurrentWindow, RotationSteps
\* With the lock free nobody is rotating, and nobody is opening either.
<1>9. ASSUME Unlocked(h), pc[p] # "idle"
      PROVE  \A a \in Agents : pc[a] \notin RotationSteps
  <2>1. \A b \in Procs : pc[b] \notin RotationSteps
    BY <1>0, <1>9, NullIsNoRecord DEF LogFacts, RotationIsExclusive, Unlocked, OneHandle,
       AgentTypes
  <2>2. \A g \in Handles : pc[g] \notin RotationSteps
    BY <1>0, <1>9 DEF OneHandle, IsOpen, RotationSteps
  <2>. QED BY <2>1, <2>2 DEF Agents
<1>10. CASE RotatePartition(p)
  <2>. DEFINE info == DetermineNewPartitionInfo(Window, active[h].start,
                          ParsePartitionName(A).ordinal, stamp[p])
  <2>1. CASE info = Null \/ head[A] = Null
    BY <1>3, <1>10, <2>1 DEF RotatePartition
  <2>2. CASE ~(info = Null \/ head[A] = Null)
    <3>0. PICK seen \in HeadsSeen(h, A) :
              job' = [job EXCEPT ![p] =
                        [name |-> info.name, start |-> info.start, head |-> seen]]
      BY <1>10, <2>2 DEF RotatePartition
    <3>. DEFINE new == [name |-> info.name, start |-> info.start, head |-> seen]
    <3>1. /\ lock' = [lock EXCEPT ![h] = p]
          /\ job' = [job EXCEPT ![p] = new]
          /\ pc' = [pc EXCEPT ![p] = "seal"]
          /\ UNCHANGED <<rows, head, catalog, active, handle>>
      BY <1>10, <2>2, <3>0 DEF RotatePartition, Goto
    <3>1a. head[A] \in Nat /\ head[A] <= seen /\ (NothingIsAbandoned => seen = head[A])
      <4>1. A \in Names /\ head[A] \in Nat
        BY <1>0, <1>10, <2>2 DEF RotatePartition, StoreTypes
      <4>. HIDE DEF A, h
      <4>. QED BY <1>0, <3>0, <4>1, SeenIsAhead
    <3>2. \A a \in Agents : pc[a] \notin RotationSteps
      BY <1>9, <1>10 DEF RotatePartition, Writable
    <3>3. \A g \in Handles : pc'[g] = "open" /\ IsOpen(g)
      BY <1>0, <1>10, <3>1 DEF RotatePartition, OneHandle, AgentTypes, Agents, IsOpen
    <3>4. OpeningIsFresh'
      BY <3>3 DEF OpeningIsFresh, IsOpen
    <3>5. RotationIsExclusive'
      <4>. SUFFICES ASSUME NEW b \in Procs, pc'[b] \in RotationSteps
                    PROVE  /\ lock'[handle[b]] = b
                           /\ head[active[handle[b]].name] <= job'[b].head
                           /\ NothingIsAbandoned =>
                                 head[active[handle[b]].name] = job'[b].head
        BY <3>1 DEF RotationIsExclusive
      <4>1. b = p
        BY <3>1, <3>2 DEF AgentTypes, Agents
      <4>2. lock'[h] = p /\ job'[p].head = seen
        BY <1>0, <3>1 DEF AgentTypes
      <4>. QED BY <3>1a, <4>1, <4>2
    <3>6. NewHeadIsReady'
      BY <1>0, <3>1, <3>2 DEF NewHeadIsReady, AgentTypes, RotationSteps
    <3>7. HeadCountsAll' /\ VersionsUnique'
      BY <3>1, <3>3 DEF LogFacts, HeadCountsAll, VersionsUnique
    <3>. QED BY <3>4, <3>5, <3>6, <3>7 DEF LogFacts
  <2>. QED BY <2>1, <2>2
<1>11. CASE SealActiveRange(p)
  <2>1. /\ pc[p] = "seal" /\ pc' = [pc EXCEPT ![p] = "create"]
        /\ UNCHANGED <<rows, head, active, lock, handle, job>>
    BY <1>11 DEF SealActiveRange, Goto
  <2>2. RotationsGoOn
    BY <2>1 DEF RotationsGoOn, AgentTypes, RotationSteps
  <2>3. \A g \in Handles : ((pc'[g] = "open") <=> (pc[g] = "open")) /\ IsOpen(g)
    BY <1>0, <2>1 DEF AgentTypes, Agents, OneHandle, IsOpen
  <2>. QED BY <2>1, <2>2, <2>3, LogKept
<1>12. CASE AppendCommits(p)
  <2>. DEFINE k == head[A]
              c == call[p].count
  <2>1. pc[p] = "commit" /\ Unlocked(h) /\ k # Null
    BY <1>12 DEF AppendCommits, AtTransaction, Writable, Unusable, ActiveFile
  <2>2. /\ rows' = [rows EXCEPT ![A] = @ \cup k + 1 .. k + c]
        /\ head' = [head EXCEPT ![A] = k + c]
    BY <1>12 DEF AppendCommits, ActiveFile, BatchVersions, NewVersions
  <2>3. A \in Names /\ k \in Nat /\ c \in Nat /\ IsOpen(h)
    BY <1>0, <2>1 DEF StoreTypes, Request
  <2>4. /\ \A a \in Agents : pc'[a] \notin RotationSteps
        /\ UNCHANGED <<active, handle>>
        /\ \A g \in Handles : g = h /\ pc'[g] = "open"
    <3>1. Finish(p, "appended")
      BY <1>12 DEF AppendCommits
    <3>2. \A a \in Agents : pc[a] \notin RotationSteps
      BY <1>9, <2>1
    <3>. QED BY <1>0, <2>3, <3>1, <3>2, FinishGoesOn DEF RotationsGoOn, OneHandle, IsOpen
  <2>5. OpeningIsFresh' /\ RotationIsExclusive' /\ NewHeadIsReady'
    BY <2>4 DEF OpeningIsFresh, RotationIsExclusive, NewHeadIsReady, IsOpen, Agents,
       RotationSteps
  <2>6. /\ \A n \in Names : rows[n] \subseteq 1..k
        /\ NothingIsAbandoned => \A v \in 1..k : \E n \in Names : v \in rows[n]
    BY <1>0, <2>3 DEF LogFacts, HeadCountsAll
  <2>7. \A n \in Names : rows'[n] = IF n = A THEN rows[n] \cup k + 1 .. k + c ELSE rows[n]
    BY <2>2 DEF StoreTypes
  <2>8. head'[A] = k + c
    BY <2>2, <2>3 DEF StoreTypes
  <2>. HIDE DEF k, c, A
  <2>9. \A n \in Names : rows'[n] \subseteq 1 .. k + c
    <3>1. 1..k \subseteq 1 .. k + c /\ k + 1 .. k + c \subseteq 1 .. k + c
      BY <2>3
    <3>. QED BY <2>6, <2>7, <3>1
  <2>10. NothingIsAbandoned => \A v \in 1 .. k + c : \E n \in Names : v \in rows'[n]
    <3>. SUFFICES ASSUME NothingIsAbandoned, NEW v \in 1 .. k + c
                  PROVE  \E n \in Names : v \in rows'[n]
      OBVIOUS
    <3>1. v \in 1..k \/ v \in k + 1 .. k + c
      BY <2>3
    <3>. QED BY <2>3, <2>6, <2>7, <3>1
  <2>11. HeadCountsAll'
    BY <2>3, <2>4, <2>8, <2>9, <2>10 DEF HeadCountsAll, A
  <2>12. VersionsUnique'
    <3>1. \A n \in Names : rows[n] \cap (k + 1 .. k + c) = {}
      <4>1. (1..k) \cap (k + 1 .. k + c) = {}
        BY <2>3
      <4>. QED BY <2>6, <4>1
    <3>. QED BY <2>7, <3>1 DEF LogFacts, VersionsUnique
  <2>. QED BY <2>5, <2>11, <2>12 DEF LogFacts
<1>. QED
  BY <1>1, <1>4, <1>5, <1>6, <1>7, <1>8, <1>10, <1>11, <1>12 DEF AppendStep

LEMMA LogStep ==
    ASSUME OneHandle
    PROVE  TypeInv /\ AbandonedIsAhead /\ LogInv /\ [Next]_vars => LogInv'
<1>. SUFFICES ASSUME TypeInv, AbandonedIsAhead, LogInv, [Next]_vars, outages' = 0
              PROVE  LogFacts'
  BY DEF LogInv
<1>. StoreTypes /\ AgentTypes
  BY TypeParts
<1>. USE DEF fileVars, catalogVars, handleVars, callVars
<1>0. CASE EndProcess
  BY <1>0 DEF EndProcess, StoreTypes
<1>1. CASE \E h \in Handles : OpenPartitioned(h) \/ OpenStep(h)
  <2>1. outages' = outages
    BY <1>1 DEF OpenPartitioned, OpenStep, ApplyCatalogSchema, RecordCatalogMigration,
         UseCatalog, RebuildEventFileRanges, SurveyFails, CreateNewActivePartition,
         CreationStep, CreateFile, ApplySchema, RecordMigration,
         InitializeEventFileAppendHead, HeadIsLocked, AddRange
  <2>. QED BY <1>1, <2>1, OpenKeepsLog DEF LogInv
<1>2. CASE \E p \in Procs : Invoke(p) \/ AppendStep(p)
  <2>1. outages' = outages
    BY <1>2 DEF Invoke, AppendStep, MaybeRotate, SampleRotationClock, ReturnEmptyBatch,
         RejectEvents, SampleClock, RotateUntilCurrentWindow, RotatePartition, SealActiveRange, AppendFails,
         AppendConflicts, AppendCommits, CreationStep, CreateFile, ApplySchema,
         RecordMigration, InitializeEventFileAppendHead, HeadIsLocked, AddRange
  <2>. QED BY <1>2, <2>1, AppendKeepsLog DEF LogInv
<1>3. CASE \E a \in Agents : Fault(a)
  <2>1. PICK a \in Agents : Fault(a)
    BY <1>3
  <2>. QED BY <2>1, FinishKeepsLog DEF LogInv, Fault
<1>3a. CASE \E p \in Procs : AbandonAppend(p)
  <2>1. PICK p \in Procs : AbandonAppend(p)
    BY <1>3a
  <2>. QED BY <2>1, FinishKeepsLog DEF LogInv, AbandonAppend, AtTransaction, Agents
<1>4. CASE Tick \/ DamageCatalog \/ (\E n \in Names : AbandonedRollsBack(n)) \/ UNCHANGED vars
  <2>1. /\ outages' = outages
        /\ UNCHANGED <<rows, head, active, handle, lock, pc, job>>
    BY <1>4 DEF Tick, DamageCatalog, AbandonedRollsBack, vars
  <2>2. LogFacts
    BY <2>1 DEF LogInv
  <2>3. RotationsGoOn
    BY <2>1 DEF RotationsGoOn
  <2>4. \A h \in Handles : IsOpen(h) \/ UNCHANGED catalog
    <3>1. CASE DamageCatalog
      <4>. SUFFICES ASSUME NEW h \in Handles, ~IsOpen(h) PROVE catalog' = catalog
        OBVIOUS
      <4>1. \A n \in Names : catalog[n] = Null
        BY <2>2 DEF LogFacts, OpeningIsFresh, NothingStored
      <4>. QED BY <3>1, <4>1 DEF DamageCatalog, EmptyCatalog, StoreTypes
    <3>. QED BY <1>4, <3>1 DEF Tick, AbandonedRollsBack, vars
  <2>. QED BY <2>1, <2>2, <2>3, <2>4, LogKept
<1>. QED BY <1>0, <1>1, <1>2, <1>3, <1>3a, <1>4 DEF Next, Crash, Shutdown

LEMMA LogHolds ==
    ASSUME OneHandle
    PROVE  Spec => [](TypeInv /\ AbandonedIsAhead /\ LogInv)
BY AbandonedHolds, LogInit, LogStep, PTL DEF Spec

(* Through one handle no version is given to two events, however appends,    *)
(* rotations, failures, cancelled calls and appends abandoned within their   *)
(* transaction interleave, whatever the clock samples are worth and          *)
(* whichever file a rotation moves to: up to the first end of the process.   *)
THEOREM VersionsAreUnique ==
    ASSUME OneHandle
    PROVE  Spec => [](outages = 0 => VersionsUnique)
<1>1. LogInv => (outages = 0 => VersionsUnique)
  BY DEF LogInv, LogFacts
<1>. QED BY <1>1, LogHolds, PTL

(* The last version is one that is in use, or 0.                             *)
LEMMA StreamVersionIsStored ==
    ASSUME NEW k \in Nat, AllVersions \subseteq 1..k
    PROVE  StreamVersion \in AllVersions \cup {0}
<1>. DEFINE below == {k - v : v \in AllVersions \cup {0}}
<1>1. below \in SUBSET Nat /\ below # {}
  OBVIOUS
<1>2. Min(below) \in below /\ \A d \in below : Min(below) <= d
  BY <1>1, MinOfNats
<1>3. PICK v \in AllVersions \cup {0} : Min(below) = k - v
  BY <1>2
<1>4. \A w \in AllVersions : w <= v
  <2>. SUFFICES ASSUME NEW w \in AllVersions PROVE w <= v
    OBVIOUS
  <2>1. k - w \in below /\ v \in Int /\ w \in Int
    OBVIOUS
  <2>2. Min(below) <= k - w
    BY <1>2, <2>1
  <2>. HIDE DEF below
  <2>. QED BY <1>3, <2>1, <2>2
<1>. QED BY <1>4 DEF StreamVersion

(* Only a commit stores events, and behind the head of the active file.      *)
LEMMA RowsStored ==
    ASSUME TypeInv, [Next]_vars,
           NEW n \in Names, NEW v \in rows'[n], v \notin rows[n]
    PROVE  \E p \in Procs :
              /\ IsOpen(handle[p]) /\ handle[p] \in Handles
              /\ head[ActiveFile(p)] < v
<1>. StoreTypes /\ AgentTypes
  BY TypeParts
<1>. USE DEF fileVars
<1>1. rows' # rows
  OBVIOUS
<1>2. PICK p \in Procs : AppendCommits(p)
  BY <1>1 DEF Next, vars, Tick, Crash, Shutdown, EndProcess, DamageCatalog, Fault,
     AbandonAppend, AbandonedRollsBack, OpenPartitioned, OpenStep, ApplyCatalogSchema,
     RecordCatalogMigration, UseCatalog, RebuildEventFileRanges, SurveyFails,
     CreateNewActivePartition, CreationStep, CreateFile, ApplySchema, RecordMigration,
     InitializeEventFileAppendHead, HeadIsLocked, AddRange, Invoke, AppendStep, MaybeRotate,
     SampleRotationClock, ReturnEmptyBatch, RejectEvents, SampleClock,
     RotateUntilCurrentWindow, RotatePartition, SealActiveRange, AppendFails, AppendConflicts
<1>. DEFINE A == ActiveFile(p)
<1>3. /\ pc[p] = "commit" /\ head[A] # Null
      /\ rows' = [rows EXCEPT ![A] = @ \cup BatchVersions(p)]
  BY <1>2 DEF AppendCommits, AtTransaction, Unusable
<1>4. /\ IsOpen(handle[p]) /\ handle[p] \in Handles /\ A \in Names
      /\ head[A] \in Nat /\ call[p].count \in Nat
  BY <1>3 DEF AgentTypes, StepFacts, ActiveFile, ActivePartition, StoreTypes, Request
<1>5. v \in BatchVersions(p)
  BY <1>3, <1>4 DEF StoreTypes
<1>6. head[A] < v
  BY <1>4, <1>5 DEF BatchVersions, NewVersions
<1>. QED BY <1>4, <1>6

(* Through one handle and while the process lives every event is stored      *)
(* behind all the others: versions are monotonic in each partition, even     *)
(* behind an abandoned append.                                               *)
THEOREM VersionsAreMonotonic ==
    ASSUME OneHandle
    PROVE  Spec /\ [](outages = 0) => VersionsAscend
<1>1. TypeInv /\ LogInv /\ outages = 0 /\ [Next]_vars =>
        \A n \in Names : \A v \in rows'[n] \ rows[n] : v > StreamVersion
  <2>. SUFFICES ASSUME TypeInv, LogFacts, [Next]_vars, NEW n \in Names,
                       NEW v \in rows'[n], v \notin rows[n]
                PROVE  v > StreamVersion
    BY DEF LogInv
  <2>1. PICK p \in Procs : /\ IsOpen(handle[p]) /\ handle[p] \in Handles
                           /\ head[ActiveFile(p)] < v
    BY RowsStored
  <2>2. /\ head[ActiveFile(p)] \in Nat
        /\ AllVersions \subseteq 1..head[ActiveFile(p)]
    BY <2>1 DEF LogFacts, HeadCountsAll, ActiveFile, AllVersions
  <2>3. StreamVersion \in AllVersions \cup {0}
    BY <2>2, StreamVersionIsStored
  <2>4. StreamVersion \in Nat /\ StreamVersion <= head[ActiveFile(p)]
    BY <2>2, <2>3
  <2>5. v \in Nat
    BY TypeStep DEF TypeInv, TypeOK
  <2>. QED BY <2>1, <2>2, <2>4, <2>5
<1>. QED BY <1>1, LogHolds, PTL DEF Spec, VersionsAscend

(* What the versions of all files come to when no append was abandoned.      *)
LEMMA VersionsStored ==
    ASSUME OneHandle, NothingIsAbandoned, TypeInv, AbandonedIsAhead, LogFacts
    PROVE  /\ StreamVersion \in Nat
           /\ AllVersions = 1..StreamVersion
           /\ \A h \in Handles : IsOpen(h) => CurrentVersions(h) = {StreamVersion}
<1>. StoreTypes /\ AgentTypes
  BY TypeParts
<1>1. ASSUME NEW k \in Nat, AllVersions = 1..k
      PROVE  StreamVersion = k
  <2>1. k \in AllVersions \cup {0} /\ \A w \in AllVersions : w <= k
    BY <1>1
  <2>2. \A v \in AllVersions \cup {0} : (\A w \in AllVersions : w <= v) => v = k
    BY <1>1
  <2>. QED BY <2>1, <2>2 DEF StreamVersion
<1>2. PICK h \in Handles : \A g \in Handles : g = h
  BY DEF OneHandle
<1>3. CASE IsOpen(h)
  <2>. DEFINE n == active[h].name
              k == head[n]
  <2>1. n \in Names /\ k \in Nat /\ AllVersions = 1..k
    BY <1>3 DEF LogFacts, HeadCountsAll, AllVersions, AgentTypes, StepFacts, ActivePartition
  <2>2. HeadsSeen(h, n) = {k}
    <3>1. k \in HeadsSeen(h, n)
      BY DEF HeadsSeen
    <3>. HIDE DEF n
    <3>2. \A seen \in HeadsSeen(h, n) : seen = k
      BY <2>1, SeenIsAhead
    <3>. QED BY <3>1, <3>2
  <2>. QED BY <1>1, <1>2, <2>1, <2>2 DEF CurrentVersions
<1>4. CASE ~IsOpen(h)
  <2>1. AllVersions = {}
    BY <1>4 DEF LogFacts, OpeningIsFresh, NothingStored, AllVersions
  <2>2. AllVersions = 1..0
    BY <2>1
  <2>. QED BY <1>1, <1>2, <1>4, <2>2
<1>. QED BY <1>3, <1>4

(* Where no append is abandoned within its transaction (a failed one rolls   *)
(* back), no version is left out either, and current_version, the head of    *)
(* the active file, is that of the last event of the whole partition.        *)
THEOREM VersionsAreGapless ==
    ASSUME OneHandle, NothingIsAbandoned
    PROVE  Spec => [](outages = 0 => Gapless /\ CurrentVersionIsLast)
<1>1. TypeInv /\ AbandonedIsAhead /\ LogInv =>
        (outages = 0 => Gapless /\ CurrentVersionIsLast)
  BY VersionsStored DEF LogInv, Gapless, CurrentVersionIsLast
<1>. QED BY <1>1, LogHolds, PTL

-----------------------------------------------------------------------------
(* The partition implements EventLog.                                        *)

(* An idle caller waits for nothing.  Past the clock sample an append has    *)
(* events to store: an empty batch returned before it.                       *)
CallFacts ==
    \A p \in Procs :
        /\ pc[p] = "idle" => resume[p] = "begin" /\ call[p] = Null
        /\ pc[p] \in {"window", "commit"} => resume[p] = "window"
        /\ resume[p] = "window" => call[p].count > 0

\* Callers for whom nothing of it changes.
LEMMA CallsKept ==
    ASSUME CallFacts,
           \A p \in Procs : \/ pc'[p] = "idle" /\ resume'[p] = "begin" /\ call'[p] = Null
                            \/ /\ resume'[p] = resume[p] /\ call'[p] = call[p]
                               /\ pc'[p] \notin {"idle", "window", "commit"} \/ pc'[p] = pc[p]
    PROVE  CallFacts'
BY DEF CallFacts

LEMMA FinishKeepsCalls ==
    ASSUME TypeInv, CallFacts, NEW a \in Agents, NEW result, Finish(a, result)
    PROVE  CallFacts'
<1>. AgentTypes
  BY TypeParts
<1>1. Procs \cap Handles = {}
  BY EventStreamAssumption
<1>2. CASE a \in Handles
  BY <1>1, <1>2, CallsKept DEF Finish, Goto, AgentTypes, Agents
<1>3. CASE a \in Procs
  BY <1>1, <1>3, CallsKept DEF Finish, Goto, AgentTypes, Agents
<1>. QED BY <1>2, <1>3 DEF Agents

LEMMA CreationKeepsCalls ==
    ASSUME TypeInv, CallFacts, NEW a \in Agents, CreationStep(a)
    PROVE  CallFacts'
<1>. AgentTypes
  BY TypeParts
<1>. USE DEF callVars
<1>0. Procs \cap Handles = {}
  BY EventStreamAssumption
<1>0a. CASE HeadIsLocked(a)
  BY <1>0a, FinishKeepsCalls DEF HeadIsLocked
<1>1. CASE CreateFile(a) \/ InitializeEventFileAppendHead(a)
  <2>1. PICK step \in {"init_head", "schema", "add_range"} : pc' = [pc EXCEPT ![a] = step]
    BY <1>1 DEF CreateFile, InitializeEventFileAppendHead, Goto
  <2>. QED BY <1>1, <2>1, CallsKept
         DEF CreateFile, InitializeEventFileAppendHead, AgentTypes
<1>2. CASE ApplySchema(a) \/ RecordMigration(a)
  <2>1. CASE \E result : Finish(a, result)
    BY <2>1, FinishKeepsCalls
  <2>2. CASE ~\E result : Finish(a, result)
    <3>1. PICK step \in {"record", "init_head"} : pc' = [pc EXCEPT ![a] = step]
      BY <1>2, <2>2 DEF ApplySchema, RecordMigration, Goto
    <3>2. UNCHANGED callVars
      BY <1>2, <2>2 DEF ApplySchema, RecordMigration
    <3>. QED BY <3>1, <3>2, CallsKept DEF AgentTypes
  <2>. QED BY <2>1, <2>2
<1>3. CASE AddRange(a)
  <2>1. /\ pc' = [pc EXCEPT ![a] = IF a \in Handles THEN "open" ELSE resume[a]]
        /\ UNCHANGED callVars
    BY <1>3 DEF AddRange, Goto
  <2>2. CASE a \in Handles
    BY <1>0, <2>1, <2>2, CallsKept DEF AgentTypes
  <2>3. CASE a \in Procs
    BY <1>0, <2>1, <2>3 DEF CallFacts, AgentTypes, Agents
  <2>. QED BY <2>2, <2>3 DEF Agents
<1>. QED BY <1>0a, <1>1, <1>2, <1>3 DEF CreationStep

LEMMA CallStep == TypeInv /\ CallFacts /\ [Next]_vars => CallFacts'
<1>. SUFFICES ASSUME TypeInv, CallFacts, [Next]_vars PROVE CallFacts'
  OBVIOUS
<1>. AgentTypes
  BY TypeParts
<1>. USE DEF fileVars, catalogVars, handleVars, callVars
<1>0. Procs \cap Handles = {}
  BY EventStreamAssumption
<1>1. ASSUME NEW h \in Handles, OpenPartitioned(h) \/ OpenStep(h)
      PROVE  CallFacts'
  <2>1. CASE CreationStep(h)
    BY <2>1, CreationKeepsCalls DEF Agents
  <2>2. CASE \E result : Finish(h, result)
    BY <2>2, FinishKeepsCalls DEF Agents
  <2>3. CASE ~CreationStep(h) /\ ~\E result : Finish(h, result)
    <3>1. (\E step : pc' = [pc EXCEPT ![h] = step]) /\ UNCHANGED <<call, resume>>
      BY <1>1, <2>3 DEF OpenStep, OpenPartitioned, ApplyCatalogSchema,
           RecordCatalogMigration, UseCatalog, RebuildEventFileRanges, SurveyFails,
           CreateNewActivePartition, Attach, Goto
    <3>. QED BY <1>0, <3>1, CallsKept DEF AgentTypes
  <2>. QED BY <2>1, <2>2, <2>3
<1>2. ASSUME NEW p \in Procs, Invoke(p) \/ AppendStep(p)
      PROVE  CallFacts'
  <2>1. CASE CreationStep(p)
    BY <2>1, CreationKeepsCalls DEF Agents
  <2>2. CASE \E result : Finish(p, result)
    BY <2>2, FinishKeepsCalls DEF Agents
  <2>3. CASE Invoke(p)
    <3>1. /\ pc' = [pc EXCEPT ![p] = "maybe_rotate"] /\ resume' = resume
          /\ resume[p] # "window"
          /\ \A b \in Procs \ {p} : call'[b] = call[b]
      BY <2>3 DEF Invoke, Goto, CallFacts, AgentTypes
    <3>. QED BY <3>1 DEF CallFacts, AgentTypes, Agents
  <2>4. CASE MaybeRotate(p)
    <3>1. PICK step \in {"clock", "begin"} : pc' = [pc EXCEPT ![p] = step]
      BY <2>4 DEF MaybeRotate, Goto
    <3>. QED BY <2>4, <3>1, CallsKept DEF MaybeRotate, AgentTypes
  <2>5. CASE SampleClock(p)
    BY <2>5 DEF SampleClock, Goto, CallFacts, AgentTypes
  <2>5a. CASE SampleRotationClock(p)
    BY <2>5a, CallsKept DEF SampleRotationClock, Goto, AgentTypes
  <2>6. CASE RotateUntilCurrentWindow(p)
    BY <2>6 DEF RotateUntilCurrentWindow, Goto, CallFacts, AgentTypes
  <2>7. CASE (RotatePartition(p) \/ SealActiveRange(p)) /\ ~\E result : Finish(p, result)
    <3>1. PICK step \in {"seal", "create"} : pc' = [pc EXCEPT ![p] = step]
      BY <2>7 DEF RotatePartition, SealActiveRange, Goto
    <3>2. UNCHANGED <<call, resume>>
      BY <2>7 DEF RotatePartition, SealActiveRange
    <3>. QED BY <3>1, <3>2, CallsKept DEF AgentTypes
  <2>8. CASE ReturnEmptyBatch(p) \/ RejectEvents(p) \/ AppendFails(p) \/ AppendConflicts(p)
             \/ AppendCommits(p)
    BY <2>2, <2>8 DEF ReturnEmptyBatch, RejectEvents, AppendFails, AppendConflicts,
         AppendCommits
  <2>. QED BY <1>2, <2>1, <2>2, <2>3, <2>4, <2>5, <2>5a, <2>6, <2>7, <2>8 DEF AppendStep
<1>3. ASSUME NEW a \in Agents, Fault(a)
      PROVE  CallFacts'
  BY <1>3, FinishKeepsCalls DEF Fault
<1>3a. ASSUME NEW p \in Procs, AbandonAppend(p)
       PROVE  CallFacts'
  BY <1>3a, FinishKeepsCalls DEF AbandonAppend, Agents
<1>4. CASE Tick \/ DamageCatalog \/ (\E n \in Names : AbandonedRollsBack(n)) \/ UNCHANGED vars
  BY <1>4, CallsKept DEF Tick, DamageCatalog, AbandonedRollsBack, vars
<1>5. CASE EndProcess
  BY <1>0, <1>5, CallsKept DEF EndProcess, Agents
<1>. QED BY <1>1, <1>2, <1>3, <1>3a, <1>4, <1>5 DEF Next, Crash, Shutdown

LEMMA SameRowsSameLength == UNCHANGED rows => UNCHANGED StreamVersion
BY DEF StreamVersion, AllVersions

\* A step that neither stores events nor returns to a caller is not seen.
LEMMA Unseen ==
    ASSUME UNCHANGED <<rows, call, outcome>>
    PROVE  [Log!Next]_(Log!vars)
BY SameRowsSameLength DEF Log!vars

LEMMA FinishWithError ==
    ASSUME TypeInv, NEW a \in Agents, pc[a] \notin {"idle", "open"},
           Finish(a, "error"), UNCHANGED rows
    PROVE  [Log!Next]_(Log!vars)
<1>. AgentTypes
  BY TypeParts
<1>1. CASE a \in Handles
  BY <1>1, Unseen DEF Finish
<1>2. CASE a \in Procs
  <2>1. call[a] # Null
    BY <1>2, NullIsNoRecord DEF AgentTypes, StepFacts
  <2>2. Log!Fail(a)
    BY <1>2, <2>1, EventStreamAssumption, SameRowsSameLength
       DEF Finish, Log!Fail, Log!Return
  <2>. QED BY <1>2, <2>2 DEF Log!Next
<1>. QED BY <1>1, <1>2 DEF Agents

LEMMA CreationIsUnseen ==
    ASSUME TypeInv, NEW a \in Agents, CreationStep(a)
    PROVE  [Log!Next]_(Log!vars)
<1>. USE DEF callVars, fileVars
<1>1. pc[a] \notin {"idle", "open"} /\ UNCHANGED rows
  BY DEF CreationStep, CreateFile, ApplySchema, RecordMigration,
     InitializeEventFileAppendHead, HeadIsLocked, AddRange
<1>2. Finish(a, "error") \/ UNCHANGED <<call, outcome>>
  BY DEF CreationStep, CreateFile, ApplySchema, RecordMigration,
     InitializeEventFileAppendHead, HeadIsLocked, AddRange
<1>. QED BY <1>1, <1>2, Unseen, FinishWithError

\* The committed head is one of those that can be read.
LEMMA HeadIsLast ==
    ASSUME CurrentVersionIsLast, NEW h \in Handles, IsOpen(h)
    PROVE  head[active[h].name] = StreamVersion
<1>1. head[active[h].name] \in CurrentVersions(h)
  BY DEF CurrentVersions, HeadsSeen
<1>. QED BY <1>1 DEF CurrentVersionIsLast

(* An append takes effect, or is refused, at its transaction.                *)
LEMMA AppendIsSeen ==
    ASSUME TypeInv, TypeInv', Gapless, CurrentVersionIsLast, CurrentVersionIsLast', CallFacts,
           NEW p \in Procs, Invoke(p) \/ AppendStep(p)
    PROVE  [Log!Next]_(Log!vars)
<1>. AgentTypes /\ StoreTypes
  BY TypeParts
<1>. USE DEF fileVars, callVars
<1>. DEFINE A == active[handle[p]].name
            k == head[A]
<1>0. /\ p \in Agents /\ p \notin Handles
      /\ pc[p] # "idle" => /\ call[p] # Null /\ call[p] \in Request
                           /\ IsOpen(handle[p]) /\ k = StreamVersion
  BY EventStreamAssumption, NullIsNoRecord, HeadIsLast DEF Agents, AgentTypes, StepFacts
<1>1. CASE CreationStep(p)
  BY <1>0, <1>1, CreationIsUnseen
<1>2. CASE Invoke(p)
  <2>1. PICK e \in Expectations, c \in BatchSizes :
            call' = [call EXCEPT ![p] = [expected |-> e, count |-> c]]
    BY <1>2 DEF Invoke
  <2>2. call'[p] = [expected |-> e, count |-> c] /\ call'[p] \in Log!Request
    BY <2>1, EventStreamAssumption DEF AgentTypes, ExpectedVersion, Log!Request,
       Log!ExpectationKinds
  <2>3. call[p] = Null
    BY <1>2 DEF Invoke, CallFacts
  <2>4. Log!Invoke(p)
    BY <1>2, <2>1, <2>2, <2>3, SameRowsSameLength DEF Invoke, Log!Invoke
  <2>. QED BY <2>4 DEF Log!Next
<1>3. CASE (RejectEvents(p) \/ AppendFails(p) \/ RotatePartition(p)) /\ Finish(p, "error")
  BY <1>0, <1>3, FinishWithError DEF RejectEvents, AppendFails, RotatePartition, AtTransaction
<1>4. CASE MaybeRotate(p) \/ SampleRotationClock(p) \/ SampleClock(p)
           \/ RotateUntilCurrentWindow(p) \/ SealActiveRange(p)
           \/ (RotatePartition(p) /\ ~Finish(p, "error"))
  BY <1>4, Unseen DEF MaybeRotate, SampleRotationClock, SampleClock,
     RotateUntilCurrentWindow, SealActiveRange, RotatePartition
<1>5. CASE ReturnEmptyBatch(p)
  <2>1. Log!ReturnEmpty(p)
    BY <1>0, <1>5, SameRowsSameLength DEF ReturnEmptyBatch, Finish, Log!ReturnEmpty, Log!Return
  <2>. QED BY <2>1 DEF Log!Next
<1>6. CASE AppendConflicts(p)
  <2>1. /\ k # Null /\ pc[p] = "commit" /\ Finish(p, "conflict") /\ UNCHANGED rows
        /\ Mismatch(call[p].expected, k) \/ BatchVersions(p) \cap rows[A] # {}
    BY <1>6 DEF AppendConflicts, AtTransaction, Unusable, Conflicting, ActiveFile
  <2>2. BatchVersions(p) = k + 1 .. k + call[p].count /\ k \in Nat /\ A \in Names
    BY <1>0, <2>1 DEF BatchVersions, NewVersions, ActiveFile, StoreTypes, AgentTypes, StepFacts,
       ActivePartition
  <2>3. rows[A] \subseteq 1..k
    BY <1>0, <2>1, <2>2 DEF Gapless, AllVersions
  <2>. HIDE DEF k, A
  <2>4. BatchVersions(p) \cap rows[A] = {}
    BY <2>2, <2>3
  <2>5. ~Log!Meets(call[p].expected, StreamVersion)
    BY <1>0, <2>1, <2>4 DEF Mismatch, Log!Meets
  <2>6. Log!Refuse(p)
    BY <1>0, <2>1, <2>5, SameRowsSameLength DEF Finish, Log!Refuse, Log!Return
  <2>. QED BY <2>6 DEF Log!Next
<1>7. CASE AppendCommits(p)
  <2>. DEFINE c == call[p].count
  <2>1. /\ k # Null /\ pc[p] = "commit" /\ Finish(p, "appended")
        /\ ~ExactStart(call[p].expected) /\ ~Mismatch(call[p].expected, k)
        /\ head' = [head EXCEPT ![A] = k + c]
    BY <1>7 DEF AppendCommits, AtTransaction, Unusable, Conflicting, ActiveFile
  <2>2. A \in Names /\ c \in Nat /\ c > 0
    BY <1>0, <2>1 DEF AgentTypes, StepFacts, ActivePartition, Request, CallFacts
  <2>3. /\ active'[handle'[p]].name = A /\ handle'[p] \in Handles
        /\ IsOpen(handle[p])' /\ head'[A] = k + c
    <3>1. UNCHANGED <<active, handle>> /\ pc' = [pc EXCEPT ![p] = "idle"]
      BY <1>0, <2>1 DEF Finish, Goto
    <3>2. handle[p] \in Handles /\ pc[handle[p]] = "open" /\ handle[p] # p
      BY <1>0, <2>1 DEF IsOpen, AgentTypes
    <3>3. pc'[handle[p]] = "open"
      BY <3>1, <3>2 DEF AgentTypes, Agents
    <3>. QED BY <2>1, <2>2, <3>1, <3>2, <3>3 DEF IsOpen, StoreTypes
  <2>4. (\A h \in Handles : IsOpen(h) => head[active[h].name] = StreamVersion)'
    BY DEF CurrentVersionIsLast, CurrentVersions, HeadsSeen
  <2>5. StreamVersion' = StreamVersion + c
    BY <1>0, <2>1, <2>3, <2>4 DEF Finish
  <2>6. Log!Meets(call[p].expected, StreamVersion)
    BY <1>0, <2>1 DEF Mismatch, ExactStart, Log!Meets, Request, ExpectedVersion
  <2>7. Log!Append(p)
    BY <1>0, <2>1, <2>2, <2>5, <2>6 DEF Finish, Log!Append, Log!Return
  <2>. QED BY <2>7 DEF Log!Next
<1>. QED BY <1>1, <1>2, <1>3, <1>4, <1>5, <1>6, <1>7
       DEF AppendStep, RejectEvents, AppendFails

LEMMA StepImplemented ==
    /\ TypeInv /\ TypeInv' /\ Gapless /\ CurrentVersionIsLast /\ CurrentVersionIsLast'
    /\ CallFacts /\ [Next]_vars
    => [Log!Next]_(Log!vars)
<1>. SUFFICES ASSUME TypeInv, TypeInv', Gapless, CurrentVersionIsLast, CurrentVersionIsLast',
                     CallFacts, [Next]_vars
              PROVE  [Log!Next]_(Log!vars)
  OBVIOUS
<1>. USE DEF fileVars, callVars
<1>0. Procs \cap Handles = {}
  BY EventStreamAssumption
<1>1. ASSUME NEW h \in Handles, OpenPartitioned(h) \/ OpenStep(h)
      PROVE  [Log!Next]_(Log!vars)
  <2>1. CASE CreationStep(h)
    BY <2>1, CreationIsUnseen DEF Agents
  <2>2. CASE ~CreationStep(h)
    <3>1. UNCHANGED <<rows, call, outcome>>
      BY <1>1, <2>2 DEF OpenPartitioned, OpenStep, ApplyCatalogSchema, RecordCatalogMigration,
           UseCatalog, RebuildEventFileRanges, SurveyFails, CreateNewActivePartition, Finish
    <3>. QED BY <3>1, Unseen
  <2>. QED BY <2>1, <2>2
<1>2. ASSUME NEW p \in Procs, Invoke(p) \/ AppendStep(p)
      PROVE  [Log!Next]_(Log!vars)
  BY <1>2, AppendIsSeen
<1>3. ASSUME NEW a \in Agents, Fault(a)
      PROVE  [Log!Next]_(Log!vars)
  BY <1>3, FinishWithError DEF Fault
<1>3a. ASSUME NEW p \in Procs, AbandonAppend(p)
       PROVE  [Log!Next]_(Log!vars)
  BY <1>3a, FinishWithError DEF AbandonAppend, AtTransaction, Agents
<1>4. CASE Tick \/ DamageCatalog \/ (\E n \in Names : AbandonedRollsBack(n)) \/ UNCHANGED vars
  BY <1>4, Unseen DEF Tick, DamageCatalog, AbandonedRollsBack, vars
<1>5. CASE EndProcess
  <2>1. Log!Crash
    BY <1>5, SameRowsSameLength DEF EndProcess, Log!Crash
  <2>. QED BY <2>1 DEF Log!Next
<1>. QED BY <1>1, <1>2, <1>3, <1>3a, <1>4, <1>5 DEF Next, Crash, Shutdown

LEMMA InitImplemented == Init => Log!Init /\ CallFacts
<1>. SUFFICES ASSUME Init PROVE Log!Init /\ CallFacts
  OBVIOUS
<1>0. Procs \cap Handles = {}
  BY EventStreamAssumption
<1>1. AllVersions = {}
  BY DEF Init, AllVersions
<1>2. StreamVersion = 0
  BY <1>1 DEF StreamVersion
<1>3. CallFacts
  BY <1>0 DEF Init, CallFacts, Agents
<1>. QED BY <1>2, <1>3 DEF Init, Log!Init

(* Through one handle, while the process lives and no append is abandoned    *)
(* within its transaction, callers cannot tell the partition from one log:   *)
(* every append that returns took effect, or was rightly refused, at one     *)
(* instant, at the version its caller expected, for all callers, batches,    *)
(* clocks and failures.                                                      *)
THEOREM StreamIsOneLog ==
    ASSUME OneHandle, NothingIsAbandoned
    PROVE  Spec /\ [](outages = 0) => IsOneLog
<1>1. Spec => [](TypeInv /\ AbandonedIsAhead /\ LogInv)
  BY LogHolds
<1>2. Spec => []CallFacts
  BY <1>1, InitImplemented, CallStep, PTL DEF Spec
<1>3. TypeInv /\ AbandonedIsAhead /\ LogInv =>
        (outages = 0 => Gapless /\ CurrentVersionIsLast)
  BY VersionsStored DEF LogInv, Gapless, CurrentVersionIsLast
<1>4. Init => Log!Init
  BY InitImplemented
<1>. QED BY <1>1, <1>2, <1>3, <1>4, StepImplemented, PTL DEF Spec, IsOneLog, Log!Spec
=============================================================================
