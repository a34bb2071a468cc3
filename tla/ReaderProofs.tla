---------------------------- MODULE ReaderProofs ----------------------------
(* Theorems about EventReader: what a load finds while appends, rotations and*)
(* restarts go on, for any handlers, read limits and interests.              *)
EXTENDS EventReader, RestartProofs, FiniteSetTheorems

Load ==
    [todo : SUBSET [first : Int, name : Names],
     found : SUBSET [name : Names, version : Nat],
     limit : Nat \ {0}]

ReaderTypes ==
    /\ follows \in [Readers -> SUBSET Nat]
    /\ cursor \in [Readers -> Nat]
    /\ handled \in [Readers -> SUBSET Nat]
    /\ load \in [Readers -> Load \cup {Null}]

-----------------------------------------------------------------------------
(* The inductive invariant *)

Versions(found) == {e.version : e \in found}
Todo(r) == {range.name : range \in load[r].todo}
Found(r) == Versions(load[r].found)

(* What the load may find in a file, and what it could still return of it.   *)
Matching(r, n) == rows[n] \cap follows[r]
Missing(r, n) == {v \in Matching(r, n) : v > cursor[r] /\ v \notin Found(r)}

(* A load has found the first of the versions behind the cursor; if it has   *)
(* room for more, the others are in ranges it has yet to query, or in files  *)
(* behind all of those.                                                      *)
LoadHolds(r) ==
    /\ \E h \in Handles : IsOpen(h)
    /\ \A range \in load[r].todo :
        head[range.name] # Null /\ range.first = FirstVersion(range.name)
    /\ IsFiniteSet(load[r].found)
    /\ \A e \in load[r].found :
        /\ e.version \in Matching(r, e.name) /\ e.version > cursor[r]
        /\ e.name \notin Todo(r)
    /\ \A n \in Names : \A v \in Missing(r, n) :
        /\ \A w \in Found(r) : w < v
        /\ Cardinality(load[r].found) < load[r].limit =>
            n \in Todo(r) \/ \A m \in Todo(r) : NameBefore(m, n)

LoadsInv == \A r \in Readers : load[r] # Null => LoadHolds(r)

ReaderInv == ReaderTypes /\ LoadsInv /\ HandledInOrder

-----------------------------------------------------------------------------
(* ORDER BY version LIMIT *)

(* Whatever is cut off is behind what is returned, and something is cut off  *)
(* only when the limit is reached.                                           *)
LEMMA FirstRowsFacts ==
    ASSUME NEW S \in SUBSET Nat, IsFiniteSet(S), NEW limit \in Nat
    PROVE  /\ FirstRows(S, limit) \subseteq S
           /\ \A v \in S \ FirstRows(S, limit) : \A w \in FirstRows(S, limit) : w < v
           /\ FirstRows(S, limit) # S => Cardinality(FirstRows(S, limit)) >= limit
<1>. DEFINE UpTo(v) == {w \in S : w <= v}
            F == FirstRows(S, limit)
<1>1. F \in SUBSET S /\ \A v \in S : v \in F <=> Cardinality(UpTo(v)) <= limit
  BY DEF FirstRows
<1>2. \A v \in S : IsFiniteSet(UpTo(v)) /\ Cardinality(UpTo(v)) \in Nat
  <2>. SUFFICES ASSUME NEW v \in S
                PROVE  IsFiniteSet(UpTo(v)) /\ Cardinality(UpTo(v)) \in Nat
    OBVIOUS
  <2>1. UpTo(v) \in SUBSET S
    OBVIOUS
  <2>2. IsFiniteSet(UpTo(v))
    BY <2>1, FS_Subset
  <2>. QED BY <2>2, FS_CardinalityType
<1>3. \A v, w \in S : v <= w => UpTo(v) \in SUBSET UpTo(w)
  <2>. SUFFICES ASSUME NEW v \in S, NEW w \in S, v <= w, NEW x \in UpTo(v)
                PROVE  x \in UpTo(w)
    OBVIOUS
  <2>1. x \in S /\ x <= v /\ x \in Nat /\ v \in Nat /\ w \in Nat
    OBVIOUS
  <2>2. x <= w
    BY <2>1
  <2>. QED BY <2>1, <2>2
<1>4. \A v \in S : UpTo(v) \in SUBSET S /\ \A w \in UpTo(v) : w <= v
  OBVIOUS
<1>. HIDE DEF F, UpTo
<1>5. ASSUME NEW v \in S \ F, NEW w \in F PROVE w < v
  <2>1. v \in Nat /\ w \in Nat /\ v \in S /\ w \in S
    BY <1>1
  <2>2. CASE v <= w
    <3>1. Cardinality(UpTo(v)) <= Cardinality(UpTo(w))
      BY <1>2, <1>3, <2>1, <2>2, FS_Subset
    <3>2. Cardinality(UpTo(w)) <= limit /\ ~(Cardinality(UpTo(v)) <= limit)
      BY <1>1, <2>1
    <3>. QED BY <1>2, <2>1, <3>1, <3>2
  <2>. QED BY <2>1, <2>2
<1>6. ASSUME F # S PROVE Cardinality(F) >= limit
  <2>1. S \ F # {} /\ S \ F \in SUBSET Nat
    BY <1>1, <1>6
  <2>2. PICK v \in S \ F : \A w \in S \ F : v <= w
    BY <2>1, MinOfNats
  <2>3. UpTo(v) \in SUBSET (F \cup {v})
    <3>1. \A w \in UpTo(v) : w \in S /\ w <= v
      BY <1>4
    <3>2. \A w \in UpTo(v) : w \in S \ F => w = v
      BY <2>2, <3>1
    <3>. QED BY <3>1, <3>2
  <2>4. IsFiniteSet(F)
    BY <1>1, FS_Subset
  <2>5. IsFiniteSet(F \cup {v}) /\ Cardinality(F \cup {v}) = Cardinality(F) + 1 /\ Cardinality(F) \in Nat
    BY <2>2, <2>4, FS_AddElement, FS_CardinalityType
  <2>6. Cardinality(UpTo(v)) <= Cardinality(F) + 1
    BY <2>3, <2>5, FS_Subset
  <2>7. ~(Cardinality(UpTo(v)) <= limit) /\ Cardinality(UpTo(v)) \in Nat
    BY <1>1, <1>2, <2>2
  <2>. QED BY <2>5, <2>6, <2>7
<1>. QED BY <1>1, <1>5, <1>6 DEF F

LEMMA MaxOfNats ==
    ASSUME NEW S \in SUBSET Nat, S # {}, NEW bound \in Nat, \A v \in S : v <= bound
    PROVE  Max(S) \in S /\ \A v \in S : v <= Max(S)
<1>. DEFINE D == {bound - v : v \in S}
<1>1. D \in SUBSET Nat /\ D # {}
  <2>1. \A v \in S : v \in Nat /\ bound - v \in Nat
    OBVIOUS
  <2>. QED BY <2>1
<1>2. PICK x \in S : bound - x = Min(D)
  BY <1>1, MinOfNats
<1>3. \A v \in S : bound - x <= bound - v
  BY <1>1, <1>2, MinOfNats
<1>4. \A v \in S : v <= x
  BY <1>3
<1>. QED BY <1>4 DEF Max

(* Rows keep their number with the name of their file attached.              *)
LEMMA NamedRows ==
    ASSUME NEW V, IsFiniteSet(V), NEW n
    PROVE  LET rowsOf == {[name |-> n, version |-> v] : v \in V}
           IN  IsFiniteSet(rowsOf) /\ Cardinality(rowsOf) = Cardinality(V)
<1>. DEFINE rowsOf == {[name |-> n, version |-> v] : v \in V}
            f == [v \in V |-> [name |-> n, version |-> v]]
<1>1. f \in Bijection(V, rowsOf)
  <2>1. f \in [V -> rowsOf]
    OBVIOUS
  <2>2. \A v, w \in V : f[v] = f[w] => v = w
    <3>. SUFFICES ASSUME NEW v \in V, NEW w \in V, f[v] = f[w] PROVE v = w
      OBVIOUS
    <3>1. f[v].version = v /\ f[w].version = w
      OBVIOUS
    <3>. QED BY <3>1
  <2>3. \A e \in rowsOf : \E v \in V : f[v] = e
    OBVIOUS
  <2>. HIDE DEF f, rowsOf
  <2>4. f \in Injection(V, rowsOf) /\ f \in Surjection(V, rowsOf)
    BY <2>1, <2>2, <2>3 DEF Injection, IsInjective, Surjection
  <2>. QED BY <2>4 DEF Bijection
<1>2. ExistsBijection(V, rowsOf)
  BY <1>1 DEF ExistsBijection
<1>. QED BY <1>2, FS_Bijection

-----------------------------------------------------------------------------
(* What loads can rely on while the partition moves on                       *)

(* Stored events stay, files keep their first version, and what is new goes  *)
(* behind everything else, in the newest file.                               *)
StoreGrows ==
    \A n \in Names :
        /\ rows[n] \subseteq rows'[n]
        /\ head[n] # Null => head'[n] # Null /\ FirstVersion(n)' = FirstVersion(n)
        /\ \A v \in rows'[n] \ rows[n] : \A m \in Names :
            /\ head[m] # Null => m = n \/ NameBefore(m, n)
            /\ \A w \in rows[m] : w < v

LEMMA FileOf ==
    ASSUME IInv, NEW n \in Names
    PROVE  /\ rows[n] \in SUBSET (Nat \ {0}) /\ IsFiniteSet(rows[n])
           /\ rows[n] # {} => head[n] # Null
           /\ head[n] # Null =>
                /\ head[n] \in Nat /\ FirstVersion(n) \in Nat /\ Present(n)
                /\ \A v \in rows[n] : FirstVersion(n) <= v /\ v <= head[n]
<1>1. rows[n] \in SUBSET (Nat \ {0}) /\ head[n] \in Nat \cup {Null}
  BY DEF IInv, TypeInv, TypeOK
<1>2. CASE head[n] = Null
  <2>1. rows[n] = {}
    BY <1>2 DEF IInv, DiskInv, FilesInv, FileHolds
  <2>. QED BY <1>1, <1>2, <2>1, FS_EmptySet
<1>3. CASE head[n] # Null
  <2>1. /\ Present(n) /\ FirstVersion(n) \in 1 .. head[n] + 1
        /\ rows[n] = FirstVersion(n) .. head[n]
    BY <1>3 DEF IInv, DiskInv, FilesInv, FileHolds
  <2>2. head[n] \in Nat /\ FirstVersion(n) \in Nat
    BY <1>1, <1>3, <2>1
  <2>3. IsFiniteSet(rows[n])
    BY <2>1, <2>2, FS_Interval
  <2>. QED BY <1>1, <1>3, <2>1, <2>2, <2>3
<1>. QED BY <1>2, <1>3

LEMMA AppendGrows ==
    ASSUME OneHandle, IInv, NEW p \in Procs, AppendCommits(p)
    PROVE  StoreGrows
<1>1. PICK n \in Names, last \in Nat : Extends(p, n, last)
  BY AppendExtends
<1>2. handle[p] \in Handles /\ IsOpen(handle[p])
  BY DEF AppendCommits, AtTransaction, IInv, TypeInv, TypeOK, StepFacts
<1>3. \A m \in Names : rows[m] # {} => head[m] \in 0 .. head[n]
  BY <1>1, <1>2, ActiveHeadIsHighest DEF Extends
<1>4. ASSUME NEW m \in Names, NEW v \in rows'[m] \ rows[m], NEW k \in Names
      PROVE  /\ head[k] # Null => k = m \/ NameBefore(k, m)
             /\ \A w \in rows[k] : w < v
  <2>1. m = n /\ v \in head[n] + 1 .. last /\ head[n] \in Nat
    BY <1>1 DEF Extends
  <2>2. head[k] # Null => k = n \/ NameBefore(k, n)
    BY <1>1, FileOf DEF Extends, Newest
  <2>3. ASSUME NEW w \in rows[k] PROVE w < v
    <3>1. head[k] \in 0 .. head[n] /\ head[k] \in Nat /\ w <= head[k] /\ w \in Nat
      BY <1>3, FileOf
    <3>. QED BY <2>1, <3>1
  <2>. QED BY <2>1, <2>2, <2>3
<1>5. ASSUME NEW m \in Names
      PROVE  /\ rows[m] \subseteq rows'[m]
             /\ head[m] # Null => head'[m] # Null /\ FirstVersion(m)' = FirstVersion(m)
  BY <1>1 DEF Extends
<1>. QED BY <1>4, <1>5 DEF StoreGrows

LEMMA HeadGrows ==
    ASSUME IInv, NEW a \in Agents, InitializeEventFileAppendHead(a)
    PROVE  StoreGrows
<1>. DEFINE k == job[a].name
<1>1. head[k] = Null
  <2>1. pc[a] = "init_head" /\ pc[a] \in RotationSteps
    BY DEF InitializeEventFileAppendHead, RotationSteps
  <2>2. TargetHolds(a)
    BY <2>1 DEF IInv, AgentInv, TargetInv
  <2>. QED BY <2>1, <2>2 DEF TargetHolds
<1>2. rows' = rows /\ \A n \in Names \ {k} : head'[n] = head[n]
  BY DEF InitializeEventFileAppendHead, IInv, TypeInv, TypeOK
<1>. QED BY <1>1, <1>2 DEF StoreGrows, FirstVersion

LEMMA StepGrows ==
    ASSUME OneHandle, IInv, [Next]_vars
    PROVE  StoreGrows
<1>1. CASE \E p \in Procs : AppendCommits(p)
  BY <1>1, AppendGrows
<1>2. CASE \E a \in Agents : InitializeEventFileAppendHead(a)
  BY <1>2, HeadGrows
<1>3. CASE UNCHANGED <<rows, head>>
  BY <1>3 DEF StoreGrows, FirstVersion
<1>4. Tick \/ Crash \/ Shutdown \/ DamageCatalog \/ UNCHANGED vars => UNCHANGED <<rows, head>>
  BY DEF Tick, Crash, Shutdown, EndProcess, DamageCatalog, fileVars, vars
<1>5. ASSUME NEW a \in Agents, CreationStep(a)
      PROVE  InitializeEventFileAppendHead(a) \/ UNCHANGED <<rows, head>>
  BY <1>5 DEF CreationStep, CreateFile, ApplySchema, RecordMigration, HeadIsLocked, AddRange,
         fileVars
<1>6. ASSUME NEW h \in Handles, OpenPartitioned(h) \/ OpenStep(h)
      PROVE  InitializeEventFileAppendHead(h) \/ UNCHANGED <<rows, head>>
  <2>1. h \in Agents
    BY DEF Agents
  <2>. QED BY <1>5, <1>6, <2>1 DEF OpenPartitioned, OpenStep, ApplyCatalogSchema,
         RecordCatalogMigration, UseCatalog, RebuildEventFileRanges, SurveyFails,
         CreateNewActivePartition, fileVars
<1>7. ASSUME NEW p \in Procs, Invoke(p) \/ AppendStep(p)
      PROVE  \/ AppendCommits(p) \/ InitializeEventFileAppendHead(p)
             \/ UNCHANGED <<rows, head>>
  <2>1. p \in Agents
    BY DEF Agents
  <2>. QED BY <1>5, <1>7, <2>1 DEF Invoke, AppendStep, MaybeRotate, SampleRotationClock,
         ReturnEmptyBatch, RejectEvents, SampleClock, RotateUntilCurrentWindow, RotatePartition,
         SealActiveRange, AppendFails, AppendConflicts, fileVars
<1>8. (\E a \in Agents : Fault(a)) => UNCHANGED <<rows, head>>
  BY DEF Fault, fileVars
<1>9. (\E p \in Procs : AbandonAppend(p)) \/ (\E n \in Names : AbandonedRollsBack(n))
        => UNCHANGED <<rows, head>>
  BY DEF AbandonAppend, AbandonedRollsBack
<1>. QED BY <1>1, <1>2, <1>3, <1>4, <1>6, <1>7, <1>8, <1>9 DEF Next, Agents

LEMMA LoadTypes ==
    ASSUME ReaderTypes, NEW r \in Readers
    PROVE  /\ cursor[r] \in Nat /\ follows[r] \in SUBSET Nat /\ handled[r] \in SUBSET Nat
           /\ load[r] # Null =>
                /\ load[r] \in Load /\ load[r].limit \in Nat
                /\ \A range \in load[r].todo : range.name \in Names /\ range.first \in Int
                /\ \A e \in load[r].found : e.name \in Names /\ e.version \in Nat
                /\ Found(r) \in SUBSET Nat
BY DEF ReaderTypes, Load, Found, Versions

(* Nothing that is appended, created, rotated or ended disturbs a load.      *)
LEMMA StreamStepKeeps ==
    ASSUME OneHandle, IInv, ReaderInv, StreamStep
    PROVE  ReaderInv'
<1>1. StoreGrows
  BY StepGrows DEF StreamStep
<1>2. UNCHANGED <<follows, cursor, handled>>
  BY DEF StreamStep
<1>3. ReaderTypes'
  BY <1>2 DEF ReaderInv, ReaderTypes, StreamStep
<1>4. HandledInOrder'
  BY <1>2 DEF ReaderInv, HandledInOrder
<1>5. ASSUME NEW r \in Readers, load'[r] # Null PROVE LoadHolds(r)'
  <2>1. load'[r] = load[r] /\ \E h \in Handles : IsOpen(h)'
    BY <1>5 DEF StreamStep
  <2>2. LoadHolds(r) /\ load[r] # Null
    BY <1>5, <2>1 DEF ReaderInv, LoadsInv
  <2>3. /\ \A range \in load[r].todo : range.name \in Names
        /\ \A e \in load[r].found : e.name \in Names
    BY <2>2, LoadTypes DEF ReaderInv
  <2>4. Todo(r)' = Todo(r) /\ Found(r)' = Found(r) /\ cursor'[r] = cursor[r]
    BY <1>2, <2>1 DEF Todo, Found, Versions
  <2>5. \A n \in Names : Matching(r, n) \subseteq Matching(r, n)'
    BY <1>1, <1>2 DEF StoreGrows, Matching
  <2>6. \A range \in load'[r].todo :
            head'[range.name] # Null /\ range.first = FirstVersion(range.name)'
    BY <1>1, <2>1, <2>2, <2>3 DEF StoreGrows, LoadHolds
  <2>7. \A e \in load'[r].found :
            /\ e.version \in Matching(r, e.name)' /\ e.version > cursor'[r]
            /\ e.name \notin Todo(r)'
    BY <2>1, <2>2, <2>3, <2>4, <2>5 DEF LoadHolds
  <2>8. ASSUME NEW n \in Names, NEW v \in Missing(r, n)'
        PROVE  /\ \A w \in Found(r) : w < v
               /\ Cardinality(load[r].found) < load[r].limit =>
                    n \in Todo(r) \/ \A m \in Todo(r) : NameBefore(m, n)
    <3>0. v \in rows'[n] /\ v \in follows[r] /\ v > cursor[r] /\ v \notin Found(r)
      BY <1>2, <2>4 DEF Missing, Matching
    <3>1. CASE v \in rows[n]
      BY <2>2, <3>0, <3>1 DEF LoadHolds, Missing, Matching
    <3>2. CASE v \notin rows[n]
      <4>1. \A m \in Names : /\ head[m] # Null => m = n \/ NameBefore(m, n)
                             /\ \A w \in rows[m] : w < v
        BY <1>1, <3>0, <3>2 DEF StoreGrows
      <4>2. \A w \in Found(r) : \E m \in Names : w \in rows[m]
        BY <2>2, <2>3 DEF LoadHolds, Found, Versions, Matching
      <4>3. \A m \in Todo(r) : m \in Names /\ head[m] # Null
        BY <2>2, <2>3 DEF LoadHolds, Todo
      <4>. QED BY <4>1, <4>2, <4>3
    <3>. QED BY <3>1, <3>2
  <2>9. IsFiniteSet(load'[r].found)
    BY <2>1, <2>2 DEF LoadHolds
  <2>. QED BY <2>1, <2>4, <2>6, <2>7, <2>8, <2>9 DEF LoadHolds
<1>. QED BY <1>3, <1>4, <1>5 DEF ReaderInv, LoadsInv

-----------------------------------------------------------------------------
(* The steps of a load                                                       *)

LEMMA LoadKept ==
    ASSUME NEW s \in Readers, LoadHolds(s), UNCHANGED <<rows, head, pc, follows>>,
           load'[s] = load[s], cursor'[s] = cursor[s]
    PROVE  LoadHolds(s)'
<1>1. /\ Todo(s)' = Todo(s) /\ Found(s)' = Found(s)
      /\ \A n \in Names : Matching(s, n)' = Matching(s, n) /\ Missing(s, n)' = Missing(s, n)
  BY DEF Todo, Found, Versions, Missing, Matching
<1>2. \A n : FirstVersion(n)' = FirstVersion(n)
  BY DEF FirstVersion
<1>. QED BY <1>1, <1>2 DEF LoadHolds, IsOpen, Matching, Todo, Found, Missing

(* A step of r changes its own load only.                                    *)
LEMMA OneLoad ==
    ASSUME ReaderTypes, LoadsInv, NEW r \in Readers, UNCHANGED <<vars, follows, cursor, handled>>,
           NEW x, load' = [load EXCEPT ![r] = x], load'[r] # Null => LoadHolds(r)'
    PROVE  LoadsInv'
<1>. SUFFICES ASSUME NEW s \in Readers, load'[s] # Null PROVE LoadHolds(s)'
  BY DEF LoadsInv
<1>1. CASE s = r
  BY <1>1
<1>2. CASE s # r
  <2>1. load'[s] = load[s] /\ LoadHolds(s)
    BY <1>2 DEF ReaderTypes, LoadsInv
  <2>2. UNCHANGED <<rows, head, pc>>
    BY DEF vars, fileVars
  <2>. QED BY <2>1, <2>2, LoadKept
<1>. QED BY <1>1, <1>2

(* The catalog names the files of all versions behind the cursor.            *)
LEMMA BeginKeeps ==
    ASSUME OneHandle, IInv, ReaderInv, NEW r \in Readers, BeginLoad(r)
    PROVE  ReaderInv'
<1>. DEFINE ahead == GetEventFileRangesAfterVersion(catalog, cursor[r])
            ranges == {[first |-> catalog[n].first_version, name |-> n] : n \in ahead}
<1>1. PICK limit \in Limits :
        load' = [load EXCEPT ![r] = [todo |-> ranges, found |-> {}, limit |-> limit]]
  BY DEF BeginLoad
<1>2. /\ UNCHANGED <<vars, follows, cursor, handled>>
      /\ \E h \in Handles : IsOpen(h)
  BY DEF BeginLoad
<1>3. \A n \in ahead : /\ n \in Names /\ catalog[n] # Null /\ catalog[n].first_version \in Int
                       /\ head[n] # Null /\ catalog[n].first_version = FirstVersion(n)
  <2>. SUFFICES ASSUME NEW n \in ahead
                PROVE  /\ n \in Names /\ catalog[n] # Null /\ catalog[n].first_version \in Int
                       /\ head[n] # Null /\ catalog[n].first_version = FirstVersion(n)
    OBVIOUS
  <2>1. n \in Names /\ catalog[n] # Null /\ catalog[n] \in EventFileRange
    BY DEF GetEventFileRangesAfterVersion, IInv, TypeInv, TypeOK
  <2>. QED BY <2>1 DEF EventFileRange, IInv, DiskInv, RangeInv
<1>4. ASSUME NEW n \in Names, NEW v \in rows[n], v > cursor[r] PROVE n \in ahead
  <2>1. PICK h \in Handles : IsOpen(h)
    BY <1>2
  <2>2. catalog[n] # Null
    BY <2>1, ActiveHeadIsHighest
  <2>3. head[n] \in Nat /\ v <= head[n] /\ v \in Nat /\ cursor[r] \in Nat
    BY FileOf, LoadTypes DEF ReaderInv
  <2>4. catalog[n].last_version = Null \/ catalog[n].last_version = head[n]
    BY <2>2 DEF IInv, DiskInv, RangeInv
  <2>5. DOMAIN catalog = Names
    BY DEF IInv, TypeInv, TypeOK
  <2>. QED BY <1>4, <2>2, <2>3, <2>4, <2>5 DEF GetEventFileRangesAfterVersion
<1>. HIDE DEF ahead
<1>5. limit \in Nat \ {0}
  BY EventReaderAssumption
<1>6. ReaderTypes'
  <2>1. ranges \in SUBSET [first : Int, name : Names]
    BY <1>3
  <2>2. [todo |-> ranges, found |-> {}, limit |-> limit] \in Load
    BY <1>5, <2>1 DEF Load
  <2>. QED BY <1>1, <1>2, <2>2 DEF ReaderInv, ReaderTypes
<1>7. HandledInOrder'
  BY <1>2 DEF ReaderInv, HandledInOrder
<1>8. /\ load'[r].todo = ranges /\ load'[r].found = {}
      /\ Todo(r)' = ahead /\ Found(r)' = {}
  <2>1. load'[r] = [todo |-> ranges, found |-> {}, limit |-> limit]
    BY <1>1 DEF ReaderInv, ReaderTypes
  <2>2. load'[r].todo = ranges /\ load'[r].found = {}
    BY <2>1
  <2>3. {range.name : range \in ranges} = ahead
    <3>1. \A range \in ranges : range.name \in ahead
      OBVIOUS
    <3>2. ASSUME NEW n \in ahead PROVE \E range \in ranges : range.name = n
      <4>1. [first |-> catalog[n].first_version, name |-> n] \in ranges
        OBVIOUS
      <4>. QED BY <4>1
    <3>. HIDE DEF ranges
    <3>. QED BY <3>1, <3>2
  <2>. QED BY <2>2, <2>3 DEF Todo, Found, Versions
<1>9. LoadHolds(r)'
  <2>1. UNCHANGED <<rows, head, pc>>
    BY <1>2 DEF vars, fileVars
  <2>2. \A n : FirstVersion(n)' = FirstVersion(n)
    BY <2>1 DEF FirstVersion
  <2>3. \A range \in load'[r].todo :
            head'[range.name] # Null /\ range.first = FirstVersion(range.name)'
    BY <1>3, <1>8, <2>1, <2>2
  <2>4. \A n \in Names : \A v \in Missing(r, n)' : n \in Todo(r)'
    BY <1>2, <1>4, <1>8, <2>1 DEF Missing, Matching
  <2>5. IsFiniteSet(load'[r].found)
    BY <1>8, FS_EmptySet
  <2>6. \E h \in Handles : IsOpen(h)'
    BY <1>2, <2>1 DEF IsOpen
  <2>. QED BY <1>8, <2>3, <2>4, <2>5, <2>6 DEF LoadHolds
<1>. QED BY <1>1, <1>2, <1>6, <1>7, <1>9, OneLoad DEF ReaderInv

(* The batch is all that is stored up to its last version.                   *)
LEMMA FinishKeeps ==
    ASSUME OneHandle, IInv, ReaderInv, NEW r \in Readers, FinishLoad(r)
    PROVE  ReaderInv'
<1>. DEFINE V == Found(r)
            c == cursor[r]
            last == Max(V \cup {c})
<1>1. /\ load[r] # Null /\ UNCHANGED <<vars, follows>>
      /\ handled' = [handled EXCEPT ![r] = @ \cup V]
      /\ cursor' = [cursor EXCEPT ![r] = last]
      /\ load' = [load EXCEPT ![r] = Null]
  BY DEF FinishLoad, Found, Versions
<1>2. LoadHolds(r)
  BY <1>1 DEF ReaderInv, LoadsInv
<1>3. c \in Nat /\ V \in SUBSET Nat /\ follows[r] \in SUBSET Nat /\ handled[r] = follows[r] \cap 1 .. c
  BY <1>1, LoadTypes DEF ReaderInv, HandledInOrder
<1>4. \A w \in V : \E n \in Names : w \in Matching(r, n) /\ w > c
  BY <1>1, <1>2, LoadTypes DEF ReaderInv, LoadHolds, Found, Versions
<1>5. \A w \in V : w \in follows[r] /\ w \in AllVersions /\ w > c
  BY <1>4 DEF Matching, AllVersions
<1>6. ASSUME NEW v \in AllVersions, v \in follows[r], v > c, v \notin V
      PROVE  \A w \in V : w < v
  <2>1. PICK n \in Names : v \in rows[n]
    BY DEF AllVersions
  <2>2. v \in Missing(r, n)
    BY <1>6, <2>1 DEF Missing, Matching
  <2>. QED BY <1>2, <2>2 DEF LoadHolds
<1>7. AllVersions \in SUBSET Nat /\ \E N \in Nat : AllVersions = 1 .. N
  <2>1. PICK h \in Handles : IsOpen(h)
    BY <1>2 DEF LoadHolds
  <2>. DEFINE N == head[active[h].name]
  <2>2. AllVersions = 1 .. N /\ N \in Nat
    BY <2>1, ActiveHeadIsHighest, HighestHeadCounts DEF IInv, DiskInv
  <2>. QED BY <2>2
<1>8. last \in V \cup {c} /\ \A w \in V \cup {c} : w <= last
  <2>1. PICK N \in Nat : AllVersions = 1 .. N
    BY <1>7
  <2>. HIDE DEF V, c
  <2>2. V \cup {c} \in SUBSET Nat /\ N + c \in Nat /\ \A w \in V \cup {c} : w <= N + c
    BY <1>3, <1>5, <2>1
  <2>. QED BY <2>2, MaxOfNats
<1>. HIDE DEF V, last
<1>9. last \in Nat /\ c <= last
  BY <1>3, <1>8
<1>10. follows[r] \cap 1 .. last = handled[r] \cup V
  <2>1. ASSUME NEW v \in follows[r] \cap 1 .. last PROVE v \in handled[r] \cup V
    <3>1. CASE v <= c
      BY <1>3, <3>1
    <3>2. CASE v > c
      <4>1. last \in V
        BY <1>3, <1>8, <1>9, <3>2
      <4>2. v \in AllVersions
        BY <1>5, <1>7, <1>9, <4>1
      <4>3. v \in V
        BY <1>6, <1>9, <3>2, <4>1, <4>2
      <4>. QED BY <4>3
    <3>. QED BY <1>3, <3>1, <3>2
  <2>2. ASSUME NEW v \in handled[r] \cup V PROVE v \in follows[r] \cap 1 .. last
    <3>1. CASE v \in V
      BY <1>3, <1>5, <1>8, <1>9, <3>1
    <3>2. CASE v \in handled[r]
      BY <1>3, <1>9, <3>2
    <3>. QED BY <3>1, <3>2
  <2>. QED BY <2>1, <2>2
<1>11. ReaderTypes'
  BY <1>1, <1>3, <1>9 DEF ReaderInv, ReaderTypes
<1>12. HandledInOrder'
  <2>. SUFFICES ASSUME NEW s \in Readers
                PROVE  handled'[s] = follows[s] \cap 1 .. cursor'[s]
    BY <1>1 DEF HandledInOrder
  <2>1. CASE s = r
    BY <1>1, <1>10, <2>1 DEF ReaderInv, ReaderTypes
  <2>2. CASE s # r
    BY <1>1, <2>2 DEF ReaderInv, ReaderTypes, HandledInOrder
  <2>. QED BY <2>1, <2>2
<1>13. LoadsInv'
  <2>. SUFFICES ASSUME NEW s \in Readers, load'[s] # Null PROVE LoadHolds(s)'
    BY DEF LoadsInv
  <2>1. s # r /\ load'[s] = load[s] /\ cursor'[s] = cursor[s] /\ LoadHolds(s)
    BY <1>1 DEF ReaderInv, ReaderTypes, LoadsInv
  <2>2. UNCHANGED <<rows, head, pc>>
    BY <1>1 DEF vars, fileVars
  <2>. QED BY <1>1, <2>1, <2>2, LoadKept
<1>. QED BY <1>11, <1>12, <1>13 DEF ReaderInv

(* The range queried is that of the first file still to do; when it fills    *)
(* the limit, what was cut off and all later files wait for the next load.   *)
LEMMA QueryKeeps ==
    ASSUME OneHandle, IInv, ReaderInv, NEW r \in Readers, QueryRange(r)
    PROVE  ReaderInv'
<1>. DEFINE L == load[r]
            c == cursor[r]
            remaining == L.limit - Cardinality(L.found)
            after(n) == {v \in Matching(r, n) : v > c}
            rowsFound(n) == {[name |-> n, version |-> v] : v \in FirstRows(after(n), remaining)}
<1>0. L # Null /\ UNCHANGED <<vars, follows, cursor, handled>>
  BY DEF QueryRange
<1>1. PICK range \in L.todo :
        /\ \A other \in L.todo \ {range} :
              RangeBefore(range.first, range.name, other.first, other.name)
        /\ remaining > 0
        /\ load' = [load EXCEPT ![r].todo = @ \ {range}, ![r].found = @ \cup rowsFound(range.name)]
  <2>1. PICK range \in L.todo : \E visible \in VisibleRows(range.name) :
          LET seen == {v \in visible \cap follows[r] : v > c}
          IN  /\ \A other \in L.todo \ {range} :
                    RangeBefore(range.first, range.name, other.first, other.name)
              /\ remaining > 0
              /\ load' = [load EXCEPT
                    ![r].todo = @ \ {range},
                    ![r].found = @ \cup
                        {[name |-> range.name, version |-> v] : v \in FirstRows(seen, remaining)}]
    BY DEF QueryRange
  <2>2. range.name \in Names
    BY <1>0, LoadTypes DEF ReaderInv
  <2>3. VisibleRows(range.name) = {rows[range.name]}
    BY <2>2 DEF VisibleRows, IInv, NothingOpen
  <2>4. {v \in rows[range.name] \cap follows[r] : v > c} = after(range.name)
    BY DEF Matching
  <2>. QED BY <2>1, <2>3, <2>4
<1>2. LoadHolds(r)
  BY <1>0 DEF ReaderInv, LoadsInv
<1>3. /\ L \in Load /\ L.limit \in Nat /\ c \in Nat /\ follows[r] \in SUBSET Nat
      /\ \A other \in L.todo : other.name \in Names /\ other.first \in Int
      /\ \A e \in L.found : e.name \in Names /\ e.version \in Nat
      /\ Found(r) \in SUBSET Nat
  BY <1>0, LoadTypes DEF ReaderInv
<1>4. PICK n : n = range.name
  OBVIOUS
<1>5. /\ n \in Names /\ n \in Todo(r) /\ head[n] # Null
      /\ \A m \in Todo(r) : m \in Names /\ head[m] # Null
      /\ \A m \in Todo(r) \ {n} : NameBefore(n, m)
  <2>1. n \in Names /\ n \in Todo(r)
    BY <1>3, <1>4 DEF Todo
  <2>2. \A m \in Todo(r) : m \in Names /\ head[m] # Null
    BY <1>2, <1>3 DEF LoadHolds, Todo
  <2>3. ASSUME NEW m \in Todo(r) \ {n} PROVE NameBefore(n, m)
    <3>1. PICK other \in L.todo : other.name = m
      BY DEF Todo
    <3>2. other # range
      BY <1>4, <2>3, <3>1
    <3>3. range.first = FirstVersion(n) /\ other.first = FirstVersion(m)
      BY <1>2, <1>4, <3>1 DEF LoadHolds
    <3>4. FileBefore(n, m)
      BY <1>1, <1>4, <3>1, <3>2, <3>3 DEF FileBefore
    <3>. QED BY <2>1, <2>2, <2>3, <3>4, SurveyOrder, FileOf
  <2>. QED BY <2>1, <2>2, <2>3
<1>6. remaining \in Nat \ {0} /\ Cardinality(L.found) \in Nat /\ Cardinality(L.found) < L.limit
  <2>1. Cardinality(L.found) \in Nat
    BY <1>2, FS_CardinalityType DEF LoadHolds
  <2>. QED BY <1>1, <1>3, <2>1
<1>. DEFINE F == FirstRows(after(n), remaining)
<1>7. after(n) \in SUBSET Nat /\ IsFiniteSet(after(n)) /\ after(n) \in SUBSET rows[n]
  <2>1. after(n) \in SUBSET rows[n]
    BY DEF Matching
  <2>. QED BY <1>5, <2>1, FileOf, FS_Subset
<1>8. /\ F \in SUBSET after(n) /\ IsFiniteSet(F)
      /\ \A v \in after(n) \ F : \A w \in F : w < v
      /\ F # after(n) => Cardinality(F) >= remaining
  <2>1. F \in SUBSET after(n)
    BY <1>6, <1>7, FirstRowsFacts
  <2>. QED BY <1>6, <1>7, <2>1, FirstRowsFacts, FS_Subset
<1>9. /\ load'[r].todo = L.todo \ {range} /\ load'[r].limit = L.limit
      /\ load'[r].found = L.found \cup {[name |-> n, version |-> v] : v \in F}
      /\ load' = [load EXCEPT ![r] = load'[r]]
      /\ load'[r] = [todo |-> L.todo \ {range},
                     found |-> L.found \cup {[name |-> n, version |-> v] : v \in F},
                     limit |-> L.limit]
  BY <1>1, <1>3, <1>4 DEF ReaderInv, ReaderTypes, Load
<1>. HIDE DEF F
<1>. DEFINE G == {[name |-> n, version |-> v] : v \in F}
<1>10. /\ \A e \in G : e.name = n /\ e.version \in F
       /\ \A v \in F : \E e \in G : e.version = v
       /\ IsFiniteSet(G) /\ Cardinality(G) = Cardinality(F) /\ Cardinality(F) \in Nat
  <2>1. \A v \in F : [name |-> n, version |-> v] \in G
    OBVIOUS
  <2>2. \A e \in G : e.name = n /\ e.version \in F
    OBVIOUS
  <2>3. \A v \in F : \E e \in G : e.version = v
    <3>. SUFFICES ASSUME NEW v \in F PROVE \E e \in G : e.version = v
      OBVIOUS
    <3>1. [name |-> n, version |-> v].version = v
      OBVIOUS
    <3>. QED BY <2>1, <3>1
  <2>4. IsFiniteSet(G) /\ Cardinality(G) = Cardinality(F)
    BY <1>8, NamedRows
  <2>. QED BY <1>8, <2>2, <2>3, <2>4, FS_CardinalityType
<1>11. G \in SUBSET [name : Names, version : Nat]
  BY <1>5, <1>7, <1>8
<1>. HIDE DEF G, after, remaining
<1>12. load'[r].found = L.found \cup G
  BY <1>9 DEF G
<1>13. Todo(r)' = Todo(r) \ {n} /\ Found(r)' = Found(r) \cup F
  <2>1. \A other \in L.todo : other.name = n => other = range
    <3>. SUFFICES ASSUME NEW other \in L.todo, other.name = n PROVE other = range
      OBVIOUS
    <3>1. other.first = FirstVersion(n) /\ range.first = FirstVersion(n)
      BY <1>2, <1>4 DEF LoadHolds
    <3>2. other \in [first : Int, name : Names] /\ range \in [first : Int, name : Names]
      BY <1>3 DEF Load
    <3>. QED BY <1>4, <3>1, <3>2
  <2>2. Todo(r)' = {other.name : other \in L.todo \ {range}}
    BY <1>9 DEF Todo
  <2>3. Found(r)' = {e.version : e \in L.found \cup G}
    BY <1>12 DEF Found, Versions
  <2>4. {e.version : e \in L.found \cup G} = Found(r) \cup F
    BY <1>10 DEF Found, Versions
  <2>. QED BY <1>4, <2>1, <2>2, <2>3, <2>4 DEF Todo
<1>14. ReaderTypes'
  <2>1. load'[r] \in Load
    BY <1>3, <1>9, <1>11, <1>12 DEF Load
  <2>. QED BY <1>0, <1>9, <2>1 DEF ReaderInv, ReaderTypes
<1>15. HandledInOrder'
  BY <1>0 DEF ReaderInv, HandledInOrder
<1>16. UNCHANGED <<rows, head, pc, follows, cursor>> /\ \A m : FirstVersion(m)' = FirstVersion(m)
  BY <1>0 DEF vars, fileVars, FirstVersion
<1>17. /\ \A m \in Names : Matching(r, m)' = Matching(r, m)
       /\ \A m \in Names : Missing(r, m)' = Missing(r, m) \ F
  BY <1>13, <1>16 DEF Matching, Missing
<1>18. L.found \cap G = {} /\ IsFiniteSet(load'[r].found)
       /\ Cardinality(load'[r].found) = Cardinality(L.found) + Cardinality(F)
  <2>1. L.found \cap G = {}
    BY <1>2, <1>5, <1>10 DEF LoadHolds
  <2>2. IsFiniteSet(L.found)
    BY <1>2 DEF LoadHolds
  <2>3. Cardinality(L.found \cap G) = 0
    BY <2>1, FS_EmptySet
  <2>4. /\ IsFiniteSet(L.found \cup G)
        /\ Cardinality(L.found \cup G)
                = Cardinality(L.found) + Cardinality(G) - Cardinality(L.found \cap G)
    BY <1>10, <2>2, FS_Union
  <2>5. Cardinality(L.found \cup G) = Cardinality(L.found) + Cardinality(F)
    BY <1>6, <1>10, <2>3, <2>4
  <2>. QED BY <1>12, <2>1, <2>4, <2>5
<1>19. ASSUME NEW m \in Names, NEW v \in Missing(r, m)'
       PROVE  /\ \A w \in Found(r)' : w < v
              /\ Cardinality(load'[r].found) < load'[r].limit =>
                    m \in Todo(r)' \/ \A k \in Todo(r)' : NameBefore(k, m)
  <2>1. v \in Missing(r, m) /\ v \notin F
    BY <1>17
  <2>2. /\ \A w \in Found(r) : w < v
        /\ m \in Todo(r) \/ \A k \in Todo(r) : NameBefore(k, m)
    BY <1>2, <1>6, <2>1 DEF LoadHolds
  <2>3. v \in rows[m] /\ head[m] # Null /\ v \in Nat
    BY <2>1, FileOf DEF Missing, Matching
  <2>4. CASE m = n
    <3>1. v \in after(n)
      BY <2>1, <2>4 DEF after, Missing
    <3>2. Cardinality(F) >= remaining
      BY <1>8, <2>1, <3>1
    <3>3. Cardinality(load'[r].found) >= L.limit
      BY <1>3, <1>6, <1>10, <1>18, <3>2 DEF remaining
    <3>. QED BY <1>3, <1>6, <1>8, <1>9, <1>10, <1>13, <1>18, <2>1, <2>2, <3>1, <3>3
  <2>5. CASE m # n
    <3>1. NameBefore(n, m)
      BY <1>5, <2>2, <2>5
    <3>2. head[n] < FirstVersion(m)
      BY <1>5, <2>3, <3>1, HeadsAscend DEF IInv
    <3>3. \A w \in F : w < v
      BY <1>5, <1>7, <1>8, <2>3, <3>2, FileOf
    <3>4. m \in Todo(r)' \/ \A k \in Todo(r)' : NameBefore(k, m)
      BY <1>13, <2>2, <2>5
    <3>. QED BY <1>13, <2>2, <3>3, <3>4
  <2>. QED BY <2>4, <2>5
<1>20. \A other \in load'[r].todo :
            head'[other.name] # Null /\ other.first = FirstVersion(other.name)'
  BY <1>2, <1>9, <1>16 DEF LoadHolds
<1>21. ASSUME NEW e \in load'[r].found
       PROVE  /\ e.version \in Matching(r, e.name)' /\ e.version > cursor'[r]
              /\ e.name \notin Todo(r)'
  <2>1. CASE e \in L.found
    BY <1>2, <1>3, <1>13, <1>16, <1>17, <2>1 DEF LoadHolds
  <2>2. CASE e \in G
    <3>1. e.name = n /\ e.version \in after(n)
      BY <1>8, <1>10, <2>2
    <3>. QED BY <1>5, <1>13, <1>16, <1>17, <3>1 DEF after
  <2>. QED BY <1>12, <2>1, <2>2
<1>22. \E h \in Handles : IsOpen(h)'
  BY <1>2, <1>16 DEF LoadHolds, IsOpen
<1>23. LoadHolds(r)'
  BY <1>18, <1>19, <1>20, <1>21, <1>22 DEF LoadHolds
<1>. QED BY <1>0, <1>9, <1>14, <1>15, <1>23, OneLoad DEF ReaderInv

LEMMA AbandonKeeps ==
    ASSUME ReaderInv, NEW r \in Readers, AbandonLoad(r)
    PROVE  ReaderInv'
<1>1. /\ UNCHANGED <<vars, follows, cursor, handled>>
      /\ load' = [load EXCEPT ![r] = Null]
  BY DEF AbandonLoad
<1>2. ReaderTypes' /\ HandledInOrder' /\ load'[r] = Null
  BY <1>1 DEF ReaderInv, ReaderTypes, HandledInOrder
<1>. QED BY <1>1, <1>2, OneLoad DEF ReaderInv

-----------------------------------------------------------------------------
(* The theorem *)

LEMMA ReaderInit == InitReader => ReaderInv
<1>. SUFFICES ASSUME InitReader PROVE ReaderInv
  OBVIOUS
<1>1. /\ cursor = [r \in Readers |-> 0] /\ handled = [r \in Readers |-> {}]
      /\ load = [r \in Readers |-> Null] /\ follows \in [Readers -> Follows]
  BY DEF InitReader
<1>2. ReaderTypes
  BY <1>1, EventReaderAssumption DEF ReaderTypes
<1>3. LoadsInv /\ HandledInOrder
  BY <1>1 DEF LoadsInv, HandledInOrder
<1>. QED BY <1>2, <1>3 DEF ReaderInv

LEMMA ReaderStepKeeps ==
    ASSUME OneHandle
    PROVE  IInv /\ ReaderInv /\ [NextReader]_allVars => ReaderInv'
<1>. SUFFICES ASSUME IInv, ReaderInv, [NextReader]_allVars PROVE ReaderInv'
  OBVIOUS
<1>1. CASE StreamStep
  BY <1>1, StreamStepKeeps
<1>2. ASSUME NEW r \in Readers, ReaderStep(r) \/ AbandonLoad(r) PROVE ReaderInv'
  BY <1>2, BeginKeeps, QueryKeeps, FinishKeeps, AbandonKeeps DEF ReaderStep
<1>3. CASE UNCHANGED allVars
  <2>1. UNCHANGED <<rows, head, pc, follows, cursor, handled, load>>
    BY <1>3 DEF allVars, readerVars, vars, fileVars
  <2>2. LoadsInv'
    BY <2>1, LoadKept DEF ReaderInv, LoadsInv
  <2>. QED BY <2>1, <2>2 DEF ReaderInv, ReaderTypes, HandledInOrder
<1>. QED BY <1>1, <1>2, <1>3 DEF NextReader

(* What is proved of the stream holds with handlers reading from it.         *)
LEMMA ReadersChangeNothing == SpecReader => Spec
<1>1. InitReader => Init
  BY DEF InitReader
<1>2. [NextReader]_allVars => [Next]_vars
  BY DEF NextReader, StreamStep, ReaderStep, BeginLoad, QueryRange, FinishLoad, AbandonLoad, allVars
<1>. QED BY <1>1, <1>2, PTL DEF SpecReader, Spec

(* A handler that follows all events, or those of a workflow, processes      *)
(* every one of them up to its cursor and no other: load_after_version looks *)
(* at the catalog once and queries file by file up to its limit, while       *)
(* appends, rotations, crashes and repairs of the catalog go on.             *)
THEOREM HandlersSkipNothing ==
    ASSUME Restartable
    PROVE  SpecReader => []HandledInOrder
<1>1. SpecReader => []IInv
  BY RestartHolds, ReadersChangeNothing
<1>2. OneHandle
  BY DEF Restartable
<1>3. IInv /\ ReaderInv /\ [NextReader]_allVars => ReaderInv'
  BY <1>2, ReaderStepKeeps
<1>4. ReaderInv => HandledInOrder
  BY DEF ReaderInv
<1>. QED BY <1>1, <1>3, <1>4, ReaderInit, PTL DEF SpecReader

=============================================================================
