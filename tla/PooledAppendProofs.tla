------------------------- MODULE PooledAppendProofs -------------------------
(* Theorems about PooledAppend and the DatabasePool it extends, for any      *)
(* files, tasks and limits.                                                  *)
EXTENDS PooledAppend, FiniteSetTheorems, SequenceTheorems, TLAPS

Entry == [path : Paths, instance : InstanceIds]

Lent == {"configure", "use", "begun", "inserted", "drop", "release"}
Step == {"idle", "insert", "evict", "connect"} \cup Lent

TaskState ==
    [at : Step, path : Paths \cup {Null}, instance : InstanceIds \cup {Null},
     connection : Numbers \cup {Null}, todo : Seq(Entry), target : Nat]

TypeInv ==
    /\ databases \in Seq(Entry)
    /\ DOMAIN instances \subseteq InstanceIds
    /\ \A i \in DOMAIN instances : instances[i] \in DatabaseInstance
    /\ task \in [Tasks -> TaskState]

(* What a task holds at each step. *)
Holds(x) ==
    /\ x.at = "idle" => x = Idle
    /\ x.at # "idle" => x.path \in Paths /\ x.instance \in InstanceIds /\ x.instance.path = x.path
    /\ x.connection # Null <=> x.at \in Lent

UniquePaths(cache) == \A m, n \in DOMAIN cache : cache[m].path = cache[n].path => m = n

(* An instance lives exactly as long as somebody refers to it, and what an   *)
(* eviction has yet to look at is still in the map.                          *)
MapInv ==
    /\ \A t \in Tasks : Holds(task[t])
    /\ UniquePaths(databases)
    /\ \A e \in Entries(databases) : e.instance.path = e.path
    /\ DOMAIN instances = References(databases, task)
    /\ \A t \in Tasks : At(t, "evict") =>
        /\ \A u \in Tasks : At(u, "evict") => u = t
        /\ UniquePaths(task[t].todo)
        /\ Entries(task[t].todo) \subseteq Entries(databases)

UsersInv == ActiveCountIsExact /\ ConnectionIsExclusive

InTransaction(t) == task[t].at \in {"begun", "inserted"}

(* The rows of an open transaction are those of the append that is in it.    *)
AppendInv ==
    /\ appender \in Tasks \cup {Null}
    /\ length \in 0..MaxLength /\ acknowledged = length /\ abandoned \in Nat
    /\ appender # Null => length < MaxLength \/ task[appender].at \in {"drop", "release"}
    /\ \A c \in DOMAIN transaction : Open(c) /\ transaction[c] \in 0..MaxLength
    /\ \A t \in Tasks : InTransaction(t) =>
        /\ appender = t
        /\ Connection(t) \in DOMAIN transaction
        /\ transaction[Connection(t)] = IF At(t, "begun") THEN 0 ELSE 1
    /\ abandoned = 0 =>
        \A c \in DOMAIN transaction : \E t \in Tasks : InTransaction(t) /\ c = Connection(t)

IInv == TypeInv /\ MapInv /\ UsersInv /\ AppendInv

-----------------------------------------------------------------------------
(* The map *)

LEMMA LeastNumber ==
    ASSUME NEW T, T \subseteq Nat, T # {}
    PROVE  Min(T) \in T
<1>. DEFINE R == {ss \in Nat \X Nat : ss[1] < ss[2]}
<1>1. IsWellFoundedOn(R, Nat)
  BY NatLessThanWellFounded DEF OpToRel
<1>2. PICK n \in T : \A m \in T : ~ (<<m, n>> \in R)
  BY <1>1, WFMin
<1>3. \A m \in T : ~ (m < n)
  BY <1>2
<1>4. \A m \in T : n <= m
  BY <1>3
<1>. QED BY <1>4 DEF Min

LEMMA EntryPaths ==
    ASSUME NEW cache \in Seq(Entry)
    PROVE  /\ DOMAIN cache = 1..Len(cache) /\ Len(cache) \in Nat
           /\ \A n \in DOMAIN cache : cache[n] \in Entry
           /\ Entries(cache) \subseteq Entry
BY LenProperties, ElementOfSeq DEF Entries

LEMMA RemovedAt ==
    ASSUME NEW cache \in Seq(Entry), NEW path, \E n \in DOMAIN cache : cache[n].path = path
    PROVE  \E n \in 1..Len(cache) :
            /\ cache[n].path = path
            /\ WithoutPath(cache, path) = SubSeq(cache, 1, n - 1) \o SubSeq(cache, n + 1, Len(cache))
<1>. DEFINE I == {n \in 1..Len(cache) : cache[n].path = path}
<1>1. I # {} /\ I \subseteq Nat
  BY EntryPaths
<1>2. Min(I) \in I
  BY <1>1, LeastNumber
<1>. QED BY <1>1, <1>2 DEF WithoutPath, RemoveFirstMatch, RemoveAt, SelectInSeq

LEMMA Removed ==
    ASSUME NEW cache \in Seq(Entry), UniquePaths(cache), NEW path
    PROVE  /\ WithoutPath(cache, path) \in Seq(Entry)
           /\ UniquePaths(WithoutPath(cache, path))
           /\ Entries(WithoutPath(cache, path)) = {e \in Entries(cache) : e.path # path}
           /\ Len(WithoutPath(cache, path)) <= Len(cache)
           /\ (\E e \in Entries(cache) : e.path = path) => Len(WithoutPath(cache, path)) = Len(cache) - 1
<1>. DEFINE rest == WithoutPath(cache, path)
<1>1. CASE \A n \in DOMAIN cache : cache[n].path # path
  <2>1. rest = cache
    BY <1>1, EntryPaths DEF WithoutPath, RemoveFirstMatch
  <2>. QED BY <1>1, <2>1, EntryPaths DEF Entries
<1>2. CASE \E n \in DOMAIN cache : cache[n].path = path
  <2>1. PICK n \in 1..Len(cache) :
            cache[n].path = path /\ rest = SubSeq(cache, 1, n - 1) \o SubSeq(cache, n + 1, Len(cache))
    BY <1>2, RemovedAt
  <2>2. DOMAIN cache = 1..Len(cache) /\ Len(cache) \in Nat /\ \A k \in 1..Len(cache) : cache[k] \in Entry
    BY EntryPaths
  <2>. DEFINE front == SubSeq(cache, 1, n - 1)
              back == SubSeq(cache, n + 1, Len(cache))
              index(k) == IF k < n THEN k ELSE k + 1
  <2>3. /\ front \in Seq(Entry) /\ Len(front) = n - 1
        /\ \A k \in 1 .. n - 1 : front[k] = cache[1 + k - 1]
    BY <2>2, SubSeqProperties
  <2>4. /\ back \in Seq(Entry) /\ Len(back) = Len(cache) - n
        /\ \A k \in 1 .. Len(cache) - n : back[k] = cache[n + 1 + k - 1]
    <3>1. \A k \in n + 1 .. Len(cache) : cache[k] \in Entry
      BY <2>2
    <3>. HIDE DEF back
    <3>2. /\ back \in Seq(Entry)
          /\ Len(back) = IF n + 1 <= Len(cache) THEN Len(cache) - (n + 1) + 1 ELSE 0
          /\ \A k \in 1 .. Len(cache) - (n + 1) + 1 : back[k] = cache[n + 1 + k - 1]
      BY <2>2, <3>1, SubSeqProperties DEF back
    <3>3. Len(cache) - (n + 1) + 1 = Len(cache) - n
      BY <2>2
    <3>4. Len(back) = Len(cache) - n
      <4>1. Len(cache) \in Nat /\ Len(back) = IF n + 1 <= Len(cache) THEN Len(cache) - (n + 1) + 1 ELSE 0
        BY <2>2, <3>2
      <4>. QED BY <4>1
    <3>. QED BY <3>2, <3>3, <3>4
  <2>5. /\ rest \in Seq(Entry) /\ Len(rest) = Len(cache) - 1
        /\ \A k \in 1 .. Len(cache) - 1 : rest[k] = cache[index(k)]
    <3>. HIDE DEF front, back, rest
    <3>1. rest = front \o back
      BY <2>1 DEF front, back, rest
    <3>2. Len(front) + Len(back) = Len(cache) - 1
      BY <2>2, <2>3, <2>4
    <3>3. /\ rest \in Seq(Entry) /\ Len(rest) = Len(front) + Len(back)
          /\ \A k \in 1 .. Len(front) + Len(back) :
                rest[k] = IF k <= Len(front) THEN front[k] ELSE back[k - Len(front)]
      BY <2>3, <2>4, <3>1, ConcatProperties
    <3>4. ASSUME NEW k \in 1 .. Len(cache) - 1 PROVE rest[k] = cache[index(k)]
      <4>1. CASE k < n
        <5>1. k \in 1 .. n - 1 /\ k <= Len(front) /\ 1 + k - 1 = k
          BY <2>2, <2>3, <4>1
        <5>. QED BY <2>3, <3>2, <3>3, <4>1, <5>1
      <4>2. CASE ~(k < n)
        <5>1. /\ k - Len(front) \in 1 .. Len(cache) - n /\ ~(k <= Len(front))
              /\ n + 1 + (k - Len(front)) - 1 = k + 1
          BY <2>2, <2>3, <4>2
        <5>. QED BY <2>4, <3>2, <3>3, <4>2, <5>1
      <4>. QED BY <4>1, <4>2
    <3>. QED BY <3>2, <3>3, <3>4
  <2>6. DOMAIN rest = 1 .. Len(cache) - 1
    BY <2>5, LenProperties
  <2>0. \A k \in 1 .. Len(cache) - 1 : index(k) \in (1..Len(cache)) \ {n}
    BY <2>2
  <2>7. UniquePaths(rest)
    <3>. SUFFICES ASSUME NEW k \in 1 .. Len(cache) - 1, NEW l \in 1 .. Len(cache) - 1,
                         rest[k].path = rest[l].path
                  PROVE  k = l
      BY <2>6 DEF UniquePaths
    <3>1. index(k) = index(l)
      <4>. HIDE DEF index
      <4>. QED BY <2>0, <2>2, <2>5 DEF UniquePaths
    <3>. QED BY <3>1, <2>2
  <2>8. ASSUME NEW e \in Entries(rest) PROVE e \in Entries(cache) /\ e.path # path
    <3>. HIDE DEF index
    <3>1. PICK k \in 1 .. Len(cache) - 1 : rest[k] = e
      BY <2>6 DEF Entries
    <3>2. e = cache[index(k)] /\ index(k) \in (1..Len(cache)) \ {n}
      BY <2>0, <2>5, <3>1
    <3>. QED BY <2>1, <2>2, <3>2 DEF Entries, UniquePaths
  <2>9. ASSUME NEW e \in Entries(cache), e.path # path PROVE e \in Entries(rest)
    <3>1. PICK k \in 1..Len(cache) : cache[k] = e
      BY <2>2 DEF Entries
    <3>2. k # n
      BY <2>1, <2>9, <3>1
    <3>3. CASE k < n
      BY <2>2, <2>5, <2>6, <3>1, <3>3 DEF Entries
    <3>4. CASE k > n
      <4>1. k - 1 \in 1 .. Len(cache) - 1 /\ rest[k - 1] = e
        BY <2>2, <2>5, <3>1, <3>4
      <4>. QED BY <2>6, <4>1 DEF Entries
    <3>. QED BY <3>2, <3>3, <3>4
  <2>10. Len(rest) = Len(cache) - 1 /\ Len(rest) <= Len(cache)
    BY <2>2, <2>5
  <2>. QED BY <2>5, <2>7, <2>8, <2>9, <2>10
<1>. QED BY <1>1, <1>2

LEMMA Concatenated ==
    ASSUME NEW a \in Seq(Entry), NEW b \in Seq(Entry)
    PROVE  /\ a \o b \in Seq(Entry)
           /\ DOMAIN (a \o b) = 1 .. Len(a) + Len(b)
           /\ \A k \in 1..Len(a) : (a \o b)[k] = a[k]
           /\ \A k \in 1..Len(b) : (a \o b)[Len(a) + k] = b[k]
<1>1. Len(a) \in Nat /\ Len(b) \in Nat
  BY LenProperties
<1>2. /\ a \o b \in Seq(Entry)
      /\ DOMAIN (a \o b) = 1 .. Len(a) + Len(b)
      /\ \A k \in 1 .. Len(a) + Len(b) : (a \o b)[k] = IF k <= Len(a) THEN a[k] ELSE b[k - Len(a)]
  BY ConcatProperties, LenProperties
<1>3. ASSUME NEW k \in 1..Len(a) PROVE (a \o b)[k] = a[k]
  BY <1>1, <1>2
<1>4. ASSUME NEW k \in 1..Len(b) PROVE (a \o b)[Len(a) + k] = b[k]
  <2>1. Len(a) + k \in 1 .. Len(a) + Len(b) /\ ~(Len(a) + k <= Len(a)) /\ Len(a) + k - Len(a) = k
    BY <1>1
  <2>. QED BY <1>2, <2>1
<1>. QED BY <1>2, <1>3, <1>4

(* An entry between others, wherever its last_access puts it. *)
LEMMA Inserted ==
    ASSUME NEW others \in Seq(Entry), UniquePaths(others), NEW entry \in Entry,
           \A e \in Entries(others) : e.path # entry.path, NEW n \in 0..Len(others)
    PROVE  LET cache == SubSeq(others, 1, n) \o <<entry>> \o SubSeq(others, n + 1, Len(others)) IN
           /\ cache \in Seq(Entry)
           /\ UniquePaths(cache)
           /\ Entries(cache) = Entries(others) \cup {entry}
           /\ Len(cache) = Len(others) + 1
<1>. DEFINE front == SubSeq(others, 1, n)
            back == SubSeq(others, n + 1, Len(others))
<1>1. DOMAIN others = 1..Len(others) /\ Len(others) \in Nat
      /\ \A k \in 1..Len(others) : others[k] \in Entry /\ others[k] \in Entries(others)
  BY EntryPaths DEF Entries
<1>2. /\ front \in Seq(Entry) /\ Len(front) = n
      /\ \A k \in 1..n : front[k] = others[1 + k - 1]
  BY <1>1, SubSeqProperties
<1>3. /\ back \in Seq(Entry) /\ Len(back) = Len(others) - n
      /\ \A k \in 1 .. Len(others) - n : back[k] = others[n + 1 + k - 1]
  <2>1. \A k \in n + 1 .. Len(others) : others[k] \in Entry
    BY <1>1
  <2>. HIDE DEF back
  <2>2. /\ back \in Seq(Entry)
        /\ Len(back) = IF n + 1 <= Len(others) THEN Len(others) - (n + 1) + 1 ELSE 0
        /\ \A k \in 1 .. Len(others) - (n + 1) + 1 : back[k] = others[n + 1 + k - 1]
    BY <1>1, <2>1, SubSeqProperties DEF back
  <2>3. Len(others) - (n + 1) + 1 = Len(others) - n
    BY <1>1
  <2>4. Len(back) = Len(others) - n
    <3>1. Len(others) \in Nat /\ Len(back) = IF n + 1 <= Len(others) THEN Len(others) - (n + 1) + 1 ELSE 0
      BY <1>1, <2>2
    <3>. QED BY <3>1
  <2>. QED BY <2>2, <2>3, <2>4
<1>. DEFINE middle == front \o <<entry>>
            cache == middle \o back
<1>. HIDE DEF front, back
<1>4. /\ middle \in Seq(Entry) /\ Len(middle) = n + 1
      /\ \A k \in 1..n : middle[k] = others[k]
      /\ middle[n + 1] = entry
  <2>1. middle = Append(front, entry)
    BY <1>2, AppendIsConcat
  <2>. HIDE DEF middle
  <2>2. /\ middle \in Seq(Entry) /\ Len(middle) = n + 1
        /\ \A k \in 1..n : middle[k] = front[k]
        /\ middle[n + 1] = entry
    BY <1>2, <2>1, AppendProperties
  <2>3. \A k \in 1..n : 1 + k - 1 = k
    BY <1>1
  <2>. QED BY <1>2, <2>2, <2>3
<1>. HIDE DEF middle
<1>5. Len(middle) + Len(back) = Len(others) + 1 /\ Len(others) - n \in Nat
  BY <1>1, <1>3, <1>4
<1>6. /\ cache \in Seq(Entry) /\ DOMAIN cache = 1 .. Len(others) + 1
      /\ \A k \in 1..n : cache[k] = others[k]
      /\ cache[n + 1] = entry
      /\ \A k \in n + 1 .. Len(others) : cache[k + 1] = others[k]
  <2>1. /\ cache \in Seq(Entry) /\ DOMAIN cache = 1 .. Len(others) + 1
        /\ \A k \in 1 .. n + 1 : cache[k] = middle[k]
        /\ \A k \in 1 .. Len(others) - n : cache[n + 1 + k] = back[k]
    BY <1>3, <1>4, <1>5, Concatenated
  <2>. HIDE DEF cache
  <2>2. \A k \in 1 .. n : k \in 1 .. n + 1
    BY <1>1
  <2>3. n + 1 \in 1 .. n + 1
    BY <1>1
  <2>4. ASSUME NEW k \in n + 1 .. Len(others) PROVE cache[k + 1] = others[k]
    <3>1. k - n \in 1 .. Len(others) - n /\ n + 1 + (k - n) = k + 1 /\ n + 1 + (k - n) - 1 = k
      BY <1>1
    <3>2. back[k - n] = others[n + 1 + (k - n) - 1]
      BY <1>3, <3>1
    <3>3. cache[n + 1 + (k - n)] = back[k - n]
      BY <2>1, <3>1
    <3>. QED BY <3>1, <3>2, <3>3
  <2>. QED BY <1>4, <2>1, <2>2, <2>3, <2>4
<1>. HIDE DEF cache
<1>7. \A k \in 1 .. Len(others) + 1 :
        \/ k \in 1..n /\ k \in 1..Len(others)
        \/ k = n + 1
        \/ \E m \in n + 1 .. Len(others) : k = m + 1 /\ m \in 1..Len(others)
  <2>. SUFFICES ASSUME NEW k \in 1 .. Len(others) + 1, k > n + 1
                PROVE  k - 1 \in n + 1 .. Len(others) /\ k = k - 1 + 1 /\ k - 1 \in 1..Len(others)
    BY <1>1
  <2>. QED BY <1>1
<1>8. Entries(cache) = Entries(others) \cup {entry}
  <2>1. ASSUME NEW k \in 1 .. Len(others) + 1 PROVE cache[k] \in Entries(others) \cup {entry}
    BY <1>1, <1>6, <1>7
  <2>2. ASSUME NEW k \in 1..Len(others) PROVE others[k] \in Entries(cache)
    <3>1. CASE k <= n
      <4>1. k \in 1..n /\ k \in 1 .. Len(others) + 1
        BY <1>1, <3>1
      <4>. QED BY <1>6, <4>1 DEF Entries
    <3>2. CASE ~(k <= n)
      <4>1. k \in n + 1 .. Len(others) /\ k + 1 \in 1 .. Len(others) + 1
        BY <1>1, <3>2
      <4>. QED BY <1>6, <4>1 DEF Entries
    <3>. QED BY <3>1, <3>2
  <2>3. entry \in Entries(cache)
    BY <1>1, <1>6 DEF Entries
  <2>4. Entries(cache) \subseteq Entries(others) \cup {entry}
    BY <1>6, <2>1 DEF Entries
  <2>5. Entries(others) \subseteq Entries(cache)
    BY <1>1, <2>2 DEF Entries
  <2>. QED BY <2>3, <2>4, <2>5
<1>9. UniquePaths(cache)
  <2>. SUFFICES ASSUME NEW k \in 1 .. Len(others) + 1, NEW l \in 1 .. Len(others) + 1,
                       cache[k].path = cache[l].path
                PROVE  k = l
    BY <1>6 DEF UniquePaths
  <2>1. \A m \in 1..Len(others) : others[m].path # entry.path
    BY <1>1
  <2>2. \A a, b \in 1..Len(others) : others[a].path = others[b].path => a = b
    BY <1>1 DEF UniquePaths
  <2>3. \A m \in 1 .. Len(others) + 1 :
            \/ m \in 1..Len(others) /\ m <= n /\ cache[m] = others[m]
            \/ m = n + 1 /\ cache[m] = entry
            \/ \E o \in 1..Len(others) : o > n /\ m = o + 1 /\ cache[m] = others[o]
    BY <1>1, <1>6, <1>7
  <2>4. k = n + 1 <=> l = n + 1
    BY <1>1, <2>1, <2>3
  <2>5. CASE k # n + 1
    BY <1>1, <2>2, <2>3, <2>4, <2>5
  <2>. QED BY <2>4, <2>5
<1>10. Len(cache) = Len(others) + 1
  BY <1>1, <1>6, LenProperties
<1>. QED BY <1>6, <1>8, <1>9, <1>10 DEF cache, middle, front, back

LEMMA Appended ==
    ASSUME NEW others \in Seq(Entry), UniquePaths(others), NEW entry \in Entry,
           \A e \in Entries(others) : e.path # entry.path
    PROVE  /\ Append(others, entry) \in Seq(Entry)
           /\ UniquePaths(Append(others, entry))
           /\ Entries(Append(others, entry)) = Entries(others) \cup {entry}
           /\ Len(Append(others, entry)) = Len(others) + 1
<1>1. /\ DOMAIN others = 1..Len(others) /\ Len(others) \in Nat
      /\ \A k \in 1..Len(others) : others[k] \in Entries(others)
  BY EntryPaths DEF Entries
<1>2. /\ Append(others, entry) \in Seq(Entry)
      /\ DOMAIN Append(others, entry) = 1 .. Len(others) + 1
      /\ \A k \in 1..Len(others) : Append(others, entry)[k] = others[k]
      /\ Append(others, entry)[Len(others) + 1] = entry
      /\ Len(Append(others, entry)) = Len(others) + 1
  BY AppendProperties, LenProperties
<1>3. UniquePaths(Append(others, entry))
  BY <1>1, <1>2 DEF UniquePaths
<1>4. Entries(Append(others, entry)) = Entries(others) \cup {entry}
  BY <1>1, <1>2 DEF Entries
<1>. QED BY <1>2, <1>3, <1>4

-----------------------------------------------------------------------------
(* Numbers *)

LEMMA NumbersOfTasks ==
    /\ Cardinality(Tasks) \in Nat
    /\ Numbers \subseteq Nat /\ Null \notin Numbers /\ Null \notin InstanceIds
    /\ IsFiniteSet(Numbers) /\ Cardinality(Tasks) < Cardinality(Numbers)
<1>1. Cardinality(Tasks) \in Nat
  BY DatabasePoolAssumption, FS_CardinalityType
<1>2. IsFiniteSet(Numbers) /\ Cardinality(Numbers) = 1 + Cardinality(Tasks)
  BY <1>1, FS_Interval DEF Numbers
<1>3. Numbers \subseteq Nat
  BY <1>1 DEF Numbers
<1>4. InstanceIds \subseteq [path : Paths, number : Nat]
  BY <1>3 DEF InstanceIds
<1>. QED BY <1>1, <1>2, <1>3, <1>4, DatabasePoolAssumption

(* The tasks cannot have taken every number. *)
LEMMA NumberIsFree ==
    ASSUME NEW taken
    PROVE  \E n \in Numbers : \A u \in Tasks : taken[u] # n
<1>. SUFFICES ASSUME \A n \in Numbers : \E u \in Tasks : taken[u] = n
              PROVE  FALSE
  OBVIOUS
<1>. DEFINE f == [n \in Numbers |-> CHOOSE u \in Tasks : taken[u] = n]
<1>1. f \in [Numbers -> Tasks] /\ \A n \in Numbers : taken[f[n]] = n
  OBVIOUS
<1>. HIDE DEF f
<1>2. IsFiniteSet(Tasks) /\ IsFiniteSet(Numbers) /\ Cardinality(Tasks) < Cardinality(Numbers)
  BY NumbersOfTasks, DatabasePoolAssumption
<1>3. \E m, n \in Numbers : m # n /\ f[m] = f[n]
  BY <1>1, <1>2, FS_PigeonHole
<1>. QED BY <1>1, <1>3

(* A new instance gets a number no other instance of its file has.           *)
LEMMA InstanceIsNew ==
    ASSUME TypeInv, MapInv, NEW path \in Paths, \A e \in Entries(databases) : e.path # path
    PROVE  LET number == Min({n \in Numbers : [path |-> path, number |-> n] \notin DOMAIN instances})
           IN  /\ [path |-> path, number |-> number] \in InstanceIds \ DOMAIN instances
<1>. DEFINE free == {n \in Numbers : [path |-> path, number |-> n] \notin DOMAIN instances}
            taken == [u \in Tasks |-> task[u].instance.number]
<1>1. PICK n \in Numbers : \A u \in Tasks : taken[u] # n
  BY NumberIsFree
<1>. DEFINE i == [path |-> path, number |-> n]
<1>2. \A u \in Tasks : task[u].instance # i
  BY <1>1
<1>3. \A e \in Entries(databases) : e.instance # i
  BY DEF MapInv
<1>4. i \notin DOMAIN instances
  BY <1>2, <1>3 DEF MapInv, References
<1>5. free # {} /\ free \subseteq Nat
  BY <1>4, NumbersOfTasks
<1>6. Min(free) \in free
  BY <1>5, LeastNumber
<1>. QED BY <1>6 DEF InstanceIds

(* A new connection gets a number no open connection of the instance has.    *)
LEMMA ConnectionIsNew ==
    ASSUME TypeInv, NEW i, instances[i].cached_connection = Null
    PROVE  Min(Numbers \ OpenConnections(i)) \in Numbers \ OpenConnections(i)
<1>. DEFINE taken == [u \in Tasks |-> task[u].connection]
<1>1. PICK n \in Numbers : \A u \in Tasks : taken[u] # n
  BY NumberIsFree
<1>2. n \notin OpenConnections(i)
  BY <1>1 DEF OpenConnections, Holders, Users
<1>. QED BY <1>2, LeastNumber, NumbersOfTasks

-----------------------------------------------------------------------------
(* Types and the map, step by step *)

LEMMA ReferencesOf ==
    ASSUME TypeInv, NEW t \in Tasks, NEW x, task' = [task EXCEPT ![t] = x]
    PROVE  \A i : i \in References(databases', task') <=>
                /\ i # Null
                /\ \/ \E e \in Entries(databases') : e.instance = i
                   \/ x.instance = i
                   \/ \E u \in Tasks \ {t} : task[u].instance = i
BY DEF References, TypeInv

LEMMA ReferencesFor ==
    ASSUME MapInv
    PROVE  \A i : i \in DOMAIN instances <=>
                /\ i # Null
                /\ \/ \E e \in Entries(databases) : e.instance = i
                   \/ \E u \in Tasks : task[u].instance = i
BY DEF MapInv, References

LEMMA ReferencesNow ==
    ASSUME TypeInv, MapInv
    PROVE  /\ \A e \in Entries(databases) : e \in Entry /\ e.instance \in DOMAIN instances
           /\ \A u \in Tasks : task[u].instance = Null \/ task[u].instance \in DOMAIN instances
           /\ \A i \in DOMAIN instances :
                \/ \E e \in Entries(databases) : e.instance = i
                \/ \E u \in Tasks : task[u].instance = i
<1>1. \A e \in Entries(databases) : e \in Entry /\ e.instance # Null
  BY EntryPaths, NumbersOfTasks DEF TypeInv, Entry
<1>. QED BY <1>1 DEF MapInv, References

(* What a step has to show for TypeInv and MapInv, when it takes t to x. *)
LEMMA MapKept ==
    ASSUME TypeInv, MapInv, NEW t \in Tasks, NEW x \in TaskState, Holds(x),
           task' = [task EXCEPT ![t] = x],
           databases' \in Seq(Entry), UniquePaths(databases'),
           \A e \in Entries(databases)' : e.instance.path = e.path,
           DOMAIN instances' = References(databases', task'),
           \A i \in DOMAIN instances' : i \in InstanceIds /\ instances'[i] \in DatabaseInstance,
           x.at = "evict" =>
                /\ \A u \in Tasks : At(u, "evict") => u = t
                /\ UniquePaths(x.todo) /\ Entries(x.todo) \subseteq Entries(databases'),
           \A u \in Tasks \ {t} : At(u, "evict") => databases' = databases
    PROVE  TypeInv' /\ MapInv'
<1>1. task' \in [Tasks -> TaskState] /\ task'[t] = x /\ \A u \in Tasks \ {t} : task'[u] = task[u]
  BY DEF TypeInv
<1>2. TypeInv'
  BY <1>1 DEF TypeInv
<1>3. \A u \in Tasks : Holds(task'[u])
  BY <1>1 DEF MapInv
<1>4. ASSUME NEW u \in Tasks, At(u, "evict")'
      PROVE  /\ \A v \in Tasks : At(v, "evict")' => v = u
             /\ UniquePaths(task'[u].todo)
             /\ Entries(task'[u].todo) \subseteq Entries(databases')
  BY <1>1, <1>4 DEF At, MapInv
<1>. QED BY <1>2, <1>3, <1>4 DEF MapInv, Entries

LEMMA Restricted ==
    ASSUME TypeInv, NEW f, DOMAIN f = DOMAIN instances,
           \A i \in DOMAIN instances : f[i] \in DatabaseInstance,
           NEW R, R \subseteq DOMAIN instances, instances' = Restrict(f, R)
    PROVE  /\ DOMAIN instances' = R
           /\ \A i \in DOMAIN instances' :
                i \in InstanceIds /\ instances'[i] = f[i] /\ instances'[i] \in DatabaseInstance
BY DEF Restrict, TypeInv

Moves(t, x) == x \in TaskState /\ Holds(x) /\ task' = [task EXCEPT ![t] = x]

LEMMA EntryOfPath ==
    ASSUME NEW cache, UniquePaths(cache), NEW d \in Entries(cache), NEW e \in Entries(cache),
           d.path = e.path
    PROVE  d = e
BY DEF UniquePaths, Entries

LEMMA StateOf ==
    ASSUME TypeInv, MapInv, NEW t \in Tasks
    PROVE  /\ task[t] \in TaskState /\ Holds(task[t])
           /\ task[t] = [at |-> task[t].at, path |-> task[t].path, instance |-> task[t].instance,
                         connection |-> task[t].connection, todo |-> task[t].todo,
                         target |-> task[t].target]
<1>1. task[t] \in TaskState /\ Holds(task[t])
  BY DEF TypeInv, MapInv
<1>. QED BY <1>1 DEF TaskState

LEMMA IdleHoldsNothing ==
    ASSUME MapInv, NEW t \in Tasks, At(t, "idle")
    PROVE  task[t] = Idle /\ task[t].instance = Null /\ task[t].connection = Null
<1>1. task[t] = Idle
  BY DEF MapInv, Holds, At
<1>2. Idle.instance = Null /\ Idle.connection = Null
  BY DEF Idle
<1>. QED BY <1>1, <1>2

LEMMA FindsTypes ==
    ASSUME TypeInv, MapInv, NEW t \in Tasks, NEW path \in Paths, FindsDatabase(t, path)
    PROVE  /\ TypeInv' /\ MapInv'
           /\ Entries(databases') = Entries(databases) /\ Len(databases') = Len(databases)
           /\ \E x : Moves(t, x) /\ x.at = "connect" /\ x.path = path
<1>1. PICK e \in Entries(databases) :
        /\ e.path = path
        /\ databases' = Append(WithoutPath(databases, path), e)
        /\ task' = [task EXCEPT ![t] = [Idle EXCEPT !.at = "connect", !.path = path,
                                                    !.instance = e.instance]]
  BY DEF FindsDatabase
<1>2. At(t, "idle") /\ (\A u \in Tasks : ~At(u, "evict")) /\ UNCHANGED instances
  BY DEF FindsDatabase, WriteLocked
<1>3. e \in Entry /\ e.instance.path = path /\ e.instance \in DOMAIN instances
  BY <1>1, ReferencesNow DEF MapInv
<1>. DEFINE x == [Idle EXCEPT !.at = "connect", !.path = path, !.instance = e.instance]
            rest == WithoutPath(databases, path)
<1>4. Moves(t, x) /\ x.at = "connect" /\ x.path = path /\ x.instance = e.instance
  <2>0. e.instance \in InstanceIds /\ <<>> \in Seq(Entry) /\ "connect" \in Step
    BY <1>3 DEF Entry, Step
  <2>1. x \in TaskState
    BY <2>0 DEF Idle, TaskState
  <2>2. x.at = "connect" /\ x.path = path /\ x.instance = e.instance /\ x.connection = Null
    BY DEF Idle
  <2>3. Holds(x)
    <3>. HIDE DEF x
    <3>. QED BY <1>3, <2>2 DEF Holds, Lent, Entry
  <2>4. task' = [task EXCEPT ![t] = x]
    BY <1>1
  <2>. QED BY <2>1, <2>2, <2>3, <2>4 DEF Moves
<1>5. /\ rest \in Seq(Entry) /\ UniquePaths(rest)
      /\ Entries(rest) = {d \in Entries(databases) : d.path # path}
      /\ Len(rest) = Len(databases) - 1 /\ Len(databases) \in Nat
  <2>1. \E d \in Entries(databases) : d.path = path
    BY <1>1
  <2>. QED BY <2>1, Removed, EntryPaths DEF TypeInv, MapInv
<1>6. /\ databases' \in Seq(Entry) /\ UniquePaths(databases')
      /\ Entries(databases') = Entries(databases) /\ Len(databases') = Len(databases)
  <2>. HIDE DEF rest
  <2>1. \A d \in Entries(rest) : d.path # e.path
    BY <1>1, <1>5
  <2>2. databases' = Append(rest, e)
    BY <1>1 DEF rest
  <2>3. /\ databases' \in Seq(Entry) /\ UniquePaths(databases')
        /\ Entries(databases') = Entries(rest) \cup {e} /\ Len(databases') = Len(rest) + 1
    BY <1>3, <1>5, <2>1, <2>2, Appended
  <2>4. \A d \in Entries(databases) : d.path = path => d = e
    BY <1>1, EntryOfPath DEF MapInv
  <2>. QED BY <1>1, <1>5, <2>3, <2>4
<1>. HIDE DEF x
<1>7. task[t].instance = Null
  BY <1>2, IdleHoldsNothing
<1>8. DOMAIN instances' = References(databases', task')
  <2>1. \A i : i \in References(databases', task') <=>
                /\ i # Null
                /\ \/ \E d \in Entries(databases) : d.instance = i
                   \/ e.instance = i
                   \/ \E u \in Tasks \ {t} : task[u].instance = i
    <3>1. \A i : i \in References(databases', task') <=>
                /\ i # Null
                /\ \/ \E d \in Entries(databases') : d.instance = i
                   \/ x.instance = i
                   \/ \E u \in Tasks \ {t} : task[u].instance = i
      BY <1>4, ReferencesOf DEF Moves
    <3>. QED BY <1>4, <1>6, <3>1
  <2>2. \A i : i \in DOMAIN instances <=>
                /\ i # Null
                /\ \/ \E d \in Entries(databases) : d.instance = i
                   \/ \E u \in Tasks : task[u].instance = i
    BY ReferencesFor
  <2>. QED BY <1>1, <1>2, <1>7, <2>1, <2>2
<1>9. TypeInv' /\ MapInv'
  <2>1. \A e2 \in Entries(databases)' : e2.instance.path = e2.path
    BY <1>6 DEF MapInv, Entries
  <2>2. \A i \in DOMAIN instances' : i \in InstanceIds /\ instances'[i] \in DatabaseInstance
    BY <1>2 DEF TypeInv
  <2>3. x.at # "evict"
    BY <1>2, <1>4 DEF TypeInv
  <2>. QED BY <1>2, <1>4, <1>6, <1>8, <2>1, <2>2, <2>3, MapKept DEF Moves
<1>. QED BY <1>4, <1>6, <1>9

LEMMA MissesTypes ==
    ASSUME TypeInv, MapInv, NEW t \in Tasks, NEW path \in Paths, MissesDatabase(t, path)
    PROVE  /\ TypeInv' /\ MapInv'
           /\ \E x : Moves(t, x) /\ x.at = "insert" /\ x.path = path
           /\ \E i \in InstanceIds \ DOMAIN instances :
                instances' = [j \in DOMAIN instances \cup {i} |->
                    IF j = i THEN NewInstance ELSE instances[j]]
<1>. DEFINE number == Min({n \in Numbers : [path |-> path, number |-> n] \notin DOMAIN instances})
            i == [path |-> path, number |-> number]
<1>1. i \in InstanceIds \ DOMAIN instances /\ i.path = path
  BY InstanceIsNew DEF MissesDatabase
<1>2. At(t, "idle") /\ UNCHANGED databases
  BY DEF MissesDatabase
<1>3. /\ task' = [task EXCEPT ![t] = [Idle EXCEPT !.at = "insert", !.path = path, !.instance = i]]
      /\ instances' = [j \in DOMAIN instances \cup {i} |->
            IF j = i THEN NewInstance ELSE instances[j]]
  BY DEF MissesDatabase
<1>. HIDE DEF i
<1>. DEFINE x == [Idle EXCEPT !.at = "insert", !.path = path, !.instance = i]
<1>4. Moves(t, x) /\ x.at = "insert" /\ x.path = path /\ x.instance = i
  <2>0. i \in InstanceIds /\ <<>> \in Seq(Entry) /\ "insert" \in Step
    BY <1>1 DEF Entry, Step
  <2>1. x \in TaskState
    BY <2>0 DEF Idle, TaskState
  <2>2. x.at = "insert" /\ x.path = path /\ x.instance = i /\ x.connection = Null
    BY DEF Idle
  <2>3. Holds(x)
    <3>. HIDE DEF x
    <3>. QED BY <1>1, <2>2 DEF Holds, Lent, Entry
  <2>4. task' = [task EXCEPT ![t] = x]
    BY <1>3
  <2>. QED BY <2>1, <2>2, <2>3, <2>4 DEF Moves
<1>. HIDE DEF x
<1>5. task[t].instance = Null
  BY <1>2, IdleHoldsNothing
<1>6. DOMAIN instances' = References(databases', task')
  <2>1. \A j : j \in References(databases', task') <=>
                /\ j # Null
                /\ \/ \E d \in Entries(databases') : d.instance = j
                   \/ x.instance = j
                   \/ \E u \in Tasks \ {t} : task[u].instance = j
    BY <1>4, ReferencesOf DEF Moves
  <2>2. \A j : j \in DOMAIN instances <=>
                /\ j # Null
                /\ \/ \E d \in Entries(databases) : d.instance = j
                   \/ \E u \in Tasks : task[u].instance = j
    BY ReferencesFor
  <2>3. i # Null /\ DOMAIN instances' = DOMAIN instances \cup {i}
    BY <1>1, <1>3, NumbersOfTasks
  <2>. QED BY <1>2, <1>4, <1>5, <2>1, <2>2, <2>3
<1>7. \A j \in DOMAIN instances' : j \in InstanceIds /\ instances'[j] \in DatabaseInstance
  <2>1. NewInstance \in DatabaseInstance
    BY DEF NewInstance, DatabaseInstance
  <2>. QED BY <1>1, <1>3, <2>1 DEF TypeInv
<1>8. TypeInv' /\ MapInv'
  <2>1. \A e2 \in Entries(databases)' : e2.instance.path = e2.path
    BY <1>2 DEF MapInv, Entries
  <2>2. x.at # "evict" /\ databases' \in Seq(Entry) /\ UniquePaths(databases')
    BY <1>2, <1>4 DEF TypeInv, MapInv
  <2>. QED BY <1>2, <1>4, <1>6, <1>7, <2>1, <2>2, MapKept DEF Moves
<1>. QED BY <1>1, <1>3, <1>4, <1>8

LEMMA ReferencesShrink ==
    ASSUME TypeInv, MapInv, NEW t \in Tasks, NEW x, Moves(t, x),
           x.instance = Null \/ x.instance \in DOMAIN instances,
           \A e \in Entries(databases') : e.instance \in DOMAIN instances
    PROVE  References(databases', task') \subseteq DOMAIN instances
<1>1. \A i : i \in References(databases', task') <=>
                /\ i # Null
                /\ \/ \E e \in Entries(databases') : e.instance = i
                   \/ x.instance = i
                   \/ \E u \in Tasks \ {t} : task[u].instance = i
  BY ReferencesOf DEF Moves
<1>. QED BY <1>1, ReferencesNow

LEMMA ReferencesSame ==
    ASSUME TypeInv, MapInv, NEW t \in Tasks, NEW x, Moves(t, x),
           x.instance = task[t].instance, databases' = databases
    PROVE  References(databases', task') = DOMAIN instances
<1>1. \A i : i \in References(databases', task') <=>
                /\ i # Null
                /\ \/ \E e \in Entries(databases) : e.instance = i
                   \/ x.instance = i
                   \/ \E u \in Tasks \ {t} : task[u].instance = i
  BY ReferencesOf DEF Moves
<1>2. \A i : i \in DOMAIN instances <=>
                /\ i # Null
                /\ \/ \E e \in Entries(databases) : e.instance = i
                   \/ \E u \in Tasks : task[u].instance = i
  BY ReferencesFor
<1>. QED BY <1>1, <1>2

LEMMA TailOf ==
    ASSUME NEW s \in Seq(Entry), s # <<>>, UniquePaths(s)
    PROVE  /\ Head(s) \in Entries(s)
           /\ Tail(s) \in Seq(Entry) /\ UniquePaths(Tail(s))
           /\ \A e \in Entries(Tail(s)) : e \in Entries(s) /\ e.path # Head(s).path
           /\ \A e \in Entries(s) : e = Head(s) \/ e \in Entries(Tail(s))
<1>1. DOMAIN s = 1..Len(s) /\ Len(s) \in Nat
  BY EntryPaths
<1>2. /\ Head(s) = s[1] /\ Len(s) # 0
      /\ Tail(s) \in Seq(Entry) /\ Len(Tail(s)) = Len(s) - 1
      /\ \A k \in 1..Len(Tail(s)) : Tail(s)[k] = s[k + 1]
  BY HeadTailProperties, EmptySeq
<1>3. DOMAIN Tail(s) = 1 .. Len(s) - 1 /\ 1 \in 1..Len(s)
  BY <1>1, <1>2, LenProperties
<1>4. \A k \in 1 .. Len(s) - 1 : k + 1 \in 1..Len(s) /\ k + 1 # 1
  BY <1>1
<1>5. UniquePaths(Tail(s))
  <2>. SUFFICES ASSUME NEW k \in 1 .. Len(s) - 1, NEW l \in 1 .. Len(s) - 1, s[k + 1].path = s[l + 1].path
                PROVE  k = l
    BY <1>2, <1>3 DEF UniquePaths
  <2>1. k + 1 = l + 1
    BY <1>1, <1>4 DEF UniquePaths
  <2>. QED BY <1>1, <2>1
<1>6. ASSUME NEW e \in Entries(Tail(s)) PROVE e \in Entries(s) /\ e.path # Head(s).path
  <2>1. PICK k \in 1 .. Len(s) - 1 : s[k + 1] = e
    BY <1>2, <1>3 DEF Entries
  <2>. QED BY <1>1, <1>2, <1>3, <1>4, <2>1 DEF Entries, UniquePaths
<1>7. ASSUME NEW e \in Entries(s), e # Head(s) PROVE e \in Entries(Tail(s))
  <2>1. PICK k \in 1..Len(s) : s[k] = e /\ k # 1
    BY <1>1, <1>2, <1>7 DEF Entries
  <2>2. k - 1 \in 1 .. Len(s) - 1 /\ k - 1 + 1 = k
    BY <1>1, <2>1
  <2>3. Tail(s)[k - 1] = e
    BY <1>2, <2>1, <2>2
  <2>. QED BY <1>3, <2>2, <2>3 DEF Entries
<1>. QED BY <1>1, <1>2, <1>3, <1>5, <1>6, <1>7 DEF Entries

LEMMA EntersTheMap ==
    ASSUME TypeInv, MapInv, NEW t \in Tasks, task[t].at \in {"insert", "evict"}, Enters(t, databases)
    PROVE  /\ databases' \in Seq(Entry) /\ UniquePaths(databases')
           /\ \A e \in Entries(databases') : e.instance.path = e.path /\ e.instance \in DOMAIN instances
           /\ Entries(databases') = {e \in Entries(databases) : e.path # task[t].path}
                                    \cup {[path |-> task[t].path, instance |-> task[t].instance]}
           /\ Len(databases') <= Len(databases) + 1
<1>. DEFINE others == WithoutPath(databases, task[t].path)
            entry == [path |-> task[t].path, instance |-> task[t].instance]
<1>1. /\ task[t].path \in Paths /\ task[t].instance \in InstanceIds
      /\ task[t].instance.path = task[t].path
  BY DEF MapInv, Holds
<1>2. task[t].instance \in DOMAIN instances
  BY <1>1, ReferencesNow, NumbersOfTasks
<1>3. entry \in Entry /\ entry.path = task[t].path /\ entry.instance = task[t].instance
  BY <1>1 DEF Entry
<1>4. /\ others \in Seq(Entry) /\ UniquePaths(others)
      /\ Entries(others) = {e \in Entries(databases) : e.path # task[t].path}
      /\ Len(others) <= Len(databases)
  BY Removed DEF TypeInv, MapInv
<1>5. PICK n \in 0..Len(others) :
        databases' = SubSeq(others, 1, n) \o <<entry>> \o SubSeq(others, n + 1, Len(others))
  BY DEF Enters
<1>. HIDE DEF others, entry
<1>6. \A e \in Entries(others) : e.path # entry.path
  BY <1>3, <1>4
<1>7. /\ databases' \in Seq(Entry) /\ UniquePaths(databases')
      /\ Entries(databases') = Entries(others) \cup {entry}
      /\ Len(databases') = Len(others) + 1
  BY <1>3, <1>4, <1>5, <1>6, Inserted
<1>8. \A e \in Entries(databases') : e.instance.path = e.path /\ e.instance \in DOMAIN instances
  BY <1>1, <1>2, <1>3, <1>4, <1>7, ReferencesNow DEF MapInv
<1>9. Len(databases') <= Len(databases) + 1
  <2>1. Len(others) \in Nat /\ Len(databases) \in Nat
    BY <1>4, EntryPaths DEF TypeInv
  <2>. QED BY <1>4, <1>7, <2>1
<1>. QED BY <1>4, <1>7, <1>8, <1>9 DEF entry

(* A step of the pool that leaves the connections alone. *)
MapStep(t) ==
    /\ \E x : Moves(t, x) /\ x.connection = Null /\ x.at \notin Lent
           /\ (x.at = "idle" \/ task[t].at = "idle" \/ x.path = task[t].path)
    /\ task[t].connection = Null /\ task[t].at \notin Lent
    /\ \A i \in DOMAIN instances' :
        IF i \in DOMAIN instances THEN instances'[i] = instances[i] ELSE instances'[i] = NewInstance

(* The same, for a step after which instances without a reference are gone.  *)
LEMMA MapStepKept ==
    ASSUME TypeInv, MapInv, NEW t \in Tasks, NEW x, Moves(t, x), InstancesMayGo,
           x.instance = Null \/ x.instance = task[t].instance,
           x.connection = Null, task[t].connection = Null,
           x.at = "idle" \/ task[t].at = "idle" \/ x.path = task[t].path,
           databases' \in Seq(Entry), UniquePaths(databases'),
           \A e \in Entries(databases') : e.instance.path = e.path /\ e.instance \in DOMAIN instances,
           x.at = "evict" =>
                /\ \A u \in Tasks : At(u, "evict") => u = t
                /\ UniquePaths(x.todo) /\ Entries(x.todo) \subseteq Entries(databases'),
           \A u \in Tasks \ {t} : At(u, "evict") => databases' = databases
    PROVE  TypeInv' /\ MapInv' /\ MapStep(t)
<1>1. x.instance = Null \/ x.instance \in DOMAIN instances
  BY ReferencesNow
<1>2. References(databases', task') \subseteq DOMAIN instances
  BY <1>1, ReferencesShrink
<1>3. /\ DOMAIN instances' = References(databases', task')
      /\ \A i \in DOMAIN instances' :
            i \in InstanceIds /\ instances'[i] = instances[i] /\ instances'[i] \in DatabaseInstance
  <2>1. \A i \in DOMAIN instances : instances[i] \in DatabaseInstance
    BY DEF TypeInv
  <2>. QED BY <1>2, <2>1, Restricted DEF InstancesMayGo
<1>5. \A e \in Entries(databases)' : e.instance.path = e.path
  BY DEF Entries
<1>6. TypeInv' /\ MapInv'
  BY <1>3, <1>5, MapKept DEF Moves
<1>7. x.at \notin Lent /\ task[t].at \notin Lent
  BY DEF MapInv, Holds, Moves
<1>. QED BY <1>2, <1>3, <1>6, <1>7 DEF MapStep

LEMMA InsertsTypes ==
    ASSUME TypeInv, MapInv, NEW t \in Tasks, InsertsDatabase(t)
    PROVE  TypeInv' /\ MapInv' /\ MapStep(t)
<1>1. At(t, "insert") /\ (\A u \in Tasks : ~At(u, "evict")) /\ InstancesMayGo
  BY DEF InsertsDatabase, WriteLocked
<1>2. task[t] \in TaskState /\ Holds(task[t]) /\ task[t].connection = Null
      /\ task[t].path \in Paths /\ task[t].instance \in InstanceIds
      /\ task[t].instance.path = task[t].path
  BY <1>1, StateOf DEF Holds, At, Lent
<1>3. CASE Enters(t, databases) /\ Goto(t, "connect")
  <2>. DEFINE x == [task[t] EXCEPT !.at = "connect"]
  <2>0. "connect" \in Step
    BY DEF Step
  <2>1. x \in TaskState
    BY <1>2, <2>0 DEF TaskState
  <2>2. /\ x.at = "connect" /\ x.path = task[t].path /\ x.instance = task[t].instance
        /\ x.connection = Null
    BY <1>2 DEF TaskState
  <2>3. task' = [task EXCEPT ![t] = x]
    BY <1>3, Zenon DEF Goto
  <2>. HIDE DEF x
  <2>4. Moves(t, x)
    BY <1>2, <2>1, <2>2, <2>3 DEF Moves, Holds, Lent
  <2>5. /\ databases' \in Seq(Entry) /\ UniquePaths(databases')
        /\ \A e \in Entries(databases') : e.instance.path = e.path /\ e.instance \in DOMAIN instances
    BY <1>1, <1>3, EntersTheMap DEF At
  <2>. QED BY <1>1, <1>2, <2>2, <2>4, <2>5, MapStepKept
<1>4. CASE /\ Len(databases) > max_cached_databases
           /\ task' = [task EXCEPT ![t].at = "evict", ![t].todo = databases,
                                   ![t].target = EvictionTarget]
           /\ UNCHANGED databases
  <2>. DEFINE x == [task[t] EXCEPT !.at = "evict", !.todo = databases, !.target = EvictionTarget]
  <2>0. "evict" \in Step /\ databases \in Seq(Entry) /\ EvictionTarget \in Nat
    BY <1>4, DatabasePoolAssumption, LenProperties DEF Step, TypeInv, EvictionTarget
  <2>1. x \in TaskState
    BY <1>2, <2>0 DEF TaskState
  <2>2. /\ x.at = "evict" /\ x.path = task[t].path /\ x.instance = task[t].instance
        /\ x.connection = Null /\ x.todo = databases
    BY <1>2 DEF TaskState
  <2>3. task' = [task EXCEPT ![t] = x]
    BY <1>4, Zenon
  <2>. HIDE DEF x
  <2>4. Moves(t, x)
    BY <1>2, <2>1, <2>2, <2>3 DEF Moves, Holds, Lent
  <2>5. /\ databases' \in Seq(Entry) /\ UniquePaths(databases')
        /\ \A e \in Entries(databases') : e.instance.path = e.path /\ e.instance \in DOMAIN instances
    BY <1>4, ReferencesNow DEF TypeInv, MapInv
  <2>6. UniquePaths(x.todo) /\ Entries(x.todo) \subseteq Entries(databases')
    BY <1>4, <2>2 DEF MapInv
  <2>. QED BY <1>1, <1>2, <2>2, <2>4, <2>5, <2>6, MapStepKept
<1>. QED BY <1>3, <1>4 DEF InsertsDatabase

LEMMA EvictsTypes ==
    ASSUME TypeInv, MapInv, NEW t \in Tasks, EvictsDatabase(t)
    PROVE  TypeInv' /\ MapInv' /\ MapStep(t)
<1>1. At(t, "evict") /\ InstancesMayGo /\ task[t].target > 0 /\ task[t].todo # <<>>
  BY DEF EvictsDatabase
<1>2. task[t] \in TaskState /\ task[t].connection = Null
      /\ task[t].path \in Paths /\ task[t].instance \in InstanceIds
      /\ task[t].instance.path = task[t].path
  BY <1>1, StateOf DEF Holds, At, Lent
<1>3. /\ \A u \in Tasks : At(u, "evict") => u = t
      /\ UniquePaths(task[t].todo)
      /\ Entries(task[t].todo) \subseteq Entries(databases)
  BY <1>1 DEF MapInv
<1>4. task[t].todo \in Seq(Entry) /\ task[t].target \in Nat
  BY <1>2 DEF TaskState
<1>. DEFINE e == Head(task[t].todo)
            rest == Tail(task[t].todo)
<1>5. /\ e \in Entries(databases) /\ rest \in Seq(Entry) /\ UniquePaths(rest)
      /\ \A d \in Entries(rest) : d \in Entries(databases) /\ d.path # e.path
  BY <1>1, <1>3, <1>4, TailOf
<1>6. CASE /\ databases' = WithoutPath(databases, e.path)
           /\ task' = [task EXCEPT ![t].todo = Tail(@), ![t].target = @ - 1]
  <2>. DEFINE x == [task[t] EXCEPT !.todo = rest, !.target = @ - 1]
  <2>0. task[t].target - 1 \in Nat
    BY <1>1, <1>4
  <2>1. x \in TaskState
    <3>. HIDE DEF rest
    <3>. QED BY <1>2, <1>5, <2>0 DEF TaskState
  <2>2. /\ x.at = "evict" /\ x.path = task[t].path /\ x.instance = task[t].instance
        /\ x.connection = Null /\ x.todo = rest
    BY <1>1, <1>2 DEF TaskState, At
  <2>3. task' = [task EXCEPT ![t] = x]
    BY <1>6, Zenon
  <2>. HIDE DEF x, e, rest
  <2>4. Moves(t, x)
    BY <1>2, <2>1, <2>2, <2>3 DEF Moves, Holds, Lent
  <2>5. /\ databases' \in Seq(Entry) /\ UniquePaths(databases')
        /\ Entries(databases') = {d \in Entries(databases) : d.path # e.path}
    BY <1>6, Removed DEF TypeInv, MapInv
  <2>6. \A d \in Entries(databases') : d.instance.path = d.path /\ d.instance \in DOMAIN instances
    BY <2>5, ReferencesNow DEF MapInv
  <2>7. UniquePaths(x.todo) /\ Entries(x.todo) \subseteq Entries(databases')
    BY <1>5, <2>2, <2>5
  <2>. QED BY <1>1, <1>2, <1>3, <2>2, <2>4, <2>5, <2>6, <2>7, MapStepKept
<1>7. CASE task' = [task EXCEPT ![t].todo = Tail(@)] /\ UNCHANGED databases
  <2>. DEFINE x == [task[t] EXCEPT !.todo = rest]
  <2>1. x \in TaskState
    <3>. HIDE DEF rest
    <3>. QED BY <1>2, <1>5 DEF TaskState
  <2>2. /\ x.at = "evict" /\ x.path = task[t].path /\ x.instance = task[t].instance
        /\ x.connection = Null /\ x.todo = rest
    BY <1>1, <1>2 DEF TaskState, At
  <2>3. task' = [task EXCEPT ![t] = x]
    BY <1>7, Zenon
  <2>. HIDE DEF x, e, rest
  <2>4. Moves(t, x)
    BY <1>2, <2>1, <2>2, <2>3 DEF Moves, Holds, Lent
  <2>5. /\ databases' \in Seq(Entry) /\ UniquePaths(databases')
        /\ \A d \in Entries(databases') : d.instance.path = d.path /\ d.instance \in DOMAIN instances
    BY <1>7, ReferencesNow DEF TypeInv, MapInv
  <2>6. UniquePaths(x.todo) /\ Entries(x.todo) \subseteq Entries(databases')
    BY <1>5, <1>7, <2>2
  <2>. QED BY <1>1, <1>2, <1>3, <2>2, <2>4, <2>5, <2>6, MapStepKept
<1>. QED BY <1>6, <1>7 DEF EvictsDatabase

LEMMA EndsEvictionTypes ==
    ASSUME TypeInv, MapInv, NEW t \in Tasks, EndsEviction(t)
    PROVE  TypeInv' /\ MapInv' /\ MapStep(t)
<1>1. /\ At(t, "evict") /\ InstancesMayGo /\ Enters(t, databases)
      /\ task' = [task EXCEPT ![t].at = "connect", ![t].todo = <<>>, ![t].target = 0]
  BY DEF EndsEviction
<1>2. task[t] \in TaskState /\ task[t].connection = Null
      /\ task[t].path \in Paths /\ task[t].instance \in InstanceIds
      /\ task[t].instance.path = task[t].path
  BY <1>1, StateOf DEF Holds, At, Lent
<1>3. \A u \in Tasks : At(u, "evict") => u = t
  BY <1>1 DEF MapInv
<1>. DEFINE x == [task[t] EXCEPT !.at = "connect", !.todo = <<>>, !.target = 0]
<1>4. "connect" \in Step /\ <<>> \in Seq(Entry)
  BY DEF Step
<1>5. x \in TaskState
  BY <1>2, <1>4 DEF TaskState
<1>6. /\ x.at = "connect" /\ x.path = task[t].path /\ x.instance = task[t].instance
      /\ x.connection = Null
  BY <1>2 DEF TaskState
<1>7. task' = [task EXCEPT ![t] = x]
  BY <1>1, Zenon
<1>. HIDE DEF x
<1>8. Moves(t, x)
  BY <1>2, <1>5, <1>6, <1>7 DEF Moves, Holds, Lent
<1>9. /\ databases' \in Seq(Entry) /\ UniquePaths(databases')
      /\ \A e \in Entries(databases') : e.instance.path = e.path /\ e.instance \in DOMAIN instances
  BY <1>1, EntersTheMap DEF At
<1>. QED BY <1>1, <1>2, <1>3, <1>6, <1>8, <1>9, MapStepKept

LEMMA IdleState == Idle \in TaskState /\ Holds(Idle) /\ Idle.at = "idle"
                   /\ Idle.instance = Null /\ Idle.connection = Null
<1>1. <<>> \in Seq(Entry) /\ "idle" \in Step
  BY DEF Step
<1>2. Idle \in TaskState
  BY <1>1 DEF Idle, TaskState
<1>3. Idle.at = "idle" /\ Idle.instance = Null /\ Idle.connection = Null
  BY DEF Idle
<1>. QED BY <1>2, <1>3 DEF Holds, Lent

LEMMA GivesUpTypes ==
    ASSUME TypeInv, MapInv, NEW t \in Tasks, GivesUp(t)
    PROVE  TypeInv' /\ MapInv' /\ MapStep(t)
<1>1. /\ task[t].at \in {"insert", "evict", "connect"}
      /\ task' = [task EXCEPT ![t] = Idle] /\ databases' = databases /\ InstancesMayGo
  BY DEF GivesUp
<1>2. task[t].connection = Null
  BY <1>1 DEF MapInv, Holds, Lent
<1>3. Moves(t, Idle)
  BY <1>1, IdleState DEF Moves
<1>4. /\ databases' \in Seq(Entry) /\ UniquePaths(databases')
      /\ \A e \in Entries(databases') : e.instance.path = e.path /\ e.instance \in DOMAIN instances
  BY <1>1, ReferencesNow DEF TypeInv, MapInv
<1>. QED BY <1>1, <1>2, <1>3, <1>4, IdleState, MapStepKept

-----------------------------------------------------------------------------
(* Connections, step by step *)

(* The same, for a step of a task that keeps its instance. *)
LEMMA InstanceKept ==
    ASSUME TypeInv, MapInv, NEW t \in Tasks, NEW x, Moves(t, x), x.at # "evict",
           x.instance = task[t].instance, databases' = databases,
           DOMAIN instances' = DOMAIN instances,
           \A i \in DOMAIN instances : instances'[i] \in DatabaseInstance
    PROVE  TypeInv' /\ MapInv'
<1>1. DOMAIN instances' = References(databases', task')
  BY ReferencesSame
<1>2. \A e \in Entries(databases)' : e.instance.path = e.path
  BY DEF MapInv, Entries
<1>3. \A i \in DOMAIN instances' : i \in InstanceIds /\ instances'[i] \in DatabaseInstance
  BY DEF TypeInv
<1>4. databases' \in Seq(Entry) /\ UniquePaths(databases')
  BY DEF TypeInv, MapInv
<1>. QED BY <1>1, <1>2, <1>3, <1>4, MapKept DEF Moves

(* ... and of one that is through with it. *)
LEMMA InstanceLeft ==
    ASSUME TypeInv, MapInv, NEW t \in Tasks, task' = [task EXCEPT ![t] = Idle],
           databases' = databases,
           NEW f, DOMAIN f = DOMAIN instances, \A i \in DOMAIN instances : f[i] \in DatabaseInstance,
           instances' = Restrict(f, References(databases, task'))
    PROVE  /\ TypeInv' /\ MapInv' /\ Moves(t, Idle)
           /\ \A i \in DOMAIN instances' : i \in DOMAIN instances /\ instances'[i] = f[i]
<1>1. Moves(t, Idle)
  BY IdleState DEF Moves
<1>2. References(databases', task') \subseteq DOMAIN instances
  BY <1>1, IdleState, ReferencesNow, ReferencesShrink
<1>3. /\ DOMAIN instances' = References(databases', task')
      /\ \A i \in DOMAIN instances' :
            i \in InstanceIds /\ instances'[i] = f[i] /\ instances'[i] \in DatabaseInstance
  BY <1>2, Restricted
<1>4. \A e \in Entries(databases)' : e.instance.path = e.path
  BY DEF MapInv, Entries
<1>5. databases' \in Seq(Entry) /\ UniquePaths(databases')
  BY DEF TypeInv, MapInv
<1>6. TypeInv' /\ MapInv'
  BY <1>1, <1>3, <1>4, <1>5, IdleState, MapKept DEF Moves
<1>. QED BY <1>1, <1>2, <1>3, <1>6

(* A task that is lent a connection refers to its instance, and has no list  *)
(* to evict from.                                                            *)
LEMMA BorrowerState ==
    ASSUME TypeInv, MapInv, NEW t \in Tasks, task[t].at \in Lent \cup {"connect"}
    PROVE  /\ task[t] \in TaskState /\ task[t].path \in Paths
           /\ task[t].instance \in DOMAIN instances /\ task[t].instance \in InstanceIds
           /\ task[t].instance # Null /\ task[t].instance.path = task[t].path
           /\ instances[task[t].instance] \in DatabaseInstance
           /\ task[t].connection # Null <=> task[t].at \in Lent
<1>1. task[t] \in TaskState /\ Holds(task[t]) /\ task[t].at # "idle"
  BY StateOf DEF Lent
<1>2. task[t].instance \in InstanceIds /\ task[t].instance # Null
  BY <1>1, NumbersOfTasks DEF Holds
<1>. QED BY <1>1, <1>2, ReferencesNow DEF TypeInv, Holds

(* A task goes on with the connection it has. *)
LEMMA GoesOn ==
    ASSUME TypeInv, MapInv, NEW t \in Tasks, task[t].at \in Lent, NEW step \in Lent, Goto(t, step)
    PROVE  \E x : /\ Moves(t, x) /\ x.at = step /\ x.path = task[t].path
                  /\ x.instance = task[t].instance /\ x.connection = task[t].connection
<1>. DEFINE x == [task[t] EXCEPT !.at = step]
<1>1. /\ task[t] \in TaskState /\ task[t].path \in Paths /\ task[t].instance \in InstanceIds
      /\ task[t].instance.path = task[t].path /\ task[t].connection # Null
  BY BorrowerState
<1>2. step \in Step
  BY DEF Step
<1>3. x \in TaskState
  BY <1>1, <1>2 DEF TaskState
<1>4. /\ x.at = step /\ x.path = task[t].path /\ x.instance = task[t].instance
      /\ x.connection = task[t].connection
  BY <1>1 DEF TaskState
<1>5. task' = [task EXCEPT ![t] = x]
  BY Zenon DEF Goto
<1>. HIDE DEF x
<1>6. Holds(x)
  BY <1>1, <1>4 DEF Holds, Lent
<1>. QED BY <1>3, <1>4, <1>5, <1>6 DEF Moves

LEMMA GetsTypes ==
    ASSUME TypeInv, MapInv, NEW t \in Tasks, GetsConnection(t)
    PROVE  /\ TypeInv' /\ MapInv'
           /\ task[t].connection = Null /\ task[t].instance \in DOMAIN instances
           /\ \E x : /\ Moves(t, x) /\ x.at \in {"use", "configure"} /\ x.path = task[t].path
                     /\ x.instance = task[t].instance /\ x.connection # Null
                     /\ \/ x.connection = instances[x.instance].cached_connection
                        \/ x.connection \notin OpenConnections(x.instance)
           /\ instances' = [instances EXCEPT ![task[t].instance] = TakeConnection(@)]
<1>. DEFINE i == task[t].instance
            cached == instances[i].cached_connection
<1>1. At(t, "connect") /\ UNCHANGED databases
      /\ instances' = [instances EXCEPT ![i] = TakeConnection(@)]
  BY DEF GetsConnection
<1>2. /\ task[t] \in TaskState /\ task[t].path \in Paths /\ i \in DOMAIN instances
      /\ i \in InstanceIds /\ i.path = task[t].path /\ instances[i] \in DatabaseInstance
      /\ task[t].connection = Null
  BY <1>1, BorrowerState DEF At, Lent
<1>3. TakeConnection(instances[i]) \in DatabaseInstance
  <2>. DEFINE instance == instances[i]
  <2>. HIDE DEF instance
  <2>1. instance \in DatabaseInstance
    BY <1>2 DEF instance
  <2>2. instance.active_connections + 1 \in Nat
    BY <2>1 DEF DatabaseInstance
  <2>3. TakeConnection(instance) \in DatabaseInstance
    BY <2>1, <2>2 DEF TakeConnection, DatabaseInstance
  <2>. QED BY <2>3 DEF instance
<1>4. /\ DOMAIN instances' = DOMAIN instances
      /\ \A j \in DOMAIN instances : instances'[j] \in DatabaseInstance
  <2>. HIDE DEF i
  <2>. QED BY <1>1, <1>2, <1>3 DEF TypeInv
<1>5. ASSUME NEW step \in {"use", "configure"}, NEW c \in Numbers,
             task' = [task EXCEPT ![t].at = step, ![t].connection = c]
      PROVE  /\ TypeInv' /\ MapInv'
             /\ \E x : /\ Moves(t, x) /\ x.at = step /\ x.path = task[t].path
                       /\ x.instance = i /\ x.connection = c
  <2>. DEFINE x == [task[t] EXCEPT !.at = step, !.connection = c]
  <2>1. step \in Step /\ step \in Lent /\ c # Null
    BY NumbersOfTasks DEF Step, Lent
  <2>2. x \in TaskState
    BY <1>2, <2>1 DEF TaskState
  <2>3. x.at = step /\ x.path = task[t].path /\ x.instance = i /\ x.connection = c
    BY <1>2 DEF TaskState
  <2>4. task' = [task EXCEPT ![t] = x]
    BY <1>5, Zenon
  <2>. HIDE DEF x
  <2>5. Moves(t, x)
    BY <1>2, <2>1, <2>2, <2>3, <2>4 DEF Moves, Holds, Lent
  <2>6. TypeInv' /\ MapInv'
    <3>1. databases' = databases /\ x.at # "evict"
      BY <1>1, <2>3 DEF TypeInv
    <3>. QED BY <1>4, <2>3, <2>5, <3>1, InstanceKept
  <2>. QED BY <2>3, <2>5, <2>6
<1>6. CASE cached # Null /\ task' = [task EXCEPT ![t].at = "use", ![t].connection = cached]
  <2>1. cached \in Numbers
    BY <1>2, <1>6 DEF DatabaseInstance
  <2>2. PICK x : /\ Moves(t, x) /\ x.at = "use" /\ x.path = task[t].path
                 /\ x.instance = i /\ x.connection = cached
    BY <1>5, <1>6, <2>1
  <2>3. x.connection = instances[x.instance].cached_connection /\ TypeInv' /\ MapInv'
    BY <1>5, <1>6, <2>1, <2>2
  <2>. QED BY <1>1, <1>2, <1>6, <2>2, <2>3
<1>7. CASE /\ cached = Null
           /\ task' = [task EXCEPT ![t].at = "configure",
                  ![t].connection = Min(Numbers \ OpenConnections(i))]
  <2>1. Min(Numbers \ OpenConnections(i)) \in Numbers \ OpenConnections(i)
    BY <1>7, ConnectionIsNew
  <2>2. Min(Numbers \ OpenConnections(i)) # Null
    BY <2>1, NumbersOfTasks
  <2>3. PICK x : /\ Moves(t, x) /\ x.at = "configure" /\ x.path = task[t].path
                 /\ x.instance = i /\ x.connection = Min(Numbers \ OpenConnections(i))
    BY <1>5, <1>7, <2>1
  <2>4. x.connection \notin OpenConnections(x.instance) /\ x.connection # Null /\ TypeInv' /\ MapInv'
    BY <1>5, <1>7, <2>1, <2>2, <2>3
  <2>. QED BY <1>1, <1>2, <2>3, <2>4
<1>. QED BY <1>6, <1>7 DEF GetsConnection

LEMMA ConfiguresTypes ==
    ASSUME TypeInv, MapInv, NEW t \in Tasks, ConfiguresConnection(t)
    PROVE  TypeInv' /\ MapInv'
<1>1. PICK step \in {"use", "release"} : Goto(t, step)
  BY DEF ConfiguresConnection
<1>2. task[t].at = "configure" /\ UNCHANGED <<databases, instances>>
  BY DEF ConfiguresConnection, At
<1>3. PICK x : Moves(t, x) /\ x.at = step /\ x.instance = task[t].instance
  BY <1>1, <1>2, GoesOn DEF Lent
<1>4. \A i \in DOMAIN instances : instances'[i] \in DatabaseInstance
  BY <1>2 DEF TypeInv
<1>. QED BY <1>1, <1>2, <1>3, <1>4, InstanceKept

LEMMA ReturnsTypes ==
    ASSUME TypeInv, MapInv, NEW t \in Tasks, ReturnsConnection(t)
    PROVE  TypeInv' /\ MapInv'
<1>1. task[t].at = "drop" /\ Goto(t, "release") /\ UNCHANGED databases
  BY DEF ReturnsConnection, At
<1>2. /\ task[t] \in TaskState /\ task[t].instance \in DOMAIN instances
      /\ instances[task[t].instance] \in DatabaseInstance
  BY <1>1, BorrowerState DEF Lent
<1>3. PICK x : Moves(t, x) /\ x.at = "release" /\ x.instance = task[t].instance
  BY <1>1, GoesOn DEF Lent
<1>4. [instances[task[t].instance] EXCEPT !.cached_connection = task[t].connection] \in DatabaseInstance
  BY <1>2 DEF DatabaseInstance, TaskState
<1>5. \/ instances' = instances
      \/ instances' = [instances EXCEPT ![task[t].instance] =
                [instances[task[t].instance] EXCEPT !.cached_connection = task[t].connection]]
  <2>1. instances' = [instances EXCEPT ![task[t].instance].cached_connection = task[t].connection]
        \/ UNCHANGED instances
    BY DEF ReturnsConnection
  <2>. QED BY <2>1, Zenon
<1>6. /\ DOMAIN instances' = DOMAIN instances
      /\ \A i \in DOMAIN instances : instances'[i] \in DatabaseInstance
  <2>. DEFINE y == [instances[task[t].instance] EXCEPT !.cached_connection = task[t].connection]
  <2>. HIDE DEF y
  <2>1. y \in DatabaseInstance
    BY <1>4 DEF y
  <2>2. instances' = instances \/ instances' = [instances EXCEPT ![task[t].instance] = y]
    BY <1>5 DEF y
  <2>. QED BY <2>1, <2>2 DEF TypeInv
<1>. QED BY <1>1, <1>3, <1>6, InstanceKept

LEMMA ReleasesTypes ==
    ASSUME TypeInv, MapInv, NEW t \in Tasks, ReleasesConnection(t)
    PROVE  /\ TypeInv' /\ MapInv' /\ Moves(t, Idle)
           /\ \A i \in DOMAIN instances' :
                /\ i \in DOMAIN instances
                /\ instances'[i] = IF i = task[t].instance THEN ReleaseCount(instances[i])
                                   ELSE instances[i]
<1>. DEFINE i == task[t].instance
            f == [instances EXCEPT ![i] = ReleaseCount(@)]
<1>1. /\ task[t].at = "release" /\ task' = [task EXCEPT ![t] = Idle]
      /\ databases' = databases
      /\ instances' = Restrict(f, References(databases, task'))
  BY DEF ReleasesConnection, At
<1>2. i \in DOMAIN instances /\ instances[i] \in DatabaseInstance
  BY <1>1, BorrowerState DEF Lent
<1>3. ReleaseCount(instances[i]) \in DatabaseInstance
  BY <1>2 DEF ReleaseCount, DatabaseInstance
<1>. HIDE DEF i
<1>4. /\ DOMAIN f = DOMAIN instances
      /\ \A j \in DOMAIN instances :
            f[j] = IF j = i THEN ReleaseCount(instances[j]) ELSE instances[j]
  BY <1>2
<1>5. \A j \in DOMAIN instances : f[j] \in DatabaseInstance
  BY <1>1, <1>3, <1>4 DEF TypeInv
<1>. HIDE DEF f
<1>6. /\ TypeInv' /\ MapInv' /\ Moves(t, Idle)
      /\ \A j \in DOMAIN instances' : j \in DOMAIN instances /\ instances'[j] = f[j]
  <2>1. DOMAIN f = DOMAIN instances
    BY <1>4
  <2>. QED BY <1>1, <1>5, <2>1, InstanceLeft
<1>. QED BY <1>4, <1>6 DEF i

-----------------------------------------------------------------------------
(* Who uses a connection *)

CountIsExact(i) == instances[i].active_connections = Cardinality(Users(i))

IsExclusive(i) ==
    \A t \in Holders(i) :
        /\ \A u \in Holders(i) \ {t} : task[u].connection # task[t].connection
        /\ instances[i].cached_connection # task[t].connection

LEMMA UsersInvOf == UsersInv <=> \A i \in DOMAIN instances : CountIsExact(i) /\ IsExclusive(i)
BY DEF UsersInv, ActiveCountIsExact, ConnectionIsExclusive, CountIsExact, IsExclusive

LEMMA UsersInvOfNext == UsersInv' <=> \A i \in DOMAIN instances' : CountIsExact(i)' /\ IsExclusive(i)'
BY DEF UsersInv, ActiveCountIsExact, ConnectionIsExclusive, CountIsExact, IsExclusive

LEMMA UsersAfter ==
    ASSUME TypeInv, NEW t \in Tasks, NEW x, Moves(t, x), NEW i
    PROVE  /\ Users(i)' = (Users(i) \ {t}) \cup
                (IF x.instance = i /\ x.connection # Null THEN {t} ELSE {})
           /\ Holders(i)' = (Holders(i) \ {t}) \cup
                (IF x.instance = i /\ x.connection # Null /\ x.at # "release" THEN {t} ELSE {})
           /\ task'[t] = x /\ \A u \in Tasks \ {t} : task'[u] = task[u]
<1>1. task'[t] = x /\ \A u \in Tasks \ {t} : task'[u] = task[u]
  BY DEF Moves, TypeInv
<1>2. Users(i)' = (Users(i) \ {t}) \cup
            (IF x.instance = i /\ x.connection # Null THEN {t} ELSE {})
  BY <1>1 DEF Users
<1>3. Holders(i)' = (Holders(i) \ {t}) \cup
            (IF x.instance = i /\ x.connection # Null /\ x.at # "release" THEN {t} ELSE {})
  BY <1>1, <1>2 DEF Holders, At, Users
<1>. QED BY <1>1, <1>2, <1>3

LEMMA UsersAreTasks ==
    ASSUME NEW i
    PROVE  /\ IsFiniteSet(Users(i)) /\ Cardinality(Users(i)) \in Nat
           /\ Users(i) \subseteq Tasks /\ Holders(i) \subseteq Users(i)
<1>1. Users(i) \subseteq Tasks /\ Holders(i) \subseteq Users(i)
  BY DEF Users, Holders
<1>2. IsFiniteSet(Users(i))
  BY <1>1, DatabasePoolAssumption, FS_Subset
<1>. QED BY <1>1, <1>2, FS_CardinalityType

(* An instance whose connections the step leaves alone. *)
LEMMA UsersElsewhere ==
    ASSUME TypeInv, NEW t \in Tasks, NEW x, Moves(t, x), NEW i \in DOMAIN instances,
           UsersInv, instances'[i] = instances[i],
           task[t].instance # i \/ task[t].connection = Null,
           x.instance # i \/ x.connection = Null
    PROVE  CountIsExact(i)' /\ IsExclusive(i)'
<1>1. t \notin Users(i) /\ t \notin Holders(i)
  BY DEF Users, Holders
<1>2. /\ Users(i)' = Users(i) /\ Holders(i)' = Holders(i)
      /\ \A u \in Tasks \ {t} : task'[u] = task[u]
  BY <1>1, UsersAfter
<1>3. CountIsExact(i) /\ IsExclusive(i)
  BY UsersInvOf
<1>5. CountIsExact(i)'
  BY <1>2, <1>3 DEF CountIsExact
<1>6. IsExclusive(i)'
  <2>1. Holders(i) \subseteq Tasks \ {t}
    BY <1>1, UsersAreTasks
  <2>. QED BY <1>2, <1>3, <2>1 DEF IsExclusive
<1>. QED BY <1>5, <1>6

LEMMA MapStepUsers ==
    ASSUME TypeInv, MapInv, UsersInv, TypeInv', NEW t \in Tasks, MapStep(t)
    PROVE  UsersInv'
<1>1. PICK x : Moves(t, x) /\ x.connection = Null
  BY DEF MapStep
<1>2. task[t].connection = Null
  BY DEF MapStep, TypeInv
<1>3. ASSUME NEW i \in DOMAIN instances', i \in DOMAIN instances
      PROVE  CountIsExact(i)' /\ IsExclusive(i)'
  <2>1. instances'[i] = instances[i]
    BY <1>2, <1>3 DEF MapStep
  <2>. QED BY <1>1, <1>2, <1>3, <2>1, UsersElsewhere
<1>4. ASSUME NEW i \in DOMAIN instances', i \notin DOMAIN instances
      PROVE  CountIsExact(i)' /\ IsExclusive(i)'
  <2>1. instances'[i] = NewInstance /\ i # Null
    BY <1>4, NumbersOfTasks DEF MapStep, TypeInv
  <2>2. Users(i) = {}
    BY <1>4, <2>1, ReferencesNow DEF Users
  <2>3. Users(i)' = {} /\ Holders(i)' = {}
    BY <1>1, <2>2, UsersAfter, UsersAreTasks
  <2>4. Cardinality(Users(i)') = 0 /\ instances'[i].active_connections = 0
    BY <2>1, <2>3, FS_EmptySet DEF NewInstance
  <2>. QED BY <1>2, <2>3, <2>4 DEF CountIsExact, IsExclusive
<1>. QED BY <1>3, <1>4, UsersInvOfNext

LEMMA MissesIsMapStep ==
    ASSUME TypeInv, MapInv, NEW t \in Tasks, NEW path \in Paths, MissesDatabase(t, path)
    PROVE  MapStep(t)
<1>1. \E x : Moves(t, x) /\ x.at = "insert"
  BY MissesTypes
<1>2. PICK i \in InstanceIds \ DOMAIN instances :
            instances' = [j \in DOMAIN instances \cup {i} |->
                IF j = i THEN NewInstance ELSE instances[j]]
  BY MissesTypes
<1>3. task[t].connection = Null /\ task[t].at = "idle"
  BY IdleHoldsNothing DEF MissesDatabase, At
<1>5. \E x : Moves(t, x) /\ x.connection = Null /\ x.at \notin Lent
  BY <1>1 DEF Moves, Holds, Lent
<1>. QED BY <1>2, <1>3, <1>5 DEF MapStep, Lent

LEMMA FindsIsMapStep ==
    ASSUME TypeInv, MapInv, NEW t \in Tasks, NEW path \in Paths, FindsDatabase(t, path)
    PROVE  MapStep(t)
<1>1. \E x : Moves(t, x) /\ x.at = "connect"
  BY FindsTypes
<1>2. task[t].connection = Null /\ task[t].at = "idle"
  BY IdleHoldsNothing DEF FindsDatabase, At
<1>3. instances' = instances
  BY DEF FindsDatabase
<1>4. \E x : Moves(t, x) /\ x.connection = Null /\ x.at \notin Lent
  BY <1>1 DEF Moves, Holds, Lent
<1>. QED BY <1>2, <1>3, <1>4 DEF MapStep, Lent

(* A task that has no connection has one afterwards. *)
LEMMA GetsUsers ==
    ASSUME TypeInv, MapInv, UsersInv, NEW t \in Tasks, GetsConnection(t)
    PROVE  UsersInv'
<1>0. PICK i : i = task[t].instance
  OBVIOUS
<1>1. PICK x : /\ Moves(t, x) /\ x.at \in {"use", "configure"}
               /\ x.instance = i /\ x.connection # Null
               /\ \/ x.connection = instances[i].cached_connection
                  \/ x.connection \notin OpenConnections(i)
  BY <1>0, GetsTypes
<1>2. /\ task[t].connection = Null /\ i \in DOMAIN instances
      /\ instances' = [instances EXCEPT ![i] = TakeConnection(@)]
  BY <1>0, GetsTypes DEF GetsConnection, TypeInv
<1>3. CountIsExact(i) /\ IsExclusive(i)
  BY <1>2, UsersInvOf
<1>4. /\ instances'[i] = TakeConnection(instances[i])
      /\ DOMAIN instances' = DOMAIN instances
      /\ \A j \in DOMAIN instances : j # i => instances'[j] = instances[j]
  BY <1>2
<1>5. t \notin Users(i) /\ Users(i)' = Users(i) \cup {t} /\ Holders(i)' = Holders(i) \cup {t}
  <2>1. t \notin Users(i) /\ t \notin Holders(i)
    BY <1>0, <1>2 DEF Users, Holders
  <2>. QED BY <1>1, <2>1, UsersAfter
<1>6. /\ task'[t] = x /\ \A u \in Holders(i) : task'[u] = task[u]
      /\ t \notin Holders(i)
  BY <1>1, <1>5, UsersAfter, UsersAreTasks
<1>7. CountIsExact(i)'
  <2>1. Cardinality(Users(i)') = Cardinality(Users(i)) + 1
    BY <1>5, UsersAreTasks, FS_AddElement
  <2>2. instances'[i].active_connections = instances[i].active_connections + 1
    BY <1>2, <1>4 DEF TakeConnection, TypeInv, DatabaseInstance
  <2>. QED BY <1>3, <2>1, <2>2 DEF CountIsExact
<1>8. IsExclusive(i)'
  <2>1. instances'[i].cached_connection = Null
    BY <1>2, <1>4 DEF TakeConnection, TypeInv, DatabaseInstance
  <2>2. \A u \in Holders(i) : task[u].connection # Null /\ task[u].connection # x.connection
    <3>. SUFFICES ASSUME NEW u \in Holders(i)
                  PROVE  task[u].connection # Null /\ task[u].connection # x.connection
      OBVIOUS
    <3>1. task[u].connection # Null /\ task[u].connection \in OpenConnections(i)
      BY DEF Holders, Users, OpenConnections
    <3>2. task[u].connection # instances[i].cached_connection
      BY <1>3 DEF IsExclusive
    <3>. QED BY <1>1, <3>1, <3>2
  <2>. QED BY <1>1, <1>3, <1>5, <1>6, <2>1, <2>2 DEF IsExclusive
<1>9. ASSUME NEW j \in DOMAIN instances, j # i PROVE CountIsExact(j)' /\ IsExclusive(j)'
  <2>1. instances'[j] = instances[j]
    BY <1>2, <1>4, <1>9
  <2>. QED BY <1>0, <1>1, <1>2, <1>9, <2>1, UsersElsewhere
<1>. QED BY <1>4, <1>7, <1>8, <1>9, UsersInvOfNext

(* A task keeps its connection, or puts it back where the next one takes it. *)
LEMMA KeepsUsers ==
    ASSUME TypeInv, MapInv, UsersInv, NEW t \in Tasks, task[t].at \in Lent \ {"release"},
           NEW x, Moves(t, x), x.at \in Lent,
           x.instance = task[t].instance, x.connection = task[t].connection,
           DOMAIN instances' = DOMAIN instances,
           \A j \in DOMAIN instances :
                \/ instances'[j] = instances[j]
                \/ /\ j = task[t].instance /\ x.at = "release"
                   /\ instances'[j].active_connections = instances[j].active_connections
                   /\ instances'[j].cached_connection = task[t].connection
    PROVE  UsersInv'
<1>0. PICK i : i = task[t].instance
  OBVIOUS
<1>1. i \in DOMAIN instances /\ task[t].connection # Null
  BY <1>0, BorrowerState
<1>2. CountIsExact(i) /\ IsExclusive(i)
  BY <1>1, UsersInvOf
<1>3. t \in Users(i) /\ t \in Holders(i)
  BY <1>0, <1>1 DEF Users, Holders, At
<1>10. /\ Users(i)' = (Users(i) \ {t}) \cup
            (IF x.instance = i /\ x.connection # Null THEN {t} ELSE {})
      /\ Holders(i)' = (Holders(i) \ {t}) \cup
            (IF x.instance = i /\ x.connection # Null /\ x.at # "release" THEN {t} ELSE {})
  BY UsersAfter
<1>11. x.instance = i /\ x.connection # Null
  BY <1>0, <1>1
<1>4. Users(i)' = Users(i)
  BY <1>3, <1>10, <1>11
<1>5. Holders(i)' = IF x.at = "release" THEN Holders(i) \ {t} ELSE Holders(i)
  <2>1. CASE x.at = "release"
    BY <1>10, <2>1
  <2>2. CASE x.at # "release"
    BY <1>3, <1>10, <1>11, <2>2
  <2>. QED BY <2>1, <2>2
<1>6. \A u \in Tasks : task'[u].connection = task[u].connection
  BY UsersAfter
<1>7. CountIsExact(i)'
  BY <1>1, <1>2, <1>4 DEF CountIsExact
<1>8. IsExclusive(i)'
  <2>0. Holders(i) \subseteq Tasks
    BY UsersAreTasks
  <2>1. CASE instances'[i] = instances[i]
    BY <1>2, <1>5, <1>6, <2>0, <2>1 DEF IsExclusive
  <2>2. CASE x.at = "release" /\ instances'[i].cached_connection = task[t].connection
    BY <1>2, <1>3, <1>5, <1>6, <2>0, <2>2 DEF IsExclusive
  <2>. QED BY <1>1, <2>1, <2>2
<1>9. ASSUME NEW j \in DOMAIN instances, j # i PROVE CountIsExact(j)' /\ IsExclusive(j)'
  <2>1. instances'[j] = instances[j]
    BY <1>0, <1>9
  <2>. QED BY <1>0, <1>9, <2>1, UsersElsewhere
<1>. QED BY <1>1, <1>7, <1>8, <1>9, UsersInvOfNext

LEMMA ConfiguresUsers ==
    ASSUME TypeInv, MapInv, UsersInv, NEW t \in Tasks, ConfiguresConnection(t)
    PROVE  UsersInv'
<1>1. PICK step \in {"use", "release"} : Goto(t, step)
  BY DEF ConfiguresConnection
<1>2. task[t].at = "configure" /\ UNCHANGED <<databases, instances>>
  BY DEF ConfiguresConnection, At
<1>3. PICK x : /\ Moves(t, x) /\ x.at = step /\ x.instance = task[t].instance
               /\ x.connection = task[t].connection
  BY <1>1, <1>2, GoesOn DEF Lent
<1>5. x.at \in Lent /\ task[t].at \in Lent \ {"release"}
  BY <1>2, <1>3 DEF Lent
<1>. QED BY <1>2, <1>3, <1>5, KeepsUsers

LEMMA ReturnsUsers ==
    ASSUME TypeInv, MapInv, UsersInv, NEW t \in Tasks, ReturnsConnection(t)
    PROVE  UsersInv'
<1>1. task[t].at = "drop" /\ Goto(t, "release") /\ UNCHANGED databases
  BY DEF ReturnsConnection, At
<1>2. PICK x : /\ Moves(t, x) /\ x.at = "release" /\ x.instance = task[t].instance
               /\ x.connection = task[t].connection
  BY <1>1, GoesOn DEF Lent
<1>4. x.at \in Lent /\ task[t].at \in Lent \ {"release"}
  BY <1>1, <1>2 DEF Lent
<1>5. task[t].instance \in DOMAIN instances /\ instances[task[t].instance] \in DatabaseInstance
  BY <1>1, BorrowerState DEF Lent
<1>6. CASE instances' = [instances EXCEPT ![task[t].instance].cached_connection = task[t].connection]
  <2>1. /\ DOMAIN instances' = DOMAIN instances
        /\ \A j \in DOMAIN instances : j # task[t].instance => instances'[j] = instances[j]
    BY <1>6
  <2>2. /\ instances'[task[t].instance].active_connections
                = instances[task[t].instance].active_connections
        /\ instances'[task[t].instance].cached_connection = task[t].connection
    BY <1>5, <1>6 DEF DatabaseInstance
  <2>. QED BY <1>2, <1>4, <2>1, <2>2, KeepsUsers
<1>7. CASE UNCHANGED instances
  BY <1>2, <1>4, <1>7, KeepsUsers
<1>. QED BY <1>6, <1>7 DEF ReturnsConnection

(* A task that is through with its connection. *)
LEMMA UsersWithout ==
    ASSUME TypeInv, MapInv, NEW t \in Tasks, task[t].at \in Lent, Moves(t, Idle),
           NEW i, i = task[t].instance
    PROVE  /\ Cardinality(Users(i)) \in Nat \ {0}
           /\ Cardinality(Users(i)') = Cardinality(Users(i)) - 1
           /\ Holders(i)' = Holders(i) \ {t}
           /\ \A u \in Tasks \ {t} : task'[u] = task[u]
<1>1. t \in Users(i)
  BY BorrowerState DEF Users
<1>2. Users(i)' = Users(i) \ {t} /\ Holders(i)' = Holders(i) \ {t}
      /\ \A u \in Tasks \ {t} : task'[u] = task[u]
  BY IdleState, UsersAfter
<1>3. IsFiniteSet(Users(i)) /\ Cardinality(Users(i)) \in Nat
  BY UsersAreTasks
<1>4. Cardinality(Users(i) \ {t}) = Cardinality(Users(i)) - 1
  BY <1>1, <1>3, FS_RemoveElement
<1>5. Cardinality(Users(i)) # 0
  BY <1>1, <1>3, FS_EmptySet
<1>. QED BY <1>2, <1>3, <1>4, <1>5

LEMMA ReleasesUsers ==
    ASSUME TypeInv, MapInv, UsersInv, NEW t \in Tasks, ReleasesConnection(t)
    PROVE  UsersInv'
<1>0. PICK i : i = task[t].instance
  OBVIOUS
<1>1. /\ task[t].at = "release" /\ task[t].at \in Lent
      /\ Moves(t, Idle)
      /\ \A j \in DOMAIN instances' :
            /\ j \in DOMAIN instances
            /\ instances'[j] = IF j = i THEN ReleaseCount(instances[j]) ELSE instances[j]
  BY <1>0, ReleasesTypes DEF ReleasesConnection, At, Lent, TypeInv
<1>2. i \in DOMAIN instances /\ CountIsExact(i) /\ IsExclusive(i)
  BY <1>0, <1>1, BorrowerState, UsersInvOf
<1>3. /\ Cardinality(Users(i)) \in Nat \ {0}
      /\ Cardinality(Users(i)') = Cardinality(Users(i)) - 1
      /\ Holders(i)' = Holders(i) \ {t}
      /\ \A u \in Tasks \ {t} : task'[u] = task[u]
  BY <1>0, <1>1, UsersWithout
<1>4. ASSUME i \in DOMAIN instances' PROVE CountIsExact(i)' /\ IsExclusive(i)'
  <2>1. instances[i].active_connections \in Nat \ {0}
    BY <1>2, <1>3 DEF CountIsExact
  <2>2. /\ instances'[i].active_connections = instances[i].active_connections - 1
        /\ instances'[i].cached_connection = instances[i].cached_connection
    BY <1>1, <1>2, <1>4, <2>1 DEF ReleaseCount, TypeInv, DatabaseInstance
  <2>6. CountIsExact(i)'
    BY <1>2, <1>3, <2>2 DEF CountIsExact
  <2>7. Holders(i) \subseteq Tasks
    BY UsersAreTasks
  <2>8. IsExclusive(i)'
    BY <1>2, <1>3, <2>2, <2>7 DEF IsExclusive
  <2>. QED BY <2>6, <2>8
<1>5. ASSUME NEW j \in DOMAIN instances', j # i PROVE CountIsExact(j)' /\ IsExclusive(j)'
  <2>1. Idle.connection = Null
    BY <1>1, IdleState
  <2>. QED BY <1>0, <1>1, <1>5, <2>1, UsersElsewhere
<1>. QED BY <1>4, <1>5, UsersInvOfNext

-----------------------------------------------------------------------------
(* A step of the pool, as an append sees it *)

Statement == {"begun", "inserted"}

PoolMoves(t) ==
    /\ \E x : /\ Moves(t, x) /\ x.at \notin Statement /\ task[t].at \notin Statement
              /\ task[t].at = "drop" => x.at = "release"
              /\ task[t].at = "release" => x.at = "idle"

LEMMA MapStepMoves ==
    ASSUME TypeInv, NEW t \in Tasks, MapStep(t)
    PROVE  PoolMoves(t)
<1>1. PICK x : Moves(t, x) /\ x.at \notin Lent
  BY DEF MapStep
<1>2. task[t].at \notin Lent
  BY DEF MapStep, TypeInv
<1>. QED BY <1>1, <1>2 DEF PoolMoves, Statement, Lent

LEMMA PoolStepKeeps ==
    ASSUME TypeInv, MapInv, UsersInv, NEW t \in Tasks, PoolStep(t)
    PROVE  TypeInv' /\ MapInv' /\ UsersInv' /\ PoolMoves(t)
<1>1. ASSUME NEW path \in Paths, FindsDatabase(t, path)
      PROVE  TypeInv' /\ MapInv' /\ UsersInv' /\ PoolMoves(t)
  <2>1. TypeInv' /\ MapInv' /\ MapStep(t)
    BY <1>1, FindsTypes, FindsIsMapStep
  <2>. QED BY <2>1, MapStepUsers, MapStepMoves
<1>2. ASSUME NEW path \in Paths, MissesDatabase(t, path)
      PROVE  TypeInv' /\ MapInv' /\ UsersInv' /\ PoolMoves(t)
  <2>1. TypeInv' /\ MapInv' /\ MapStep(t)
    BY <1>2, MissesTypes, MissesIsMapStep
  <2>. QED BY <2>1, MapStepUsers, MapStepMoves
<1>3. ASSUME InsertsDatabase(t) \/ EvictsDatabase(t) \/ EndsEviction(t) \/ GivesUp(t)
      PROVE  TypeInv' /\ MapInv' /\ UsersInv' /\ PoolMoves(t)
  <2>1. TypeInv' /\ MapInv' /\ MapStep(t)
    BY <1>3, InsertsTypes, EvictsTypes, EndsEvictionTypes, GivesUpTypes
  <2>. QED BY <2>1, MapStepUsers, MapStepMoves
<1>4. CASE GetsConnection(t)
  <2>1. PICK x : Moves(t, x) /\ x.at \in {"use", "configure"}
    BY <1>4, GetsTypes
  <2>2. task[t].at = "connect"
    BY <1>4 DEF GetsConnection, At, TypeInv
  <2>3. PoolMoves(t)
    BY <2>1, <2>2 DEF PoolMoves, Statement
  <2>. QED BY <1>4, <2>3, GetsTypes, GetsUsers
<1>5. CASE ConfiguresConnection(t)
  <2>1. PICK step \in {"use", "release"} : Goto(t, step)
    BY <1>5 DEF ConfiguresConnection
  <2>2. task[t].at = "configure"
    BY <1>5 DEF ConfiguresConnection, At, TypeInv
  <2>3. PICK x : Moves(t, x) /\ x.at = step
    BY <2>1, <2>2, GoesOn DEF Lent
  <2>4. PoolMoves(t)
    BY <2>2, <2>3 DEF PoolMoves, Statement
  <2>. QED BY <1>5, <2>4, ConfiguresTypes, ConfiguresUsers
<1>7. CASE ReturnsConnection(t)
  <2>1. task[t].at = "drop" /\ Goto(t, "release")
    BY <1>7 DEF ReturnsConnection, At, TypeInv
  <2>2. PICK x : Moves(t, x) /\ x.at = "release"
    BY <2>1, GoesOn DEF Lent
  <2>3. PoolMoves(t)
    BY <2>1, <2>2 DEF PoolMoves, Statement
  <2>. QED BY <1>7, <2>3, ReturnsTypes, ReturnsUsers
<1>8. CASE ReleasesConnection(t)
  <2>1. task[t].at = "release"
    BY <1>8 DEF ReleasesConnection, At, TypeInv
  <2>2. PoolMoves(t)
    BY <1>8, <2>1, ReleasesTypes, IdleState DEF PoolMoves, Statement
  <2>. QED BY <1>8, <2>2, ReleasesTypes, ReleasesUsers
<1>. QED BY <1>1, <1>2, <1>3, <1>4, <1>5, <1>7, <1>8 DEF PoolStep

(* A transaction's own connection is open, before and after the step. *)
LEMMA ConnectionStaysOpen ==
    ASSUME TypeInv, MapInv, TypeInv', MapInv', NEW t \in Tasks, PoolMoves(t),
           NEW u \in Tasks, InTransaction(u)
    PROVE  /\ u # t /\ task'[u] = task[u] /\ InTransaction(u)'
           /\ Connection(u)' = Connection(u) /\ Open(Connection(u))'
<1>1. u # t /\ task'[u] = task[u]
  BY DEF PoolMoves, Moves, InTransaction, Statement, TypeInv
<1>2. InTransaction(u)' /\ Connection(u)' = Connection(u)
  BY <1>1 DEF InTransaction, Connection
<1>3. task'[u].connection # Null /\ task'[u].instance # Null /\ task'[u].at # "release"
  BY <1>1, BorrowerState DEF InTransaction, Lent
<1>4. task'[u].instance \in DOMAIN instances'
  BY <1>3 DEF MapInv, References
<1>5. Open(Connection(u))'
  BY <1>3, <1>4 DEF Connection, Open, OpenConnections, Holders, Users, At
<1>. QED BY <1>1, <1>2, <1>5

LEMMA PoolAppend ==
    ASSUME IInv, TypeInv', MapInv', NEW t \in Tasks, PoolMoves(t),
           appender' = (IF appender = t /\ task'[t].at = "idle" THEN Null ELSE appender),
           transaction' = Restrict(transaction, {c \in DOMAIN transaction : Open(c)'}),
           UNCHANGED <<length, acknowledged, abandoned>>
    PROVE  AppendInv'
<1>1. /\ TypeInv /\ MapInv /\ AppendInv
      /\ DOMAIN transaction' = {c \in DOMAIN transaction : Open(c)'}
      /\ \A c \in DOMAIN transaction' : transaction'[c] = transaction[c]
  BY DEF IInv, Restrict
<1>2. PICK x : /\ Moves(t, x) /\ x.at \notin Statement /\ task[t].at \notin Statement
               /\ task[t].at = "drop" => x.at = "release"
               /\ task[t].at = "release" => x.at = "idle"
  BY DEF PoolMoves
<1>3. task'[t] = x /\ \A u \in Tasks \ {t} : task'[u] = task[u]
  BY <1>1, <1>2, UsersAfter
<1>4. \A u \in Tasks : InTransaction(u)' => u # t /\ InTransaction(u) /\ task'[u] = task[u]
  BY <1>2, <1>3 DEF InTransaction, Statement
<1>5. /\ appender' \in Tasks \cup {Null} /\ length' \in 0..MaxLength /\ acknowledged' = length'
      /\ abandoned' \in Nat
  BY <1>1 DEF AppendInv
<1>6. appender' # Null => length' < MaxLength \/ task'[appender'].at \in {"drop", "release"}
  <2>. SUFFICES ASSUME appender' # Null
                PROVE  length < MaxLength \/ task'[appender].at \in {"drop", "release"}
    OBVIOUS
  <2>1. appender \in Tasks /\ (length < MaxLength \/ task[appender].at \in {"drop", "release"})
    BY <1>1 DEF AppendInv
  <2>2. CASE appender # t
    BY <1>3, <2>1, <2>2
  <2>3. CASE appender = t
    BY <1>2, <1>3, <2>1, <2>3
  <2>. QED BY <2>2, <2>3
<1>7. \A c \in DOMAIN transaction' : Open(c)' /\ transaction'[c] \in 0..MaxLength
  BY <1>1 DEF AppendInv
<1>8. ASSUME NEW u \in Tasks, InTransaction(u)'
      PROVE  /\ appender' = u
             /\ Connection(u)' \in DOMAIN transaction'
             /\ transaction'[Connection(u)'] = IF At(u, "begun")' THEN 0 ELSE 1
  <2>1. InTransaction(u) /\ u # t /\ task'[u] = task[u]
    BY <1>4, <1>8
  <2>2. Connection(u)' = Connection(u) /\ Open(Connection(u))'
    BY <1>1, <2>1, ConnectionStaysOpen
  <2>3. /\ appender = u /\ Connection(u) \in DOMAIN transaction
        /\ transaction[Connection(u)] = IF At(u, "begun") THEN 0 ELSE 1
    BY <1>1, <2>1 DEF AppendInv
  <2>4. PICK c : c = Connection(u)
    OBVIOUS
  <2>5. Open(c)'
    BY <2>2, <2>4 DEF Open, Connection
  <2>. QED BY <1>1, <2>1, <2>2, <2>3, <2>4, <2>5 DEF At
<1>9. ASSUME abandoned' = 0, NEW c \in DOMAIN transaction'
      PROVE  \E u \in Tasks : InTransaction(u)' /\ c = Connection(u)'
  <2>1. abandoned = 0
    BY <1>9
  <2>2. PICK u \in Tasks : InTransaction(u) /\ c = Connection(u)
    BY <1>1, <1>9, <2>1 DEF AppendInv
  <2>. QED BY <1>1, <2>2, ConnectionStaysOpen
<1>. QED BY <1>5, <1>6, <1>7, <1>8, <1>9 DEF AppendInv

-----------------------------------------------------------------------------
(* Statements *)

(* A statement leaves the pool as it is, but for the task's step. *)
LEMMA StatementKeeps ==
    ASSUME TypeInv, MapInv, UsersInv, NEW t \in Tasks,
           task[t].at \in {"use", "begun", "inserted"}, NEW step \in {"begun", "inserted", "drop"},
           Goto(t, step), UNCHANGED <<databases, instances>>
    PROVE  /\ TypeInv' /\ MapInv' /\ UsersInv'
           /\ task'[t].at = step
           /\ \A u \in Tasks \ {t} : task'[u] = task[u]
           /\ \A u \in Tasks : Connection(u)' = Connection(u)
           /\ \A c : Open(c)' <=> Open(c)
<1>1. task[t].at \in Lent \ {"release"} /\ step \in Lent \ {"release"}
  BY DEF Lent
<1>2. PICK x : /\ Moves(t, x) /\ x.at = step /\ x.instance = task[t].instance
               /\ x.connection = task[t].connection
  BY <1>1, GoesOn
<1>3. TypeInv' /\ MapInv'
  <2>1. \A i \in DOMAIN instances : instances'[i] \in DatabaseInstance
    BY DEF TypeInv
  <2>. QED BY <1>2, <2>1, InstanceKept
<1>4. UsersInv'
  BY <1>1, <1>2, KeepsUsers
<1>5. task'[t] = x /\ \A u \in Tasks \ {t} : task'[u] = task[u]
  BY <1>2, UsersAfter
<1>6. \A u \in Tasks : Connection(u)' = Connection(u)
  BY <1>2, <1>5 DEF Connection
<1>7. ASSUME NEW i PROVE OpenConnections(i)' = OpenConnections(i)
  <2>1. /\ \A u \in Tasks : task'[u].connection = task[u].connection
        /\ \A u \in Tasks : task'[u].instance = task[u].instance
        /\ \A u \in Tasks : task'[u].at = "release" <=> task[u].at = "release"
    BY <1>1, <1>2, <1>5
  <2>2. Users(i)' = Users(i)
    BY <2>1 DEF Users
  <2>3. Holders(i)' = Holders(i) /\ Holders(i) \subseteq Tasks
    BY <2>1, <2>2, UsersAreTasks DEF Holders, At
  <2>. QED BY <2>1, <2>3 DEF OpenConnections
<1>8. \A c : Open(c)' <=> Open(c)
  BY <1>7 DEF Open
<1>. QED BY <1>2, <1>3, <1>4, <1>5, <1>6, <1>8

(* The appender's connection is open, and nobody else is in a transaction. *)
LEMMA InTransactionAlone ==
    ASSUME IInv, NEW t \in Tasks, appender = t, task[t].at \in {"use", "begun", "inserted"}
    PROVE  /\ length < MaxLength /\ length \in Nat /\ acknowledged = length /\ MaxLength \in Nat
           /\ Open(Connection(t))
           /\ \A u \in Tasks : InTransaction(u) => u = t
<1>1. TypeInv /\ MapInv /\ AppendInv
  BY DEF IInv
<1>2. /\ length < MaxLength /\ length \in Nat /\ acknowledged = length /\ MaxLength \in Nat
      /\ \A u \in Tasks : InTransaction(u) => u = t
  <2>1. t # Null
    BY DatabasePoolAssumption
  <2>. QED BY <1>1, <2>1, PooledAppendAssumption DEF AppendInv
<1>3. task[t].instance \in DOMAIN instances /\ task[t].connection # Null
  BY <1>1, BorrowerState DEF Lent
<1>4. Open(Connection(t))
  BY <1>3 DEF Connection, Open, OpenConnections, Holders, Users, At
<1>. QED BY <1>2, <1>4

LEMMA StartsKeeps ==
    ASSUME IInv, NEW t \in Tasks, StartsAppend(t)
    PROVE  IInv'
<1>1. /\ TypeInv /\ MapInv /\ UsersInv /\ AppendInv
      /\ length < MaxLength /\ appender = Null /\ appender' = t
      /\ UNCHANGED <<databases, instances, task, abandoned, transaction, length, acknowledged>>
  BY DEF IInv, StartsAppend, poolVars
<1>2. TypeInv' /\ MapInv' /\ UsersInv'
  <2>1. TypeInv'
    BY <1>1 DEF TypeInv
  <2>2. MapInv'
    BY <1>1 DEF MapInv, Entries, At
  <2>3. \A i : Users(i)' = Users(i) /\ Holders(i)' = Holders(i)
    BY <1>1 DEF Users, Holders, At
  <2>4. UsersInv'
    BY <1>1, <2>3, UsersInvOf, UsersInvOfNext DEF CountIsExact, IsExclusive
  <2>. QED BY <2>1, <2>2, <2>4
<1>3. \A u \in Tasks : ~InTransaction(u)
  BY <1>1, DatabasePoolAssumption DEF AppendInv
<1>4. \A u \in Tasks : ~InTransaction(u)'
  BY <1>1, <1>3 DEF InTransaction
<1>5. \A c \in DOMAIN transaction : Open(c)' <=> Open(c)
  BY <1>1 DEF Open, OpenConnections, Holders, Users, At
<1>6. DOMAIN transaction = {} \/ abandoned # 0
  BY <1>1, <1>3 DEF AppendInv
<1>7. AppendInv'
  <2>1. appender' \in Tasks \cup {Null} /\ length' \in 0..MaxLength /\ acknowledged' = length'
        /\ (appender' # Null => length' < MaxLength) /\ abandoned' \in Nat
    BY <1>1 DEF AppendInv
  <2>2. \A c \in DOMAIN transaction' : Open(c)' /\ transaction'[c] \in 0..MaxLength
    BY <1>1, <1>5 DEF AppendInv
  <2>. QED BY <1>1, <1>4, <1>6, <2>1, <2>2 DEF AppendInv
<1>. QED BY <1>2, <1>7 DEF IInv

LEMMA BeginsKeeps ==
    ASSUME IInv, NEW t \in Tasks, Begins(t)
    PROVE  IInv'
<1>1. /\ TypeInv /\ MapInv /\ UsersInv /\ AppendInv
      /\ task[t].at = "use" /\ appender = t
      /\ UNCHANGED <<databases, instances, appender, length, acknowledged, abandoned>>
      /\ abandoned' \in Nat
  BY DEF IInv, Begins, At, StatementOnly, AppendInv
<1>2. /\ length < MaxLength /\ length \in Nat /\ acknowledged = length /\ MaxLength \in Nat
      /\ Open(Connection(t)) /\ \A u \in Tasks : InTransaction(u) => u = t
  BY <1>1, InTransactionAlone
<1>3. \A u \in Tasks : ~InTransaction(u)
  BY <1>1, <1>2 DEF InTransaction
<1>4. CASE /\ MayBegin(t) /\ Goto(t, "begun")
           /\ transaction' = [c \in DOMAIN transaction \cup {Connection(t)} |->
                    IF c \in DOMAIN transaction THEN transaction[c] ELSE 0]
  <2>1. /\ TypeInv' /\ MapInv' /\ UsersInv' /\ task'[t].at = "begun"
        /\ \A u \in Tasks \ {t} : task'[u] = task[u]
        /\ \A u \in Tasks : Connection(u)' = Connection(u)
        /\ \A c : Open(c)' <=> Open(c)
    BY <1>1, <1>4, StatementKeeps
  <2>2. PICK c : c = Connection(t)
    OBVIOUS
  <2>3. DOMAIN transaction = {}
    BY <1>4 DEF MayBegin
  <2>4. DOMAIN transaction' = {c} /\ transaction'[c] = 0 /\ Open(c)'
    BY <1>2, <1>4, <2>1, <2>2, <2>3
  <2>5. \A u \in Tasks : InTransaction(u)' <=> u = t
    BY <1>3, <2>1 DEF InTransaction
  <2>6. At(t, "begun")' /\ Connection(t)' = c
    BY <2>1, <2>2 DEF At
  <2>7. 0 \in 0..MaxLength /\ length' \in 0..MaxLength
    BY <1>1, <1>2
  <2>8. AppendInv'
    BY <1>1, <1>2, <2>4, <2>5, <2>6, <2>7 DEF AppendInv
  <2>. QED BY <2>1, <2>8 DEF IInv
<1>5. CASE ~MayBegin(t) /\ Goto(t, "drop") /\ UNCHANGED transaction
  <2>1. /\ TypeInv' /\ MapInv' /\ UsersInv' /\ task'[t].at = "drop"
        /\ \A u \in Tasks \ {t} : task'[u] = task[u]
        /\ \A c : Open(c)' <=> Open(c)
    BY <1>1, <1>5, StatementKeeps
  <2>2. \A u \in Tasks : ~InTransaction(u)'
    BY <1>3, <2>1 DEF InTransaction
  <2>3. abandoned # 0 \/ DOMAIN transaction = {}
    BY <1>1, <1>3 DEF AppendInv
  <2>4. AppendInv'
    BY <1>1, <1>5, <2>1, <2>2, <2>3 DEF AppendInv
  <2>. QED BY <2>1, <2>4 DEF IInv
<1>. QED BY <1>4, <1>5 DEF Begins

LEMMA InsertsKeeps ==
    ASSUME IInv, NEW t \in Tasks, InsertsEvents(t)
    PROVE  IInv'
<1>1. /\ TypeInv /\ MapInv /\ UsersInv /\ AppendInv
      /\ task[t].at = "begun" /\ Goto(t, "inserted")
      /\ transaction' = [transaction EXCEPT ![Connection(t)] = @ + 1]
      /\ UNCHANGED <<databases, instances, appender, length, acknowledged, abandoned>>
      /\ abandoned' \in Nat
  BY DEF IInv, InsertsEvents, At, StatementOnly, AppendInv
<1>2. /\ InTransaction(t) /\ appender = t /\ Connection(t) \in DOMAIN transaction
      /\ transaction[Connection(t)] = 0
  BY <1>1 DEF AppendInv, InTransaction, At
<1>3. /\ length < MaxLength /\ length \in Nat /\ MaxLength \in Nat
      /\ \A u \in Tasks : InTransaction(u) => u = t
  BY <1>1, <1>2, InTransactionAlone
<1>4. /\ TypeInv' /\ MapInv' /\ UsersInv' /\ task'[t].at = "inserted"
      /\ \A u \in Tasks \ {t} : task'[u] = task[u]
      /\ \A u \in Tasks : Connection(u)' = Connection(u)
      /\ \A c : Open(c)' <=> Open(c)
  BY <1>1, StatementKeeps
<1>5. /\ DOMAIN transaction' = DOMAIN transaction /\ transaction'[Connection(t)] = 1
      /\ \A c \in DOMAIN transaction : transaction'[c] = transaction[c] \/ transaction'[c] = 1
  BY <1>1, <1>2
<1>6. 1 \in 0..MaxLength
  BY <1>3
<1>7. \A u \in Tasks : InTransaction(u)' <=> u = t
  BY <1>3, <1>4 DEF InTransaction
<1>8. ~At(t, "begun")' /\ Connection(t)' = Connection(t)
  BY <1>4 DEF At
<1>9. AppendInv'
  <2>1. appender' # Null => length' < MaxLength
    BY <1>1, <1>3
  <2>2. \A c \in DOMAIN transaction' : Open(c)' /\ transaction'[c] \in 0..MaxLength
    BY <1>1, <1>4, <1>5, <1>6 DEF AppendInv
  <2>3. \A u \in Tasks : InTransaction(u)' =>
            /\ appender' = u
            /\ Connection(u)' \in DOMAIN transaction'
            /\ transaction'[Connection(u)'] = IF At(u, "begun")' THEN 0 ELSE 1
    BY <1>1, <1>2, <1>5, <1>7, <1>8
  <2>4. abandoned' = 0 =>
            \A c \in DOMAIN transaction' : \E u \in Tasks : InTransaction(u)' /\ c = Connection(u)'
    BY <1>1, <1>3, <1>5, <1>7, <1>8 DEF AppendInv
  <2>. QED BY <1>1, <2>1, <2>2, <2>3, <2>4 DEF AppendInv
<1>. QED BY <1>4, <1>9 DEF IInv

(* The transaction is over; what it wrote is there, or is gone.              *)
LEMMA EndsTransaction ==
    ASSUME IInv, NEW t \in Tasks, InTransaction(t), Goto(t, "drop"), StatementOnly,
           abandoned' = abandoned,
           transaction' = Restrict(transaction, DOMAIN transaction \ {Connection(t)}),
           length' \in 0..MaxLength, acknowledged' = length'
    PROVE  IInv'
<1>1. /\ TypeInv /\ MapInv /\ UsersInv /\ AppendInv
      /\ task[t].at \in {"begun", "inserted"}
      /\ UNCHANGED <<databases, instances, appender>>
      /\ abandoned' \in Nat
  BY DEF IInv, InTransaction, StatementOnly, AppendInv
<1>2. appender = t
  BY <1>1 DEF AppendInv
<1>3. \A u \in Tasks : InTransaction(u) => u = t
  BY <1>1, <1>2, InTransactionAlone
<1>4. /\ TypeInv' /\ MapInv' /\ UsersInv' /\ task'[t].at = "drop"
      /\ \A u \in Tasks \ {t} : task'[u] = task[u]
      /\ \A c : Open(c)' <=> Open(c)
  BY <1>1, StatementKeeps
<1>5. \A u \in Tasks : ~InTransaction(u)'
  BY <1>3, <1>4 DEF InTransaction
<1>6. /\ DOMAIN transaction' = DOMAIN transaction \ {Connection(t)}
      /\ \A c \in DOMAIN transaction' : transaction'[c] = transaction[c]
  BY DEF Restrict
<1>7. abandoned' = 0 => DOMAIN transaction' = {}
  BY <1>1, <1>3, <1>6 DEF AppendInv
<1>8. \A c \in DOMAIN transaction' : Open(c)' /\ transaction'[c] \in 0..MaxLength
  BY <1>1, <1>4, <1>6 DEF AppendInv
<1>9. AppendInv'
  BY <1>1, <1>2, <1>4, <1>5, <1>7, <1>8 DEF AppendInv
<1>. QED BY <1>4, <1>9 DEF IInv

LEMMA CommitsKeeps ==
    ASSUME IInv, NEW t \in Tasks, Commits(t)
    PROVE  IInv'
<1>1. /\ TypeInv /\ AppendInv /\ InTransaction(t) /\ ~At(t, "begun")
      /\ task[t].at \in {"use", "begun", "inserted"}
      /\ length' = length + transaction[Connection(t)] /\ acknowledged' = acknowledged + 1
  BY DEF IInv, Commits, At, InTransaction
<1>2. appender = t /\ transaction[Connection(t)] = 1
  BY <1>1 DEF AppendInv
<1>3. length < MaxLength /\ length \in Nat /\ acknowledged = length /\ MaxLength \in Nat
  BY <1>1, <1>2, InTransactionAlone
<1>4. length' \in 0..MaxLength /\ acknowledged' = length'
  BY <1>1, <1>2, <1>3
<1>. QED BY <1>1, <1>4, EndsTransaction DEF Commits

LEMMA RollsBackKeeps ==
    ASSUME IInv, NEW t \in Tasks, RollsBack(t)
    PROVE  IInv'
<1>1. InTransaction(t) /\ UNCHANGED <<length, acknowledged>>
  BY DEF RollsBack, InTransaction
<1>2. length' \in 0..MaxLength /\ acknowledged' = length'
  BY <1>1 DEF IInv, AppendInv
<1>. QED BY <1>1, <1>2, EndsTransaction DEF RollsBack, Rollback

LEMMA LeavesOpenKeeps ==
    ASSUME IInv, NEW t \in Tasks, LeavesOpen(t)
    PROVE  IInv'
<1>1. /\ TypeInv /\ MapInv /\ UsersInv /\ AppendInv /\ InTransaction(t)
      /\ task[t].at \in {"begun", "inserted"} /\ Goto(t, "drop")
      /\ UNCHANGED <<databases, instances, appender, transaction, length, acknowledged>>
      /\ abandoned' \in Nat /\ abandoned' # 0
  BY DEF IInv, LeavesOpen, InTransaction, StatementOnly, AppendInv
<1>2. appender = t
  BY <1>1 DEF AppendInv
<1>3. \A u \in Tasks : InTransaction(u) => u = t
  BY <1>1, <1>2, InTransactionAlone
<1>4. /\ TypeInv' /\ MapInv' /\ UsersInv' /\ task'[t].at = "drop"
      /\ \A u \in Tasks \ {t} : task'[u] = task[u]
      /\ \A c : Open(c)' <=> Open(c)
  BY <1>1, StatementKeeps
<1>5. \A u \in Tasks : ~InTransaction(u)'
  BY <1>3, <1>4 DEF InTransaction
<1>6. AppendInv'
  BY <1>1, <1>2, <1>4, <1>5 DEF AppendInv
<1>. QED BY <1>4, <1>6 DEF IInv

LEMMA ReadsKeeps ==
    ASSUME IInv, NEW t \in Tasks, Reads(t)
    PROVE  IInv'
<1>1. /\ TypeInv /\ MapInv /\ UsersInv /\ AppendInv
      /\ task[t].at = "use" /\ Goto(t, "drop")
      /\ UNCHANGED <<databases, instances, appender, transaction, length, acknowledged, abandoned>>
      /\ abandoned' \in Nat
  BY DEF IInv, Reads, At, StatementOnly, AppendInv
<1>2. /\ TypeInv' /\ MapInv' /\ UsersInv' /\ task'[t].at = "drop"
      /\ \A u \in Tasks \ {t} : task'[u] = task[u]
      /\ \A u \in Tasks : Connection(u)' = Connection(u)
      /\ \A c : Open(c)' <=> Open(c)
  BY <1>1, StatementKeeps
<1>3. \A u \in Tasks : InTransaction(u)' <=> InTransaction(u)
  BY <1>1, <1>2 DEF InTransaction
<1>4. \A u \in Tasks : InTransaction(u) => (At(u, "begun")' <=> At(u, "begun"))
  BY <1>1, <1>2 DEF InTransaction, At
<1>5. appender' # Null => length' < MaxLength \/ task'[appender'].at \in {"drop", "release"}
  BY <1>1, <1>2 DEF AppendInv
<1>6. /\ appender' \in Tasks \cup {Null} /\ length' \in 0..MaxLength /\ acknowledged' = length'
      /\ \A c \in DOMAIN transaction' : Open(c)' /\ transaction'[c] \in 0..MaxLength
  BY <1>1, <1>2 DEF AppendInv
<1>7. \A u \in Tasks : InTransaction(u)' =>
        /\ appender' = u
        /\ Connection(u)' \in DOMAIN transaction'
        /\ transaction'[Connection(u)'] = IF At(u, "begun")' THEN 0 ELSE 1
  BY <1>1, <1>2, <1>3, <1>4 DEF AppendInv
<1>8. abandoned' = 0 =>
        \A c \in DOMAIN transaction' : \E u \in Tasks : InTransaction(u)' /\ c = Connection(u)'
  BY <1>1, <1>2, <1>3 DEF AppendInv
<1>9. AppendInv'
  BY <1>1, <1>5, <1>6, <1>7, <1>8 DEF AppendInv
<1>. QED BY <1>2, <1>9 DEF IInv

-----------------------------------------------------------------------------
(* The theorems *)

LEMMA InitImpliesIInv == Init => IInv
<1>. SUFFICES ASSUME Init PROVE IInv
  OBVIOUS
<1>1. /\ databases = <<>> /\ instances = <<>> /\ task = [t \in Tasks |-> Idle] /\ abandoned = 0
      /\ appender = Null /\ transaction = <<>> /\ length = 0 /\ acknowledged = 0
  BY DEF Init, InitPool
<1>2. TypeInv
  BY <1>1, IdleState DEF TypeInv
<1>3. \A t \in Tasks : task[t].at = "idle" /\ task[t].instance = Null /\ task[t].connection = Null
  BY <1>1, IdleState
<1>4. MapInv
  BY <1>1, <1>3, IdleState DEF MapInv, UniquePaths, Entries, References, At
<1>5. UsersInv
  BY <1>1 DEF UsersInv, ActiveCountIsExact, ConnectionIsExclusive
<1>6. AppendInv
  BY <1>1, <1>3, PooledAppendAssumption DEF AppendInv, InTransaction
<1>. QED BY <1>2, <1>4, <1>5, <1>6 DEF IInv

LEMMA NextKeepsIInv == IInv /\ [Next]_vars => IInv'
<1>. SUFFICES ASSUME IInv, [Next]_vars PROVE IInv'
  OBVIOUS
<1>1. ASSUME NEW t \in Tasks, UsesPool(t) PROVE IInv'
  <2>1. TypeInv' /\ MapInv' /\ UsersInv' /\ PoolMoves(t)
    BY <1>1, PoolStepKeeps DEF IInv, UsesPool
  <2>2. AppendInv'
    BY <1>1, <2>1, PoolAppend DEF UsesPool
  <2>. QED BY <2>1, <2>2 DEF IInv
<1>2. CASE UNCHANGED vars
  <2>1. UNCHANGED <<databases, instances, task, abandoned, appender, transaction, length, acknowledged>>
    BY <1>2 DEF vars, poolVars, appendVars
  <2>2. TypeInv' /\ MapInv'
    BY <2>1 DEF IInv, TypeInv, MapInv, Entries, At
  <2>3. \A i : Users(i)' = Users(i) /\ Holders(i)' = Holders(i)
    BY <2>1 DEF Users, Holders, At
  <2>4. UsersInv'
    BY <2>1, <2>3, UsersInvOf, UsersInvOfNext DEF IInv, CountIsExact, IsExclusive
  <2>5. \A c : Open(c)' <=> Open(c)
    BY <2>1, <2>3 DEF Open, OpenConnections
  <2>6. AppendInv'
    BY <2>1, <2>5 DEF IInv, AppendInv, InTransaction, Connection, At
  <2>. QED BY <2>2, <2>4, <2>6 DEF IInv
<1>. QED BY <1>1, <1>2, StartsKeeps, BeginsKeeps, InsertsKeeps, RollsBackKeeps, CommitsKeeps,
            LeavesOpenKeeps, ReadsKeeps DEF Next

LEMMA IInvHolds == Spec => []IInv
BY InitImpliesIInv, NextKeepsIInv, PTL DEF Spec

(* Every variable keeps its type: in particular an instance a task refers to *)
(* lives, and a transaction is that of an open connection.                   *)
THEOREM PoolIsTyped == Spec => []TypeOK
<1>1. IInv => TypeOK
  <2>. SUFFICES ASSUME IInv PROVE TypeOK
    OBVIOUS
  <2>1. TypeInv /\ MapInv /\ AppendInv
    BY DEF IInv
  <2>2. \A t \in Tasks :
            /\ task[t].path \in Paths \cup {Null}
            /\ task[t].instance \in DOMAIN instances \cup {Null}
            /\ task[t].connection \in Numbers \cup {Null}
    BY <2>1, ReferencesNow DEF TypeInv, TaskState
  <2>3. {length, acknowledged} \subseteq 0..MaxLength
    BY <2>1 DEF AppendInv
  <2>. QED BY <2>1, <2>2, <2>3 DEF TypeOK, TypeInv, AppendInv, Entry
<1>. QED BY <1>1, IInvHolds, PTL

(* No connection is lent to two tasks, nor waits in the pool while it is lent. *)
THEOREM NoConnectionIsShared == Spec => []ConnectionIsExclusive
<1>1. IInv => ConnectionIsExclusive
  BY DEF IInv, UsersInv
<1>. QED BY <1>1, IInvHolds, PTL

(* active_connections is the number of connections lent, through every error *)
(* path of get_connection and every hand-back that finds the mutex taken.    *)
THEOREM ActiveConnectionsAreCounted == Spec => []ActiveCountIsExact
<1>1. IInv => ActiveCountIsExact
  BY DEF IInv, UsersInv
<1>. QED BY <1>1, IInvHolds, PTL

(* The file holds what acknowledged appends wrote, and nothing an append     *)
(* left behind.                                                              *)
THEOREM OnlyAcknowledgedIsCommitted == Spec => []CommitsAreAcknowledged
<1>1. IInv => CommitsAreAcknowledged
  BY DEF IInv, AppendInv, CommitsAreAcknowledged
<1>. QED BY <1>1, IInvHolds, PTL

(* Nobody is lent a connection within a transaction, as long as no future    *)
(* was dropped and no ROLLBACK failed.                                       *)
THEOREM LentConnectionsAreClean == Spec => []ConnectionsAreClean
<1>1. IInv => ConnectionsAreClean
  <2>. SUFFICES ASSUME IInv, abandoned = 0, NEW t \in Tasks, At(t, "use"), Connection(t) \in DOMAIN transaction
                PROVE  FALSE
    BY DEF ConnectionsAreClean
  <2>1. TypeInv /\ MapInv /\ UsersInv /\ AppendInv
    BY DEF IInv
  <2>2. PICK u \in Tasks : InTransaction(u) /\ Connection(t) = Connection(u)
    BY <2>1 DEF AppendInv
  <2>3. t # u
    BY <2>2 DEF At, InTransaction
  <2>4. task[t].instance = task[u].instance /\ task[t].connection = task[u].connection
    BY <2>2 DEF Connection
  <2>5. PICK i : i = task[t].instance
    OBVIOUS
  <2>6. i \in DOMAIN instances /\ task[t].connection # Null
    BY <2>1, <2>5, BorrowerState DEF At, Lent
  <2>7. t \in Holders(i) /\ u \in Holders(i)
    BY <2>2, <2>4, <2>5, <2>6 DEF Holders, Users, At, InTransaction
  <2>. QED BY <2>1, <2>3, <2>4, <2>6, <2>7 DEF UsersInv, ConnectionIsExclusive
<1>. QED BY <1>1, IInvHolds, PTL

SparesUsed ==
    \A e \in Entries(databases) :
        (\A f \in Entries(databases)' : f.path # e.path) => Users(e.instance) = {}

LEMMA EvictionSpares ==
    ASSUME TypeInv, MapInv, UsersInv, NEW t \in Tasks, EvictsDatabase(t)
    PROVE  SparesUsed
<1>. SUFFICES ASSUME NEW e \in Entries(databases), \A f \in Entries(databases)' : f.path # e.path
              PROVE  Users(e.instance) = {}
  BY DEF SparesUsed
<1>1. At(t, "evict") /\ task[t].todo # <<>> /\ task[t].todo \in Seq(Entry)
  BY DEF EvictsDatabase, TypeInv, TaskState
<1>2. UniquePaths(task[t].todo) /\ Entries(task[t].todo) \subseteq Entries(databases)
  BY <1>1 DEF MapInv
<1>. DEFINE d == Head(task[t].todo)
<1>3. d \in Entries(databases)
  BY <1>1, <1>2, TailOf
<1>4. databases' # databases
  BY DEF Entries
<1>5. MayEvict(d.instance) /\ databases' = WithoutPath(databases, d.path)
  BY <1>4 DEF EvictsDatabase
<1>. HIDE DEF d
<1>6. Entries(databases') = {f \in Entries(databases) : f.path # d.path}
  BY <1>5, Removed DEF TypeInv, MapInv
<1>7. e.path = d.path
  BY <1>6 DEF Entries
<1>8. e = d
  BY <1>3, <1>7, EntryOfPath DEF MapInv
<1>9. d.instance \in DOMAIN instances
  BY <1>3, ReferencesNow
<1>10. CountIsExact(d.instance)
  BY <1>9, UsersInvOf
<1>11. Cardinality(Users(d.instance)) = 0
  <2>1. Cardinality(Users(d.instance)) <= 0 /\ Cardinality(Users(d.instance)) \in Nat
    BY <1>5, <1>10, UsersAreTasks DEF CountIsExact, MayEvict
  <2>. QED BY <2>1
<1>. QED BY <1>8, <1>11, UsersAreTasks, FS_EmptySet

LEMMA EntryMakesRoom ==
    ASSUME TypeInv, MapInv, NEW t \in Tasks, task[t].at \in {"insert", "evict"}, Enters(t, databases)
    PROVE  SparesUsed
<1>. SUFFICES ASSUME NEW e \in Entries(databases) PROVE \E f \in Entries(databases') : f.path = e.path
  BY DEF SparesUsed, Entries
<1>1. Entries(databases') = {f \in Entries(databases) : f.path # task[t].path}
                            \cup {[path |-> task[t].path, instance |-> task[t].instance]}
  BY EntersTheMap
<1>2. CASE e.path = task[t].path
  <2>. DEFINE f == [path |-> task[t].path, instance |-> task[t].instance]
  <2>1. f \in Entries(databases') /\ f.path = e.path
    BY <1>1, <1>2
  <2>. QED BY <2>1
<1>3. CASE e.path # task[t].path
  BY <1>1, <1>3
<1>. QED BY <1>2, <1>3

LEMMA UnchangedSpares == (databases' = databases) => SparesUsed
BY DEF SparesUsed, Entries

(* An entry leaves the map for good only while nobody uses a connection of   *)
(* its instance.                                                             *)
THEOREM UsedDatabasesStay == Spec => EvictionSparesUsed
<1>1. IInv /\ [Next]_vars => [SparesUsed]_poolVars
  <2>. SUFFICES ASSUME IInv, [Next]_vars PROVE SparesUsed \/ UNCHANGED poolVars
    OBVIOUS
  <2>0. TypeInv /\ MapInv /\ UsersInv
    BY DEF IInv
  <2>1. CASE UNCHANGED vars
    BY <2>1 DEF vars
  <2>2. ASSUME NEW t \in Tasks, PoolStep(t) PROVE SparesUsed
    <3>1. ASSUME NEW path \in Paths, FindsDatabase(t, path) PROVE SparesUsed
      <4>1. Entries(databases') = Entries(databases)
        BY <2>0, <3>1, FindsTypes
      <4>. QED BY <4>1 DEF SparesUsed, Entries
    <3>2. ASSUME NEW path \in Paths, MissesDatabase(t, path) PROVE SparesUsed
      BY <3>2, UnchangedSpares DEF MissesDatabase
    <3>3. CASE InsertsDatabase(t)
      <4>1. CASE Enters(t, databases)
        BY <2>0, <3>3, <4>1, EntryMakesRoom DEF InsertsDatabase, At
      <4>2. CASE UNCHANGED databases
        BY <4>2, UnchangedSpares
      <4>. QED BY <3>3, <4>1, <4>2 DEF InsertsDatabase
    <3>4. CASE EvictsDatabase(t)
      BY <2>0, <3>4, EvictionSpares
    <3>5. CASE EndsEviction(t)
      BY <2>0, <3>5, EntryMakesRoom DEF EndsEviction, At
    <3>6. CASE UNCHANGED databases
      BY <3>6, UnchangedSpares
    <3>. QED BY <2>2, <3>1, <3>2, <3>3, <3>4, <3>5, <3>6
             DEF PoolStep, GetsConnection, ConfiguresConnection, ReturnsConnection, ReleasesConnection, GivesUp
  <2>3. ASSUME NEW t \in Tasks, StartsAppend(t) PROVE UNCHANGED poolVars
    BY <2>3 DEF StartsAppend
  <2>4. ASSUME NEW t \in Tasks, Begins(t) \/ InsertsEvents(t) \/ RollsBack(t) \/ Commits(t)
                                \/ LeavesOpen(t) \/ Reads(t)
        PROVE  SparesUsed
    BY <2>4, UnchangedSpares
       DEF Begins, InsertsEvents, RollsBack, Commits, LeavesOpen, Reads, StatementOnly
  <2>. QED BY <2>1, <2>2, <2>3, <2>4 DEF Next, UsesPool
<1>. QED BY <1>1, IInvHolds, PTL DEF Spec, EvictionSparesUsed, SparesUsed

-----------------------------------------------------------------------------
(* How far the pool grows *)

Tokens == InstanceIds \cup {Null}

(* While t evicts, the entries it went past were in use by a task that has   *)
(* had no other instance since: G says which.                                *)
KeptBy(t, G) ==
    /\ Len(databases) < max_cached_databases + task[t].target
    /\ \A u \in Tasks \ {t} : task[u].instance # Null => G[u] = task[u].instance
    /\ \A e \in Entries(databases) \ Entries(task[t].todo) :
        \E u \in Tasks \ {t} : G[u] = e.instance

BoundInv ==
    /\ PoolIsBounded
    /\ \A t \in Tasks : At(t, "evict") => \E G \in [Tasks -> Tokens] : KeptBy(t, G)

LEMMA BoundedBy ==
    ASSUME TypeInv, TypeInv', PoolIsBounded, Len(databases') <= Len(databases)
    PROVE  PoolIsBounded'
<1>1. /\ Len(databases) \in Nat /\ Len(databases') \in Nat
      /\ Cardinality(Tasks) \in Nat /\ max_cached_databases \in Nat
  BY LenProperties, NumbersOfTasks, DatabasePoolAssumption DEF TypeInv
<1>2. \/ Len(databases') <= max_cached_databases + 1
      \/ Len(databases') <= Cardinality(Tasks)
  BY <1>1 DEF PoolIsBounded
<1>. QED BY <1>2 DEF PoolIsBounded

LEMMA KeptMeanwhile ==
    ASSUME TypeInv, NEW v \in Tasks, NEW x, Moves(v, x),
           x.instance = Null \/ x.instance = task[v].instance, databases' = databases,
           NEW t \in Tasks, t # v, NEW G, KeptBy(t, G)
    PROVE  KeptBy(t, G)'
<1>1. task'[v] = x /\ \A u \in Tasks \ {v} : task'[u] = task[u]
  BY UsersAfter
<1>2. \A u \in Tasks \ {t} : task'[u].instance # Null => G[u] = task'[u].instance
  BY <1>1 DEF KeptBy
<1>3. Len(databases') < max_cached_databases + task'[t].target /\ task'[t].todo = task[t].todo
  BY <1>1 DEF KeptBy
<1>. QED BY <1>2, <1>3 DEF KeptBy, Entries

(* A step that neither begins an eviction nor is a turn of one. *)
LEMMA BoundStep ==
    ASSUME TypeInv, BoundInv, PoolIsBounded', NEW v \in Tasks, NEW x, Moves(v, x), x.at # "evict",
           \A t \in Tasks \ {v} : At(t, "evict") =>
                databases' = databases /\ (x.instance = Null \/ x.instance = task[v].instance)
    PROVE  BoundInv'
<1>1. ASSUME NEW t \in Tasks, At(t, "evict")'
      PROVE  \E G \in [Tasks -> Tokens] : KeptBy(t, G)'
  <2>1. t # v /\ At(t, "evict")
    BY <1>1, UsersAfter DEF At
  <2>2. PICK G \in [Tasks -> Tokens] : KeptBy(t, G)
    BY <2>1 DEF BoundInv
  <2>3. KeptBy(t, G)'
    BY <2>1, <2>2, KeptMeanwhile
  <2>. QED BY <2>3
<1>. QED BY <1>1 DEF BoundInv

(* What is left when the list is through, is in use: not by t itself.        *)
LEMMA KeptAreFew ==
    ASSUME TypeInv, MapInv, NEW t \in Tasks, task[t].todo = <<>>, NEW G, KeptBy(t, G)
    PROVE  Len(databases) <= Cardinality(Tasks) - 1
<1>. DEFINE S == 1..Len(databases)
            f == [n \in S |-> CHOOSE u \in Tasks \ {t} : G[u] = databases[n].instance]
<1>1. /\ Len(databases) \in Nat /\ DOMAIN databases = S
      /\ \A n \in S : databases[n] \in Entries(databases)
  BY EntryPaths DEF TypeInv, Entries
<1>2. Entries(task[t].todo) = {}
  BY DEF Entries
<1>3. \A n \in S : \E u \in Tasks \ {t} : G[u] = databases[n].instance
  BY <1>1, <1>2 DEF KeptBy
<1>4. \A m, n \in S : databases[m].instance = databases[n].instance => m = n
  <2>. SUFFICES ASSUME NEW m \in S, NEW n \in S, databases[m].instance = databases[n].instance
                PROVE  m = n
    OBVIOUS
  <2>1. databases[m].path = databases[n].path
    BY <1>1 DEF MapInv
  <2>. QED BY <1>1, <2>1 DEF MapInv, UniquePaths
<1>5. IsFiniteSet(S) /\ Cardinality(S) = Len(databases)
  BY <1>1, FS_Interval
<1>6. /\ IsFiniteSet(Tasks \ {t}) /\ Cardinality(Tasks \ {t}) = Cardinality(Tasks) - 1
      /\ Cardinality(Tasks) \in Nat
  BY DatabasePoolAssumption, NumbersOfTasks, FS_RemoveElement
<1>7. f \in [S -> Tasks \ {t}] /\ \A n \in S : G[f[n]] = databases[n].instance
  BY <1>3
<1>. HIDE DEF f, S
<1>8. \A m, n \in S : f[m] = f[n] => m = n
  BY <1>4, <1>7
<1>9. ~(Cardinality(Tasks \ {t}) < Cardinality(S))
  BY <1>5, <1>6, <1>7, <1>8, FS_PigeonHole
<1>. QED BY <1>1, <1>5, <1>6, <1>9

(* The step that begins an eviction: nothing is kept yet. *)
LEMMA BeginsBounded ==
    ASSUME TypeInv, TypeInv', BoundInv, NEW t \in Tasks, ~WriteLocked,
           task' = [task EXCEPT ![t].at = "evict", ![t].todo = databases, ![t].target = EvictionTarget],
           databases' = databases
    PROVE  BoundInv'
<1>3. PoolIsBounded'
  BY BoundedBy, LenProperties DEF BoundInv, TypeInv
<1>4. /\ \A u \in Tasks \ {t} : task'[u] = task[u]
      /\ task'[t].todo = databases /\ task'[t].target = EvictionTarget
  BY DEF TypeInv, TaskState
<1>5. ASSUME NEW v \in Tasks, At(v, "evict")' PROVE v = t
  BY <1>4, <1>5 DEF At, WriteLocked
<1>6. PICK G : G = [u \in Tasks |-> task[u].instance]
  OBVIOUS
<1>7. G \in [Tasks -> Tokens]
  BY <1>6 DEF TypeInv, TaskState, Tokens
<1>8. Len(databases') < max_cached_databases + task'[t].target
  <2>1. Len(databases) \in Nat /\ max_cached_databases \in Nat
    BY LenProperties, DatabasePoolAssumption DEF TypeInv
  <2>. QED BY <1>4, <2>1 DEF EvictionTarget
<1>9. KeptBy(t, G)'
  <2>1. \A u \in Tasks \ {t} : G[u] = task'[u].instance
    BY <1>4, <1>6
  <2>2. Entries(databases') \ Entries(task'[t].todo) = {}
    BY <1>4
  <2>. QED BY <1>8, <2>1, <2>2 DEF KeptBy, Entries
<1>. QED BY <1>3, <1>5, <1>7, <1>9 DEF BoundInv

(* One turn of an eviction: the entry goes, or it is in use. *)
LEMMA TurnBounded ==
    ASSUME TypeInv, MapInv, UsersInv, TypeInv', BoundInv, NEW t \in Tasks, EvictsDatabase(t)
    PROVE  BoundInv'
<1>3. /\ At(t, "evict") /\ task[t].todo # <<>> /\ task[t].todo \in Seq(Entry)
      /\ task[t].target \in Nat /\ task[t].connection = Null
  BY DEF EvictsDatabase, TypeInv, TaskState, MapInv, Holds, At, Lent
<1>4. /\ \A v \in Tasks : At(v, "evict") => v = t
      /\ UniquePaths(task[t].todo) /\ Entries(task[t].todo) \subseteq Entries(databases)
  BY <1>3 DEF MapInv
<1>5. PICK G \in [Tasks -> Tokens] : KeptBy(t, G)
  BY <1>3 DEF BoundInv
<1>. DEFINE e == Head(task[t].todo)
            rest == Tail(task[t].todo)
<1>6. /\ e \in Entries(databases)
      /\ \A d \in Entries(rest) : d \in Entries(task[t].todo)
      /\ \A d \in Entries(task[t].todo) : d = e \/ d \in Entries(rest)
  BY <1>3, <1>4, TailOf
<1>7. /\ \A u \in Tasks \ {t} : task'[u] = task[u]
      /\ task'[t].todo = rest
  <2>1. \/ task' = [task EXCEPT ![t].todo = Tail(@), ![t].target = @ - 1]
        \/ task' = [task EXCEPT ![t].todo = Tail(@)]
    BY DEF EvictsDatabase
  <2>2. task \in [Tasks -> TaskState] /\ task[t] \in TaskState
    BY DEF TypeInv
  <2>3. CASE task' = [task EXCEPT ![t].todo = Tail(@), ![t].target = @ - 1]
    BY <2>2, <2>3 DEF TaskState
  <2>4. CASE task' = [task EXCEPT ![t].todo = Tail(@)]
    BY <2>2, <2>4 DEF TaskState
  <2>. QED BY <2>1, <2>3, <2>4
<1>8. Len(databases) \in Nat /\ max_cached_databases \in Nat
      /\ Len(databases) < max_cached_databases + task[t].target
  BY <1>5, LenProperties, DatabasePoolAssumption DEF TypeInv, KeptBy
<1>. HIDE DEF e, rest
<1>9. /\ Len(databases') < max_cached_databases + task'[t].target /\ Len(databases') <= Len(databases)
       /\ \A d \in Entries(databases') \ Entries(task'[t].todo) :
            \/ d \in Entries(databases) \ Entries(task[t].todo)
            \/ d = e /\ ~MayEvict(e.instance)
  <2>1. CASE /\ databases' = WithoutPath(databases, e.path)
             /\ task' = [task EXCEPT ![t].todo = Tail(@), ![t].target = @ - 1]
    <3>1. /\ Entries(databases') = {d \in Entries(databases) : d.path # e.path}
          /\ Len(databases') = Len(databases) - 1
      BY <1>6, <2>1, Removed DEF TypeInv, MapInv
    <3>2. task'[t].target = task[t].target - 1
      BY <2>1 DEF TypeInv, TaskState
    <3>3. Len(databases') < max_cached_databases + task'[t].target /\ Len(databases') <= Len(databases)
      BY <1>3, <1>8, <3>1, <3>2
    <3>. QED BY <1>6, <1>7, <3>1, <3>3
  <2>2. CASE ~MayEvict(e.instance) /\ task' = [task EXCEPT ![t].todo = Tail(@)] /\ UNCHANGED databases
    <3>1. task'[t].target = task[t].target
      BY <2>2 DEF TypeInv, TaskState
    <3>. QED BY <1>6, <1>7, <1>8, <2>2, <3>1
  <2>. QED BY <2>1, <2>2 DEF EvictsDatabase, e
<1>10. ~MayEvict(e.instance) => \E u \in Tasks \ {t} : G[u] = e.instance
  <2>. SUFFICES ASSUME ~MayEvict(e.instance)
                PROVE  \E u \in Tasks \ {t} : G[u] = e.instance
    OBVIOUS
  <2>1. e.instance \in DOMAIN instances
    BY <1>6, ReferencesNow
  <2>2. CountIsExact(e.instance)
    BY <2>1, UsersInvOf
  <2>3. Users(e.instance) # {}
    BY <2>2, FS_EmptySet DEF CountIsExact, MayEvict
  <2>4. PICK u \in Users(e.instance) : TRUE
    BY <2>3
  <2>5. u \in Tasks \ {t} /\ task[u].instance = e.instance /\ task[u].instance # Null
    BY <1>3, <2>1, <2>4, NumbersOfTasks DEF Users, TypeInv
  <2>. QED BY <1>5, <2>5 DEF KeptBy
<1>11. KeptBy(t, G)'
  <2>1. \A u \in Tasks \ {t} : task'[u].instance # Null => G[u] = task'[u].instance
    BY <1>5, <1>7 DEF KeptBy
  <2>2. ASSUME NEW d \in Entries(databases') \ Entries(task'[t].todo)
        PROVE  \E u \in Tasks \ {t} : G[u] = d.instance
    BY <1>5, <1>9, <1>10, <2>2 DEF KeptBy
  <2>. QED BY <1>9, <2>1, <2>2 DEF KeptBy, Entries
<1>12. \A v \in Tasks : At(v, "evict")' => v = t
  BY <1>4, <1>7 DEF At
<1>13. PoolIsBounded'
  BY <1>9, BoundedBy DEF BoundInv
<1>. QED BY <1>11, <1>12, <1>13 DEF BoundInv

(* The entry of the file that was missing is one more. *)
LEMMA EndsBounded ==
    ASSUME TypeInv, MapInv, TypeInv', BoundInv, NEW t \in Tasks,
           Len(databases') <= Len(databases) + 1,
           \/ Len(databases) <= max_cached_databases
           \/ At(t, "evict") /\ (task[t].target = 0 \/ task[t].todo = <<>>)
    PROVE  PoolIsBounded'
<1>1. /\ Len(databases) \in Nat /\ Len(databases') \in Nat /\ max_cached_databases \in Nat
      /\ Cardinality(Tasks) \in Nat
  BY LenProperties, DatabasePoolAssumption, NumbersOfTasks DEF TypeInv
<1>2. CASE Len(databases) <= max_cached_databases
  <2>1. Len(databases') <= max_cached_databases + 1
    BY <1>1, <1>2
  <2>. QED BY <2>1 DEF PoolIsBounded
<1>3. CASE At(t, "evict") /\ (task[t].target = 0 \/ task[t].todo = <<>>)
  <2>1. PICK G : KeptBy(t, G)
    BY <1>3 DEF BoundInv
  <2>2. CASE task[t].target = 0
    <3>1. Len(databases) < max_cached_databases + 0
      BY <2>1, <2>2 DEF KeptBy
    <3>2. Len(databases') <= max_cached_databases + 1
      BY <1>1, <3>1
    <3>. QED BY <3>2 DEF PoolIsBounded
  <2>3. CASE task[t].todo = <<>>
    <3>1. Len(databases) <= Cardinality(Tasks) - 1
      BY <2>1, <2>3, KeptAreFew
    <3>2. Len(databases') <= Cardinality(Tasks)
      BY <1>1, <3>1
    <3>. QED BY <3>2 DEF PoolIsBounded
  <2>. QED BY <1>3, <2>2, <2>3
<1>. QED BY <1>2, <1>3

LEMMA InsertsBounded ==
    ASSUME TypeInv, MapInv, TypeInv', BoundInv, NEW t \in Tasks, InsertsDatabase(t)
    PROVE  BoundInv'
<1>1. /\ task[t].at = "insert" /\ ~WriteLocked
      /\ \A u \in Tasks : ~At(u, "evict")
  BY DEF InsertsDatabase, At, WriteLocked
<1>2. CASE Len(databases) <= max_cached_databases /\ Enters(t, databases) /\ Goto(t, "connect")
  <2>1. Len(databases') <= Len(databases) + 1
    BY <1>1, <1>2, EntersTheMap
  <2>2. PoolIsBounded'
    BY <1>1, <1>2, <2>1, EndsBounded
  <2>3. \A u \in Tasks : ~At(u, "evict")'
    BY <1>1, <1>2 DEF At, Goto, TypeInv, TaskState
  <2>. QED BY <2>2, <2>3 DEF BoundInv
<1>3. CASE /\ task' = [task EXCEPT ![t].at = "evict", ![t].todo = databases,
                                   ![t].target = EvictionTarget]
           /\ UNCHANGED databases
  BY <1>1, <1>3, BeginsBounded
<1>. QED BY <1>2, <1>3 DEF InsertsDatabase

LEMMA PoolStepBounded ==
    ASSUME TypeInv, MapInv, UsersInv, TypeInv', BoundInv, NEW t \in Tasks, PoolStep(t)
    PROVE  BoundInv'
<1>1. ASSUME NEW path \in Paths, FindsDatabase(t, path) PROVE BoundInv'
  <2>1. PICK x : Moves(t, x) /\ x.at = "connect"
    BY <1>1, FindsTypes
  <2>2. PoolIsBounded'
    BY <1>1, FindsTypes, BoundedBy, LenProperties DEF BoundInv, TypeInv
  <2>3. \A u \in Tasks : ~At(u, "evict")
    BY <1>1 DEF FindsDatabase, WriteLocked
  <2>. QED BY <2>1, <2>2, <2>3, BoundStep
<1>2. ASSUME NEW path \in Paths, MissesDatabase(t, path) PROVE BoundInv'
  <2>1. PICK x : Moves(t, x) /\ x.at = "insert"
    BY <1>2, MissesTypes
  <2>2. databases' = databases /\ \A u \in Tasks : ~At(u, "evict")
    BY <1>2 DEF MissesDatabase, WriteLocked
  <2>3. PoolIsBounded'
    BY <2>2, BoundedBy, LenProperties DEF BoundInv, TypeInv
  <2>. QED BY <2>1, <2>2, <2>3, BoundStep
<1>3. CASE InsertsDatabase(t)
  BY <1>3, InsertsBounded
<1>4. CASE EvictsDatabase(t)
  BY <1>4, TurnBounded
<1>5. CASE EndsEviction(t)
  <2>1. Len(databases') <= Len(databases) + 1
    BY <1>5, EntersTheMap DEF EndsEviction, At
  <2>2. PoolIsBounded'
    BY <1>5, <2>1, EndsBounded DEF EndsEviction
  <2>3. \A u \in Tasks : ~At(u, "evict")'
    <3>1. \A u \in Tasks : At(u, "evict") => u = t
      BY <1>5 DEF EndsEviction, MapInv
    <3>2. task'[t].at = "connect" /\ \A u \in Tasks \ {t} : task'[u] = task[u]
      BY <1>5 DEF EndsEviction, TypeInv, TaskState
    <3>. QED BY <3>1, <3>2 DEF At
  <2>. QED BY <2>2, <2>3 DEF BoundInv
<1>6. ASSUME databases' = databases, NEW x, Moves(t, x), x.at # "evict",
             x.instance = Null \/ x.instance = task[t].instance
      PROVE  BoundInv'
  <2>1. PoolIsBounded'
    BY <1>6, BoundedBy, LenProperties DEF BoundInv, TypeInv
  <2>. QED BY <1>6, <2>1, BoundStep
<1>7. CASE GetsConnection(t)
  <2>1. PICK x : Moves(t, x) /\ x.at \in {"use", "configure"} /\ x.instance = task[t].instance
    BY <1>7, GetsTypes
  <2>2. databases' = databases
    BY <1>7 DEF GetsConnection
  <2>. QED BY <1>6, <2>1, <2>2
<1>8. CASE ConfiguresConnection(t) \/ ReturnsConnection(t)
  <2>1. PICK step \in {"use", "release"} : Goto(t, step)
    BY <1>8 DEF ConfiguresConnection, ReturnsConnection
  <2>2. task[t].at \in Lent /\ databases' = databases
    BY <1>8 DEF ConfiguresConnection, ReturnsConnection, At, Lent
  <2>3. PICK x : Moves(t, x) /\ x.at = step /\ x.instance = task[t].instance
    BY <2>1, <2>2, GoesOn DEF Lent
  <2>. QED BY <1>6, <2>2, <2>3
<1>9. CASE ReleasesConnection(t) \/ GivesUp(t)
  <2>1. Moves(t, Idle) /\ databases' = databases
    BY <1>9, ReleasesTypes, IdleState DEF ReleasesConnection, GivesUp, Moves
  <2>. QED BY <1>6, <2>1, IdleState
<1>. QED BY <1>1, <1>2, <1>3, <1>4, <1>5, <1>7, <1>8, <1>9 DEF PoolStep

LEMMA StatementBounded ==
    ASSUME TypeInv, MapInv, TypeInv', BoundInv, NEW t \in Tasks,
           task[t].at \in {"use", "begun", "inserted"}, NEW step \in {"begun", "inserted", "drop"},
           Goto(t, step), UNCHANGED <<databases, instances>>
    PROVE  BoundInv'
<1>1. PICK x : Moves(t, x) /\ x.at = step /\ x.instance = task[t].instance
  BY GoesOn DEF Lent
<1>2. PoolIsBounded'
  BY BoundedBy, LenProperties DEF BoundInv, TypeInv
<1>. QED BY <1>1, <1>2, BoundStep

LEMMA UnchangedBounded ==
    ASSUME BoundInv, UNCHANGED poolVars
    PROVE  BoundInv'
<1>1. UNCHANGED <<databases, task>>
  BY DEF poolVars
<1>2. \A t, G : KeptBy(t, G)' <=> KeptBy(t, G)
  BY <1>1 DEF KeptBy, Entries
<1>. QED BY <1>1, <1>2 DEF BoundInv, PoolIsBounded, At

LEMMA StatementStep ==
    ASSUME NEW t \in Tasks,
           Begins(t) \/ InsertsEvents(t) \/ RollsBack(t) \/ Commits(t) \/ LeavesOpen(t) \/ Reads(t)
    PROVE  /\ task[t].at \in {"use", "begun", "inserted"}
           /\ \E step \in {"begun", "inserted", "drop"} : Goto(t, step)
           /\ UNCHANGED <<databases, instances>>
BY DEF Begins, InsertsEvents, RollsBack, Commits, LeavesOpen, Reads, At, StatementOnly

(* The pool passes its maximum by one, or else by what its tasks can be      *)
(* using: an eviction that finds everything in use gives up, and every task  *)
(* that inserts looks for victims first.                                     *)
THEOREM PoolStaysBounded == Spec => []PoolIsBounded
<1>1. Init => BoundInv
  <2>. SUFFICES ASSUME Init PROVE BoundInv
    OBVIOUS
  <2>1. databases = <<>> /\ task = [t \in Tasks |-> Idle]
    BY DEF Init, InitPool
  <2>2. PoolIsBounded
    BY <2>1, DatabasePoolAssumption DEF PoolIsBounded
  <2>3. \A t \in Tasks : ~At(t, "evict")
    BY <2>1, IdleState DEF At
  <2>. QED BY <2>2, <2>3 DEF BoundInv
<1>2. IInv /\ IInv' /\ BoundInv /\ [Next]_vars => BoundInv'
  <2>. SUFFICES ASSUME IInv, IInv', BoundInv, [Next]_vars PROVE BoundInv'
    OBVIOUS
  <2>0. TypeInv /\ MapInv /\ UsersInv /\ TypeInv'
    BY DEF IInv
  <2>1. CASE UNCHANGED vars
    BY <2>1, UnchangedBounded DEF vars
  <2>2. ASSUME NEW t \in Tasks, UsesPool(t) PROVE BoundInv'
    BY <2>0, <2>2, PoolStepBounded DEF UsesPool
  <2>3. ASSUME NEW t \in Tasks, StartsAppend(t) PROVE BoundInv'
    BY <2>3, UnchangedBounded DEF StartsAppend
  <2>4. ASSUME NEW t \in Tasks,
               Begins(t) \/ InsertsEvents(t) \/ RollsBack(t) \/ Commits(t) \/ LeavesOpen(t) \/ Reads(t)
        PROVE  BoundInv'
    BY <2>0, <2>4, StatementStep, StatementBounded
  <2>. QED BY <2>1, <2>2, <2>3, <2>4 DEF Next
<1>3. BoundInv => PoolIsBounded
  BY DEF BoundInv
<1>. QED BY <1>1, <1>2, <1>3, IInvHolds, PTL DEF Spec

=============================================================================
