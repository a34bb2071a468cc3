------------------------------ MODULE Catalog ------------------------------
(* The routing table catalog.db keeps for one partition (catalog.rs): at     *)
(* most one row per event file name.  A catalog is a function from names to  *)
(* a range or Null (no row), and the operators are its SQL statements, each  *)
(* of which commits on its own.                                              *)
EXTENDS Rotation

EventFileRange ==
    [first_version : Int, last_version : Int \cup {Null}, sealed : BOOLEAN]

ASSUME CatalogAssumption == Null \notin EventFileRange

EmptyCatalog(names) == [n \in names |-> Null]

ActiveRange(first) ==
    [first_version |-> first, last_version |-> Null, sealed |-> FALSE]

(* Mutant: the range starts at the head it should follow. *)
CreateRangeAtHead(catalog, name, first) ==
    [catalog EXCEPT ![name] = ActiveRange(first - 1)]

(* INSERT .. ON CONFLICT(name) DO UPDATE: an existing row is overwritten. *)
CreateEventFileRange(catalog, name, first) ==
    [catalog EXCEPT ![name] = ActiveRange(first)]

(* Mutant: last_version is recorded, the sealed flag is forgotten. *)
SealWithoutFlag(catalog, name, last) ==
    IF catalog[name] = Null THEN catalog
    ELSE [catalog EXCEPT ![name] =
            [first_version |-> @.first_version, last_version |-> last, sealed |-> FALSE]]

(* UPDATE .. WHERE name: without such a row nothing happens. *)
SealEventFileRange(catalog, name, last) ==
    IF catalog[name] = Null THEN catalog
    ELSE [catalog EXCEPT ![name] =
            [first_version |-> @.first_version, last_version |-> last, sealed |-> TRUE]]

(* One transaction: DELETE all, then INSERT. *)
ReplaceEventFileRanges(names, ranges) ==
    [n \in names |-> IF n \in DOMAIN ranges THEN ranges[n] ELSE Null]

UnsealedRanges(catalog) ==
    {n \in DOMAIN catalog : catalog[n] # Null /\ ~catalog[n].sealed}

(* Mutant: the last version of a sealed file is left out. *)
RangesLosingLastVersion(catalog, version) ==
    {n \in DOMAIN catalog :
        /\ catalog[n] # Null
        /\ catalog[n].last_version = Null \/ catalog[n].last_version > version + 1}

(* WHERE last_version IS NULL OR last_version > version *)
GetEventFileRangesAfterVersion(catalog, version) ==
    {n \in DOMAIN catalog :
        /\ catalog[n] # Null
        /\ catalog[n].last_version = Null \/ catalog[n].last_version > version}

(* ORDER BY first_version, name *)
RangeBefore(firstA, a, firstB, b) ==
    firstA < firstB \/ (firstA = firstB /\ NameBefore(a, b))
=============================================================================
