------------------------------ MODULE SpatialIndex ------------------------------
(***************************************************************************)
(* The two indexes of routing/spatial_index.py.  The incremental one lives *)
(* between negotiation passes and is mutated in place: entries come and go *)
(* and every one is filed under the cells it covers, or with the oversize  *)
(* entries when it covers too many.  The conservative one is built at once *)
(* from all the entries and answers with everything when there are too few *)
(* entries, or too many filings, for a grid to pay.                        *)
(***************************************************************************)
EXTENDS Integers, FiniteSetsExt

CONSTANTS
    IndexKeys, Rectangles, \* keys, and rectangles <<min x, min y, max x, max y>>
    CellSize, MaxCells, MaxEntries,
    MinIndexed, BucketLimit \* when the conservative index has a grid

ASSUME IndexAssumption ==
    /\ Rectangles \subseteq
         {r \in Int \X Int \X Int \X Int : r[1] <= r[3] /\ r[2] <= r[4]}
    /\ {CellSize, MaxCells, MaxEntries, BucketLimit} \subseteq Nat \ {0}
    /\ MinIndexed \in Nat

VARIABLES
    bounds,  \* [indexed key -> its rectangle]
    buckets, \* [occupied cell -> the keys filed under it]
    oversize \* the keys of rectangles that cover too many cells

indexVars == <<bounds, buckets, oversize>>

Meet(r, s) == r[1] <= s[3] /\ s[1] <= r[3] /\ r[2] <= s[4] /\ s[2] <= r[4]
Keys == DOMAIN bounds

(* The cells a rectangle covers: division rounds towards minus infinity.   *)
CellRange(low, high, size) == (low \div size)..(high \div size)
CellsOf(r, size) == CellRange(r[1], r[3], size) \X CellRange(r[2], r[4], size)
IsLarge(r) == Cardinality(CellsOf(r, CellSize)) > MaxCells

Occupants(filed, cell) == IF cell \in DOMAIN filed THEN filed[cell] ELSE {}

InsertEntry(k, r) ==
    /\ k \notin Keys /\ Cardinality(Keys) < MaxEntries
    /\ bounds' = [j \in Keys \cup {k} |-> IF j = k THEN r ELSE bounds[j]]
    /\ IF IsLarge(r) THEN oversize' = oversize \cup {k} /\ UNCHANGED buckets
       ELSE /\ buckets' = [c \in DOMAIN buckets \cup CellsOf(r, CellSize) |->
                             Occupants(buckets, c)
                               \cup (IF c \in CellsOf(r, CellSize) THEN {k} ELSE {})]
            /\ UNCHANGED oversize

(* Emptied cells are deleted.                                              *)
RemoveEntry(k) ==
    /\ k \in Keys
    /\ bounds' = [j \in Keys \ {k} |-> bounds[j]]
    /\ IF k \in oversize THEN oversize' = oversize \ {k} /\ UNCHANGED buckets
       ELSE /\ LET cells == CellsOf(bounds[k], CellSize)
                   emptied == {c \in cells : Occupants(buckets, c) \subseteq {k}}
               IN  buckets' = [c \in DOMAIN buckets \ emptied |->
                                 IF c \in cells THEN buckets[c] \ {k} ELSE buckets[c]]
            /\ UNCHANGED oversize

ClearIndex ==
    /\ bounds' = [k \in {} |-> k] /\ buckets' = [c \in {} |-> c] /\ oversize' = {}

(* Mutant of Candidates: the oversize entries are forgotten.               *)
CandidatesFiled(r) ==
    IF IsLarge(r) THEN Keys
    ELSE UNION {Occupants(buckets, c) : c \in CellsOf(r, CellSize)}

(* A query that would sweep too many cells scans every entry instead.      *)
Candidates(r) ==
    IF IsLarge(r) THEN Keys
    ELSE oversize \cup UNION {Occupants(buckets, c) : c \in CellsOf(r, CellSize)}

Query(r) == {k \in Candidates(r) : Meet(bounds[k], r)}

(***************************************************************************)
(* The conservative index of a set of entries [key -> rectangle]           *)
(***************************************************************************)
Extent(entries, low, high) ==
    Max({entries[k][high] : k \in DOMAIN entries})
      - Min({entries[k][low] : k \in DOMAIN entries})

GridSide(n) == Max({side \in 1..16 : side * side <= Max({1, Min({256, n * 4})})})

GridSize(entries) ==
    LET side == GridSide(Cardinality(DOMAIN entries))
        span == Max({Extent(entries, 1, 3), Extent(entries, 2, 4), 1})
    IN  Max({1, (span + side - 1) \div side})

HasGrid(entries) ==
    /\ Cardinality(DOMAIN entries) >= MinIndexed /\ DOMAIN entries # {}
    /\ MapThenSumSet(LAMBDA k : Cardinality(CellsOf(entries[k], GridSize(entries))),
                     DOMAIN entries) <= BucketLimit

StaticQuery(entries, r) ==
    IF ~HasGrid(entries) THEN DOMAIN entries
    ELSE {k \in DOMAIN entries :
            /\ CellsOf(entries[k], GridSize(entries)) \cap CellsOf(r, GridSize(entries)) # {}
            /\ Meet(entries[k], r)}

IndexInit ==
    /\ bounds = [k \in {} |-> k] /\ buckets = [c \in {} |-> c] /\ oversize = {}

IndexNext ==
    \/ \E k \in IndexKeys, r \in Rectangles : InsertEntry(k, r)
    \/ \E k \in IndexKeys : RemoveEntry(k)
    \/ ClearIndex

IndexSpec == IndexInit /\ [][IndexNext]_indexVars

(***************************************************************************)
(* Properties                                                              *)
(***************************************************************************)
IndexTypeOK ==
    /\ Keys \subseteq IndexKeys /\ \A k \in Keys : bounds[k] \in Rectangles
    /\ \A c \in DOMAIN buckets : buckets[c] \subseteq Keys \ oversize /\ buckets[c] # {}
    /\ oversize \subseteq Keys /\ Cardinality(Keys) <= MaxEntries

(* After any sequence of mutations the index is the one that a rebuild     *)
(* from the surviving entries gives, every query answers exactly the       *)
(* entries that meet it, and the conservative index of the same entries    *)
(* misses none of them, and adds none when it has a grid.                  *)
IndexesMissNothing ==
    LET filed == {k \in Keys : ~IsLarge(bounds[k])}
    IN  /\ oversize = Keys \ filed
        /\ DOMAIN buckets = UNION {CellsOf(bounds[k], CellSize) : k \in filed}
        /\ \A c \in DOMAIN buckets :
             buckets[c] = {k \in filed : c \in CellsOf(bounds[k], CellSize)}
        /\ \A k \in Keys, r \in Rectangles :
             /\ k \in Query(r) <=> Meet(bounds[k], r)
             /\ Meet(bounds[k], r) => k \in StaticQuery(bounds, r)
             /\ HasGrid(bounds) /\ k \in StaticQuery(bounds, r) => Meet(bounds[k], r)
================================================================================
