---------------------------- MODULE CongestionLedger ----------------------------
(***************************************************************************)
(* CongestionLedger of routing/congestion.py: how many nets occupy each    *)
(* lattice resource, and which nets those are.  A resource is a cell of a  *)
(* line, a route the set of cells it covers.  The history counters and the *)
(* penalties only order the router's search and are left out, as is the    *)
(* spatial index, which narrows the window query without deciding it.      *)
(***************************************************************************)
EXTENDS Integers, FiniteSets

CONSTANTS
    Nets,   \* net identifiers, as the numbers that order them
    Cells,  \* lattice resources, as their places on the line
    Routes  \* the sets of cells a router may propose

ASSUME LedgerAssumption ==
    /\ Nets \subseteq Nat /\ IsFiniteSet(Nets)
    /\ Cells \subseteq Nat /\ IsFiniteSet(Cells)
    /\ Routes \subseteq (SUBSET Cells) \ {{}}

NoRoute == {}
Allocation == [Nets -> Routes \cup {NoRoute}]
Held(a) == {n \in Nets : a[n] # NoRoute}

(* A ledger: present counts per cell, and each held net's cells.           *)
Ledger == [present : [Cells -> Int], held : Allocation]

EmptyLedger ==
    [present |-> [c \in Cells |-> 0], held |-> [n \in Nets |-> NoRoute]]

Counted(present, route, by) ==
    [c \in Cells |-> IF c \in route THEN present[c] + by ELSE present[c]]

AddCandidate(l, n, route) ==
    [present |-> Counted(l.present, route, 1),
     held |-> [l.held EXCEPT ![n] = route]]

RemoveNets(l, dropped) ==
    [present |-> [c \in Cells |->
        l.present[c] - Cardinality({n \in dropped : c \in l.held[n]})],
     held |-> [n \in Nets |-> IF n \in dropped THEN NoRoute ELSE l.held[n]]]

(* Mutant of Recounted: the old counts are added to.                       *)
RecountedOnTop(l, kept) ==
    [present |-> [c \in Cells |->
        l.present[c] + Cardinality({n \in kept : c \in l.held[n]})],
     held |-> [n \in Nets |-> IF n \in kept THEN l.held[n] ELSE NoRoute]]

Recounted(l, kept) ==
    [present |-> [c \in Cells |-> Cardinality({n \in kept : c \in l.held[n]})],
     held |-> [n \in Nets |-> IF n \in kept THEN l.held[n] ELSE NoRoute]]

(* The cells that nets hold, once for each net, as a sum of their numbers. *)
Units(held, nets) == Cardinality({u \in nets \X Cells : u[2] \in held[u[1]]})

(* Everything outside keep goes, by the cheaper of subtracting the         *)
(* departures and recounting the survivors.                                *)
RetainOnly(l, keep) ==
    LET dropped == Held(l.held) \ keep
        kept == Held(l.held) \cap keep
    IN  IF dropped = {} THEN l
        ELSE IF kept = {} THEN EmptyLedger
        ELSE IF Units(l.held, dropped) <= Units(l.held, kept) THEN RemoveNets(l, dropped)
        ELSE Recounted(l, kept)

Overflow(l) == {c \in Cells : l.present[c] > 1}

(* What is counted beyond one net on each of the cells, unit by unit.      *)
Surplus(l, cells) == UNION {{c} \X (1..(l.present[c] - 1)) : c \in cells}

ConflictScore(l, n) == Cardinality(Surplus(l, l.held[n] \cap Overflow(l)))

Apart(r, s, gap) == \A c \in r, d \in s : c - d >= gap \/ d - c >= gap

(* Held nets, other than the seeds, within the window of a seed's copper.  *)
NetsWithinWindow(l, seeds, window) ==
    {n \in Held(l.held) \ seeds :
       \E s \in seeds \cap Held(l.held) : ~Apart(l.held[n], l.held[s], window + 1)}
================================================================================
