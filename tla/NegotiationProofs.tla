--------------------------- MODULE NegotiationProofs ---------------------------
(***************************************************************************)
(* What holds of the congestion ledger and of every run of negotiate_routes*)
(* for any nets, lattice, routes, bounds and rules: the ledger counts what *)
(* the pass holds, what is kept is blameless, the budget is respected, and *)
(* what is published is legal.                                             *)
(***************************************************************************)
EXTENDS NegotiatedRouting, FiniteSetTheorems, TLAPS

-----------------------------------------------------------------------------
(* The ledger: a count of a cell is the number of nets that hold it.       *)

Holders(a, c) == {n \in Nets : c \in a[n]}

Counts(l) == \A c \in Cells : l.present[c] = Cardinality(Holders(l.held, c))

LEMMA SubsetCount ==
    ASSUME NEW S, IsFiniteSet(S), NEW T, T \subseteq S
    PROVE  IsFiniteSet(T) /\ Cardinality(T) \in Nat /\ Cardinality(T) <= Cardinality(S)
<1>1. T \in SUBSET S
  OBVIOUS
<1> QED  BY <1>1, FS_Subset, FS_CardinalityType, Zenon

LEMMA NetsCount ==
    ASSUME NEW T, T \subseteq Nets
    PROVE  IsFiniteSet(T) /\ Cardinality(T) \in Nat
BY LedgerAssumption, SubsetCount, Zenon

LEMMA HoldersCount ==
    ASSUME NEW a, NEW c
    PROVE  IsFiniteSet(Holders(a, c)) /\ Cardinality(Holders(a, c)) \in Nat
<1>1. Holders(a, c) \subseteq Nets
  BY DEF Holders
<1> QED  BY <1>1, NetsCount, Zenon

LEMMA RoutesAreCells ==
    /\ NoRoute \notin Routes
    /\ \A r \in Routes \cup {NoRoute} : r \subseteq Cells
BY LedgerAssumption DEF NoRoute

LEMMA EmptyCounts ==
    /\ EmptyLedger \in Ledger /\ Counts(EmptyLedger)
    /\ EmptyLedger.held = NoRoutes
<1>1. EmptyLedger.held = NoRoutes /\ EmptyLedger.present = [c \in Cells |-> 0]
  BY DEF EmptyLedger, NoRoutes
<1>2. EmptyLedger \in Ledger
  BY DEF EmptyLedger, Ledger, Allocation
<1>3. ASSUME NEW c \in Cells PROVE Holders(NoRoutes, c) = {}
  BY DEF Holders, NoRoutes, NoRoute
<1>4. Cardinality({}) = 0
  BY FS_EmptySet, Zenon
<1> QED  BY <1>1, <1>2, <1>3, <1>4 DEF Counts

LEMMA HeldOf ==
    ASSUME NEW a \in Allocation
    PROVE  \A n \in Nets : (n \in Held(a) <=> a[n] # NoRoute) /\ a[n] \in Routes \cup {NoRoute}
BY DEF Held, Allocation

(* add_candidate counts a route of a net that held none.                   *)
LEMMA AddCounts ==
    ASSUME NEW l \in Ledger, Counts(l), NEW n \in Nets, l.held[n] = NoRoute,
           NEW route \in Routes
    PROVE  LET m == AddCandidate(l, n, route)
           IN  /\ m \in Ledger /\ Counts(m)
               /\ m.held = [l.held EXCEPT ![n] = route]
<1> DEFINE m == AddCandidate(l, n, route)
           a == [l.held EXCEPT ![n] = route]
           p == Counted(l.present, route, 1)
<1>1. m.held = a /\ m.present = p /\ m = [present |-> p, held |-> a]
  BY DEF AddCandidate
<1>2. a \in Allocation /\ l.present \in [Cells -> Int] /\ l.held \in Allocation
  BY DEF Ledger, Allocation
<1>3. p \in [Cells -> Int]
  BY <1>2 DEF Counted
<1>4. ASSUME NEW c \in Cells PROVE p[c] = Cardinality(Holders(a, c))
  <2>1. IsFiniteSet(Holders(l.held, c)) /\ n \notin Holders(l.held, c)
        /\ l.present[c] = Cardinality(Holders(l.held, c))
    BY HoldersCount DEF Counts, Holders, NoRoute
  <2>2. CASE c \in route
    <3>1. Holders(a, c) = Holders(l.held, c) \cup {n}
      BY <1>2, <2>2 DEF Holders, Allocation
    <3>2. Cardinality(Holders(l.held, c) \cup {n}) = Cardinality(Holders(l.held, c)) + 1
      BY <2>1, FS_AddElement, Zenon
    <3> QED  BY <2>1, <2>2, <3>1, <3>2 DEF Counted
  <2>3. CASE c \notin route
    <3>1. Holders(a, c) = Holders(l.held, c)
      BY <1>2, <2>3 DEF Holders, Allocation, NoRoute
    <3> QED  BY <2>1, <2>3, <3>1 DEF Counted
  <2> QED  BY <2>2, <2>3
<1> HIDE DEF a, p
<1>5. m \in Ledger
  BY <1>1, <1>2, <1>3 DEF Ledger
<1> QED  BY <1>1, <1>4, <1>5 DEF Counts, a

(* Subtracting the departures, and counting the survivors.                 *)
Left(a, keep) == [n \in Nets |-> IF n \in keep THEN a[n] ELSE NoRoute]

LEMMA RemovedCounts ==
    ASSUME NEW l \in Ledger, Counts(l), NEW dropped, dropped \subseteq Nets
    PROVE  LET m == RemoveNets(l, dropped)
           IN  m \in Ledger /\ Counts(m) /\ m.held = Left(l.held, Nets \ dropped)
<1> DEFINE m == RemoveNets(l, dropped)
           a == Left(l.held, Nets \ dropped)
           gone(c) == {n \in dropped : c \in l.held[n]}
           p == [c \in Cells |-> l.present[c] - Cardinality(gone(c))]
<1>1. m.held = a /\ m = [present |-> p, held |-> a]
  <2>1. a = [n \in Nets |-> IF n \in dropped THEN NoRoute ELSE l.held[n]]
    BY DEF Left
  <2> QED  BY <2>1 DEF RemoveNets
<1>2. a \in Allocation /\ l.present \in [Cells -> Int]
  BY DEF Ledger, Allocation, Left
<1>3. ASSUME NEW c \in Cells
      PROVE  /\ Cardinality(gone(c)) \in Nat
             /\ p[c] = Cardinality(Holders(a, c))
  <2> DEFINE S == Holders(l.held, c)
             T == gone(c)
  <2>1. IsFiniteSet(S) /\ Cardinality(S) \in Nat /\ l.present[c] = Cardinality(S)
    BY HoldersCount DEF Counts
  <2>2. T \subseteq S /\ T \subseteq Nets
    BY DEF Holders
  <2>3. Holders(a, c) = S \ T /\ S \cap T = T
    BY <2>2 DEF Holders, Left, NoRoute
  <2>4. Cardinality(T) \in Nat
    BY <2>2, NetsCount, Zenon
  <2>5. Cardinality(S \ T) = Cardinality(S) - Cardinality(S \cap T)
    BY <2>1, FS_Difference, Zenon
  <2>6. p[c] = l.present[c] - Cardinality(T)
    OBVIOUS
  <2> HIDE DEF S, T, p
  <2> QED  BY <2>1, <2>3, <2>4, <2>5, <2>6 DEF T
<1>4. p \in [Cells -> Int]
  BY <1>2, <1>3
<1>5. \A c \in Cells : p[c] = Cardinality(Holders(a, c))
  BY <1>3
<1> HIDE DEF a, p
<1>6. m \in Ledger
  BY <1>1, <1>2, <1>4 DEF Ledger
<1>7. Counts(m)
  BY <1>1, <1>5 DEF Counts
<1> QED  BY <1>1, <1>6, <1>7 DEF a

LEMMA RecountedCounts ==
    ASSUME NEW l \in Ledger, NEW keep, keep \subseteq Nets
    PROVE  LET m == Recounted(l, keep)
           IN  m \in Ledger /\ Counts(m) /\ m.held = Left(l.held, keep)
<1> DEFINE m == Recounted(l, keep)
           a == Left(l.held, keep)
           p == [c \in Cells |-> Cardinality({n \in keep : c \in l.held[n]})]
<1>1. m.held = a /\ m = [present |-> p, held |-> a]
  BY DEF Recounted, Left
<1>2. a \in Allocation
  BY DEF Ledger, Allocation, Left
<1>3. ASSUME NEW c \in Cells
      PROVE  p[c] = Cardinality(Holders(a, c)) /\ p[c] \in Int
  <2>1. Holders(a, c) = {n \in keep : c \in l.held[n]}
    BY DEF Holders, Left, NoRoute
  <2>2. p[c] = Cardinality(Holders(a, c))
    BY <2>1
  <2> QED  BY <2>2, HoldersCount
<1>4. p \in [Cells -> Int]
  BY <1>3
<1> HIDE DEF a, p
<1> QED  BY <1>1, <1>2, <1>3, <1>4 DEF Ledger, Counts, a

(* Whichever branch it takes, retain_only leaves a ledger that counts      *)
(* exactly the kept routes.                                                *)
LEMMA RetainOnlyCounts ==
    ASSUME NEW l \in Ledger, Counts(l), NEW keep, keep \subseteq Nets
    PROVE  LET m == RetainOnly(l, keep)
           IN  m \in Ledger /\ Counts(m) /\ m.held = Left(l.held, keep)
<1> DEFINE m == RetainOnly(l, keep)
           dropped == Held(l.held) \ keep
           survivors == Held(l.held) \cap keep
<1>1. l.held \in Allocation /\ dropped \subseteq Nets /\ survivors \subseteq Nets
  BY DEF Ledger, Held
<1>2. \A n \in Nets : l.held[n] = NoRoute \/ n \in Held(l.held)
  BY <1>1, HeldOf
<1>3. CASE dropped = {}
  <2>1. l.held = Left(l.held, keep)
    <3>1. \A n \in Nets : n \notin keep => l.held[n] = NoRoute
      BY <1>2, <1>3
    <3> QED  BY <1>1, <3>1 DEF Left, Allocation
  <2> QED  BY <1>3, <2>1 DEF RetainOnly
<1>4. CASE dropped # {} /\ survivors = {}
  <2>1. m = EmptyLedger
    BY <1>4 DEF RetainOnly
  <2>2. Left(l.held, keep) = NoRoutes
    BY <1>2, <1>4 DEF Left, NoRoutes
  <2> QED  BY <2>1, <2>2, EmptyCounts
<1>5. Left(l.held, Nets \ dropped) = Left(l.held, keep)
  BY <1>2 DEF Left
<1>6. Left(l.held, survivors) = Left(l.held, keep)
  BY <1>2 DEF Left
<1>7. CASE dropped # {} /\ survivors # {}
  <2>1. m \in {RemoveNets(l, dropped), Recounted(l, survivors)}
    BY <1>7 DEF RetainOnly
  <2> HIDE DEF m, dropped, survivors
  <2>2. CASE m = RemoveNets(l, dropped)
    BY <1>1, <1>5, <2>2, RemovedCounts DEF m
  <2>3. CASE m = Recounted(l, survivors)
    BY <1>1, <1>6, <2>3, RecountedCounts DEF m
  <2> QED  BY <2>1, <2>2, <2>3
<1> QED  BY <1>3, <1>4, <1>7

(* What is counted beyond one net on the cells of a ledger that counts is  *)
(* a finite number of units, and some where two nets meet.                 *)
LEMMA SurplusIsFinite ==
    ASSUME NEW l \in Ledger, Counts(l), NEW cells, cells \subseteq Cells
    PROVE  IsFiniteSet(Surplus(l, cells)) /\ Cardinality(Surplus(l, cells)) \in Nat
<1> DEFINE k == Cardinality(Nets)
           box == Cells \X (1..k)
<1>1. k \in Nat /\ IsFiniteSet(Nets)
  BY NetsCount, LedgerAssumption, Zenon
<1> HIDE DEF k
<1>2. IsFiniteSet(box)
  <2>1. IsFiniteSet(1..k)
    BY <1>1, FS_Interval
  <2> QED  BY <2>1, LedgerAssumption, FS_Product, Zenon
<1>3. ASSUME NEW c \in Cells PROVE l.present[c] \in Int /\ l.present[c] <= k
  <2>1. Holders(l.held, c) \subseteq Nets
    BY DEF Holders
  <2>2. Cardinality(Holders(l.held, c)) <= k
    BY <1>1, <2>1, SubsetCount, Zenon DEF k
  <2> QED  BY <2>2, HoldersCount DEF Counts
<1>4. ASSUME NEW u \in Surplus(l, cells) PROVE u \in box
  <2>1. PICK c \in cells : u \in {c} \X (1..(l.present[c] - 1))
    BY Zenon DEF Surplus
  <2>2. PICK i \in 1..(l.present[c] - 1) : u = <<c, i>>
    BY <2>1
  <2>3. i \in 1..k
    BY <1>1, <1>3
  <2> QED  BY <2>2, <2>3
<1>5. Surplus(l, cells) \subseteq box
  BY <1>4
<1> HIDE DEF box
<1> QED  BY <1>2, <1>5, SubsetCount, Zenon

LEMMA SharedCellScores ==
    ASSUME NEW l \in Ledger, Counts(l), NEW m \in Nets, NEW n \in Nets, m # n,
           l.held[m] \cap l.held[n] # {}
    PROVE  ConflictScore(l, n) > 0
<1>1. PICK c : c \in l.held[m] /\ c \in l.held[n]
  OBVIOUS
<1>2. c \in Cells
  BY <1>1, HeldOf, RoutesAreCells DEF Ledger
<1>3. l.present[c] > 1
  <2> DEFINE S == Holders(l.held, c)
  <2>1. IsFiniteSet(S) /\ Cardinality(S) \in Nat /\ l.present[c] = Cardinality(S)
    BY <1>2, HoldersCount DEF Counts
  <2>2. m \in S /\ n \in S
    BY <1>1 DEF Holders
  <2>3. Cardinality(S) # 0 /\ Cardinality(S) # 1
    <3>1. (Cardinality(S) = 0 <=> S = {}) /\ (Cardinality(S) = 1 <=> \E x : S = {x})
      BY <2>1, FS_EmptySet, FS_Singleton, Zenon
    <3> HIDE DEF S
    <3> QED  BY <2>2, <3>1
  <2> HIDE DEF S
  <2> QED  BY <2>1, <2>3
<1> DEFINE cells == l.held[n] \cap Overflow(l)
           U == Surplus(l, cells)
<1>4. c \in cells
  BY <1>1, <1>2, <1>3 DEF Overflow
<1>5. <<c, 1>> \in U
  <2>1. l.present[c] \in Int
    BY <1>2 DEF Ledger
  <2>2. 1 \in 1..(l.present[c] - 1)
    BY <1>3, <2>1
  <2>3. <<c, 1>> \in {c} \X (1..(l.present[c] - 1))
    BY <2>2
  <2> QED  BY <1>4, <2>3, Zenon DEF Surplus
<1>6. cells \subseteq Cells
  BY DEF Overflow
<1> HIDE DEF cells
<1>7. IsFiniteSet(U) /\ Cardinality(U) \in Nat
  BY <1>6, SurplusIsFinite, Zenon
<1>8. Cardinality(U) # 0
  <2>1. Cardinality(U) = 0 <=> U = {}
    BY <1>7, FS_EmptySet, Zenon
  <2> QED  BY <1>5, <2>1
<1> HIDE DEF U
<1>9. Cardinality(U) > 0
  BY <1>7, <1>8
<1> QED  BY <1>9 DEF ConflictScore, U, cells

-----------------------------------------------------------------------------
(* The inductive invariant.                                                *)

Legal(a) == \A m, n \in Held(a) : m # n => Apart(a[m], a[n], Clearance)

(* Each net is in one of three lists, and in two only when a budget ran    *)
(* out.                                                                    *)
UsedUp == Allowance <= 0
Accounted(a, connected, unrouted) ==
    /\ Nets = Held(a) \cup connected \cup unrouted
    /\ Held(a) \cap (connected \cup unrouted) = {}
    /\ connected \cap unrouted # {} => UsedUp

(* What a pass may keep: the gate blames none of it, and under the rules   *)
(* that rip up every conflicted net no two routes of it meet.              *)
Sound(a, nets) ==
    /\ nets \cap refused = {}
    /\ terms.rule \in {"conflicted", "window"} =>
         \A m, n \in nets : m # n => a[m] \cap a[n] = {}

(* Between two passes the ledger still holds what the next one keeps.      *)
BetweenInv ==
    pass.phase = "between" =>
      /\ pass.number < MaxPasses
      /\ ~Planned => kept.ripup = Nets
      /\ \A n \in Held(kept.working) \ kept.ripup : ledger.held[n] = kept.working[n]
      /\ Sound(kept.working, Held(kept.working) \ kept.ripup)
      /\ Held(kept.working) \cap kept.connected = {}

(* In a pass it holds the pass's routes, and none of a net still to visit. *)
SearchInv ==
    Searching =>
      /\ ledger.held = pass.working
      /\ pass.queue \subseteq pass.order
      /\ \A n \in pass.queue : pass.working[n] = NoRoute
      /\ Sound(pass.working, Held(pass.working) \ pass.order)
      /\ (Held(pass.working) \cup pass.queue) \cap (pass.connected \cup pass.unrouted) = {}
      /\ pass.connected \cap pass.unrouted # {} => UsedUp

BestInv ==
    /\ Legal(best.candidates)
    /\ Accounted(best.candidates, best.connected, best.unrouted)

NInv ==
    /\ NegotiationTypeOK /\ Counts(ledger) /\ BudgetRespected
    /\ BetweenInv /\ SearchInv /\ BestInv /\ PublishedSetIsLegal

LEMMA NoRoutesHeld ==
    /\ NoRoutes \in Allocation /\ Held(NoRoutes) = {}
    /\ Legal(NoRoutes)
BY DEF NoRoutes, Allocation, Held, Legal

LEMMA NegotiationStarts == NegotiationInit => NInv
<1> SUFFICES ASSUME NegotiationInit PROVE NInv
  OBVIOUS
<1>1. /\ pass = NoPass /\ ledger = EmptyLedger /\ spent = 0 /\ refused = {}
      /\ kept = [working |-> NoRoutes, connected |-> {}, ripup |-> Nets]
      /\ best = [known |-> FALSE, excess |-> 0, candidates |-> NoRoutes,
                 connected |-> {}, unrouted |-> Nets]
      /\ outcome = NoOutcome
  BY DEF NegotiationInit
<1>2. NegotiationTypeOK
  BY <1>1, NoRoutesHeld, EmptyCounts, NegotiationAssumption
  DEF NegotiationInit, NegotiationTypeOK, NoPass, NoOutcome, Pass
<1>3. Counts(ledger) /\ BudgetRespected
  BY <1>1, EmptyCounts, NegotiationAssumption DEF BudgetRespected
<1>4. BetweenInv /\ SearchInv
  BY <1>1, NoRoutesHeld, NegotiationAssumption DEF BetweenInv, SearchInv, Searching, NoPass, Sound
<1>5. BestInv
  BY <1>1, NoRoutesHeld DEF BestInv, Accounted
<1>6. PublishedSetIsLegal
  BY <1>1 DEF PublishedSetIsLegal, NoOutcome
<1> QED  BY <1>2, <1>3, <1>4, <1>5, <1>6 DEF NInv

(* What is left of the budget only shrinks, and once it is used up no net  *)
(* is searched.                                                            *)
LEMMA SameAllowance ==
    ASSUME UNCHANGED <<terms, spent>>
    PROVE  UsedUp' <=> UsedUp
BY DEF UsedUp, Allowance

LEMMA ResultsStay ==
    ASSUME NInv, UNCHANGED <<best, outcome>>, UsedUp => UsedUp'
    PROVE  BestInv' /\ PublishedSetIsLegal'
<1>1. BestInv'
  BY DEF NInv, BestInv, Legal, Accounted
<1>2. PublishedSetIsLegal'
  BY DEF NInv, PublishedSetIsLegal, UsedUp
<1> QED  BY <1>1, <1>2

(* A cancelled run and one whose router broke its contract publish no      *)
(* copper; the budget ends a pass early.                                   *)
LEMMA Abandoned ==
    ASSUME NInv, NEW status \in {"cancelled", "invalid"}, Abandon(status),
           UNCHANGED <<terms, joined, ledger, kept, best, spent, refused>>
    PROVE  NInv'
<1>1. /\ outcome' = [status |-> status, candidates |-> NoRoutes, connected |-> {},
                     unrouted |-> Nets]
      /\ pass' = [pass EXCEPT !.phase = "over"]
  BY DEF Abandon, Publish
<1>2. pass' \in Pass /\ pass'.phase = "over"
  BY <1>1 DEF NInv, NegotiationTypeOK, Pass
<1>3. NegotiationTypeOK'
  BY <1>1, <1>2, NoRoutesHeld DEF NInv, NegotiationTypeOK
<1>4. (Counts(ledger) /\ BudgetRespected /\ BestInv)'
  BY SameAllowance DEF NInv, Counts, BudgetRespected, BestInv, Legal, Accounted
<1>5. BetweenInv' /\ SearchInv'
  BY <1>2 DEF BetweenInv, SearchInv, Searching
<1>6. PublishedSetIsLegal'
  BY <1>1, NoRoutesHeld DEF PublishedSetIsLegal
<1> QED  BY <1>3, <1>4, <1>5, <1>6 DEF NInv

LEMMA PassBegins ==
    ASSUME NInv, BeginPass
    PROVE  NInv'
<1> DEFINE keep == Held(kept.working) \ kept.ripup
           order == IF Planned THEN kept.ripup ELSE Nets
           working == [n \in Nets |-> IF n \in keep THEN kept.working[n] ELSE NoRoute]
           number == pass.number + 1
           connected == kept.connected \ kept.ripup
<1>1. /\ pass.phase = "between"
      /\ pass' = [NoPass EXCEPT !.phase = "searching", !.number = number,
                         !.order = order, !.queue = order, !.working = working,
                         !.connected = connected]
      /\ ledger' = IF Planned THEN RetainOnly(ledger, keep) ELSE EmptyLedger
      /\ UNCHANGED <<terms, joined, kept, best, spent, refused, outcome>>
  BY DEF BeginPass
<1>2. /\ kept.working \in Allocation /\ kept.ripup \subseteq Nets /\ kept.connected \subseteq Nets
      /\ keep \subseteq Nets /\ number \in 0..MaxPasses /\ working \in Allocation
  BY <1>1, NegotiationAssumption DEF NInv, NegotiationTypeOK, BetweenInv, Pass, Held, Allocation
<1>3. ~Planned => kept.ripup = Nets
  BY <1>1 DEF NInv, BetweenInv
<1>4. order = kept.ripup /\ order \subseteq Nets
  BY <1>2, <1>3
<1>5. Held(working) = keep
  BY <1>2, HeldOf DEF Held
<1>6. \A n \in order : working[n] = NoRoute
  BY <1>4
<1> HIDE DEF order, number, connected
<1>7. /\ pass'.phase = "searching" /\ pass'.order = order /\ pass'.queue = order
      /\ pass'.working = working /\ pass' \in Pass
  <2>1. connected \subseteq Nets
    BY <1>2 DEF connected
  <2> HIDE DEF working
  <2> QED  BY <1>1, <1>2, <1>4, <2>1 DEF NoPass, Pass
<1>8. ledger' \in Ledger /\ Counts(ledger') /\ ledger'.held = working
  <2>1. CASE Planned
    <3>1. Left(ledger.held, keep) = working
      <4>1. \A n \in keep : ledger.held[n] = kept.working[n]
        BY <1>1 DEF NInv, BetweenInv
      <4> QED  BY <4>1 DEF Left
    <3> HIDE DEF keep, working
    <3> QED  BY <1>1, <1>2, <2>1, <3>1, RetainOnlyCounts DEF NInv, NegotiationTypeOK
  <2>2. CASE ~Planned
    <3>1. working = NoRoutes
      BY <1>2, <1>3, <2>2 DEF NoRoutes
    <3> HIDE DEF keep, working
    <3> QED  BY <1>1, <2>2, <3>1, EmptyCounts
  <2> QED  BY <2>1, <2>2
<1>9. NegotiationTypeOK'
  BY <1>1, <1>7, <1>8 DEF NInv, NegotiationTypeOK
<1>10. /\ keep \cap refused = {}
       /\ terms.rule \in {"conflicted", "window"} =>
            \A m, n \in keep : m # n => working[m] \cap working[n] = {}
  <2>1. Sound(kept.working, keep)
    BY <1>1 DEF NInv, BetweenInv
  <2>2. \A n \in keep : working[n] = kept.working[n]
    BY <1>2
  <2> HIDE DEF working, keep
  <2> QED  BY <2>1, <2>2 DEF Sound
<1>11. SearchInv'
  <2>1. Held(working) \ order = keep
    BY <1>4, <1>5
  <2> HIDE DEF working, keep
  <2>2. Held(pass'.working) \ pass'.order = keep
    BY <1>7, <2>1
  <2>3. /\ pass'.unrouted = {} /\ pass'.connected = connected
        /\ (Held(working) \cup order) \cap connected = {}
    <3>1. pass'.unrouted = {} /\ pass'.connected = connected
      BY <1>1 DEF NoPass
    <3>2. order = kept.ripup /\ connected = kept.connected \ kept.ripup
      BY <1>3 DEF order, connected
    <3>3. keep \cap kept.connected = {}
      BY <1>1 DEF NInv, BetweenInv, keep
    <3>4. Held(working) \subseteq keep \cup order
      BY <2>1
    <3> QED  BY <3>1, <3>2, <3>3, <3>4
  <2> QED  BY <1>1, <1>6, <1>7, <1>8, <1>10, <2>2, <2>3 DEF SearchInv, Sound
<1>12. BetweenInv'
  BY <1>7 DEF BetweenInv
<1>13. (BudgetRespected /\ BestInv /\ PublishedSetIsLegal)'
  BY <1>1, SameAllowance, ResultsStay DEF NInv, BudgetRespected
<1>14. Counts(ledger)'
  BY <1>8 DEF Counts
<1> QED  BY <1>9, <1>11, <1>12, <1>13, <1>14 DEF NInv

(* While a pass searches, only what it holds, its queue and the ledger     *)
(* change: the rest of the invariant stays.                                *)
LEMMA SearchGoesOn ==
    ASSUME NInv, Searching,
           pass' \in Pass, pass'.phase = "searching", pass'.order = pass.order,
           pass'.queue \subseteq pass.queue,
           ledger' \in Ledger, Counts(ledger'), ledger'.held = pass'.working,
           \A n \in pass'.queue : pass'.working[n] = NoRoute,
           \A n \in Nets \ pass.queue : pass'.working[n] = pass.working[n],
           (Held(pass'.working) \cup pass'.queue) \cap (pass'.connected \cup pass'.unrouted) = {},
           pass'.connected \cap pass'.unrouted # {} => UsedUp',
           spent' \in Nat, spent' <= MaxWork, UsedUp => UsedUp',
           UNCHANGED <<terms, joined, kept, best, refused, outcome>>
    PROVE  NInv'
<1>1. NegotiationTypeOK'
  BY DEF NInv, NegotiationTypeOK
<1>2. SearchInv'
  <2> DEFINE S == Held(pass.working) \ pass.order
             T == Held(pass'.working) \ pass'.order
  <2>1. pass.queue \subseteq pass.order /\ Sound(pass.working, S)
    BY DEF NInv, SearchInv
  <2>2. T = S /\ \A n \in S : pass'.working[n] = pass.working[n]
    BY <2>1 DEF Held
  <2> HIDE DEF S
  <2>3. /\ T \cap refused = {}
        /\ terms.rule \in {"conflicted", "window"} =>
             \A m, n \in T : m # n => pass'.working[m] \cap pass'.working[n] = {}
    BY <2>1, <2>2 DEF Sound
  <2> HIDE DEF T
  <2>4. Sound(pass.working, Held(pass.working) \ pass.order)'
    BY <2>3 DEF Sound, T
  <2> QED  BY <2>1, <2>4 DEF SearchInv
<1>3. BetweenInv'
  BY DEF BetweenInv
<1>4. (BudgetRespected /\ BestInv /\ PublishedSetIsLegal)'
  BY ResultsStay DEF BudgetRespected
<1>5. Counts(ledger)'
  BY DEF Counts
<1> QED  BY <1>1, <1>2, <1>3, <1>4, <1>5 DEF NInv

LEMMA BudgetEnds ==
    ASSUME NInv, BudgetExhausted
    PROVE  NInv'
<1> DEFINE u == pass.unrouted \cup (pass.order \ Held(pass.working))
<1>1. /\ Searching /\ UsedUp
      /\ pass' = [pass EXCEPT !.queue = {}, !.failure = "budget", !.unrouted = u]
      /\ UNCHANGED <<terms, joined, ledger, kept, best, spent, refused, outcome>>
  BY DEF BudgetExhausted, UsedUp, NInv, NegotiationTypeOK, Pass
<1>2. /\ pass \in Pass /\ u \subseteq Nets
      /\ Held(pass.working) \cap (pass.connected \cup u) = {}
  BY <1>1 DEF NInv, NegotiationTypeOK, Pass, SearchInv
<1> HIDE DEF u
<1>3. /\ pass' \in Pass /\ pass'.phase = "searching" /\ pass'.order = pass.order
      /\ pass'.queue = {} /\ pass'.working = pass.working
      /\ pass'.connected = pass.connected /\ pass'.unrouted = u
  BY <1>1, <1>2 DEF Pass, Searching
<1>4. /\ ledger' \in Ledger /\ Counts(ledger') /\ ledger'.held = pass'.working
      /\ spent' \in Nat /\ spent' <= MaxWork
  BY <1>1, <1>3 DEF NInv, NegotiationTypeOK, SearchInv, BudgetRespected, Counts
<1>5. UsedUp'
  BY <1>1, SameAllowance
<1> QED  BY <1>1, <1>2, <1>3, <1>4, <1>5, SearchGoesOn

LEMMA NetIsSearched ==
    ASSUME NInv, NEW n \in Nets, Search(n)
    PROVE  NInv'
<1>1. /\ Searching /\ n \in pass.queue /\ pass \in Pass /\ pass.working \in Allocation
      /\ spent \in Nat /\ MaxWork \in Nat /\ spent <= MaxWork
      /\ ledger \in Ledger /\ Counts(ledger)
      /\ ledger.held = pass.working /\ pass.working[n] = NoRoute
      /\ \A m \in pass.queue : pass.working[m] = NoRoute
  BY NegotiationAssumption
  DEF Search, NInv, NegotiationTypeOK, Pass, SearchInv, BudgetRespected
<1>2. spent' \in Nat /\ spent' <= MaxWork
  <2>1. PICK work \in 1..MaxWorkPerNet : work <= Allowance /\ Charge(work)
    BY DEF Search
  <2>2. work \in Nat
    BY <2>1, NegotiationAssumption
  <2>3. CASE terms.replay
    <3>1. work <= (MaxWork - spent) \div 2 /\ spent' = spent + 2 * work
      BY <2>1, <2>3 DEF Allowance, Charge
    <3> QED  BY <1>1, <2>2, <3>1
  <2>4. CASE ~terms.replay
    <3>1. work <= MaxWork - spent /\ spent' = spent + work
      BY <2>1, <2>4 DEF Allowance, Charge
    <3> QED  BY <1>1, <2>2, <3>1
  <2> QED  BY <2>3, <2>4
<1>3. UNCHANGED <<terms, joined, kept, best, refused, outcome>>
  BY DEF Search
<1>3a. ~UsedUp
  BY <1>1 DEF Search, UsedUp, Allowance
<1>3b. /\ (Held(pass.working) \cup pass.queue) \cap (pass.connected \cup pass.unrouted) = {}
       /\ pass.connected \cap pass.unrouted = {} /\ n \notin Held(pass.working)
  BY <1>1, <1>3a DEF NInv, SearchInv, Held
<1> DEFINE q == pass.queue \ {n}
           p == [pass EXCEPT !.queue = q]
<1>4. Visited(n) = p /\ q \subseteq Nets
  BY <1>1 DEF Visited, Pass
<1>5. /\ p \in Pass /\ p.phase = "searching" /\ p.order = pass.order /\ p.queue = q
      /\ p.working = pass.working
      /\ p.connected = pass.connected /\ p.unrouted = pass.unrouted
  BY <1>1, <1>4 DEF Pass, Searching
<1> HIDE DEF p, q
<1>6. CASE \E route \in Routes : /\ pass' = [p EXCEPT !.working[n] = route]
                                 /\ ledger' = AddCandidate(ledger, n, route)
  <2>1. PICK route \in Routes : /\ pass' = [p EXCEPT !.working[n] = route]
                                /\ ledger' = AddCandidate(ledger, n, route)
    BY <1>6
  <2> DEFINE a == [pass.working EXCEPT ![n] = route]
  <2>2. a \in Allocation /\ a[n] = route /\ \A m \in Nets \ {n} : a[m] = pass.working[m]
    BY <1>1 DEF Allocation
  <2>3. /\ ledger' \in Ledger /\ Counts(ledger') /\ ledger'.held = a
    BY <1>1, <2>1, AddCounts
  <2>4. pass' = [p EXCEPT !.working = a]
    BY <1>5, <2>1 DEF Pass
  <2> HIDE DEF a
  <2>5. /\ pass' \in Pass /\ pass'.phase = "searching" /\ pass'.order = pass.order
        /\ pass'.queue = q /\ pass'.working = a
        /\ pass'.connected = pass.connected /\ pass'.unrouted = pass.unrouted
    BY <1>5, <2>2, <2>4 DEF Pass
  <2>7. (Held(a) \cup q) \cap (pass.connected \cup pass.unrouted) = {}
    <3>1. Held(a) \subseteq Held(pass.working) \cup {n}
      BY <2>2 DEF Held
    <3> QED  BY <1>1, <1>3b, <3>1 DEF q
  <2>6. /\ pass'.queue \subseteq pass.queue
        /\ \A m \in pass'.queue : pass'.working[m] = NoRoute
        /\ \A m \in Nets \ pass.queue : pass'.working[m] = pass.working[m]
    <3>1. pass.queue \subseteq Nets
      BY <1>1 DEF Pass
    <3> QED  BY <1>1, <2>2, <2>5, <3>1 DEF q
  <2> QED  BY <1>1, <1>2, <1>3, <1>3a, <1>3b, <2>3, <2>5, <2>6, <2>7, SearchGoesOn
<1>7. ASSUME pass' \in Pass, pass'.phase = "searching", pass'.order = pass.order,
             pass'.queue = q, pass'.working = pass.working, ledger' = ledger,
             pass'.connected \cap pass'.unrouted = {},
             pass'.connected \cup pass'.unrouted
               \subseteq pass.connected \cup pass.unrouted \cup {n}
      PROVE  NInv'
  <2>1. ledger' \in Ledger /\ Counts(ledger') /\ ledger'.held = pass'.working
    BY <1>1, <1>7
  <2>2. /\ pass'.queue \subseteq pass.queue
        /\ \A m \in pass'.queue : pass'.working[m] = NoRoute
        /\ \A m \in Nets \ pass.queue : pass'.working[m] = pass.working[m]
    BY <1>1, <1>7 DEF q
  <2>3. (Held(pass'.working) \cup pass'.queue) \cap (pass'.connected \cup pass'.unrouted) = {}
    BY <1>7, <1>3b DEF q
  <2> QED  BY <1>1, <1>2, <1>3, <1>7, <1>3a, <2>1, <2>2, <2>3, SearchGoesOn
<1>8. CASE pass' = [p EXCEPT !.connected = @ \cup {n}] /\ ledger' = ledger
  <2>1. /\ pass' \in Pass /\ pass'.phase = "searching" /\ pass'.order = pass.order
        /\ pass'.queue = q /\ pass'.working = pass.working
        /\ pass'.connected = pass.connected \cup {n} /\ pass'.unrouted = pass.unrouted
    BY <1>5, <1>8 DEF Pass
  <2>2. pass'.connected \cap pass'.unrouted = {}
    BY <1>1, <1>3b, <2>1
  <2> QED  BY <1>7, <1>8, <2>1, <2>2
<1>9. CASE /\ pass' = [p EXCEPT !.unrouted = @ \cup {n}, !.failure = "no_candidate"]
           /\ ledger' = ledger
  <2> DEFINE u == p.unrouted \cup {n}
  <2>1. pass' = [p EXCEPT !.unrouted = u, !.failure = "no_candidate"] /\ u \subseteq Nets
    BY <1>5, <1>9 DEF Pass
  <2> HIDE DEF u
  <2>2. /\ pass' \in Pass /\ pass'.phase = "searching" /\ pass'.order = pass.order
        /\ pass'.queue = q /\ pass'.working = pass.working
        /\ pass'.connected = pass.connected /\ pass'.unrouted = pass.unrouted \cup {n}
    BY <1>5, <2>1 DEF Pass, u
  <2>3. pass'.connected \cap pass'.unrouted = {}
    BY <1>1, <1>3b, <2>2
  <2> QED  BY <1>7, <1>9, <2>2, <2>3
<1>10. \/ \E route \in Routes : /\ pass' = [Visited(n) EXCEPT !.working[n] = route]
                                /\ ledger' = AddCandidate(ledger, n, route)
       \/ pass' = [Visited(n) EXCEPT !.connected = @ \cup {n}] /\ ledger' = ledger
       \/ /\ pass' = [Visited(n) EXCEPT !.unrouted = @ \cup {n}, !.failure = "no_candidate"]
          /\ ledger' = ledger
  BY DEF Search
<1> QED  BY <1>4, <1>6, <1>8, <1>9, <1>10

-----------------------------------------------------------------------------
(* How a judged pass ends.                                                 *)

(* What is not ripped up was held and blamed for nothing; and without a    *)
(* plan everything is ripped up.                                           *)
LEMMA RipUpKeeps ==
    ASSUME NInv, Searching, NEW held, held \subseteq Nets, NEW forced
    PROVE  LET ripup == RipUp(held, forced)
           IN  /\ ripup \subseteq Nets /\ Nets \ held \subseteq ripup
               /\ ~Planned => ripup = Nets
               /\ terms.rule \in {"conflicted", "window"} =>
                    \A m, n \in Nets \ ripup :
                       m # n => pass.working[m] \cap pass.working[n] = {}
<1> DEFINE conflicted == {n \in held : ConflictScore(ledger, n) > 0}
           ripup == RipUp(held, forced)
           near == held \cap NetsWithinWindow(ledger, conflicted \cup forced, Window)
<1>1. terms.rule \in {"none", "all", "conflicted", "top", "window"}
  BY DEF NInv, NegotiationTypeOK, Rule
<1>2. /\ terms.rule \in {"none", "all"} => ripup = Nets
      /\ terms.rule = "conflicted" => ripup = (Nets \ held) \cup conflicted
      /\ terms.rule = "top" => ripup = (Nets \ held) \cup Top(conflicted)
      /\ terms.rule = "window" => ripup = (Nets \ held) \cup conflicted \cup near
  BY DEF RipUp
<1>3. conflicted \subseteq held /\ near \subseteq held /\ Top(conflicted) \subseteq conflicted
  BY DEF Top
<1>4. ASSUME NEW m \in Nets \ ripup, NEW n \in Nets \ ripup, m # n,
             terms.rule \in {"conflicted", "window"}
      PROVE  pass.working[m] \cap pass.working[n] = {}
  <2>1. n \in held /\ n \notin conflicted
    BY <1>2, <1>4
  <2>2. ~(ConflictScore(ledger, n) > 0)
    BY <2>1
  <2> HIDE DEF ripup
  <2> QED  BY <1>4, <2>2, SharedCellScores DEF NInv, NegotiationTypeOK, SearchInv
<1> HIDE DEF conflicted, near, ripup
<1>5. ripup \subseteq Nets /\ Nets \ held \subseteq ripup /\ (~Planned => ripup = Nets)
  BY <1>1, <1>2, <1>3 DEF Planned
<1> QED  BY <1>4, <1>5 DEF ripup

LEMMA JudgedEnds ==
    ASSUME NInv, Judged, NEW s, NEW retained, NEW forced,
           s.candidates \in Allocation, s.excess \in Nat,
           s.connected \subseteq Nets, s.unrouted \subseteq Nets,
           Legal(s.candidates), Accounted(s.candidates, s.connected, s.unrouted),
           pass.connected = {} => s.connected = {},
           retained.working \in {pass.working, NoRoutes}, retained.connected \subseteq Nets,
           Held(retained.working) \cap retained.connected = {},
           refused' \subseteq Nets, Held(retained.working) \cap refused' \subseteq forced,
           Offer(s), Continue(s, retained, forced),
           UNCHANGED <<terms, joined, ledger, spent>>
    PROVE  NInv'
<1> DEFINE held == Blameless(retained, forced)
           ripup == RipUp(held, forced)
<1>1. /\ Searching /\ pass \in Pass /\ pass.working \in Allocation /\ ledger \in Ledger
      /\ ledger.held = pass.working /\ pass.number \in 0..MaxPasses
      /\ retained.working \in Allocation
  BY NoRoutesHeld DEF Judged, NInv, NegotiationTypeOK, Pass, SearchInv
<1>2. held \subseteq Nets
  BY DEF Blameless, Held
<1> HIDE DEF held
<1>3. /\ ripup \subseteq Nets /\ Nets \ held \subseteq ripup /\ (~Planned => ripup = Nets)
      /\ terms.rule \in {"conflicted", "window"} =>
           \A m, n \in Nets \ ripup : m # n => pass.working[m] \cap pass.working[n] = {}
  BY <1>1, <1>2, RipUpKeeps
<1> DEFINE after == [working |-> retained.working, connected |-> retained.connected,
                     ripup |-> ripup]
<1>4. \/ /\ s.unrouted = {}
         /\ Publish("completed", s.candidates, s.connected, {}) /\ UNCHANGED kept
      \/ /\ kept' = after
         /\ \/ PublishBest
            \/ /\ Held(s.candidates) = {} /\ s.connected = {}
               /\ Publish("no_path", NoRoutes, {}, s.unrouted)
            \/ /\ pass.number < MaxPasses /\ pass' = [NoPass EXCEPT !.number = pass.number]
               /\ UNCHANGED outcome
  BY DEF Continue, held
<1> HIDE DEF ripup
<1>4a. UsedUp' <=> UsedUp
  BY SameAllowance
<1>5. BestInv' /\ best' \in [known : BOOLEAN, excess : Nat, candidates : Allocation,
                             connected : SUBSET Nets, unrouted : SUBSET Nets]
  <2>1. CASE best' = [known |-> TRUE, excess |-> s.excess, candidates |-> s.candidates,
                      connected |-> s.connected, unrouted |-> s.unrouted]
    BY <1>4a, <2>1 DEF BestInv, Legal, Accounted
  <2>2. CASE UNCHANGED best
    BY <1>4a, <2>2 DEF NInv, NegotiationTypeOK, BestInv, Legal, Accounted
  <2> QED  BY <2>1, <2>2 DEF Offer
<1>6. kept' \in [working : Allocation, connected : SUBSET Nets, ripup : SUBSET Nets]
  BY <1>1, <1>3, <1>4 DEF NInv, NegotiationTypeOK
<1>7. Counts(ledger)' /\ BudgetRespected'
  BY DEF NInv, Counts, BudgetRespected
<1>8. ASSUME NEW status \in {"completed", "partial", "no_path"}, NEW candidates \in Allocation,
             NEW connected \in SUBSET Nets, NEW unrouted \in SUBSET Nets,
             Publish(status, candidates, connected, unrouted), Legal(candidates),
             Accounted(candidates, connected, unrouted),
             status = "completed" => unrouted = {},
             status = "no_path" => Held(candidates) = {} /\ connected = {}
      PROVE  NInv'
  <2>1. /\ outcome' = [status |-> status, candidates |-> candidates,
                       connected |-> connected, unrouted |-> unrouted]
        /\ pass' = [pass EXCEPT !.phase = "over"]
    BY <1>8 DEF Publish
  <2>2. pass' \in Pass /\ pass'.phase = "over"
    BY <1>1, <2>1 DEF Pass
  <2>3. NegotiationTypeOK'
    BY <1>5, <1>6, <2>1, <2>2 DEF NInv, NegotiationTypeOK
  <2>4. BetweenInv' /\ SearchInv'
    BY <2>2 DEF BetweenInv, SearchInv, Searching
  <2>5. PublishedSetIsLegal'
    BY <1>8, <1>4a, <2>1 DEF PublishedSetIsLegal, Legal, Accounted, UsedUp
  <2> QED  BY <1>5, <1>7, <2>3, <2>4, <2>5 DEF NInv
<1>9. CASE s.unrouted = {} /\ Publish("completed", s.candidates, s.connected, {})
  BY <1>8, <1>9
<1>10. CASE PublishBest
  <2> DEFINE b == best'
             status == IF b.unrouted # {} /\ Held(b.candidates) = {} /\ b.connected = {}
                       THEN "no_path" ELSE "partial"
  <2>1. Publish(status, b.candidates, b.connected, b.unrouted)
    BY <1>10 DEF PublishBest
  <2>2. /\ b.candidates \in Allocation /\ b.connected \in SUBSET Nets
        /\ b.unrouted \in SUBSET Nets
        /\ Legal(b.candidates) /\ Accounted(b.candidates, b.connected, b.unrouted)
    BY <1>5, <1>4a DEF BestInv, Legal, Accounted
  <2>3. /\ status \in {"partial", "no_path"}
        /\ status = "no_path" => Held(b.candidates) = {} /\ b.connected = {}
    OBVIOUS
  <2> HIDE DEF b, status
  <2> QED  BY <1>8, <2>1, <2>2, <2>3
<1>11. CASE /\ Held(s.candidates) = {} /\ s.connected = {}
            /\ Publish("no_path", NoRoutes, {}, s.unrouted)
  <2>1. Accounted(NoRoutes, {}, s.unrouted)
    BY <1>11, NoRoutesHeld DEF Accounted
  <2> QED  BY <1>8, <1>11, <2>1, NoRoutesHeld
<1>12. CASE /\ kept' = after /\ pass.number < MaxPasses
            /\ pass' = [NoPass EXCEPT !.number = pass.number] /\ UNCHANGED outcome
  <2>1. pass' \in Pass /\ pass'.phase = "between" /\ pass'.number = pass.number
    BY <1>1, <1>12, NoRoutesHeld DEF NoPass, Pass
  <2>2. NegotiationTypeOK'
    BY <1>5, <1>6, <1>12, <2>1 DEF NInv, NegotiationTypeOK
  <2>3. SearchInv' /\ PublishedSetIsLegal'
    BY <1>12, <1>4a, <2>1 DEF NInv, SearchInv, Searching, PublishedSetIsLegal, UsedUp
  <2>4. BetweenInv'
    <3> DEFINE nets == Held(retained.working) \ ripup
    <3>1. nets \subseteq Nets \ ripup /\ nets \subseteq held
      BY <1>3 DEF Held
    <3>2. nets \cap refused' = {}
      BY <3>1 DEF held, Blameless
    <3>3. \A n \in nets : retained.working[n] = pass.working[n]
      BY NoRoutesHeld
    <3>4. terms.rule \in {"conflicted", "window"} =>
            \A m, n \in nets : m # n => retained.working[m] \cap retained.working[n] = {}
      BY <1>3, <3>1, <3>3
    <3>5. kept'.working = retained.working /\ kept'.ripup = ripup
      BY <1>12
    <3>6. nets = Held(kept'.working) \ kept'.ripup
      BY <3>5
    <3> HIDE DEF nets
    <3>7. Sound(kept.working, Held(kept.working) \ kept.ripup)'
      BY <3>2, <3>4, <3>5, <3>6 DEF Sound
    <3>8. \A n \in Held(kept'.working) \ kept'.ripup : ledger.held[n] = kept'.working[n]
      BY <1>1, <3>3, <3>5, <3>6
    <3>9. Held(kept'.working) \cap kept'.connected = {}
      BY <1>12
    <3> QED  BY <1>3, <1>12, <2>1, <3>5, <3>7, <3>8, <3>9 DEF BetweenInv, Planned
  <2> QED  BY <1>5, <1>7, <2>2, <2>3, <2>4 DEF NInv
<1> QED  BY <1>4, <1>9, <1>10, <1>11, <1>12

(* An accepted set is legal: the gate found no pair too close.             *)
LEMMA AcceptedEnds ==
    ASSUME NInv, AcceptSet
    PROVE  NInv'
<1> DEFINE s == [excess |-> Excess(ledger), candidates |-> pass.working,
                 connected |-> pass.connected, unrouted |-> pass.unrouted \cup Missing]
           retained == [working |-> pass.working, connected |-> pass.connected]
<1>1. /\ Judged /\ Offer(s) /\ Continue(s, retained, {}) /\ refused' = {}
      /\ UNCHANGED <<terms, joined, ledger, spent>>
      /\ ~\E m, n \in Held(pass.working) : Violates(m, n)
  BY DEF AcceptSet
<1>2. /\ pass.working \in Allocation /\ pass.connected \subseteq Nets
      /\ pass.unrouted \subseteq Nets /\ Missing \subseteq Nets
  BY DEF NInv, NegotiationTypeOK, Pass, Missing
<1>3. Excess(ledger) \in Nat
  <2>1. Overflow(ledger) \subseteq Cells
    BY DEF Overflow
  <2> QED  BY <2>1, SurplusIsFinite DEF Excess, NInv, NegotiationTypeOK
<1>4. Legal(pass.working)
  BY <1>1 DEF Legal, Violates
<1>5. Accounted(pass.working, pass.connected, pass.unrouted \cup Missing)
  <2>1. /\ Held(pass.working) \cap (pass.connected \cup pass.unrouted) = {}
        /\ pass.connected \cap pass.unrouted # {} => UsedUp
    BY <1>1 DEF Judged, NInv, SearchInv
  <2> QED  BY <1>2, <2>1 DEF Accounted, Missing, Held
<1>6. /\ s.candidates = pass.working /\ s.excess = Excess(ledger)
      /\ s.connected = pass.connected /\ s.unrouted = pass.unrouted \cup Missing
      /\ retained.working = pass.working /\ retained.connected = pass.connected
  OBVIOUS
<1>7. Held(pass.working) \cap pass.connected = {}
  BY <1>1 DEF Judged, NInv, SearchInv
<1> HIDE DEF s, retained
<1> QED  BY <1>1, <1>2, <1>3, <1>4, <1>5, <1>6, <1>7, JudgedEnds

LEMMA RefusedEnds ==
    ASSUME NInv, Judged, NEW forced, NEW retained,
           retained.working \in {pass.working, NoRoutes}, retained.connected \subseteq Nets,
           Held(retained.working) \cap retained.connected = {},
           refused' \subseteq Nets, Held(retained.working) \cap refused' \subseteq forced,
           RefuseWith(forced, retained)
    PROVE  NInv'
<1> DEFINE u == pass.unrouted \cup Missing \cup Held(pass.working) \cup pass.connected
           s == [excess |-> 0, candidates |-> NoRoutes, connected |-> {}, unrouted |-> u]
<1>1. /\ Offer(s) /\ Continue(s, retained, forced)
      /\ UNCHANGED <<terms, joined, ledger, spent>>
  BY DEF RefuseWith
<1>2. u = Nets
  BY DEF NInv, NegotiationTypeOK, Pass, Missing, Held
<1>3. /\ s.candidates = NoRoutes /\ s.excess = 0 /\ s.connected = {} /\ s.unrouted = Nets
  BY <1>2
<1>4. Accounted(NoRoutes, {}, Nets)
  BY NoRoutesHeld DEF Accounted
<1> HIDE DEF s
<1> QED  BY <1>1, <1>3, <1>4, NoRoutesHeld, JudgedEnds

(* A pair of nets that are too close is named by the gate and reported to  *)
(* the next pass as the nets it may not keep.                              *)
LEMMA PairIsRefused ==
    ASSUME NInv, RefusePair
    PROVE  NInv'
<1>1. PICK m \in Held(pass.working), n \in Held(pass.working) :
        /\ Violates(m, n) /\ refused' = {m, n}
        /\ RefuseWith({m, n}, [working |-> pass.working, connected |-> pass.connected])
  BY DEF RefusePair
<1> DEFINE retained == [working |-> pass.working, connected |-> pass.connected]
<1>2. pass.connected \subseteq Nets /\ Held(pass.working) \cap pass.connected = {}
  BY DEF RefusePair, Judged, NInv, NegotiationTypeOK, Pass, SearchInv
<1>3. m \in Nets /\ n \in Nets
  BY DEF Held
<1>4. Judged
  BY DEF RefusePair
<1>5. /\ retained.working \in {pass.working, NoRoutes} /\ retained.connected \subseteq Nets
      /\ Held(retained.working) \cap retained.connected = {}
      /\ refused' \subseteq Nets /\ Held(retained.working) \cap refused' \subseteq {m, n}
      /\ RefuseWith({m, n}, retained)
  BY <1>1, <1>2, <1>3
<1> HIDE DEF retained
<1> QED  BY <1>4, <1>5, RefusedEnds

LEMMA AllAreRefused ==
    ASSUME NInv, RefuseAll
    PROVE  NInv'
<1> DEFINE retained == [working |-> NoRoutes, connected |-> {}]
<1>1. Judged /\ refused' = Nets /\ RefuseWith({}, retained)
  BY DEF RefuseAll
<1>2. /\ retained.working = NoRoutes /\ retained.connected \subseteq Nets
      /\ Held(retained.working) \cap refused' \subseteq {}
      /\ Held(retained.working) \cap retained.connected = {}
  BY NoRoutesHeld
<1> HIDE DEF retained
<1>3. retained.working \in {pass.working, NoRoutes} /\ refused' \subseteq Nets
  BY <1>1, <1>2
<1> QED  BY <1>1, <1>2, <1>3, RefusedEnds

LEMMA NegotiationGoesOn ==
    ASSUME NInv, [NegotiationNext]_negotiationVars
    PROVE  NInv'
<1>1. CASE BeginPass
  BY <1>1, PassBegins
<1>2. CASE CancelRun
  <2>1. /\ Abandon("cancelled")
        /\ UNCHANGED <<terms, joined, ledger, kept, best, spent, refused>>
    BY <1>2 DEF CancelRun
  <2> QED  BY <2>1, Abandoned
<1>3. CASE BudgetExhausted
  BY <1>3, BudgetEnds
<1>4. CASE RouterBreaks
  <2>1. /\ Abandon("invalid")
        /\ UNCHANGED <<terms, joined, ledger, kept, best, spent, refused>>
    BY <1>4 DEF RouterBreaks
  <2> QED  BY <2>1, Abandoned
<1>5. CASE \E n \in Nets : Search(n)
  BY <1>5, NetIsSearched
<1>6. CASE AcceptSet
  BY <1>6, AcceptedEnds
<1>7. CASE RefusePair
  BY <1>7, PairIsRefused
<1>8. CASE RefuseAll
  BY <1>8, AllAreRefused
<1>9. CASE UNCHANGED negotiationVars
  BY <1>9
  DEF negotiationVars, NInv, NegotiationTypeOK, Counts, BudgetRespected, BetweenInv,
      Planned, SearchInv, Searching, BestInv, PublishedSetIsLegal, Sound, Legal, Accounted,
      UsedUp, Allowance
<1> QED
  BY <1>1, <1>2, <1>3, <1>4, <1>5, <1>6, <1>7, <1>8, <1>9 DEF NegotiationNext

LEMMA NegotiationStaysSound == NegotiationSpec => []NInv
  BY NegotiationStarts, NegotiationGoesOn, PTL DEF NegotiationSpec

(***************************************************************************)
(* The theorems                                                            *)
(***************************************************************************)

(* Every step of a run leaves each part of its state, the record it        *)
(* returns included, within its type, for any nets, cells and limits.      *)
THEOREM NegotiationKeepsTypes == NegotiationSpec => []NegotiationTypeOK
<1>1. NInv => NegotiationTypeOK
  BY DEF NInv
<1> QED  BY <1>1, NegotiationStaysSound, PTL

(* The searches of all passes, with the replays of a generic router, never *)
(* cost more than the caller's budget.                                     *)
THEOREM BudgetIsRespected == NegotiationSpec => []BudgetRespected
<1>1. NInv => BudgetRespected
  BY DEF NInv
<1> QED  BY <1>1, NegotiationStaysSound, PTL

(* The ledger a pass negotiates over counts exactly the routes of its      *)
(* allocation, whichever way retain_only built it.                         *)
THEOREM LedgerFollowsAllocation == NegotiationSpec => []LedgerMatchesAllocation
<1>1. NInv => LedgerMatchesAllocation
  BY DEF NInv, SearchInv, Counts, Holders, LedgerMatchesAllocation
<1> QED  BY <1>1, NegotiationStaysSound, PTL

(* What a pass keeps was not blamed by the gate before it, and under the   *)
(* rules that rip up every conflicted net it shares no cell.               *)
THEOREM KeptRoutesAreSound == NegotiationSpec => []KeptSetIsSound
<1>1. NInv => KeptSetIsSound
  BY DEF NInv, SearchInv, Sound, KeptSetIsSound
<1> QED  BY <1>1, NegotiationStaysSound, PTL

(* Whatever was kept, refused or cut short on the way, a published set     *)
(* keeps its clearance, accounts for every net, is complete when it says   *)
(* so and is empty after a cancellation or a broken router.                *)
THEOREM PublishedRoutesAreLegal == NegotiationSpec => []PublishedSetIsLegal
<1>1. NInv => PublishedSetIsLegal
  BY DEF NInv
<1> QED  BY <1>1, NegotiationStaysSound, PTL
===============================================================================
