------------------------------ MODULE SearchProofs ------------------------------
(***************************************************************************)
(* What the route searches find, for any lattice, costs, obstacles and     *)
(* ends: the leg A* finds is a legal walk with the score it claims, no     *)
(* walk scores less, and a search that says there is no walk is right.     *)
(* The same of the search over layers, with or without a cap on vias.      *)
(*                                                                         *)
(* The argument is the usual one.  A reached state is queued with its best *)
(* score or has been expanded with it, and then every state next to it is  *)
(* at least as good as the step there (RouteInv).  So along any walk the  *)
(* search is ahead of the walk up to a queued state, which what is popped  *)
(* is not worse than.  Over layers a node has several labels, and what a   *)
(* label has made of a neighbour may since be dominated (LayeredInv).      *)
(***************************************************************************)
EXTENDS RouteSearch, LayeredSearch,
        FiniteSetTheorems, SequenceTheorems, WellFoundedInduction, TLAPS

-----------------------------------------------------------------------------
(* Least elements.                                                         *)

(* A strict order that is total on a finite set has a least element in it: *)
(* a smallest counterexample would lose an element and keep a least one.   *)
LEMMA LeastExists ==
    ASSUME NEW S, IsFiniteSet(S), S # {}, NEW R,
           \A x, y, z \in S : <<x, y>> \in R /\ <<y, z>> \in R => <<x, z>> \in R,
           \A x, y \in S : x = y \/ <<x, y>> \in R \/ <<y, x>> \in R
    PROVE  \E x \in S : \A y \in S : x = y \/ <<x, y>> \in R
<1> DEFINE Has(T) == \E x \in T : \A y \in T : x = y \/ <<x, y>> \in R
           Bad == {T \in FiniteSubsetsOf(S) : T # {} /\ ~Has(T)}
<1>1. SUFFICES ASSUME ~Has(S) PROVE FALSE
    OBVIOUS
<1>2. S \in Bad
    BY <1>1 DEF FiniteSubsetsOf
<1>3. \E T \in Bad : \A U \in Bad : <<U, T>> \notin StrictSubsetOrdering(S)
    <2>1. Bad \subseteq FiniteSubsetsOf(S) /\ Bad # {}
        BY <1>2
    <2> HIDE DEF Bad
    <2> QED
        BY <2>1, FS_StrictSubsetOrderingWellFounded, WFMin
<1>3a. PICK T \in Bad : \A U \in Bad : <<U, T>> \notin StrictSubsetOrdering(S)
    BY <1>3
<1>4. PICK x \in T : TRUE
    OBVIOUS
<1>5. /\ T \ {x} \in FiniteSubsetsOf(S) /\ <<T \ {x}, T>> \in StrictSubsetOrdering(S)
      /\ T \subseteq S
    BY <1>4, FS_RemoveElement DEF FiniteSubsetsOf, StrictSubsetOrdering
<1>6. T \ {x} = {} \/ Has(T \ {x})
    BY <1>3a, <1>5
<1>7. CASE T \ {x} = {}
    <2>1. \A y \in T : y = x
        BY <1>7
    <2> QED
        BY <2>1, <1>3a, <1>4
<1>8. CASE Has(T \ {x})
    <2>1. PICK m \in T \ {x} : \A y \in T \ {x} : m = y \/ <<m, y>> \in R
        BY <1>8
    <2>2. CASE <<m, x>> \in R
        BY <2>1, <2>2, <1>3a, <1>4
    <2>3. CASE <<x, m>> \in R
        <3>1. \A y \in T : x = y \/ <<x, y>> \in R
            BY <2>1, <2>3, <1>4, <1>5
        <3> QED
            BY <3>1, <1>3a, <1>4
    <2> QED
        BY <2>1, <2>2, <2>3, <1>4, <1>5
<1> QED
    BY <1>6, <1>7, <1>8

LEMMA LeastNatural ==
    ASSUME NEW S, S \subseteq Nat, S # {}
    PROVE  \E m \in S : \A k \in S : m <= k
<1>1. PICK n \in S : TRUE
    OBVIOUS
<1> DEFINE T == {k \in S : k <= n}
           R == {p \in Nat \X Nat : p[1] < p[2]}
<1>2. IsFiniteSet(T) /\ n \in T
    BY FS_BoundedSetOfNaturals
<1>3. \A x, y \in Nat :
         /\ <<x, y>> \in R <=> x < y
         /\ x = y \/ <<x, y>> \in R \/ <<y, x>> \in R
    OBVIOUS
<1> HIDE DEF R
<1>4. T \subseteq Nat /\ T \subseteq S
    OBVIOUS
<1>5. PICK m \in T : \A y \in T : m = y \/ <<m, y>> \in R
    <2> HIDE DEF T
    <2>1. \A x, y, z \in T : <<x, y>> \in R /\ <<y, z>> \in R => <<x, z>> \in R
        <3>1. \A x, y, z \in Nat : <<x, y>> \in R /\ <<y, z>> \in R => <<x, z>> \in R
            BY DEF R
        <3> QED
            BY <3>1, <1>4, Zenon
    <2>2. \A x, y \in T : x = y \/ <<x, y>> \in R \/ <<y, x>> \in R
        <3>1. \A x \in T : x \in Nat
            BY <1>4, Zenon
        <3> QED
            BY <1>3, <3>1, Zenon
    <2> QED
        BY <1>2, <2>1, <2>2, LeastExists
<1>6. ASSUME NEW k \in T PROVE m <= k
    <2>1. k \in Nat /\ m \in Nat
        BY <1>4
    <2>2. <<m, k>> \in R => m < k
        BY <2>1, <1>3
    <2>3. m = k \/ <<m, k>> \in R
        BY <1>5, <1>6
    <2> HIDE DEF T
    <2> QED
        BY <2>1, <2>2, <2>3
<1>7. \A k \in S : k > n \/ k \in T
    BY <1>4
<1> QED
    BY <1>2, <1>4, <1>5, <1>6, <1>7

(* What never falls from one number to the next never falls.               *)
LEMMA NeverFalls ==
    ASSUME NEW m \in Nat, NEW n \in Nat, NEW f, \A i \in m..n : f[i] \in Int,
           \A i \in m..(n - 1) : f[i] <= f[i + 1]
    PROVE  \A i \in m..n, j \in m..n : i <= j => f[i] <= f[j]
<1> SUFFICES ASSUME NEW i \in m..n, NEW j \in m..n, i <= j, ~(f[i] <= f[j]) PROVE FALSE
    OBVIOUS
<1> DEFINE Bad == {k \in i..n : ~(f[i] <= f[k])}
<1>1. PICK k \in Bad : \A l \in Bad : k <= l
    BY LeastNatural, j \in Bad, Bad \subseteq Nat
<1>2. k # i /\ k - 1 \in i..n /\ k - 1 \notin Bad
    BY <1>1
<1>3. f[k - 1] <= f[(k - 1) + 1] /\ (k - 1) + 1 = k /\ f[k - 1] \in Int /\ f[k] \in Int
    BY <1>1, <1>2
<1> QED
    BY <1>1, <1>2, <1>3

-----------------------------------------------------------------------------
(* Lexicographic order.                                                    *)

LEMMA LexOrder ==
    ASSUME NEW n \in Nat, NEW a \in [1..n -> Int], NEW b \in [1..n -> Int],
           NEW c \in [1..n -> Int]
    PROVE  /\ ~LexLess(a, a)
           /\ a = b \/ LexLess(a, b) \/ LexLess(b, a)
           /\ LexLess(a, b) /\ LexLess(b, c) => LexLess(a, c)
<1> /\ DOMAIN a = 1..n /\ DOMAIN b = 1..n /\ DOMAIN c = 1..n
    /\ \A i \in 1..n : a[i] \in Int /\ b[i] \in Int /\ c[i] \in Int
    OBVIOUS
<1>1. ~LexLess(a, a)
    BY DEF LexLess
<1>2. ASSUME a # b PROVE LexLess(a, b) \/ LexLess(b, a)
    <2> DEFINE Differ == {i \in 1..n : a[i] # b[i]}
    <2>1. PICK i \in Differ : \A j \in Differ : i <= j
        <3>1. Differ \subseteq Nat
            OBVIOUS
        <3>2. \E i \in 1..n : a[i] # b[i]
            <4>1. SUFFICES ASSUME \A i \in 1..n : a[i] = b[i] PROVE FALSE
                OBVIOUS
            <4>2. a = [i \in 1..n |-> a[i]] /\ b = [i \in 1..n |-> b[i]]
                OBVIOUS
            <4>3. [i \in 1..n |-> a[i]] = [i \in 1..n |-> b[i]]
                BY <4>1
            <4> QED
                BY <1>2, <4>2, <4>3
        <3>3. Differ # {}
            BY <3>2
        <3> HIDE DEF Differ
        <3> QED
            BY <3>1, <3>3, LeastNatural
    <2>2. i \in 1..n /\ a[i] # b[i]
        BY <2>1
    <2>3. \A j \in 1..(i - 1) : a[j] = b[j]
        BY <2>1, <2>2
    <2>4. a[i] < b[i] \/ b[i] < a[i]
        BY <2>2
    <2>5. CASE a[i] < b[i]
        BY <2>2, <2>3, <2>5 DEF LexLess
    <2>6. CASE b[i] < a[i]
        BY <2>2, <2>3, <2>6 DEF LexLess
    <2> QED
        BY <2>4, <2>5, <2>6
<1>3. ASSUME LexLess(a, b), LexLess(b, c) PROVE LexLess(a, c)
    <2>1. PICK i \in 1..n : a[i] < b[i] /\ \A k \in 1..(i - 1) : a[k] = b[k]
        BY <1>3 DEF LexLess
    <2>2. PICK j \in 1..n : b[j] < c[j] /\ \A k \in 1..(j - 1) : b[k] = c[k]
        BY <1>3 DEF LexLess
    <2>3. CASE i <= j
        <3>1. \A k \in 1..(i - 1) : k \in 1..(j - 1)
            BY <2>3
        <3>2. \A k \in 1..(i - 1) : a[k] = c[k]
            BY <3>1, <2>1, <2>2
        <3>3. i \in 1..(j - 1) \/ i = j
            BY <2>3
        <3>4. a[i] < c[i]
            BY <3>3, <2>1, <2>2
        <3> QED
            BY <3>2, <3>4 DEF LexLess
    <2>4. CASE j < i
        <3>1. j \in 1..(i - 1) /\ \A k \in 1..(j - 1) : k \in 1..(i - 1)
            BY <2>4
        <3>2. \A k \in 1..(j - 1) : a[k] = c[k]
            BY <3>1, <2>1, <2>2
        <3>3. a[j] < c[j]
            BY <3>1, <2>1, <2>2
        <3> QED
            BY <3>2, <3>3 DEF LexLess
    <2> QED
        BY <2>3, <2>4
<1> QED
    BY <1>1, <1>2, <1>3

(* Scores have four counts.                                                *)
LEMMA ScoreOrder ==
    ASSUME NEW a \in Score, NEW b \in Score
    PROVE  LexLess(a, b) <=>
             \/ a[1] < b[1]
             \/ a[1] = b[1] /\ a[2] < b[2]
             \/ a[1] = b[1] /\ a[2] = b[2] /\ a[3] < b[3]
             \/ a[1] = b[1] /\ a[2] = b[2] /\ a[3] = b[3] /\ a[4] < b[4]
<1>1. ASSUME LexLess(a, b)
      PROVE  \/ a[1] < b[1]
             \/ a[1] = b[1] /\ a[2] < b[2]
             \/ a[1] = b[1] /\ a[2] = b[2] /\ a[3] < b[3]
             \/ a[1] = b[1] /\ a[2] = b[2] /\ a[3] = b[3] /\ a[4] < b[4]
    <2>1. PICK i \in 1..4 : a[i] < b[i] /\ \A j \in 1..(i - 1) : a[j] = b[j]
        BY <1>1 DEF LexLess, Score
    <2> QED
        BY <2>1
<1>2. \A i \in 1..4 : a[i] < b[i] /\ (\A j \in 1..(i - 1) : a[j] = b[j]) => LexLess(a, b)
    BY DEF LexLess, Score
<1>3. /\ \A j \in 1..(1 - 1) : a[j] = b[j]
      /\ a[1] = b[1] => \A j \in 1..(2 - 1) : a[j] = b[j]
      /\ a[1] = b[1] /\ a[2] = b[2] => \A j \in 1..(3 - 1) : a[j] = b[j]
      /\ a[1] = b[1] /\ a[2] = b[2] /\ a[3] = b[3] => \A j \in 1..(4 - 1) : a[j] = b[j]
    OBVIOUS
<1> QED
    BY <1>1, <1>2, <1>3

-----------------------------------------------------------------------------
(* Scores and what a step adds to them.                                    *)

NoWorse(a, b) == ~LexLess(b, a)

LEMMA NoWorseOrder ==
    ASSUME NEW a \in Score, NEW b \in Score, NEW c \in Score
    PROVE  /\ NoWorse(a, a)
           /\ NoWorse(a, b) /\ NoWorse(b, c) => NoWorse(a, c)
           /\ NoWorse(a, b) /\ NoWorse(b, a) => a = b
           /\ LexLess(a, b) => NoWorse(a, b)
           /\ NoWorse(a, b) => a[1] <= b[1]
           /\ (\A i \in 1..4 : a[i] <= b[i]) => NoWorse(a, b)
<1>1. Score \subseteq [1..4 -> Int] /\ 4 \in Nat
    BY DEF Score
<1>2. ~LexLess(a, a) /\ (a = b \/ LexLess(a, b) \/ LexLess(b, a))
    BY <1>1, LexOrder
<1>3. LexLess(c, b) /\ LexLess(b, a) => LexLess(c, a)
    BY <1>1, LexOrder
<1>4. LexLess(a, b) /\ LexLess(b, a) => LexLess(a, a)
    BY <1>1, LexOrder
<1>5. b = c \/ LexLess(b, c) \/ LexLess(c, b)
    BY <1>1, LexOrder
<1>6. LexLess(c, a) /\ LexLess(a, b) => LexLess(c, b)
    BY <1>1, LexOrder
<1>7. \A i \in 1..4 : a[i] \in Nat /\ b[i] \in Nat
    BY DEF Score
<1>8. NoWorse(a, b) => a[1] <= b[1]
    BY <1>7, ScoreOrder DEF NoWorse
<1>9. (\A i \in 1..4 : a[i] <= b[i]) => NoWorse(a, b)
    BY <1>7, ScoreOrder DEF NoWorse
<1> QED
    BY <1>2, <1>3, <1>4, <1>5, <1>6, <1>8, <1>9 DEF NoWorse

(* A step adds the same to every score, and its length at least.           *)
LEMMA RaisedAdds ==
    ASSUME NEW score \in Score, NEW from, NEW d, NEW next
    PROVE  /\ Raised(NoScore, from, d, next) \in Score
           /\ Raised(NoScore, from, d, next)[1] >= StepCost
           /\ Raised(score, from, d, next) \in Score
           /\ \A i \in 1..4 :
                 Raised(score, from, d, next)[i]
                   = score[i] + Raised(NoScore, from, d, next)[i]
<1> DEFINE bend == IF from[2] # NoDirection /\ from[2] # d THEN 1 ELSE 0
           near == IF next \in problem.near THEN 1 ELSE 0
           price == IF next \in problem.priced THEN CongestionPenalty ELSE 0
           cost == StepCost + bend * BendPenalty + near * ProximityPenalty
<1>1. bend \in Nat /\ near \in Nat /\ price \in Nat
    BY SearchAssumption
<1>2. cost \in Nat /\ cost >= StepCost /\ StepCost \in Nat
    <2>1. bend * BendPenalty \in Nat /\ near * ProximityPenalty \in Nat
        <3>1. bend \in {0, 1} /\ near \in {0, 1}
            OBVIOUS
        <3> QED
            BY <3>1, SearchAssumption
    <2> HIDE DEF bend, near
    <2> QED
        BY <2>1, SearchAssumption
<1>3. \A s : Raised(s, from, d, next)
               = <<s[1] + cost + price, s[2] + cost, s[3] + bend, s[4] + near>>
    BY DEF Raised
<1> HIDE DEF bend, near, price, cost
<1>4. score[1] \in Nat /\ score[2] \in Nat /\ score[3] \in Nat /\ score[4] \in Nat
    BY DEF Score
<1>5. NoScore[1] = 0 /\ NoScore[2] = 0 /\ NoScore[3] = 0 /\ NoScore[4] = 0
    BY DEF NoScore
<1>6. Raised(NoScore, from, d, next) = <<cost + price, cost, bend, near>>
    BY <1>1, <1>2, <1>3, <1>5
<1> QED
    BY <1>1, <1>2, <1>3, <1>4, <1>6 DEF Score

LEMMA RaisedKeepsOrder ==
    ASSUME NEW a \in Score, NEW b \in Score, NoWorse(a, b), NEW from, NEW d, NEW next
    PROVE  NoWorse(Raised(a, from, d, next), Raised(b, from, d, next))
<1> DEFINE cost == Raised(NoScore, from, d, next)
           x == Raised(a, from, d, next)
           y == Raised(b, from, d, next)
<1>1. /\ cost \in Score /\ x \in Score /\ y \in Score
      /\ \A i \in 1..4 : x[i] = a[i] + cost[i] /\ y[i] = b[i] + cost[i]
    BY RaisedAdds
<1> HIDE DEF cost, x, y
<1>2. \A i \in 1..4 : a[i] \in Nat /\ b[i] \in Nat /\ cost[i] \in Nat
    BY <1>1 DEF Score
<1>3. ASSUME NEW i \in 1..4
      PROVE  /\ y[i] < x[i] <=> b[i] < a[i]
             /\ y[i] = x[i] <=> b[i] = a[i]
    <2>1. x[i] = a[i] + cost[i] /\ y[i] = b[i] + cost[i]
        BY <1>1
    <2>2. a[i] \in Nat /\ b[i] \in Nat /\ cost[i] \in Nat
        BY <1>2
    <2> QED
        BY <2>1, <2>2
<1>4. LexLess(y, x) => LexLess(b, a)
    BY <1>1, <1>3, ScoreOrder
<1> QED
    BY <1>4 DEF NoWorse, x, y

-----------------------------------------------------------------------------
(* The lattice.                                                            *)

LEMMA NoDirectionIs == NoDirection = 5
BY DEF NoDirection, Directions

LEMMA BeyondIs ==
    ASSUME NEW n
    PROVE  /\ Beyond(n, 1) = <<n[1] + 1, n[2] + 0>> /\ Beyond(n, 2) = <<n[1] + 0, n[2] + (-1)>>
           /\ Beyond(n, 3) = <<n[1] + (-1), n[2] + 0>> /\ Beyond(n, 4) = <<n[1] + 0, n[2] + 1>>
BY DEF Beyond, Directions

LEMMA BeyondSteps ==
    ASSUME NEW n, n[1] \in Int, n[2] \in Int
    PROVE  /\ Beyond(n, 1) = <<n[1] + 1, n[2]>> /\ Beyond(n, 2) = <<n[1], n[2] - 1>>
           /\ Beyond(n, 3) = <<n[1] - 1, n[2]>> /\ Beyond(n, 4) = <<n[1], n[2] + 1>>
<1>1. n[1] + 0 = n[1] /\ n[2] + 0 = n[2]
    OBVIOUS
<1>2. n[1] + (-1) = n[1] - 1 /\ n[2] + (-1) = n[2] - 1
    OBVIOUS
<1> QED
    BY <1>1, <1>2, BeyondIs

LEMMA NodeIs ==
    ASSUME NEW n \in Node
    PROVE  n = <<n[1], n[2]>> /\ n[1] \in 0..LatticeX /\ n[2] \in 0..LatticeY
BY DEF Node

(* A step leads elsewhere, and each direction somewhere else.              *)
LEMMA DirectionsDiffer ==
    ASSUME NEW n \in Node, NEW d \in 1..4
    PROVE  /\ Beyond(n, d) # n
           /\ \A c \in 1..4 : Beyond(n, c) = Beyond(n, d) => c = d
<1>1. n[1] \in Int /\ n[2] \in Int /\ n = <<n[1], n[2]>>
    BY NodeIs, SearchAssumption
<1>2. /\ Beyond(n, 1) = <<n[1] + 1, n[2]>> /\ Beyond(n, 2) = <<n[1], n[2] - 1>>
      /\ Beyond(n, 3) = <<n[1] - 1, n[2]>> /\ Beyond(n, 4) = <<n[1], n[2] + 1>>
    BY <1>1, BeyondSteps
<1>3. d = 1 \/ d = 2 \/ d = 3 \/ d = 4
    OBVIOUS
<1> QED
    BY <1>1, <1>2, <1>3

(* An edge joins a node to the next one in some direction.                 *)
LEMMA EdgeIsStep ==
    ASSUME NEW n, NEW m, {n, m} \in Edges
    PROVE  n \in Node /\ m \in Node /\ \E d \in 1..4 : m = Beyond(n, d)
<1>1. n \in Node /\ m \in Node
    BY DEF Edges
<1>2. PICK a \in Node, d \in 1..4 : {n, m} = {a, Beyond(a, d)}
    BY DEF Edges
<1>3. CASE n = a /\ m = Beyond(a, d)
    BY <1>1, <1>3
<1>4. CASE m = a /\ n = Beyond(a, d)
    <2>1. m[1] \in Int /\ m[2] \in Int /\ m = <<m[1], m[2]>>
        BY <1>1, NodeIs, SearchAssumption
    <2>2. /\ Beyond(m, 1) = <<m[1] + 1, m[2]>> /\ Beyond(m, 2) = <<m[1], m[2] - 1>>
          /\ Beyond(m, 3) = <<m[1] - 1, m[2]>> /\ Beyond(m, 4) = <<m[1], m[2] + 1>>
        BY <2>1, BeyondSteps
    <2>3. /\ Beyond(n, 1) = <<n[1] + 1, n[2] + 0>> /\ Beyond(n, 2) = <<n[1] + 0, n[2] + (-1)>>
          /\ Beyond(n, 3) = <<n[1] + (-1), n[2] + 0>> /\ Beyond(n, 4) = <<n[1] + 0, n[2] + 1>>
        BY BeyondIs
    <2>4. d = 1 => m = Beyond(n, 3)
        BY <1>4, <2>1, <2>2, <2>3
    <2>5. d = 2 => m = Beyond(n, 4)
        BY <1>4, <2>1, <2>2, <2>3
    <2>6. d = 3 => m = Beyond(n, 1)
        BY <1>4, <2>1, <2>2, <2>3
    <2>7. d = 4 => m = Beyond(n, 2)
        BY <1>4, <2>1, <2>2, <2>3
    <2>8. d = 1 \/ d = 2 \/ d = 3 \/ d = 4
        OBVIOUS
    <2> QED
        BY <1>1, <2>4, <2>5, <2>6, <2>7, <2>8
<1>5. a # Beyond(a, d)
    BY DirectionsDiffer
<1> QED
    BY <1>2, <1>3, <1>4, <1>5

LEMMA HeadingIs ==
    ASSUME NEW route, NEW i, route[i - 1] \in Node, NEW d \in 1..4,
           route[i] = Beyond(route[i - 1], d)
    PROVE  Heading(route, i) = d
BY DirectionsDiffer DEF Heading

-----------------------------------------------------------------------------
(* The estimate of what is left: never more than a step too much, and      *)
(* nothing at a target.                                                    *)

LEMMA NaturalExtremes ==
    ASSUME NEW N \in Nat, NEW S, S \subseteq 0..N, S # {}
    PROVE  /\ Min(S) \in S /\ \A x \in S : Min(S) <= x
           /\ Max(S) \in S /\ \A x \in S : x <= Max(S)
           /\ Min(S) \in Int /\ Max(S) \in Int /\ Min(S) <= Max(S)
<1>1. S \subseteq Nat
    OBVIOUS
<1>2. \E m \in S : \A x \in S : m <= x
    BY <1>1, LeastNatural
<1>3. \E m \in S : \A x \in S : m >= x
    <2> DEFINE T == {N - x : x \in S}
    <2>1. T \subseteq Nat /\ T # {}
        <3>1. \A x \in S : N - x \in Nat
            OBVIOUS
        <3>2. \E x \in S : N - x \in T
            OBVIOUS
        <3> QED
            BY <3>1, <3>2
    <2>2. PICK t \in T : \A u \in T : t <= u
        <3> HIDE DEF T
        <3> QED
            BY <2>1, LeastNatural
    <2>3. PICK m \in S : t = N - m
        OBVIOUS
    <2>4. ASSUME NEW x \in S PROVE m >= x
        <3>1. N - m <= N - x
            BY <2>2, <2>3
        <3> QED
            BY <3>1
    <2> QED
        BY <2>4
<1>4. Min(S) \in S /\ \A x \in S : Min(S) <= x
    BY <1>2 DEF Min
<1>5. Max(S) \in S /\ \A x \in S : Max(S) >= x
    BY <1>3 DEF Max
<1>6. \A x \in S : x \in Int
    OBVIOUS
<1>7. Min(S) \in Int /\ Max(S) \in Int
    BY <1>4, <1>5, <1>6
<1>8. \A x \in S : x <= Max(S)
    BY <1>5, <1>6, <1>7
<1> QED
    BY <1>4, <1>5, <1>7, <1>8

LEMMA OutsideIs ==
    ASSUME NEW low \in Int, NEW high \in Int, low <= high, NEW v \in Int
    PROVE  Outside(low, high, v)
             = IF v < low THEN low - v ELSE IF v > high THEN v - high ELSE 0
<1> DEFINE far == IF v < low THEN low - v ELSE IF v > high THEN v - high ELSE 0
           S == {low - v, 0, v - high}
<1>1. far \in S /\ far >= low - v /\ far >= 0 /\ far >= v - high
    OBVIOUS
<1>2. \A x \in S : x = low - v \/ x = 0 \/ x = v - high
    OBVIOUS
<1>3. far \in Int /\ low - v \in Int /\ v - high \in Int
    OBVIOUS
<1> HIDE DEF far
<1>4. \A x \in S : far >= x
    BY <1>1, <1>2
<1>5. \A x \in S : x \in Int
    BY <1>2, <1>3
<1>6. ASSUME NEW x \in S, \A y \in S : x >= y PROVE x = far
    <2>1. x >= far /\ far >= x /\ x \in Int /\ far \in Int
        BY <1>1, <1>3, <1>4, <1>5, <1>6
    <2> QED
        BY <2>1
<1>7. (CHOOSE x \in S : \A y \in S : x >= y) = far
    <2> HIDE DEF S
    <2> QED
        BY <1>1, <1>4, <1>6
<1> QED
    BY <1>7 DEF Outside, Max, far

LEMMA OutsideChanges ==
    ASSUME NEW low \in Int, NEW high \in Int, low <= high, NEW v \in Int, NEW u \in Int,
           u - v \in {-1, 0, 1}
    PROVE  /\ Outside(low, high, v) \in Nat
           /\ Outside(low, high, v) <= Outside(low, high, u) + 1
           /\ low <= v /\ v <= high => Outside(low, high, v) = 0
<1>1. u = v - 1 \/ u = v \/ u = v + 1
    OBVIOUS
<1> QED
    BY <1>1, OutsideIs

TargetOK == problem.target \subseteq Node /\ problem.target # {}

LEMMA Multiples ==
    ASSUME NEW a \in Nat, NEW b \in Nat, NEW c \in Nat
    PROVE  a * c \in Nat /\ (a + 1) * c = a * c + c /\ (a <= b => a * c <= b * c)
<1>1. a * c \in Nat /\ b * c \in Nat /\ (a + 1) * c = a * c + c
    OBVIOUS
<1>2. ASSUME a <= b PROVE a * c <= b * c
    <2>1. PICK k \in Nat : b = a + k
        <3>1. b - a \in Nat /\ b = a + (b - a)
            BY <1>2
        <3> QED
            BY <3>1
    <2>2. (a + k) * c = a * c + k * c /\ k * c \in Nat
        OBVIOUS
    <2> QED
        BY <1>1, <2>1, <2>2
<1> QED
    BY <1>1, <1>2

LEMMA HeuristicChanges ==
    ASSUME TargetOK, NEW n \in Node, NEW m \in Node,
           m = n \/ \E d \in 1..4 : m = Beyond(n, d)
    PROVE  /\ Heuristic(n) \in Nat /\ Heuristic(m) \in Nat
           /\ Heuristic(n) <= Heuristic(m) + StepCost
<1> DEFINE xs == {t[1] : t \in problem.target}
           ys == {t[2] : t \in problem.target}
           far(p) == Outside(Min(xs), Max(xs), p[1]) + Outside(Min(ys), Max(ys), p[2])
<1>1. LatticeX \in Nat /\ LatticeY \in Nat /\ StepCost \in Nat
    BY SearchAssumption
<1>2. /\ n[1] \in Int /\ n[2] \in Int /\ m[1] \in Int /\ m[2] \in Int
    BY <1>1, NodeIs
<1>3. \A t \in problem.target : t[1] \in 0..LatticeX /\ t[2] \in 0..LatticeY
    BY NodeIs DEF TargetOK
<1>4. xs # {} /\ ys # {} /\ xs \subseteq 0..LatticeX /\ ys \subseteq 0..LatticeY
    BY <1>3 DEF TargetOK
<1> HIDE DEF xs, ys
<1>5. /\ Min(xs) \in Int /\ Max(xs) \in Int /\ Min(xs) <= Max(xs)
      /\ Min(ys) \in Int /\ Max(ys) \in Int /\ Min(ys) <= Max(ys)
    BY <1>1, <1>4, NaturalExtremes
<1>6. \/ m[1] - n[1] \in {-1, 0, 1} /\ m[2] = n[2]
      \/ m[2] - n[2] \in {-1, 0, 1} /\ m[1] = n[1]
    <2>1. ASSUME NEW d \in 1..4, m = Beyond(n, d)
          PROVE  \/ m[1] - n[1] \in {-1, 1} /\ m[2] = n[2]
                 \/ m[2] - n[2] \in {-1, 1} /\ m[1] = n[1]
        <3>1. d = 1 \/ d = 2 \/ d = 3 \/ d = 4
            OBVIOUS
        <3> QED
            BY <2>1, <3>1, <1>2, BeyondSteps
    <2>2. CASE m = n
        BY <2>2, <1>2
    <2> QED
        BY <2>1, <2>2
<1>7. /\ Outside(Min(xs), Max(xs), n[1]) \in Nat /\ Outside(Min(ys), Max(ys), n[2]) \in Nat
      /\ Outside(Min(xs), Max(xs), m[1]) \in Nat /\ Outside(Min(ys), Max(ys), m[2]) \in Nat
    <2>1. n[1] - n[1] = 0 /\ n[2] - n[2] = 0 /\ m[1] - m[1] = 0 /\ m[2] - m[2] = 0
        BY <1>2
    <2> QED
        BY <2>1, <1>2, <1>5, OutsideChanges
<1>8. far(n) \in Nat /\ far(m) \in Nat /\ far(n) <= far(m) + 1
    <2>1. CASE m[1] - n[1] \in {-1, 0, 1} /\ m[2] = n[2]
        <3>1. Outside(Min(xs), Max(xs), n[1]) <= Outside(Min(xs), Max(xs), m[1]) + 1
            BY <2>1, <1>2, <1>5, OutsideChanges
        <3> QED
            BY <2>1, <3>1, <1>7
    <2>2. CASE m[2] - n[2] \in {-1, 0, 1} /\ m[1] = n[1]
        <3>1. Outside(Min(ys), Max(ys), n[2]) <= Outside(Min(ys), Max(ys), m[2]) + 1
            BY <2>2, <1>2, <1>5, OutsideChanges
        <3> QED
            BY <2>2, <3>1, <1>7
    <2> QED
        BY <1>6, <2>1, <2>2
<1>9. Heuristic(n) = far(n) * StepCost /\ Heuristic(m) = far(m) * StepCost
    BY DEF Heuristic, xs, ys
<1> HIDE DEF far
<1>10. /\ far(n) * StepCost \in Nat /\ far(m) * StepCost \in Nat
       /\ far(n) * StepCost <= (far(m) + 1) * StepCost
       /\ (far(m) + 1) * StepCost = far(m) * StepCost + StepCost
    <2>1. far(m) + 1 \in Nat
        BY <1>8
    <2> QED
        BY <2>1, <1>1, <1>8, Multiples
<1> QED
    BY <1>9, <1>10

LEMMA HeuristicAtTarget ==
    ASSUME TargetOK, NEW n \in problem.target
    PROVE  Heuristic(n) = 0
<1> DEFINE xs == {t[1] : t \in problem.target}
           ys == {t[2] : t \in problem.target}
<1>1. LatticeX \in Nat /\ LatticeY \in Nat /\ StepCost \in Nat
    BY SearchAssumption
<1>2. \A t \in problem.target : t[1] \in 0..LatticeX /\ t[2] \in 0..LatticeY
    BY NodeIs DEF TargetOK
<1>3. n[1] \in xs /\ n[2] \in ys /\ xs \subseteq 0..LatticeX /\ ys \subseteq 0..LatticeY
    BY <1>2
<1>4. Heuristic(n) = (Outside(Min(xs), Max(xs), n[1])
                        + Outside(Min(ys), Max(ys), n[2])) * StepCost
    BY DEF Heuristic
<1> HIDE DEF xs, ys
<1>5. /\ Min(xs) \in Int /\ Max(xs) \in Int /\ Min(xs) <= n[1] /\ n[1] <= Max(xs)
      /\ Min(ys) \in Int /\ Max(ys) \in Int /\ Min(ys) <= n[2] /\ n[2] <= Max(ys)
      /\ Min(xs) <= Max(xs) /\ Min(ys) <= Max(ys)
    <2>1. xs # {} /\ ys # {}
        BY <1>3
    <2> QED
        BY <2>1, <1>1, <1>3, NaturalExtremes
<1>6. n[1] \in Int /\ n[2] \in Int
    BY <1>1, <1>2
<1>7. Outside(Min(xs), Max(xs), n[1]) = 0 /\ Outside(Min(ys), Max(ys), n[2]) = 0
    <2>1. n[1] - n[1] = 0 /\ n[2] - n[2] = 0
        BY <1>6
    <2> QED
        BY <2>1, <1>5, <1>6, OutsideChanges
<1> QED
    BY <1>1, <1>4, <1>7

-----------------------------------------------------------------------------
(* The order of the heap is total: a key tells its entry, so there is one  *)
(* cheapest entry, and none is queued before it.                           *)

Pushed == [state : State, score : Score]

LEMMA StateIs ==
    ASSUME NEW s \in State
    PROVE  s = <<NodeOf(s), s[2]>> /\ NodeOf(s) \in Node /\ s[2] \in 1..5
BY NoDirectionIs DEF State, NodeOf

LEMMA KeyIs ==
    ASSUME TargetOK, NEW e \in Pushed
    PROVE  /\ HeapKey(e) \in [1..8 -> Int]
           /\ HeapKey(e)[1] = e.score[1] + Heuristic(NodeOf(e.state))
           /\ HeapKey(e)[2] = e.score[1] /\ HeapKey(e)[3] = e.score[2]
           /\ HeapKey(e)[4] = e.score[3] /\ HeapKey(e)[5] = e.score[4]
           /\ HeapKey(e)[6] = NodeOf(e.state)[2] /\ HeapKey(e)[7] = NodeOf(e.state)[1]
           /\ HeapKey(e)[8] = e.state[2]
<1> DEFINE n == NodeOf(e.state)
           h == Heuristic(n)
<1>1. n \in Node /\ e.state[2] \in Int /\ h \in Nat
    BY StateIs, HeuristicChanges DEF Pushed
<1>2. n[1] \in Int /\ n[2] \in Int
    BY <1>1, NodeIs, SearchAssumption
<1>3. e.score[1] \in Nat /\ e.score[2] \in Nat /\ e.score[3] \in Nat /\ e.score[4] \in Nat
    BY DEF Pushed, Score
<1>4. HeapKey(e) = <<e.score[1] + h, e.score[1], e.score[2], e.score[3],
                     e.score[4], n[2], n[1], e.state[2]>>
    BY DEF HeapKey
<1> HIDE DEF n, h
<1>5. e.score[1] + h \in Int
    BY <1>1, <1>3
<1>6. <<e.score[1] + h, e.score[1], e.score[2], e.score[3],
        e.score[4], n[2], n[1], e.state[2]>> \in [1..8 -> Int]
    BY <1>1, <1>2, <1>3, <1>5
<1> QED
    BY <1>4, <1>6 DEF n, h

LEMMA KeyTellsEntry ==
    ASSUME TargetOK, NEW e \in Pushed, NEW f \in Pushed, HeapKey(e) = HeapKey(f)
    PROVE  e = f
<1>1. /\ e.score[1] = f.score[1] /\ e.score[2] = f.score[2] /\ e.score[3] = f.score[3]
      /\ e.score[4] = f.score[4] /\ NodeOf(e.state)[2] = NodeOf(f.state)[2]
      /\ NodeOf(e.state)[1] = NodeOf(f.state)[1] /\ e.state[2] = f.state[2]
    BY KeyIs
<1>2. e.score = f.score
    <2>1. /\ e.score = <<e.score[1], e.score[2], e.score[3], e.score[4]>>
          /\ f.score = <<f.score[1], f.score[2], f.score[3], f.score[4]>>
        BY DEF Pushed, Score
    <2> QED
        BY <1>1, <2>1
<1>3. e.state = f.state
    <2>1. e.state \in State /\ f.state \in State
        BY DEF Pushed
    <2>2. NodeOf(e.state) = NodeOf(f.state)
        BY <1>1, <2>1, StateIs, NodeIs
    <2> QED
        BY <1>1, <2>1, <2>2, StateIs
<1> QED
    BY <1>2, <1>3 DEF Pushed

LEMMA CheapestIs ==
    ASSUME TargetOK, frontier \subseteq Pushed, IsFiniteSet(frontier), frontier # {}
    PROVE  /\ Cheapest \in frontier
           /\ \A f \in frontier : ~LexLess(HeapKey(f), HeapKey(Cheapest))
<1> DEFINE R == {p \in frontier \X frontier : LexLess(HeapKey(p[1]), HeapKey(p[2]))}
           Keyed(f) == [key |-> HeapKey(f), entry |-> f]
           keyed == {Keyed(f) : f \in frontier}
           a == CHOOSE x \in keyed : \A y \in keyed \ {x} : LexLess(x.key, y.key)
<1>1. /\ \A f \in frontier : HeapKey(f) \in [1..8 -> Int]
      /\ \A f, g \in frontier : HeapKey(f) = HeapKey(g) => f = g
    BY KeyIs, KeyTellsEntry
<1>2. \A f, g \in frontier : <<f, g>> \in R <=> LexLess(HeapKey(f), HeapKey(g))
    OBVIOUS
<1> HIDE DEF R
<1>3. \A f, g, h \in frontier : <<f, g>> \in R /\ <<g, h>> \in R => <<f, h>> \in R
    <2> SUFFICES ASSUME NEW f \in frontier, NEW g \in frontier, NEW h \in frontier,
                        LexLess(HeapKey(f), HeapKey(g)), LexLess(HeapKey(g), HeapKey(h))
                 PROVE  LexLess(HeapKey(f), HeapKey(h))
        BY <1>2
    <2> QED
        BY <1>1, LexOrder, 8 \in Nat
<1>4. \A f, g \in frontier : f = g \/ <<f, g>> \in R \/ <<g, f>> \in R
    <2> SUFFICES ASSUME NEW f \in frontier, NEW g \in frontier
                 PROVE  f = g \/ LexLess(HeapKey(f), HeapKey(g))
                              \/ LexLess(HeapKey(g), HeapKey(f))
        BY <1>2
    <2> QED
        BY <1>1, LexOrder, 8 \in Nat
<1>5. PICK f \in frontier : \A g \in frontier : f = g \/ <<f, g>> \in R
    BY <1>3, <1>4, LeastExists
<1>6. \A x \in keyed : x.entry \in frontier /\ x.key = HeapKey(x.entry)
                         /\ x = Keyed(x.entry)
    OBVIOUS
<1>7. \A g \in frontier : Keyed(g) \in keyed /\ Keyed(g).key = HeapKey(g)
    OBVIOUS
<1>8. Cheapest = a.entry
    BY DEF Cheapest
<1> HIDE DEF keyed, Keyed
<1>9. \E x \in keyed : \A y \in keyed \ {x} : LexLess(x.key, y.key)
    <2>1. ASSUME NEW y \in keyed \ {Keyed(f)} PROVE LexLess(Keyed(f).key, y.key)
        <3>1. y.entry # f /\ y.entry \in frontier
            BY <1>6, <2>1
        <3>2. LexLess(HeapKey(f), HeapKey(y.entry))
            BY <3>1, <1>2, <1>5
        <3> QED
            BY <3>2, <1>6, <1>7, <2>1
    <2> QED
        BY <2>1, <1>7
<1>10. a \in keyed /\ \A y \in keyed \ {a} : LexLess(a.key, y.key)
    BY <1>9
<1> HIDE DEF a
<1>11. ASSUME NEW g \in frontier, LexLess(HeapKey(g), HeapKey(a.entry)) PROVE FALSE
    <2>1. Keyed(g) \in keyed /\ a.entry \in frontier /\ a.key = HeapKey(a.entry)
        BY <1>6, <1>7, <1>10
    <2>2. Keyed(g) # a => LexLess(HeapKey(a.entry), HeapKey(g))
        BY <2>1, <1>7, <1>10
    <2>3. Keyed(g) = a => HeapKey(a.entry) = HeapKey(g)
        BY <2>1, <1>7
    <2> QED
        BY <1>1, <1>11, <2>1, <2>2, <2>3, LexOrder, 8 \in Nat
<1> QED
    BY <1>6, <1>8, <1>10, <1>11

(* What comes no later is cheaper by its estimate, or as cheap and its     *)
(* score is no worse.                                                      *)
LEMMA KeyOrder ==
    ASSUME TargetOK, NEW e \in Pushed, NEW f \in Pushed, ~LexLess(HeapKey(f), HeapKey(e))
    PROVE  LET total(g) == g.score[1] + Heuristic(NodeOf(g.state))
           IN  \/ total(e) < total(f)
               \/ total(e) = total(f) /\ NoWorse(e.score, f.score)
<1> DEFINE a == HeapKey(e)
           b == HeapKey(f)
           total(g) == g.score[1] + Heuristic(NodeOf(g.state))
<1>1. /\ a[1] = total(e) /\ b[1] = total(f) /\ DOMAIN b = 1..8
      /\ a[1] \in Int /\ b[1] \in Int
      /\ \A i \in 1..4 : a[i + 1] = e.score[i] /\ b[i + 1] = f.score[i]
    <2>1. /\ a[1] = total(e) /\ b[1] = total(f) /\ DOMAIN b = 1..8
          /\ a[1] \in Int /\ b[1] \in Int
        BY KeyIs
    <2>2. /\ a[2] = e.score[1] /\ a[3] = e.score[2]
          /\ a[4] = e.score[3] /\ a[5] = e.score[4]
        BY KeyIs
    <2>3. /\ b[2] = f.score[1] /\ b[3] = f.score[2]
          /\ b[4] = f.score[3] /\ b[5] = f.score[4]
        BY KeyIs
    <2> HIDE DEF a, b, total
    <2>4. ASSUME NEW i \in 1..4 PROVE a[i + 1] = e.score[i] /\ b[i + 1] = f.score[i]
        <3>1. i = 1 \/ i = 2 \/ i = 3 \/ i = 4
            OBVIOUS
        <3>2. 1 + 1 = 2 /\ 2 + 1 = 3 /\ 3 + 1 = 4 /\ 4 + 1 = 5
            OBVIOUS
        <3> QED
            BY <3>1, <3>2, <2>2, <2>3
    <2> QED
        BY <2>1, <2>4
<1>2. ~LexLess(b, a)
    OBVIOUS
<1> HIDE DEF a, b, total
<1>3. \A i \in 1..8 : ~(b[i] < a[i] /\ \A j \in 1..(i - 1) : b[j] = a[j])
    BY <1>1, <1>2 DEF LexLess
<1>4. ~(b[1] < a[1])
    BY <1>3
<1>5. ASSUME a[1] = b[1], LexLess(f.score, e.score) PROVE FALSE
    <2>1. PICK i \in 1..4 : /\ f.score[i] < e.score[i]
                            /\ \A j \in 1..(i - 1) : f.score[j] = e.score[j]
        BY <1>5 DEF LexLess, Pushed, Score
    <2>2. b[i + 1] < a[i + 1]
        BY <1>1, <2>1
    <2>3. ASSUME NEW j \in 1..((i + 1) - 1) PROVE b[j] = a[j]
        <3>1. CASE j = 1
            BY <1>5, <3>1
        <3>2. CASE j # 1
            <4>1. j - 1 \in 1..(i - 1) /\ j - 1 \in 1..4 /\ (j - 1) + 1 = j
                BY <3>2
            <4>2. f.score[j - 1] = e.score[j - 1]
                BY <2>1, <4>1
            <4>3. a[(j - 1) + 1] = e.score[j - 1] /\ b[(j - 1) + 1] = f.score[j - 1]
                BY <1>1, <4>1
            <4> QED
                BY <4>1, <4>2, <4>3
        <3> QED
            BY <3>1, <3>2
    <2>4. i + 1 \in 1..8
        OBVIOUS
    <2> QED
        BY <1>3, <2>2, <2>3, <2>4
<1> QED
    BY <1>1, <1>4, <1>5 DEF NoWorse, total

-----------------------------------------------------------------------------
(* The inductive invariant.                                                *)

ProblemOK ==
    /\ problem.legal \subseteq Edges
    /\ problem.source \subseteq Node /\ problem.source # {}
    /\ TargetOK

Onward(s, d) == <<Beyond(NodeOf(s), d), d>>
Open(s, d) == {NodeOf(s), Beyond(NodeOf(s), d)} \in problem.legal
Stepped(score, s, d) == Raised(score, s, d, Beyond(NodeOf(s), d))

Queued(s) == [state |-> s, score |-> scores[s]] \in frontier

(* What an expanded state has done for those next to it.                   *)
Settled(s) ==
    /\ NodeOf(s) \notin problem.target
    /\ \A d \in 1..4 : Open(s, d) =>
          /\ Onward(s, d) \in DOMAIN scores
          /\ NoWorse(scores[Onward(s, d)], Stepped(scores[s], s, d))

(* A state is a step from its parent, and no better than that step is now. *)
Reaches(p, s) ==
    /\ p \in DOMAIN scores
    /\ s[2] \in 1..4 /\ s = Onward(p, s[2]) /\ Open(p, s[2])
    /\ NoWorse(Stepped(scores[p], p, s[2]), scores[s])

SearchShape ==
    /\ frontier \subseteq Pushed /\ IsFiniteSet(frontier)
    /\ DOMAIN scores \subseteq State
    /\ scores = [s \in DOMAIN scores |-> scores[s]]
    /\ \A s \in DOMAIN scores : scores[s] \in Score
    /\ DOMAIN parents = DOMAIN scores \ Starts
    /\ expanded \in 0..MaxExpansions
    /\ leg.status \in {"searching", "found", "search_budget", "no_path", "stopped"}

Ahead ==
    /\ \A e \in frontier : e.state \in DOMAIN scores /\ NoWorse(scores[e.state], e.score)
    /\ \A s \in Starts : s \in DOMAIN scores /\ scores[s] = NoScore
    /\ \A s \in DOMAIN scores : Queued(s) \/ Settled(s)
    /\ \A s \in DOMAIN parents : Reaches(parents[s], s)

RouteInv ==
    /\ ProblemOK /\ SearchShape
    /\ leg.status = "searching" => Ahead
    /\ SearchIsShortest

LEMMA ImageIsFinite ==
    ASSUME NEW f, IsFiniteSet(DOMAIN f)
    PROVE  IsFiniteSet({f[x] : x \in DOMAIN f})
<1> DEFINE T == {f[x] : x \in DOMAIN f}
           g == [x \in DOMAIN f |-> f[x]]
<1>1. g \in Surjection(DOMAIN f, T)
    BY DEF Surjection
<1> QED
    BY <1>1, FS_Surjection

LEMMA SteppedIs ==
    ASSUME NEW score \in Score, NEW s, NEW d
    PROVE  /\ Stepped(score, s, d) \in Score
           /\ Stepped(score, s, d)[1] >= score[1] + StepCost
           /\ \A i \in 1..4 : Stepped(score, s, d)[i] >= score[i]
<1> DEFINE next == Beyond(NodeOf(s), d)
           cost == Raised(NoScore, s, d, next)
<1>1. /\ cost \in Score /\ cost[1] >= StepCost
      /\ Stepped(score, s, d) \in Score
      /\ \A i \in 1..4 : Stepped(score, s, d)[i] = score[i] + cost[i]
    BY RaisedAdds DEF Stepped
<1> HIDE DEF cost
<1>2. \A i \in 1..4 : score[i] \in Nat /\ cost[i] \in Nat
    BY <1>1 DEF Score
<1>3. StepCost \in Nat
    BY SearchAssumption
<1>4. \A i \in 1..4 : Stepped(score, s, d)[i] >= score[i]
    BY <1>1, <1>2
<1>5. score[1] + cost[1] >= score[1] + StepCost
    <2>1. score[1] \in Nat /\ cost[1] \in Nat
        BY <1>2
    <2> QED
        BY <2>1, <1>1, <1>3
<1> QED
    BY <1>1, <1>4, <1>5

LEMMA StartsAreStates ==
    ASSUME ProblemOK
    PROVE  /\ Starts \subseteq State /\ Starts # {}
           /\ \A s \in Starts : s[2] = 5 /\ NodeOf(s) \in problem.source
           /\ \A n \in problem.source : <<n, 5>> \in Starts
<1>1. Starts = {<<n, 5>> : n \in problem.source}
    BY NoDirectionIs DEF Starts
<1>2. State = Node \X (1..5)
    BY NoDirectionIs DEF State
<1>3. \A s \in Starts : s[2] = 5 /\ s[1] \in problem.source /\ s = <<s[1], 5>>
    BY <1>1
<1>4. \A n \in problem.source : n \in Node /\ <<n, 5>> \in Starts
    BY <1>1 DEF ProblemOK
<1>5. \A n \in Node : <<n, 5>> \in State
    BY <1>2
<1> QED
    BY <1>3, <1>4, <1>5 DEF ProblemOK, NodeOf

LEMMA NodeIsFinite == IsFiniteSet(Node) /\ IsFiniteSet(State)
<1>1. IsFiniteSet(0..LatticeX) /\ IsFiniteSet(0..LatticeY) /\ IsFiniteSet(1..5)
    <2>1. /\ 0 \in Int /\ 1 \in Int /\ 5 \in Int
          /\ LatticeX \in Int /\ LatticeY \in Int
        BY SearchAssumption
    <2> QED
        BY <2>1, FS_Interval
<1>2. IsFiniteSet(Node)
    BY <1>1, FS_Product DEF Node
<1> QED
    BY <1>1, <1>2, FS_Product, NoDirectionIs DEF State

LEMMA SearchInitInv ==
    ASSUME SearchInit PROVE RouteInv
<1>1. ProblemOK
    <2>1. /\ problem.legal \in {Edges \ blocked : blocked \in UpTo(MaxBlocked, Edges)}
          /\ problem.source \in Sources /\ problem.target \in Targets
        BY DEF SearchInit
    <2>2. problem.legal \subseteq Edges
        BY <2>1
    <2> QED
        BY <2>1, <2>2, SearchAssumption DEF ProblemOK, TargetOK, Node
<1>2. NoScore \in Score
    BY DEF NoScore, Score
<1>3. SearchShape
    <2>1. /\ frontier = {[state |-> s, score |-> NoScore] : s \in Starts}
          /\ scores = [s \in Starts |-> NoScore]
          /\ parents = [s \in {} |-> s] /\ expanded = 0
          /\ leg.status = "searching"
        BY DEF SearchInit, Leg
    <2>2. frontier \subseteq Pushed
        BY <2>1, <1>1, <1>2, StartsAreStates DEF Pushed
    <2>3. IsFiniteSet(frontier)
        <3> DEFINE f == [s \in Starts |-> [state |-> s, score |-> NoScore]]
        <3>1. IsFiniteSet(Starts)
            BY <1>1, StartsAreStates, NodeIsFinite, FS_Subset
        <3>2. frontier = {f[s] : s \in DOMAIN f} /\ DOMAIN f = Starts
            BY <2>1
        <3> HIDE DEF f
        <3> QED
            BY <3>1, <3>2, ImageIsFinite
    <2>4. expanded \in 0..MaxExpansions
        BY <2>1, SearchAssumption
    <2>5. DOMAIN scores = Starts /\ DOMAIN parents = {}
        BY <2>1
    <2> QED
        BY <2>1, <2>2, <2>3, <2>4, <2>5, <1>1, <1>2, StartsAreStates DEF SearchShape
<1>4. Ahead
    <2>1. /\ frontier = {[state |-> s, score |-> NoScore] : s \in Starts}
          /\ DOMAIN scores = Starts /\ DOMAIN parents = {}
          /\ \A s \in Starts : scores[s] = NoScore
        BY DEF SearchInit
    <2>2. NoWorse(NoScore, NoScore)
        BY <1>2, NoWorseOrder
    <2>3. \A s \in DOMAIN scores : Queued(s)
        BY <2>1 DEF Queued
    <2> QED
        BY <2>1, <2>2, <2>3 DEF Ahead
<1>5. SearchIsShortest
    BY DEF SearchInit, SearchIsShortest, Leg
<1> QED
    BY <1>1, <1>3, <1>4, <1>5 DEF RouteInv

(* Expanding, in terms of the states that are reached better than before.  *)
LEMMA ExpandIs ==
    ASSUME ProblemOK, NEW e \in Pushed, Expand(e)
    PROVE  \E states \in SUBSET State :
              /\ IsFiniteSet(states)
              /\ \A s \in states :
                    /\ s[2] \in 1..4 /\ s = Onward(e.state, s[2]) /\ Open(e.state, s[2])
                    /\ Improves(Stepped(e.score, e.state, s[2]), s)
              /\ \A d \in 1..4 : Open(e.state, d) =>
                    \/ Onward(e.state, d) \in states
                    \/ ~Improves(Stepped(e.score, e.state, d), Onward(e.state, d))
              /\ frontier' = (frontier \ {e}) \cup
                    {[state |-> s, score |-> Stepped(e.score, e.state, s[2])] : s \in states}
              /\ scores' = [s \in DOMAIN scores \cup states |->
                              IF s \in states THEN Stepped(e.score, e.state, s[2])
                              ELSE scores[s]]
              /\ parents' = [s \in DOMAIN parents \cup states |->
                               IF s \in states THEN e.state ELSE parents[s]]
<1> DEFINE n == NodeOf(e.state)
           dirs == {c \in 1..4 : {n, Beyond(n, c)} \in problem.legal}
           moves == {[state |-> <<Beyond(n, d), d>>,
                      score |-> Raised(e.score, e.state, d, Beyond(n, d))] : d \in dirs}
           reached == {r \in moves : Improves(r.score, r.state)}
           states == {r.state : r \in reached}
           ScoreOf(s) == (CHOOSE r \in reached : r.state = s).score
           Move(d) == [state |-> Onward(e.state, d), score |-> Stepped(e.score, e.state, d)]
<1>1. \A d \in 1..4 : d \in dirs <=> Open(e.state, d)
    BY DEF Open
<1>2. moves = {Move(d) : d \in dirs}
    BY DEF Onward, Stepped
<1> HIDE DEF moves
<1>3. \A r \in reached : \E d \in 1..4 :
         r = Move(d) /\ Open(e.state, d) /\ r.state[2] = d /\ r \in moves
                     /\ Improves(r.score, r.state)
    <2>1. \A r \in reached : r \in moves /\ Improves(r.score, r.state)
        OBVIOUS
    <2>2. \A d \in 1..4 : Move(d).state[2] = d
        BY DEF Onward
    <2> HIDE DEF reached, dirs
    <2> SUFFICES ASSUME NEW r \in reached
                 PROVE  \E d \in 1..4 :
                           r = Move(d) /\ Open(e.state, d) /\ r.state[2] = d /\ r \in moves
                                       /\ Improves(r.score, r.state)
        OBVIOUS
    <2>3. r \in moves /\ Improves(r.score, r.state)
        BY <2>1
    <2> HIDE DEF Move
    <2>4. PICK d \in dirs : r = Move(d)
        BY <1>2, <2>3
    <2>5. d \in 1..4
        BY DEF dirs
    <2> QED
        BY <1>1, <2>2, <2>3, <2>4, <2>5
<1>4. \A d \in 1..4 : Open(e.state, d) =>
         Move(d) \in reached \/ ~Improves(Stepped(e.score, e.state, d), Onward(e.state, d))
    <2>1. \A d \in 1..4 : Open(e.state, d) => Move(d) \in moves
        BY <1>1, <1>2
    <2> QED
        BY <2>1
<1> HIDE DEF reached
<1>5. \A s \in states :
         /\ s[2] \in 1..4 /\ s = Onward(e.state, s[2]) /\ Open(e.state, s[2])
         /\ Improves(Stepped(e.score, e.state, s[2]), s)
         /\ Move(s[2]) \in reached /\ ScoreOf(s) = Stepped(e.score, e.state, s[2])
    <2> SUFFICES ASSUME NEW s \in states
                 PROVE  /\ s[2] \in 1..4 /\ s = Onward(e.state, s[2]) /\ Open(e.state, s[2])
                        /\ Improves(Stepped(e.score, e.state, s[2]), s)
                        /\ Move(s[2]) \in reached
                        /\ ScoreOf(s) = Stepped(e.score, e.state, s[2])
        OBVIOUS
    <2>1. PICK r \in reached : r.state = s
        OBVIOUS
    <2>2. \A q \in reached : q.state = s => q = Move(s[2])
        BY <1>3
    <2>3. r = Move(s[2]) /\ s[2] \in 1..4 /\ Open(e.state, s[2]) /\ Improves(r.score, r.state)
        BY <1>3, <2>1
    <2>4. (CHOOSE q \in reached : q.state = s) = Move(s[2])
        BY <2>1, <2>2
    <2>5. /\ Move(s[2]).state = Onward(e.state, s[2])
          /\ Move(s[2]).score = Stepped(e.score, e.state, s[2])
        OBVIOUS
    <2>6. ScoreOf(s) = Move(s[2]).score
        BY <2>4
    <2> HIDE DEF Move, ScoreOf, states
    <2> QED
        BY <2>1, <2>3, <2>5, <2>6
<1>6. \A d \in 1..4 : Move(d) \in reached => Onward(e.state, d) \in states
    <2>1. \A r \in reached : r.state \in states
        OBVIOUS
    <2> QED
        BY <2>1
<1>7. states \subseteq State
    <2>1. ASSUME NEW s \in states PROVE s \in State
        <3>1. Beyond(n, s[2]) \in Node /\ s = <<Beyond(n, s[2]), s[2]>> /\ s[2] \in 1..4
            <4>1. {n, Beyond(n, s[2])} \in Edges
                BY <1>5, <2>1 DEF Open, ProblemOK
            <4> QED
                BY <4>1, <1>5, <2>1, EdgeIsStep DEF Onward
        <3> HIDE DEF states
        <3> QED
            BY <3>1, NoDirectionIs DEF State
    <2> QED
        BY <2>1
<1>8. IsFiniteSet(states)
    BY <1>7, NodeIsFinite, FS_Subset
<1>9. reached = {[state |-> s, score |-> Stepped(e.score, e.state, s[2])] : s \in states}
    <2>1. \A s \in states :
             [state |-> s, score |-> Stepped(e.score, e.state, s[2])] \in reached
        BY <1>5
    <2>2. \A r \in reached : /\ r.state \in states
                             /\ r = [state |-> r.state,
                                     score |-> Stepped(e.score, e.state, r.state[2])]
        BY <1>3
    <2> HIDE DEF states
    <2> QED
        BY <2>1, <2>2
<1>10. /\ frontier' = (frontier \ {e}) \cup reached
       /\ scores' = [s \in DOMAIN scores \cup states |->
                       IF s \in states THEN ScoreOf(s) ELSE scores[s]]
       /\ parents' = [s \in DOMAIN parents \cup states |->
                        IF s \in states THEN e.state ELSE parents[s]]
    BY DEF Expand, reached, moves
<1> HIDE DEF states, ScoreOf
<1>11. scores' = [s \in DOMAIN scores \cup states |->
                    IF s \in states THEN Stepped(e.score, e.state, s[2]) ELSE scores[s]]
    BY <1>5, <1>10
<1>12. \A d \in 1..4 : Open(e.state, d) =>
          \/ Onward(e.state, d) \in states
          \/ ~Improves(Stepped(e.score, e.state, d), Onward(e.state, d))
    BY <1>4, <1>6
<1>13. frontier' = (frontier \ {e}) \cup
             {[state |-> s, score |-> Stepped(e.score, e.state, s[2])] : s \in states}
    BY <1>9, <1>10
<1> states \in SUBSET State
    BY <1>7
<1> WITNESS states \in SUBSET State
<1> QED
    BY <1>5, <1>8, <1>10, <1>11, <1>12, <1>13

LEMMA ProblemIsFixed ==
    ASSUME ProblemOK, problem' = problem
    PROVE  ProblemOK'
BY DEF ProblemOK, TargetOK

(* Expanding a state settles it and queues what it improves; what was      *)
(* settled stays so, since scores only get better.                         *)
LEMMA ExpandKeepsAhead ==
    ASSUME ProblemOK, SearchShape, Ahead, NEW e \in frontier, Expand(e)
    PROVE  SearchShape' /\ Ahead'
<1>1. /\ e \in Pushed /\ e.state \in DOMAIN scores /\ e.state \in State /\ e.score \in Score
      /\ scores[e.state] = e.score /\ NodeOf(e.state) \notin problem.target
      /\ expanded < MaxExpansions /\ expanded' = expanded + 1
      /\ problem' = problem /\ leg' = leg
    BY DEF SearchShape, Ahead, Pushed, Expand, Continues, Fresh
<1>2. PICK states \in SUBSET State :
              /\ IsFiniteSet(states)
              /\ \A s \in states :
                    /\ s[2] \in 1..4 /\ s = Onward(e.state, s[2]) /\ Open(e.state, s[2])
                    /\ Improves(Stepped(e.score, e.state, s[2]), s)
              /\ \A d \in 1..4 : Open(e.state, d) =>
                    \/ Onward(e.state, d) \in states
                    \/ ~Improves(Stepped(e.score, e.state, d), Onward(e.state, d))
              /\ frontier' = (frontier \ {e}) \cup
                    {[state |-> s, score |-> Stepped(e.score, e.state, s[2])] : s \in states}
              /\ scores' = [s \in DOMAIN scores \cup states |->
                              IF s \in states THEN Stepped(e.score, e.state, s[2])
                              ELSE scores[s]]
              /\ parents' = [s \in DOMAIN parents \cup states |->
                               IF s \in states THEN e.state ELSE parents[s]]
    BY <1>1, ExpandIs
<1> DEFINE new == {[state |-> s, score |-> Stepped(e.score, e.state, s[2])] : s \in states}
<1>3. e.state \notin states
    <2>1. Beyond(NodeOf(e.state), e.state[2]) # NodeOf(e.state) \/ e.state[2] \notin 1..4
        BY <1>1, StateIs, DirectionsDiffer
    <2>2. NodeOf(Onward(e.state, e.state[2])) = Beyond(NodeOf(e.state), e.state[2])
        BY DEF NodeOf, Onward
    <2> QED
        BY <1>2, <2>1, <2>2
<1>4. Starts \cap states = {}
    BY <1>2, StartsAreStates
<1>5. \A s \in states : Stepped(e.score, e.state, s[2]) \in Score
    BY <1>1, SteppedIs
<1>6. /\ DOMAIN scores' = DOMAIN scores \cup states
      /\ \A s \in states : scores'[s] = Stepped(e.score, e.state, s[2])
      /\ \A s \in DOMAIN scores \ states : scores'[s] = scores[s]
    BY <1>2
<1>7. /\ DOMAIN parents' = DOMAIN parents \cup states
      /\ \A s \in states : parents'[s] = e.state
      /\ \A s \in DOMAIN parents \ states : parents'[s] = parents[s]
    BY <1>2
<1>8. \A s \in DOMAIN scores' : scores'[s] \in Score /\ s \in State
    BY <1>5, <1>6 DEF SearchShape
<1>9. SearchShape'
    <2>1. frontier' \subseteq Pushed
        <3>1. new \subseteq Pushed
            BY <1>5 DEF Pushed
        <3> QED
            BY <3>1, <1>2 DEF SearchShape
    <2>2. IsFiniteSet(frontier')
        <3> DEFINE f == [s \in states |->
                           [state |-> s, score |-> Stepped(e.score, e.state, s[2])]]
        <3>1. new = {f[s] : s \in DOMAIN f} /\ DOMAIN f = states
            OBVIOUS
        <3> HIDE DEF f, new
        <3>2. IsFiniteSet(new)
            BY <1>2, <3>1, ImageIsFinite
        <3>3. IsFiniteSet(frontier \ {e})
            BY FS_Subset DEF SearchShape
        <3> QED
            BY <1>2, <3>2, <3>3, FS_Union DEF new
    <2>3. DOMAIN parents' = DOMAIN scores' \ Starts'
        <3>1. Starts' = Starts
            BY <1>1 DEF Starts
        <3>2. DOMAIN parents = DOMAIN scores \ Starts
            BY DEF SearchShape
        <3> QED
            BY <3>1, <3>2, <1>4, <1>6, <1>7
    <2>4. expanded' \in 0..MaxExpansions
        BY <1>1, SearchAssumption DEF SearchShape
    <2>5. scores' = [s \in DOMAIN scores' |-> scores'[s]]
        <3>1. scores' = [s \in DOMAIN scores \cup states |->
                           IF s \in states THEN Stepped(e.score, e.state, s[2]) ELSE scores[s]]
            BY <1>2
        <3> QED
            BY <3>1
    <2>6. leg'.status = leg.status
        BY <1>1
    <2> QED
        BY <2>1, <2>2, <2>3, <2>4, <2>5, <2>6, <1>8 DEF SearchShape
<1>10. \A s \in DOMAIN scores : NoWorse(scores'[s], scores[s]) /\ s \in DOMAIN scores'
    <2> SUFFICES ASSUME NEW s \in DOMAIN scores PROVE NoWorse(scores'[s], scores[s])
        BY <1>6
    <2>1. scores[s] \in Score
        BY DEF SearchShape
    <2>2. CASE s \in states
        <3>1. LexLess(scores'[s], scores[s])
            BY <1>2, <1>6, <2>2 DEF Improves
        <3> QED
            BY <3>1, <2>1, <1>6, <1>8, NoWorseOrder
    <2>3. CASE s \notin states
        BY <1>6, <2>1, <2>3, NoWorseOrder
    <2> QED
        BY <2>2, <2>3
<1>11. ASSUME NEW f \in frontier'
       PROVE  f.state \in DOMAIN scores' /\ NoWorse(scores'[f.state], f.score)
    <2>1. CASE f \in frontier
        <3>1. /\ f.state \in DOMAIN scores /\ NoWorse(scores[f.state], f.score)
              /\ f.score \in Score /\ scores[f.state] \in Score
            BY <2>1 DEF Ahead, SearchShape, Pushed
        <3> QED
            BY <3>1, <1>8, <1>10, NoWorseOrder
    <2>2. CASE f \in new
        <3>1. f.state \in states /\ f.score = Stepped(e.score, e.state, f.state[2])
            BY <2>2
        <3> QED
            BY <3>1, <1>5, <1>6, NoWorseOrder
    <2> QED
        BY <2>1, <2>2, <1>2
<1>12. ASSUME NEW s \in Starts PROVE s \in DOMAIN scores' /\ scores'[s] = NoScore
    BY <1>4, <1>6, <1>12 DEF Ahead
<1>13. ASSUME NEW s \in DOMAIN scores' PROVE Queued(s)' \/ Settled(s)'
    <2>1. CASE s \in states
        <3>1. [state |-> s, score |-> scores'[s]] \in new
            BY <2>1, <1>6
        <3> QED
            BY <3>1, <1>2 DEF Queued
    <2>2. CASE s = e.state
        <3>1. ASSUME NEW d \in 1..4, Open(s, d)
              PROVE  /\ Onward(s, d) \in DOMAIN scores'
                     /\ NoWorse(scores'[Onward(s, d)], Stepped(scores'[s], s, d))
            <4>1. scores'[s] = e.score
                BY <1>1, <1>3, <1>6, <2>2
            <4>2. Onward(s, d)[2] = d
                BY DEF Onward
            <4>3. Stepped(e.score, s, d) \in Score
                BY <1>1, SteppedIs
            <4>4. CASE Onward(s, d) \in states
                <5>1. scores'[Onward(s, d)] = Stepped(e.score, s, d)
                    BY <1>6, <2>2, <4>2, <4>4
                <5> QED
                    BY <5>1, <1>6, <4>1, <4>3, <4>4, NoWorseOrder
            <4>5. CASE Onward(s, d) \notin states
                <5>1. /\ Onward(s, d) \in DOMAIN scores
                      /\ ~LexLess(Stepped(e.score, s, d), scores[Onward(s, d)])
                    BY <1>2, <2>2, <3>1, <4>5 DEF Improves
                <5> QED
                    BY <5>1, <1>6, <4>1, <4>5 DEF NoWorse
            <4> QED
                BY <4>4, <4>5
        <3> QED
            BY <3>1, <1>1, <2>2 DEF Settled, Open, Onward, Stepped, Raised
    <2>3. CASE s \notin states /\ s # e.state
        <3>1. s \in DOMAIN scores /\ scores'[s] = scores[s]
            BY <1>6, <2>3
        <3>2. CASE Queued(s)
            <4>1. [state |-> s, score |-> scores[s]] # e
                BY <2>3
            <4> QED
                BY <4>1, <3>1, <3>2, <1>2 DEF Queued
        <3>3. CASE Settled(s)
            <4>1. ASSUME NEW d \in 1..4, Open(s, d)
                  PROVE  /\ Onward(s, d) \in DOMAIN scores'
                         /\ NoWorse(scores'[Onward(s, d)], Stepped(scores'[s], s, d))
                <5>1. /\ Onward(s, d) \in DOMAIN scores
                      /\ NoWorse(scores[Onward(s, d)], Stepped(scores[s], s, d))
                    BY <3>3, <4>1 DEF Settled
                <5>2. scores[s] \in Score /\ scores[Onward(s, d)] \in Score
                    BY <3>1, <5>1 DEF SearchShape
                <5>3. Stepped(scores[s], s, d) \in Score
                    BY <5>2, SteppedIs
                <5> QED
                    BY <3>1, <5>1, <5>2, <5>3, <1>8, <1>10, NoWorseOrder
            <4> QED
                BY <4>1, <1>1, <3>3 DEF Settled, Open, Onward, Stepped, Raised
        <3> QED
            BY <3>1, <3>2, <3>3 DEF Ahead
    <2> QED
        BY <2>1, <2>2, <2>3
<1>14. ASSUME NEW s \in DOMAIN parents' PROVE Reaches(parents[s], s)'
    <2> DEFINE p == parents'[s]
    <2>1. CASE s \in states
        <3>1. /\ p = e.state /\ scores'[p] = e.score /\ p \in DOMAIN scores'
              /\ scores'[s] = Stepped(e.score, p, s[2]) /\ scores'[s] \in Score
            BY <2>1, <1>1, <1>3, <1>5, <1>6, <1>7
        <3>2. NoWorse(Stepped(scores'[p], p, s[2]), scores'[s])
            BY <3>1, NoWorseOrder
        <3>3. s[2] \in 1..4 /\ s = Onward(p, s[2]) /\ Open(p, s[2])
            BY <3>1, <2>1, <1>2
        <3> QED
            BY <3>1, <3>2, <3>3, <1>1 DEF Reaches, Open, Onward, Stepped, Raised
    <2>2. CASE s \notin states
        <3>1. /\ s \in DOMAIN parents /\ p = parents[s] /\ s \in DOMAIN scores
              /\ scores'[s] = scores[s]
            BY <2>2, <1>6, <1>7 DEF SearchShape
        <3>2. Reaches(p, s)
            BY <3>1 DEF Ahead
        <3>3. /\ p \in DOMAIN scores /\ p \in DOMAIN scores' /\ scores[p] \in Score
              /\ scores'[p] \in Score /\ scores[s] \in Score
              /\ NoWorse(scores'[p], scores[p])
            BY <3>1, <3>2, <1>8, <1>10 DEF Reaches, SearchShape
        <3> HIDE DEF p
        <3>4. NoWorse(Stepped(scores'[p], p, s[2]), Stepped(scores[p], p, s[2]))
            BY <3>3, RaisedKeepsOrder DEF Stepped
        <3>5. NoWorse(Stepped(scores[p], p, s[2]), scores[s])
            BY <3>2 DEF Reaches
        <3>6. Stepped(scores'[p], p, s[2]) \in Score /\ Stepped(scores[p], p, s[2]) \in Score
            BY <3>3, SteppedIs
        <3>7. NoWorse(Stepped(scores'[p], p, s[2]), scores'[s])
            BY <3>1, <3>3, <3>4, <3>5, <3>6, NoWorseOrder
        <3> QED
            BY <3>2, <3>3, <3>7, <1>1 DEF Reaches, Open, Onward, Stepped, Raised, p
    <2> QED
        BY <2>1, <2>2
<1>15. Starts' = Starts
    BY <1>1 DEF Starts
<1> QED
    BY <1>9, <1>11, <1>12, <1>13, <1>14, <1>15 DEF Ahead

-----------------------------------------------------------------------------
(* Walks, state by state and score by score.                               *)

LegalRoute(route, n) ==
    /\ n \in Nat \ {0} /\ route \in [1..n -> Node]
    /\ route[1] \in problem.source
    /\ \A i \in 2..n : {route[i - 1], route[i]} \in problem.legal

(* The state a walk is in at its i-th node, and its score up to the k-th.  *)
Along(route, i) == <<route[i], IF i = 1 THEN NoDirection ELSE Heading(route, i)>>

PrefixScore(route, k) ==
    LET bends == Cardinality({i \in 3..k : Heading(route, i) # Heading(route, i - 1)})
        Entered(marked) == Cardinality({i \in 2..k : route[i] \in marked})
        cost == (k - 1) * StepCost + bends * BendPenalty
                  + Entered(problem.near) * ProximityPenalty
    IN  <<cost + Entered(problem.priced) * CongestionPenalty, cost, bends,
          Entered(problem.near)>>

LEMMA CountGrows ==
    ASSUME NEW Q, NEW m \in Nat, NEW k \in Nat
    PROVE  /\ Cardinality({i \in m..k : i \in Q}) \in Nat
           /\ m <= k => Cardinality({i \in m..k : i \in Q})
                          = Cardinality({i \in m..(k - 1) : i \in Q})
                              + IF k \in Q THEN 1 ELSE 0
           /\ k < m => Cardinality({i \in m..k : i \in Q}) = 0
<1> DEFINE S == {i \in m..k : i \in Q}
           T == {i \in m..(k - 1) : i \in Q}
<1>1. IsFiniteSet(m..k)
    BY FS_Interval
<1>2. IsFiniteSet(S) /\ Cardinality(S) \in Nat
    <2>1. S \subseteq m..k
        OBVIOUS
    <2> HIDE DEF S
    <2> QED
        BY <1>1, <2>1, FS_Subset, FS_CardinalityType
<1>3. T \subseteq S /\ k \notin T /\ (m <= k /\ k \in Q => S = T \cup {k})
    OBVIOUS
<1>4. m <= k /\ k \notin Q => S = T
    OBVIOUS
<1>5. k < m => S = {}
    OBVIOUS
<1>6. IsFiniteSet(T)
    <2> HIDE DEF S, T
    <2> QED
        BY <1>2, <1>3, FS_Subset
<1>7. ASSUME m <= k, k \in Q PROVE Cardinality(S) = Cardinality(T) + 1
    <2>1. S = T \cup {k} /\ k \notin T
        BY <1>3, <1>7
    <2> HIDE DEF S, T
    <2> QED
        BY <2>1, <1>6, FS_AddElement
<1>8. Cardinality(T) \in Nat
    <2> HIDE DEF T
    <2> QED
        BY <1>6, FS_CardinalityType
<1>9. k < m => Cardinality(S) = 0
    BY <1>5, FS_EmptySet
<1>10. m <= k => Cardinality(S) = Cardinality(T) + IF k \in Q THEN 1 ELSE 0
    <2>1. CASE k \in Q
        BY <2>1, <1>7
    <2>2. CASE k \notin Q
        <3>1. m <= k => Cardinality(S) = Cardinality(T)
            BY <2>2, <1>4
        <3> HIDE DEF S, T
        <3> QED
            BY <2>2, <3>1, <1>8
    <2> QED
        BY <2>1, <2>2
<1> QED
    BY <1>2, <1>9, <1>10

LEMMA RouteSteps ==
    ASSUME ProblemOK, NEW n, NEW route, LegalRoute(route, n), NEW i \in 2..n
    PROVE  /\ i - 1 \in 1..n /\ i \in 1..n /\ route[i - 1] \in Node
           /\ Heading(route, i) \in 1..4
           /\ route[i] = Beyond(route[i - 1], Heading(route, i))
           /\ Along(route, i) = Onward(Along(route, i - 1), Heading(route, i))
           /\ Open(Along(route, i - 1), Heading(route, i))
<1>1. n \in Nat /\ i - 1 \in 1..n /\ i \in 1..n /\ i # 1
    BY DEF LegalRoute
<1>2. {route[i - 1], route[i]} \in problem.legal /\ route[i - 1] \in Node
    BY <1>1 DEF LegalRoute
<1>3. PICK d \in 1..4 : route[i] = Beyond(route[i - 1], d)
    BY <1>2, EdgeIsStep DEF ProblemOK
<1>4. Heading(route, i) = d
    BY <1>2, <1>3, HeadingIs
<1>5. NodeOf(Along(route, i - 1)) = route[i - 1]
    BY DEF NodeOf, Along
<1>6. Along(route, i) = <<route[i], d>>
    BY <1>1, <1>4 DEF Along
<1>7. Onward(Along(route, i - 1), d) = <<route[i], d>>
    BY <1>3, <1>5 DEF Onward
<1>8. Open(Along(route, i - 1), d)
    BY <1>2, <1>3, <1>5 DEF Open
<1> QED
    BY <1>1, <1>2, <1>3, <1>4, <1>6, <1>7, <1>8

(* Each step of a walk raises its score as the search raises scores.       *)
LEMMA PrefixSteps ==
    ASSUME ProblemOK, NEW n, NEW route, LegalRoute(route, n), NEW k \in 1..n
    PROVE  /\ PrefixScore(route, k) \in Score
           /\ k = 1 => PrefixScore(route, k) = NoScore
           /\ k # 1 => PrefixScore(route, k)
                         = Stepped(PrefixScore(route, k - 1), Along(route, k - 1),
                                   Heading(route, k))
<1> DEFINE Q == {i \in 3..n : Heading(route, i) # Heading(route, i - 1)}
           Near == {i \in 2..n : route[i] \in problem.near}
           Priced == {i \in 2..n : route[i] \in problem.priced}
           B(j) == Cardinality({i \in 3..j : i \in Q})
           C(j) == Cardinality({i \in 2..j : i \in Near})
           D(j) == Cardinality({i \in 2..j : i \in Priced})
           cost(j) == (j - 1) * StepCost + B(j) * BendPenalty + C(j) * ProximityPenalty
<1>1. /\ n \in Nat /\ k \in Nat
      /\ StepCost \in Nat /\ BendPenalty \in Nat /\ ProximityPenalty \in Nat
      /\ CongestionPenalty \in Nat
    BY SearchAssumption DEF LegalRoute
<1>2. ASSUME NEW j \in 1..n
      PROVE  PrefixScore(route, j)
               = <<cost(j) + D(j) * CongestionPenalty, cost(j), B(j), C(j)>>
    <2>1. {i \in 3..j : Heading(route, i) # Heading(route, i - 1)} = {i \in 3..j : i \in Q}
        BY <1>1
    <2>2. {i \in 2..j : route[i] \in problem.near} = {i \in 2..j : i \in Near}
        BY <1>1
    <2>3. {i \in 2..j : route[i] \in problem.priced} = {i \in 2..j : i \in Priced}
        BY <1>1
    <2> HIDE DEF Q, Near, Priced
    <2> QED
        BY <2>1, <2>2, <2>3 DEF PrefixScore
<1>3. \A j \in Nat : B(j) \in Nat /\ C(j) \in Nat /\ D(j) \in Nat
    <2> HIDE DEF Q, Near, Priced
    <2>1. \A j \in Nat : B(j) \in Nat
        BY CountGrows, 3 \in Nat
    <2>2. \A j \in Nat : C(j) \in Nat
        BY CountGrows, 2 \in Nat
    <2>3. \A j \in Nat : D(j) \in Nat
        BY CountGrows, 2 \in Nat
    <2> HIDE DEF B, C, D
    <2> QED
        BY <2>1, <2>2, <2>3
<1>4. \A j \in Nat : /\ j < 2 => B(j) = 0 /\ C(j) = 0 /\ D(j) = 0
                     /\ j = 2 => B(j) = 0
                     /\ j >= 3 => B(j) = B(j - 1) + IF j \in Q THEN 1 ELSE 0
                     /\ j >= 2 => /\ C(j) = C(j - 1) + IF j \in Near THEN 1 ELSE 0
                                  /\ D(j) = D(j - 1) + IF j \in Priced THEN 1 ELSE 0
    <2> HIDE DEF Q, Near, Priced
    <2> SUFFICES ASSUME NEW j \in Nat
                 PROVE  /\ j < 2 => B(j) = 0 /\ C(j) = 0 /\ D(j) = 0
                        /\ j = 2 => B(j) = 0
                        /\ j >= 3 => B(j) = B(j - 1) + IF j \in Q THEN 1 ELSE 0
                        /\ j >= 2 => /\ C(j) = C(j - 1) + IF j \in Near THEN 1 ELSE 0
                                     /\ D(j) = D(j - 1) + IF j \in Priced THEN 1 ELSE 0
        OBVIOUS
    <2>1. /\ j < 3 => B(j) = 0
          /\ 3 <= j => B(j) = B(j - 1) + IF j \in Q THEN 1 ELSE 0
        <3>1. j < 3 => B(j) = 0
            BY CountGrows, 3 \in Nat
        <3>2. 3 <= j => B(j) = B(j - 1) + IF j \in Q THEN 1 ELSE 0
            BY CountGrows, 3 \in Nat
        <3> QED
            BY <3>1, <3>2
    <2>2. /\ j < 2 => C(j) = 0
          /\ 2 <= j => C(j) = C(j - 1) + IF j \in Near THEN 1 ELSE 0
        <3>1. j < 2 => C(j) = 0
            BY CountGrows, 2 \in Nat
        <3>2. 2 <= j => C(j) = C(j - 1) + IF j \in Near THEN 1 ELSE 0
            BY CountGrows, 2 \in Nat
        <3> QED
            BY <3>1, <3>2
    <2>3. /\ j < 2 => D(j) = 0
          /\ 2 <= j => D(j) = D(j - 1) + IF j \in Priced THEN 1 ELSE 0
        <3>1. j < 2 => D(j) = 0
            BY CountGrows, 2 \in Nat
        <3>2. 2 <= j => D(j) = D(j - 1) + IF j \in Priced THEN 1 ELSE 0
            BY CountGrows, 2 \in Nat
        <3> QED
            BY <3>1, <3>2
    <2> HIDE DEF B, C, D
    <2> QED
        BY <2>1, <2>2, <2>3
<1> HIDE DEF B, C, D
<1>5. \A j \in Nat \ {0} : cost(j) \in Nat /\ D(j) * CongestionPenalty \in Nat
    <2> SUFFICES ASSUME NEW j \in Nat \ {0}
                 PROVE  cost(j) \in Nat /\ D(j) * CongestionPenalty \in Nat
        OBVIOUS
    <2>1. j - 1 \in Nat /\ B(j) \in Nat /\ C(j) \in Nat /\ D(j) \in Nat
        BY <1>3
    <2>2. /\ (j - 1) * StepCost \in Nat /\ B(j) * BendPenalty \in Nat
          /\ C(j) * ProximityPenalty \in Nat /\ D(j) * CongestionPenalty \in Nat
        BY <2>1, <1>1, Multiples
    <2> QED
        BY <2>2
<1>6. PrefixScore(route, k) \in Score
    <2>1. k \in Nat \ {0}
        OBVIOUS
    <2>2. cost(k) + D(k) * CongestionPenalty \in Nat /\ cost(k) \in Nat
        BY <2>1, <1>5
    <2> HIDE DEF cost
    <2> QED
        BY <2>1, <2>2, <1>2, <1>3 DEF Score
<1>7. ASSUME k = 1 PROVE PrefixScore(route, k) = NoScore
    <2>1. B(k) = 0 /\ C(k) = 0 /\ D(k) = 0 /\ k - 1 = 0
        BY <1>4, <1>7
    <2>2. /\ 0 * StepCost = 0 /\ 0 * BendPenalty = 0 /\ 0 * ProximityPenalty = 0
          /\ 0 * CongestionPenalty = 0
        BY <1>1
    <2>3. cost(k) = 0 /\ cost(k) + D(k) * CongestionPenalty = 0
        BY <2>1, <2>2
    <2> HIDE DEF cost
    <2> QED
        BY <2>1, <2>3, <1>2 DEF NoScore
<1>8. ASSUME k # 1
      PROVE  PrefixScore(route, k)
               = Stepped(PrefixScore(route, k - 1), Along(route, k - 1), Heading(route, k))
    <2> DEFINE from == Along(route, k - 1)
               d == Heading(route, k)
               bend == IF from[2] # NoDirection /\ from[2] # d THEN 1 ELSE 0
               near == IF route[k] \in problem.near THEN 1 ELSE 0
               price == IF route[k] \in problem.priced THEN CongestionPenalty ELSE 0
               extra == StepCost + bend * BendPenalty + near * ProximityPenalty
    <2>1. k \in 2..n /\ k - 1 \in 1..n /\ k - 1 \in Nat \ {0}
        BY <1>1, <1>8
    <2>2. Heading(route, k) \in 1..4 /\ route[k] = Beyond(NodeOf(from), d)
        BY <2>1, RouteSteps DEF NodeOf, Along
    <2>3. B(k) = B(k - 1) + bend /\ bend \in {0, 1}
        <3>1. CASE k = 2
            <4>1. from[2] = NoDirection /\ B(k) = 0 /\ B(k - 1) = 0
                BY <3>1, <1>4 DEF Along
            <4> QED
                BY <4>1
        <3>2. CASE k # 2
            <4>1. k \in 3..n /\ k - 1 \in 2..n /\ k - 1 # 1
                BY <2>1, <3>2
            <4>2. Heading(route, k - 1) \in 1..4
                BY <4>1, RouteSteps
            <4>3. from[2] = Heading(route, k - 1) /\ from[2] # NoDirection
                BY <4>1, <4>2, NoDirectionIs DEF Along
            <4>4. k \in Q <=> Heading(route, k) # Heading(route, k - 1)
                BY <4>1
            <4> QED
                BY <4>1, <4>3, <4>4, <1>4
        <3> QED
            BY <3>1, <3>2
    <2>4. C(k) = C(k - 1) + near /\ near \in {0, 1}
        BY <2>1, <1>4
    <2>5. D(k) * CongestionPenalty = D(k - 1) * CongestionPenalty + price
        <3>1. D(k - 1) \in Nat /\ (k \in Priced <=> route[k] \in problem.priced)
            BY <2>1, <1>3
        <3>2. /\ (D(k - 1) + 1) * CongestionPenalty
                   = D(k - 1) * CongestionPenalty + CongestionPenalty
              /\ D(k - 1) * CongestionPenalty \in Nat
            BY <3>1, <1>1, Multiples
        <3>3. D(k) = D(k - 1) + IF k \in Priced THEN 1 ELSE 0
            BY <2>1, <1>4
        <3>4. CASE route[k] \in problem.priced
            BY <3>1, <3>2, <3>3, <3>4
        <3>5. CASE route[k] \notin problem.priced
            <4>1. D(k) = D(k - 1)
                BY <3>1, <3>3, <3>5
            <4> QED
                BY <3>2, <3>5, <4>1
        <3> QED
            BY <3>4, <3>5
    <2>6. cost(k) = cost(k - 1) + extra
        <3>1. (k - 1) * StepCost = ((k - 1) - 1) * StepCost + StepCost
            <4>1. (k - 1) - 1 \in Nat /\ ((k - 1) - 1) + 1 = k - 1
                BY <2>1
            <4> QED
                BY <4>1, <1>1, Multiples
        <3>2. B(k) * BendPenalty = B(k - 1) * BendPenalty + bend * BendPenalty
            <4>1. B(k - 1) \in Nat
                BY <2>1, <1>3
            <4>2. /\ (B(k - 1) + 1) * BendPenalty = B(k - 1) * BendPenalty + BendPenalty
                  /\ B(k - 1) * BendPenalty \in Nat
                BY <4>1, <1>1, Multiples
            <4> HIDE DEF bend
            <4>3. CASE bend = 1
                BY <2>3, <4>1, <4>2, <4>3, <1>1
            <4>4. CASE bend = 0
                <5>1. B(k) = B(k - 1) /\ bend * BendPenalty = 0
                    BY <2>3, <4>1, <4>4, <1>1
                <5> QED
                    BY <4>2, <5>1
            <4> QED
                BY <2>3, <4>3, <4>4
        <3>3. C(k) * ProximityPenalty = C(k - 1) * ProximityPenalty + near * ProximityPenalty
            <4>1. C(k - 1) \in Nat
                BY <2>1, <1>3
            <4>2. /\ (C(k - 1) + 1) * ProximityPenalty
                       = C(k - 1) * ProximityPenalty + ProximityPenalty
                  /\ C(k - 1) * ProximityPenalty \in Nat
                BY <4>1, <1>1, Multiples
            <4> HIDE DEF near
            <4>3. CASE near = 1
                BY <2>4, <4>1, <4>2, <4>3, <1>1
            <4>4. CASE near = 0
                <5>1. C(k) = C(k - 1) /\ near * ProximityPenalty = 0
                    BY <2>4, <4>1, <4>4, <1>1
                <5> QED
                    BY <4>2, <5>1
            <4> QED
                BY <2>4, <4>3, <4>4
        <3>4. /\ ((k - 1) - 1) * StepCost \in Nat /\ B(k - 1) * BendPenalty \in Nat
              /\ C(k - 1) * ProximityPenalty \in Nat
              /\ bend * BendPenalty \in Nat /\ near * ProximityPenalty \in Nat
            <4>1. /\ (k - 1) - 1 \in Nat /\ B(k - 1) \in Nat /\ C(k - 1) \in Nat
                  /\ bend \in Nat /\ near \in Nat
                BY <2>1, <1>3
            <4> QED
                BY <4>1, <1>1, Multiples
        <3> HIDE DEF bend, near
        <3> QED
            BY <3>1, <3>2, <3>3, <3>4, <1>1
    <2>7. /\ Stepped(PrefixScore(route, k - 1), from, d)
               = <<PrefixScore(route, k - 1)[1] + extra + price,
                   PrefixScore(route, k - 1)[2] + extra,
                   PrefixScore(route, k - 1)[3] + bend,
                   PrefixScore(route, k - 1)[4] + near>>
        BY <2>2 DEF Stepped, Raised
    <2>8. /\ PrefixScore(route, k - 1)[1] = cost(k - 1) + D(k - 1) * CongestionPenalty
          /\ PrefixScore(route, k - 1)[2] = cost(k - 1)
          /\ PrefixScore(route, k - 1)[3] = B(k - 1)
          /\ PrefixScore(route, k - 1)[4] = C(k - 1)
        <3> HIDE DEF cost
        <3> QED
            BY <2>1, <1>2
    <2>9. PrefixScore(route, k) = <<cost(k) + D(k) * CongestionPenalty, cost(k), B(k), C(k)>>
        BY <1>2
    <2>10. cost(k) + D(k) * CongestionPenalty
             = cost(k - 1) + D(k - 1) * CongestionPenalty + extra + price
        <3>1. cost(k - 1) \in Nat /\ D(k - 1) * CongestionPenalty \in Nat
            BY <2>1, <1>5
        <3>2. price \in Nat
            BY <1>1
        <3>3. extra \in Nat
            <4>1. bend * BendPenalty \in Nat /\ near * ProximityPenalty \in Nat
                <5>1. bend \in Nat /\ near \in Nat
                    OBVIOUS
                <5> HIDE DEF bend, near
                <5> QED
                    BY <5>1, <1>1, Multiples
            <4> QED
                BY <4>1, <1>1
        <3> HIDE DEF cost, extra, price
        <3> QED
            BY <3>1, <3>2, <3>3, <2>5, <2>6
    <2> HIDE DEF cost, extra, price, bend, near, from, d
    <2> QED
        BY <2>3, <2>4, <2>6, <2>7, <2>8, <2>9, <2>10 DEF from, d
<1> QED
    BY <1>6, <1>7, <1>8

-----------------------------------------------------------------------------
(* The walks of the reference are the simple legal routes to a target.     *)

LEMMA LenIs ==
    ASSUME NEW m \in Nat, NEW S, NEW p \in [1..m -> S]
    PROVE  p \in Seq(S) /\ Len(p) = m
OBVIOUS

LEMMA AppendIs ==
    ASSUME NEW m \in Nat, NEW p \in [1..m -> Node], NEW n \in Node
    PROVE  /\ Append(p, n) \in [1..(m + 1) -> Node]
           /\ Append(p, n)[m + 1] = n
           /\ \A i \in 1..m : Append(p, n)[i] = p[i]
<1>1. p \in Seq(Node) /\ Len(p) = m
    BY LenIs
<1>2. /\ Append(p, n) \in Seq(Node) /\ Len(Append(p, n)) = m + 1
      /\ \A i \in 1..m : Append(p, n)[i] = p[i]
      /\ Append(p, n)[m + 1] = n
    BY <1>1, AppendProperties
<1>3. Append(p, n) \in [1..Len(Append(p, n)) -> Node]
    BY <1>2, LenProperties
<1> QED
    BY <1>2, <1>3

Grows(k) == {w \in [1..k -> Node] : LegalRoute(w, k) /\ Simple(w)}

(* The reference's recursion, a step at a time.                            *)
Longer(routes, k) ==
    {w \in {Append(p, n) : p \in routes, n \in Node} :
       Simple(w) /\ {w[k - 1], w[k]} \in problem.legal}

FirstNodes == {<<n>> : n \in problem.source}

Grower(G, n) ==
    G = [k \in 1..n |-> IF k = 1 THEN FirstNodes ELSE Longer(G[k - 1], k)]

LEMMA GrowsByOne ==
    ASSUME NEW k \in Nat, k >= 2
    PROVE  Grows(k) = Longer(Grows(k - 1), k)
<1> DEFINE Right == Longer(Grows(k - 1), k)
<1>1. k - 1 \in Nat \ {0} /\ (k - 1) + 1 = k /\ k - 1 \in 1..k /\ k \in 1..k /\ 1 \in 1..(k - 1)
    OBVIOUS
<1>2. ASSUME NEW p \in Grows(k - 1), NEW n \in Node, NEW w, w = Append(p, n),
             Simple(w), {w[k - 1], w[k]} \in problem.legal
      PROVE  w \in Grows(k)
    <2>1. /\ p \in [1..(k - 1) -> Node] /\ p[1] \in problem.source
          /\ \A i \in 2..(k - 1) : {p[i - 1], p[i]} \in problem.legal
        BY DEF Grows, LegalRoute
    <2>2. w \in [1..k -> Node] /\ w[k] = n /\ \A i \in 1..(k - 1) : w[i] = p[i]
        BY <1>1, <1>2, <2>1, AppendIs
    <2>3. ASSUME NEW i \in 2..k PROVE {w[i - 1], w[i]} \in problem.legal
        <3>1. CASE i = k
            BY <1>2, <3>1
        <3>2. CASE i # k
            <4>1. i \in 2..(k - 1) /\ i \in 1..(k - 1) /\ i - 1 \in 1..(k - 1)
                BY <3>2
            <4> QED
                BY <2>1, <2>2, <4>1
        <3> QED
            BY <3>1, <3>2
    <2>4. w[1] \in problem.source
        BY <1>1, <2>1, <2>2
    <2>5. LegalRoute(w, k)
        <3>1. k \in Nat \ {0}
            OBVIOUS
        <3> QED
            BY <3>1, <2>2, <2>3, <2>4 DEF LegalRoute
    <2> QED
        BY <1>2, <2>2, <2>5 DEF Grows
<1>3. ASSUME NEW w \in Grows(k)
      PROVE  \E p \in Grows(k - 1), n \in Node : w = Append(p, n)
    <2> DEFINE p == [i \in 1..(k - 1) |-> w[i]]
    <2>1. /\ w \in [1..k -> Node] /\ w[1] \in problem.source /\ Simple(w)
          /\ \A i \in 2..k : {w[i - 1], w[i]} \in problem.legal
        BY DEF Grows, LegalRoute
    <2>2. p \in [1..(k - 1) -> Node] /\ w[k] \in Node
        BY <1>1, <2>1
    <2>3. \A i \in 1..(k - 1) : p[i] = w[i] /\ i \in DOMAIN w
        BY <2>1
    <2>4. Simple(p)
        BY <2>1, <2>3 DEF Simple
    <2>5. LegalRoute(p, k - 1)
        <3>1. ASSUME NEW i \in 2..(k - 1) PROVE {p[i - 1], p[i]} \in problem.legal
            <4>1. i \in 2..k /\ i \in 1..(k - 1) /\ i - 1 \in 1..(k - 1)
                OBVIOUS
            <4> QED
                BY <2>1, <2>3, <4>1
        <3>2. p[1] \in problem.source
            BY <1>1, <2>1, <2>3
        <3> HIDE DEF p
        <3> QED
            BY <1>1, <2>2, <3>1, <3>2 DEF LegalRoute
    <2> HIDE DEF p
    <2>6. p \in Grows(k - 1)
        BY <2>2, <2>4, <2>5 DEF Grows
    <2>7. /\ Append(p, w[k]) \in [1..k -> Node] /\ Append(p, w[k])[k] = w[k]
          /\ \A i \in 1..(k - 1) : Append(p, w[k])[i] = w[i]
        BY <1>1, <2>2, <2>3, AppendIs
    <2>8. \A i \in 1..k : i = k \/ i \in 1..(k - 1)
        OBVIOUS
    <2>9. w = Append(p, w[k])
        BY <2>1, <2>7, <2>8
    <2> QED
        BY <2>2, <2>6, <2>9
<1>4. ASSUME NEW w \in Grows(k)
      PROVE  Simple(w) /\ {w[k - 1], w[k]} \in problem.legal
    <2>1. Simple(w) /\ \A i \in 2..k : {w[i - 1], w[i]} \in problem.legal
        BY DEF Grows, LegalRoute
    <2>2. k \in 2..k
        OBVIOUS
    <2> QED
        BY <2>1, <2>2
<1>5. ASSUME NEW w \in Right PROVE w \in Grows(k)
    <2>1. /\ \E p \in Grows(k - 1), n \in Node : w = Append(p, n)
          /\ Simple(w) /\ {w[k - 1], w[k]} \in problem.legal
        BY DEF Longer
    <2> QED
        BY <2>1, <1>2
<1>6. ASSUME NEW w \in Grows(k) PROVE w \in Right
    <2>1. w \in {Append(p, n) : p \in Grows(k - 1), n \in Node}
        BY <1>3
    <2>2. Simple(w) /\ {w[k - 1], w[k]} \in problem.legal
        BY <1>4
    <2> QED
        BY <2>1, <2>2 DEF Longer
<1> HIDE DEF Right
<1>7. Grows(k) = Right
    BY <1>5, <1>6
<1> QED
    BY <1>7 DEF Right

LEMMA GrowsFromSources ==
    ASSUME ProblemOK
    PROVE  Grows(1) = FirstNodes
<1>1. ASSUME NEW n \in problem.source PROVE <<n>> \in Grows(1)
    <2>1. n \in Node
        BY DEF ProblemOK
    <2>2. <<n>> \in [1..1 -> Node] /\ <<n>>[1] = n /\ DOMAIN <<n>> = 1..1
        BY <2>1
    <2>3. \A i \in 2..1 : FALSE
        OBVIOUS
    <2>4. \A i, j \in 1..1 : i = j
        OBVIOUS
    <2> QED
        BY <2>2, <2>3, <2>4 DEF Grows, LegalRoute, Simple
<1>2. ASSUME NEW w \in Grows(1) PROVE w = <<w[1]>> /\ w[1] \in problem.source
    <2>1. w \in [1..1 -> Node] /\ w[1] \in problem.source
        BY DEF Grows, LegalRoute
    <2> QED
        BY <2>1
<1> QED
    BY <1>1, <1>2 DEF FirstNodes

LEMMA WalksAre ==
    ASSUME ProblemOK
    PROVE  \A w : w \in Walks <=>
              \E n \in 1..Cardinality(Node) :
                 LegalRoute(w, n) /\ Simple(w) /\ w[n] \in problem.target
<1> DEFINE N == Cardinality(Node)
           F == [k \in 1..N |-> Grows(k)]
           Grown == CHOOSE G : Grower(G, N)
<1>1. N \in Nat
    BY NodeIsFinite, FS_CardinalityType
<1>2. Walks = {w \in UNION {Grown[k] : k \in DOMAIN Grown} : w[Len(w)] \in problem.target}
    BY DEF Walks, Grower, Longer, FirstNodes
<1> HIDE DEF N
<1>3. ASSUME NEW k \in 1..N
      PROVE  Grows(k) = IF k = 1 THEN FirstNodes ELSE Longer(F[k - 1], k)
    <2>1. CASE k = 1
        BY <2>1, GrowsFromSources
    <2>2. CASE k # 1
        <3>1. k \in Nat /\ k >= 2 /\ k - 1 \in 1..N
            BY <1>1, <2>2
        <3>2. F[k - 1] = Grows(k - 1)
            BY <3>1
        <3> HIDE DEF F
        <3> QED
            BY <2>2, <3>1, <3>2, GrowsByOne
    <2> QED
        BY <2>1, <2>2
<1>4. Grower(F, N)
    <2>1. [k \in 1..N |-> Grows(k)]
            = [k \in 1..N |-> IF k = 1 THEN FirstNodes ELSE Longer(F[k - 1], k)]
        <3> HIDE DEF F
        <3> QED
            BY <1>3
    <2>2. F = [k \in 1..N |-> Grows(k)]
        OBVIOUS
    <2> HIDE DEF F
    <2> QED
        BY <2>1, <2>2 DEF Grower
<1>5. Grower(Grown, N)
    <2> HIDE DEF F
    <2> QED
        BY <1>4
<1> HIDE DEF Grown
<1>6. /\ DOMAIN Grown = 1..N
      /\ \A k \in 1..N : Grown[k] = IF k = 1 THEN FirstNodes ELSE Longer(Grown[k - 1], k)
    BY <1>5 DEF Grower
<1>7. \A k \in 1..N : Grown[k] = Grows(k)
    <2> DEFINE Bad == {k \in 1..N : Grown[k] # Grows(k)}
    <2>1. SUFFICES ASSUME Bad # {} PROVE FALSE
        OBVIOUS
    <2>2. PICK k \in Bad : \A j \in Bad : k <= j
        <3>1. Bad \subseteq Nat
            BY <1>1
        <3> HIDE DEF Bad
        <3> QED
            BY <2>1, <3>1, LeastNatural
    <2>3. k \in 1..N /\ Grown[k] # Grows(k)
        OBVIOUS
    <2>4. CASE k = 1
        BY <2>3, <2>4, <1>6, GrowsFromSources
    <2>5. CASE k # 1
        <3>1. k \in Nat /\ k >= 2 /\ k - 1 \in 1..N /\ ~(k <= k - 1)
            BY <1>1, <2>3, <2>5
        <3>2. Grown[k - 1] = Grows(k - 1)
            BY <2>2, <3>1
        <3> QED
            BY <1>6, <2>3, <2>5, <3>1, <3>2, GrowsByOne
    <2> QED
        BY <2>4, <2>5
<1>8. \A k \in 1..N : \A w : w \in Grows(k) =>
         LegalRoute(w, k) /\ Simple(w) /\ Len(w) = k
    <2> SUFFICES ASSUME NEW k \in 1..N, NEW w \in Grows(k)
                 PROVE  LegalRoute(w, k) /\ Simple(w) /\ Len(w) = k
        OBVIOUS
    <2>1. k \in Nat /\ w \in [1..k -> Node] /\ LegalRoute(w, k) /\ Simple(w)
        BY DEF Grows
    <2> QED
        BY <2>1, LenIs
<1>9. \A k \in 1..N : \A w : LegalRoute(w, k) /\ Simple(w) => w \in Grows(k)
    BY DEF Grows, LegalRoute
<1> QED
    BY <1>2, <1>6, <1>7, <1>8, <1>9 DEF N

-----------------------------------------------------------------------------
(* No walk scores less than what is found.                                 *)

(* On every walk to a target some state is queued, and the search came to  *)
(* it no worse than the walk does.                                         *)
LEMMA SearchIsAhead ==
    ASSUME ProblemOK, SearchShape, Ahead, NEW n, NEW w, LegalRoute(w, n),
           w[n] \in problem.target
    PROVE  \E k \in 1..n : /\ Along(w, k) \in DOMAIN scores /\ Queued(Along(w, k))
                           /\ NoWorse(scores[Along(w, k)], PrefixScore(w, k))
<1> DEFINE Good(k) == /\ Along(w, k) \in DOMAIN scores
                      /\ NoWorse(scores[Along(w, k)], PrefixScore(w, k))
           Bad == {k \in 1..n : ~Good(k)}
<1>1. SUFFICES ASSUME \A k \in 1..n : Good(k) => ~Queued(Along(w, k)) PROVE FALSE
    OBVIOUS
<1>2. n \in Nat \ {0} /\ 1 \in 1..n /\ n \in 1..n /\ \A k \in 1..n : w[k] \in Node
    BY DEF LegalRoute
<1>3. Good(1)
    <2>1. Along(w, 1) \in Starts
        BY NoDirectionIs, StartsAreStates DEF Along, LegalRoute
    <2>2. PrefixScore(w, 1) = NoScore /\ PrefixScore(w, 1) \in Score
        BY <1>2, PrefixSteps
    <2> QED
        BY <2>1, <2>2, NoWorseOrder DEF Ahead
<1>4. ASSUME NEW k \in 2..n, Good(k - 1) PROVE Good(k)
    <2> DEFINE s == Along(w, k - 1)
               d == Heading(w, k)
    <2>1. /\ k - 1 \in 1..n /\ k \in 1..n /\ k # 1 /\ d \in 1..4
          /\ Along(w, k) = Onward(s, d) /\ Open(s, d)
        BY RouteSteps, <1>2
    <2>2. Settled(s)
        BY <1>1, <1>4, <2>1 DEF Ahead
    <2>3. /\ Onward(s, d) \in DOMAIN scores
          /\ NoWorse(scores[Onward(s, d)], Stepped(scores[s], s, d))
        BY <2>1, <2>2 DEF Settled
    <2>4. /\ PrefixScore(w, k - 1) \in Score /\ PrefixScore(w, k) \in Score
          /\ PrefixScore(w, k) = Stepped(PrefixScore(w, k - 1), s, d)
        BY <2>1, PrefixSteps
    <2>5. /\ scores[s] \in Score /\ scores[Onward(s, d)] \in Score
          /\ Stepped(scores[s], s, d) \in Score
        BY <1>4, <2>3, SteppedIs DEF SearchShape
    <2>6. NoWorse(Stepped(scores[s], s, d), Stepped(PrefixScore(w, k - 1), s, d))
        BY <1>4, <2>4, <2>5, RaisedKeepsOrder DEF Stepped
    <2> HIDE DEF s, d
    <2> QED
        BY <2>1, <2>3, <2>4, <2>5, <2>6, NoWorseOrder
<1>5. Bad = {}
    <2>1. SUFFICES ASSUME Bad # {} PROVE FALSE
        OBVIOUS
    <2>2. PICK k \in Bad : \A j \in Bad : k <= j
        <3>1. Bad \subseteq Nat
            BY <1>2
        <3> HIDE DEF Bad
        <3> QED
            BY <2>1, <3>1, LeastNatural
    <2>3. k \in 1..n /\ ~Good(k)
        OBVIOUS
    <2> HIDE DEF Good
    <2>4. k # 1
        BY <2>3, <1>3
    <2>5. k \in 2..n /\ k - 1 \in 1..n /\ ~(k <= k - 1)
        BY <1>2, <2>3, <2>4
    <2>6. Good(k - 1)
        BY <2>2, <2>5
    <2> QED
        BY <1>4, <2>3, <2>5, <2>6
<1>6. Good(n) /\ Settled(Along(w, n))
    BY <1>1, <1>2, <1>5 DEF Ahead
<1> QED
    BY <1>6 DEF Settled, NodeOf, Along

(* Along a walk, what it has scored and what is left by the estimate never *)
(* falls, nor does its score.                                              *)
LEMMA EstimateGrows ==
    ASSUME ProblemOK, NEW n, NEW w, LegalRoute(w, n), NEW k \in 1..n
    PROVE  /\ \A i \in 1..4 : PrefixScore(w, k)[i] <= PrefixScore(w, n)[i]
           /\ Heuristic(w[k]) \in Nat /\ Heuristic(w[n]) \in Nat
           /\ PrefixScore(w, k)[1] + Heuristic(w[k])
                <= PrefixScore(w, n)[1] + Heuristic(w[n])
<1>1. n \in Nat \ {0} /\ 1 \in Nat /\ n \in 1..n /\ \A i \in 1..n : w[i] \in Node
    BY DEF LegalRoute
<1>2. \A i \in 1..n : Heuristic(w[i]) \in Nat /\ PrefixScore(w, i) \in Score
    BY <1>1, PrefixSteps, HeuristicChanges DEF ProblemOK
<1>3. ASSUME NEW i \in 1..(n - 1)
      PROVE  /\ i \in 1..n /\ i + 1 \in 1..n
             /\ \A j \in 1..4 : PrefixScore(w, i)[j] <= PrefixScore(w, i + 1)[j]
             /\ PrefixScore(w, i)[1] + Heuristic(w[i])
                  <= PrefixScore(w, i + 1)[1] + Heuristic(w[i + 1])
    <2>1. i \in 1..n /\ i + 1 \in 2..n /\ i + 1 \in 1..n /\ i + 1 # 1 /\ (i + 1) - 1 = i
        BY <1>1
    <2>2. PrefixScore(w, i + 1) = Stepped(PrefixScore(w, i), Along(w, i), Heading(w, i + 1))
        BY <2>1, PrefixSteps
    <2>3. /\ PrefixScore(w, i + 1)[1] >= PrefixScore(w, i)[1] + StepCost
          /\ \A j \in 1..4 : PrefixScore(w, i + 1)[j] >= PrefixScore(w, i)[j]
        BY <1>2, <2>1, <2>2, SteppedIs
    <2>4. Heuristic(w[i]) <= Heuristic(w[i + 1]) + StepCost
        <3>1. Heading(w, i + 1) \in 1..4 /\ w[i + 1] = Beyond(w[i], Heading(w, i + 1))
            BY <2>1, RouteSteps
        <3> QED
            BY <3>1, <1>1, <2>1, HeuristicChanges DEF ProblemOK
    <2>5. /\ PrefixScore(w, i)[1] \in Nat /\ PrefixScore(w, i + 1)[1] \in Nat
          /\ Heuristic(w[i]) \in Nat /\ Heuristic(w[i + 1]) \in Nat /\ StepCost \in Nat
        BY <1>2, <2>1, SearchAssumption DEF Score
    <2>6. \A j \in 1..4 : PrefixScore(w, i)[j] \in Nat /\ PrefixScore(w, i + 1)[j] \in Nat
        BY <1>2, <2>1 DEF Score
    <2>7. \A j \in 1..4 : PrefixScore(w, i)[j] <= PrefixScore(w, i + 1)[j]
        BY <2>3, <2>6
    <2>8. PrefixScore(w, i)[1] + Heuristic(w[i])
            <= PrefixScore(w, i + 1)[1] + Heuristic(w[i + 1])
        BY <2>3, <2>4, <2>5
    <2> QED
        BY <2>1, <2>7, <2>8
<1>4. ASSUME NEW j \in 1..4 PROVE PrefixScore(w, k)[j] <= PrefixScore(w, n)[j]
    <2> DEFINE f == [i \in 1..n |-> PrefixScore(w, i)[j]]
    <2>1. \A i \in 1..n : f[i] \in Int
        BY <1>2 DEF Score
    <2>2. \A i \in 1..(n - 1) : f[i] <= f[i + 1]
        BY <1>3
    <2>3. f[k] = PrefixScore(w, k)[j] /\ f[n] = PrefixScore(w, n)[j] /\ k <= n
        BY <1>1
    <2> HIDE DEF f
    <2>4. f[k] <= f[n]
        BY <1>1, <2>1, <2>2, <2>3, NeverFalls
    <2> QED
        BY <2>3, <2>4
<1>5. PrefixScore(w, k)[1] + Heuristic(w[k]) <= PrefixScore(w, n)[1] + Heuristic(w[n])
    <2> DEFINE f == [i \in 1..n |-> PrefixScore(w, i)[1] + Heuristic(w[i])]
    <2>1. \A i \in 1..n : f[i] \in Int
        BY <1>2 DEF Score
    <2>2. \A i \in 1..(n - 1) : f[i] <= f[i + 1]
        BY <1>3
    <2>3. /\ f[k] = PrefixScore(w, k)[1] + Heuristic(w[k])
          /\ f[n] = PrefixScore(w, n)[1] + Heuristic(w[n]) /\ k <= n
        BY <1>1
    <2> HIDE DEF f
    <2>4. f[k] <= f[n]
        BY <1>1, <2>1, <2>2, <2>3, NeverFalls
    <2> QED
        BY <2>3, <2>4
<1> QED
    BY <1>1, <1>2, <1>4, <1>5

LEMMA NoWalkIsLess ==
    ASSUME ProblemOK, SearchShape, Ahead, NEW e \in frontier, Fresh(e),
           \A f \in frontier : ~LexLess(HeapKey(f), HeapKey(e)),
           NodeOf(e.state) \in problem.target,
           NEW n, NEW w, LegalRoute(w, n), w[n] \in problem.target
    PROVE  ~LexLess(PrefixScore(w, n), e.score)
<1>1. PICK k \in 1..n : /\ Along(w, k) \in DOMAIN scores /\ Queued(Along(w, k))
                        /\ NoWorse(scores[Along(w, k)], PrefixScore(w, k))
    BY SearchIsAhead
<1> DEFINE f == [state |-> Along(w, k), score |-> scores[Along(w, k)]]
           P == PrefixScore(w, k)
           Q == PrefixScore(w, n)
<1>2. f \in frontier /\ f \in Pushed /\ e \in Pushed
    BY <1>1 DEF Queued, SearchShape
<1>3. NodeOf(f.state) = w[k]
    BY DEF NodeOf, Along
<1>4. Heuristic(NodeOf(e.state)) = 0 /\ Heuristic(w[n]) = 0
    BY HeuristicAtTarget DEF ProblemOK
<1>5. n \in 1..n /\ P \in Score /\ Q \in Score /\ f.score \in Score /\ e.score \in Score
    <2>1. n \in 1..n
        BY DEF LegalRoute
    <2> QED
        BY <2>1, <1>2, PrefixSteps DEF Pushed
<1>6. /\ \A i \in 1..4 : P[i] <= Q[i]
      /\ Heuristic(w[k]) \in Nat /\ P[1] + Heuristic(w[k]) <= Q[1] + 0
    BY <1>4, EstimateGrows
<1>7. \/ e.score[1] + 0 < f.score[1] + Heuristic(w[k])
      \/ e.score[1] + 0 = f.score[1] + Heuristic(w[k]) /\ NoWorse(e.score, f.score)
    BY <1>2, <1>3, <1>4, KeyOrder DEF ProblemOK
<1>8. NoWorse(f.score, P)
    BY <1>1
<1> HIDE DEF f, P, Q
<1>9. f.score[1] <= P[1]
    BY <1>5, <1>8, NoWorseOrder
<1>10. e.score[1] \in Nat /\ f.score[1] \in Nat /\ P[1] \in Nat /\ Q[1] \in Nat
    BY <1>5 DEF Score
<1>11. CASE e.score[1] + 0 < f.score[1] + Heuristic(w[k])
    <2>1. e.score[1] < Q[1]
        BY <1>6, <1>9, <1>10, <1>11
    <2> QED
        BY <2>1, <1>5, <1>10, ScoreOrder DEF Q
<1>12. CASE NoWorse(e.score, f.score)
    <2>1. NoWorse(P, Q)
        BY <1>5, <1>6, NoWorseOrder
    <2>2. NoWorse(e.score, P)
        BY <1>5, <1>8, <1>12, NoWorseOrder
    <2>3. NoWorse(e.score, Q)
        BY <1>5, <2>1, <2>2, NoWorseOrder
    <2> QED
        BY <2>3 DEF NoWorse, Q
<1> QED
    BY <1>7, <1>11, <1>12

-----------------------------------------------------------------------------
(* The way back from a reached state ends at a start.                      *)

LEMMA Rises ==
    ASSUME NEW m \in Nat, NEW n \in Nat, NEW f, \A i \in m..n : f[i] \in Int,
           \A i \in m..(n - 1) : f[i] < f[i + 1]
    PROVE  \A i \in m..n, j \in m..n : i < j => f[i] < f[j]
<1> DEFINE g == [i \in m..n |-> f[i] - i]
<1>1. \A i \in m..n : g[i] \in Int /\ g[i] = f[i] - i
    OBVIOUS
<1>2. ASSUME NEW i \in m..(n - 1) PROVE g[i] <= g[i + 1]
    <2>1. i \in m..n /\ i + 1 \in m..n
        OBVIOUS
    <2>2. f[i] \in Int /\ f[i + 1] \in Int /\ f[i] < f[i + 1]
        BY <2>1
    <2>3. g[i] = f[i] - i /\ g[i + 1] = f[i + 1] - (i + 1)
        BY <2>1
    <2> HIDE DEF g
    <2> QED
        BY <2>1, <2>2, <2>3
<1> HIDE DEF g
<1>3. \A i \in m..n, j \in m..n : i <= j => g[i] <= g[j]
    BY <1>1, <1>2, NeverFalls
<1> SUFFICES ASSUME NEW i \in m..n, NEW j \in m..n, i < j PROVE f[i] < f[j]
    OBVIOUS
<1>4. g[i] <= g[j] /\ g[i] = f[i] - i /\ g[j] = f[j] - j /\ f[i] \in Int /\ f[j] \in Int
    BY <1>1, <1>3
<1> QED
    BY <1>4

LEMMA ParentIs ==
    ASSUME ProblemOK, SearchShape, Ahead, NEW s \in DOMAIN scores, s \notin Starts
    PROVE  /\ parents[s] \in DOMAIN scores /\ Reaches(parents[s], s)
           /\ scores[parents[s]][1] + StepCost <= scores[s][1]
           /\ scores[parents[s]][1] < scores[s][1]
<1>1. Reaches(parents[s], s) /\ parents[s] \in DOMAIN scores
    BY DEF SearchShape, Ahead, Reaches
<1> DEFINE p == parents[s]
           t == Stepped(scores[p], p, s[2])
<1>2. scores[p] \in Score /\ scores[s] \in Score
    BY <1>1 DEF SearchShape
<1>3. t \in Score /\ t[1] >= scores[p][1] + StepCost
    BY <1>2, SteppedIs
<1>4. t[1] <= scores[s][1]
    BY <1>1, <1>2, <1>3, NoWorseOrder DEF Reaches
<1>5. /\ t[1] \in Nat /\ scores[p][1] \in Nat /\ scores[s][1] \in Nat
      /\ StepCost \in Nat /\ StepCost > 0
    BY <1>2, <1>3, SearchAssumption DEF Score
<1> HIDE DEF p, t
<1>6. scores[p][1] + StepCost <= scores[s][1] /\ scores[p][1] < scores[s][1]
    BY <1>3, <1>4, <1>5
<1> QED
    BY <1>1, <1>6 DEF p

(* The way back from s, n steps of it, which stays where it comes home.    *)
Backwards(f, n, s, home, before) ==
    f = [i \in 0..n |->
           IF i = 0 THEN s
           ELSE IF f[i - 1] \in home THEN f[i - 1] ELSE before[f[i - 1]]]

LEMMA BackwardsExists ==
    ASSUME NEW n \in Nat, NEW s, NEW home, NEW before
    PROVE  \E f : Backwards(f, n, s, home, before)
<1> DEFINE Bad == {k \in Nat : ~\E f : Backwards(f, k, s, home, before)}
<1>1. SUFFICES ASSUME Bad # {} PROVE FALSE
    OBVIOUS
<1>2. PICK k \in Bad : \A j \in Bad : k <= j
    <2>1. Bad \subseteq Nat
        OBVIOUS
    <2> HIDE DEF Bad
    <2> QED
        BY <1>1, <2>1, LeastNatural
<1>3. k \in Nat /\ ~\E f : Backwards(f, k, s, home, before)
    OBVIOUS
<1>4. CASE k = 0
    <2> DEFINE f == [i \in 0..0 |-> s]
    <2>1. \A i \in 0..0 : i = 0
        OBVIOUS
    <2>2. Backwards(f, 0, s, home, before)
        BY <2>1 DEF Backwards
    <2> QED
        BY <1>3, <1>4, <2>2
<1>5. CASE k # 0
    <2>1. k - 1 \in Nat /\ ~(k <= k - 1)
        BY <1>3, <1>5
    <2>2. PICK f : Backwards(f, k - 1, s, home, before)
        BY <1>2, <2>1
    <2> DEFINE last == f[k - 1]
               g == [i \in 0..k |-> IF i = k
                                    THEN (IF last \in home THEN last ELSE before[last])
                                    ELSE f[i]]
               after(i) == IF i = 0 THEN s
                           ELSE IF g[i - 1] \in home THEN g[i - 1] ELSE before[g[i - 1]]
    <2>3. \A i \in 0..(k - 1) :
             f[i] = IF i = 0 THEN s
                    ELSE IF f[i - 1] \in home THEN f[i - 1] ELSE before[f[i - 1]]
        BY <2>2 DEF Backwards
    <2>4. \A i \in 0..(k - 1) : g[i] = f[i]
        BY <1>3, <2>1
    <2>5. g[k] = IF last \in home THEN last ELSE before[last]
        BY <1>3
    <2>6. g = [i \in 0..k |-> g[i]]
        OBVIOUS
    <2> HIDE DEF g
    <2>7. ASSUME NEW i \in 0..k PROVE g[i] = after(i)
        <3>1. CASE i = k
            <4>1. k # 0 /\ k - 1 \in 0..(k - 1)
                BY <1>3, <1>5
            <4>2. g[k - 1] = last
                BY <2>4, <4>1
            <4> QED
                BY <2>5, <3>1, <4>1, <4>2
        <3>2. CASE i # k /\ i # 0
            <4>1. i \in 0..(k - 1) /\ i - 1 \in 0..(k - 1)
                BY <1>3, <3>2
            <4> QED
                BY <2>3, <2>4, <3>2, <4>1
        <3>3. CASE i # k /\ i = 0
            <4>1. i \in 0..(k - 1)
                BY <1>3, <3>3
            <4> QED
                BY <2>3, <2>4, <3>3, <4>1
        <3> QED
            BY <3>1, <3>2, <3>3
    <2> HIDE DEF after
    <2>8. g = [i \in 0..k |-> after(i)]
        BY <2>6, <2>7
    <2>9. Backwards(g, k, s, home, before)
        BY <2>8 DEF Backwards, after
    <2> QED
        BY <1>3, <2>9
<1> QED
    BY <1>4, <1>5

(* A way back through finitely many states, each of less worth than the    *)
(* one before, comes home.                                                 *)
BackIsTight(T, N, home, before, worth, s, B, K) ==
    /\ IsFiniteSet(T) /\ N \in Nat /\ Cardinality(T) <= N
    /\ T \cap home = {} /\ s \in T \cup home
    /\ \A x \in T : worth[x] \in Nat /\ before[x] \in T \cup home
    /\ \A x \in T : before[x] \in T => worth[before[x]] < worth[x]
    /\ Backwards(B, N, s, home, before)
    /\ K = Min({i \in 0..N : B[i] \in home})

ComesHome(T, N, home, before, s, B, K) ==
    /\ K \in 0..N /\ B[0] = s /\ B[K] \in home
    /\ \A i \in 0..(K - 1) : B[i] \in T /\ B[i + 1] = before[B[i]]

LEMMA BackwardsIs ==
    ASSUME NEW N, NEW s, NEW home, NEW before, NEW B, Backwards(B, N, s, home, before)
    PROVE  \A i \in 0..N :
              B[i] = IF i = 0 THEN s
                     ELSE IF B[i - 1] \in home THEN B[i - 1] ELSE before[B[i - 1]]
<1> DEFINE after(i) == IF i = 0 THEN s
                       ELSE IF B[i - 1] \in home THEN B[i - 1] ELSE before[B[i - 1]]
<1>1. B = [i \in 0..N |-> after(i)]
    BY DEF Backwards
<1>2. SUFFICES \A i \in 0..N : B[i] = after(i)
    OBVIOUS
<1> HIDE DEF after
<1> QED
    BY <1>1

LEMMA WayHome ==
    ASSUME NEW T, NEW N, NEW home, NEW before, NEW worth, NEW s, NEW B, NEW K,
           BackIsTight(T, N, home, before, worth, s, B, K)
    PROVE  ComesHome(T, N, home, before, s, B, K)
<1> USE DEF BackIsTight
<1> N \in Nat
    OBVIOUS
<1> DEFINE Home == {i \in 0..N : B[i] \in home}
<1>1. \A i \in 0..N :
         B[i] = IF i = 0 THEN s ELSE IF B[i - 1] \in home THEN B[i - 1] ELSE before[B[i - 1]]
    BY BackwardsIs
<1>2. B[0] = s
    BY <1>1
<1>3. ASSUME NEW i \in 0..(N - 1)
      PROVE  /\ i \in 0..N /\ i + 1 \in 0..N
             /\ B[i] \notin home => B[i + 1] = before[B[i]]
             /\ B[i] \in home => B[i + 1] = B[i]
    <2>1. i \in 0..N /\ i + 1 \in 0..N /\ i + 1 # 0 /\ (i + 1) - 1 = i
        OBVIOUS
    <2> QED
        BY <1>1, <2>1
<1>4. \A i \in 0..N : B[i] \in T \cup home
    <2> DEFINE Bad == {i \in 0..N : B[i] \notin T \cup home}
    <2>1. SUFFICES ASSUME Bad # {} PROVE FALSE
        OBVIOUS
    <2>2. PICK i \in Bad : \A j \in Bad : i <= j
        <3>1. Bad \subseteq Nat
            OBVIOUS
        <3> HIDE DEF Bad
        <3> QED
            BY <2>1, <3>1, LeastNatural
    <2>3. i \in 0..N /\ B[i] \notin T \cup home /\ i # 0
        BY <1>2
    <2>4. i - 1 \in 0..(N - 1) /\ (i - 1) + 1 = i /\ ~(i <= i - 1) /\ i - 1 \in 0..N
        BY <2>3
    <2>5. B[i - 1] \in T \cup home
        BY <2>2, <2>4
    <2>6. B[i] = B[i - 1] \/ (B[i - 1] \notin home /\ B[i] = before[B[i - 1]])
        BY <1>3, <2>4
    <2> QED
        BY <2>3, <2>5, <2>6
<1>5. Home # {}
    <2>1. SUFFICES ASSUME \A i \in 0..N : B[i] \in T /\ B[i] \notin home PROVE FALSE
        BY <1>4
    <2> DEFINE f == [i \in 0..N |-> 0 - worth[B[i]]]
    <2>2. \A i \in 0..N : worth[B[i]] \in Nat
        BY <2>1
    <2>3. \A i \in 0..N : f[i] \in Int /\ f[i] = 0 - worth[B[i]]
        BY <2>2
    <2>4. ASSUME NEW i \in 0..(N - 1) PROVE f[i] < f[i + 1]
        <3>1. i \in 0..N /\ i + 1 \in 0..N /\ B[i + 1] = before[B[i]]
            BY <1>3, <2>1
        <3>2. worth[B[i + 1]] < worth[B[i]]
            BY <2>1, <3>1
        <3>3. /\ f[i] = 0 - worth[B[i]] /\ f[i + 1] = 0 - worth[B[i + 1]]
              /\ worth[B[i]] \in Nat /\ worth[B[i + 1]] \in Nat
            BY <2>2, <2>3, <3>1
        <3> HIDE DEF f
        <3> QED
            BY <3>2, <3>3
    <2> HIDE DEF f
    <2>5. \A i \in 0..N, j \in 0..N : i < j => f[i] < f[j]
        BY <2>3, <2>4, Rises, 0 \in Nat
    <2> DEFINE g == [i \in 0..N |-> B[i]]
    <2>6. g \in [0..N -> T]
        BY <2>1
    <2>7. IsFiniteSet(0..N) /\ Cardinality(0..N) = N + 1
        <3>1. Cardinality(0..N) = IF 0 > N THEN 0 ELSE N - 0 + 1
            BY FS_Interval
        <3>2. IsFiniteSet(0..N)
            BY FS_Interval
        <3> QED
            BY <3>1, <3>2
    <2>8. Cardinality(T) < Cardinality(0..N)
        <3>1. Cardinality(T) \in Nat
            BY FS_CardinalityType
        <3> QED
            BY <2>7, <3>1
    <2>9. PICK i \in 0..N, j \in 0..N : i # j /\ g[i] = g[j]
        <3> HIDE DEF g
        <3> QED
            BY <2>6, <2>7, <2>8, FS_PigeonHole
    <2>10. B[i] = B[j]
        BY <2>9
    <2>11. f[i] = f[j] /\ f[i] \in Int /\ f[j] \in Int
        BY <2>3, <2>10
    <2>12. i < j \/ j < i
        BY <2>9
    <2> QED
        BY <2>5, <2>11, <2>12
<1>6. K \in Home /\ \A i \in Home : K <= i
    <2>1. Home \subseteq Nat
        OBVIOUS
    <2>2. K = Min(Home)
        OBVIOUS
    <2> HIDE DEF Home
    <2>3. \E m \in Home : \A i \in Home : m <= i
        BY <1>5, <2>1, LeastNatural
    <2> QED
        BY <2>2, <2>3 DEF Min
<1>7. K \in 0..N /\ B[K] \in home
    BY <1>6
<1>8. ASSUME NEW i \in 0..(K - 1) PROVE B[i] \in T /\ B[i + 1] = before[B[i]]
    <2>1. i \in 0..N /\ i \in 0..(N - 1) /\ ~(K <= i)
        BY <1>7
    <2>2. B[i] \notin home
        BY <1>6, <2>1
    <2> QED
        BY <1>3, <1>4, <2>1, <2>2
<1> QED
    BY <1>2, <1>7, <1>8 DEF ComesHome

LEMMA BackToStart ==
    ASSUME ProblemOK, SearchShape, Ahead, NEW s \in DOMAIN scores
    PROVE  \E K, B :
              /\ K \in Nat
              /\ WayTo(s) = [i \in 1..(K + 1) |-> NodeOf(B[K + 1 - i])]
              /\ B[0] = s /\ B[K] \in Starts
              /\ \A i \in 0..K : B[i] \in DOMAIN scores
              /\ \A i \in 0..(K - 1) : B[i] \notin Starts /\ B[i + 1] = parents[B[i]]
<1> DEFINE N == Cardinality(State)
           B == CHOOSE f : Backwards(f, N, s, Starts, parents)
           K == Min({i \in 0..N : B[i] \in Starts})
           T == DOMAIN scores \ Starts
           worth == [x \in T |-> scores[x][1]]
<1>1. WayTo(s) = [i \in 1..(K + 1) |-> NodeOf(B[K + 1 - i])]
    BY DEF WayTo, Backwards
<1>2. N \in Nat /\ IsFiniteSet(T) /\ Cardinality(T) <= N
    <2>1. T \subseteq State
        BY DEF SearchShape
    <2> HIDE DEF T
    <2> QED
        BY <2>1, NodeIsFinite, FS_CardinalityType, FS_Subset
<1> HIDE DEF N
<1>3. Backwards(B, N, s, Starts, parents)
    BY <1>2, BackwardsExists
<1>4. \A x \in Starts : x \in DOMAIN scores
    BY DEF Ahead
<1>5. ASSUME NEW x \in T
      PROVE  /\ worth[x] \in Nat /\ parents[x] \in T \cup Starts
             /\ parents[x] \in T => worth[parents[x]] < worth[x]
    <2>1. /\ x \in DOMAIN scores /\ scores[x][1] \in Nat /\ parents[x] \in DOMAIN scores
          /\ scores[parents[x]][1] < scores[x][1]
        BY ParentIs DEF SearchShape, Score
    <2> QED
        BY <2>1
<1>6. s \in T \cup Starts /\ T \cap Starts = {}
    OBVIOUS
<1> HIDE DEF B, T, worth
<1>7. /\ K \in 0..N /\ B[0] = s /\ B[K] \in Starts
      /\ \A i \in 0..(K - 1) : B[i] \in T /\ B[i + 1] = parents[B[i]]
    <2>1. K = Min({i \in 0..N : B[i] \in Starts})
        OBVIOUS
    <2> HIDE DEF K
    <2>2. BackIsTight(T, N, Starts, parents, worth, s, B, K)
        BY <1>2, <1>3, <1>5, <1>6, <2>1 DEF BackIsTight
    <2>3. ComesHome(T, N, Starts, parents, s, B, K)
        BY <2>2, WayHome
    <2> QED
        BY <2>3 DEF ComesHome
<1> HIDE DEF K
<1>8. K \in Nat /\ \A i \in 0..K : i = K \/ i \in 0..(K - 1)
    BY <1>2, <1>7
<1>9. \A i \in 0..(K - 1) : B[i] \in DOMAIN scores /\ B[i] \notin Starts
    BY <1>7 DEF T
<1> QED
    BY <1>1, <1>4, <1>7, <1>8, <1>9

(* The same way from the start on.                                         *)
Chain(c, n, s) ==
    /\ n \in Nat \ {0} /\ c[1] \in Starts /\ c[n] = s
    /\ \A i \in 1..n : c[i] \in DOMAIN scores
    /\ \A i \in 1..(n - 1) : c[i + 1] \notin Starts /\ c[i] = parents[c[i + 1]]

LEMMA WayIsChain ==
    ASSUME ProblemOK, SearchShape, Ahead, NEW s \in DOMAIN scores
    PROVE  \E n, c :
              /\ n \in Nat /\ Chain(c, n, s)
              /\ WayTo(s) = [i \in 1..n |-> NodeOf(c[i])]
<1>1. PICK K, B :
              /\ K \in Nat
              /\ WayTo(s) = [i \in 1..(K + 1) |-> NodeOf(B[K + 1 - i])]
              /\ B[0] = s /\ B[K] \in Starts
              /\ \A i \in 0..K : B[i] \in DOMAIN scores
              /\ \A i \in 0..(K - 1) : B[i] \notin Starts /\ B[i + 1] = parents[B[i]]
    BY BackToStart
<1> K \in Nat
    BY <1>1
<1> DEFINE n == K + 1
           c == [i \in 1..n |-> B[K + 1 - i]]
<1>2. \A i \in 1..n : c[i] = B[K + 1 - i] /\ K + 1 - i \in 0..K
    OBVIOUS
<1>3. c[1] = B[K] /\ c[n] = B[0]
    <2>1. K + 1 - 1 = K /\ K + 1 - n = 0 /\ 1 \in 1..n /\ n \in 1..n
        OBVIOUS
    <2> HIDE DEF c
    <2> QED
        BY <1>2, <2>1
<1>4. ASSUME NEW i \in 1..(n - 1) PROVE c[i + 1] \notin Starts /\ c[i] = parents[c[i + 1]]
    <2>1. /\ i \in 1..n /\ i + 1 \in 1..n
          /\ K + 1 - (i + 1) \in 0..(K - 1) /\ (K + 1 - (i + 1)) + 1 = K + 1 - i
        OBVIOUS
    <2>2. c[i + 1] = B[K + 1 - (i + 1)] /\ c[i] = B[K + 1 - i]
        BY <1>2, <2>1
    <2> HIDE DEF c
    <2> QED
        BY <1>1, <2>1, <2>2
<1>5. \A i \in 1..n : c[i] \in DOMAIN scores
    BY <1>1, <1>2
<1>6. WayTo(s) = [i \in 1..n |-> NodeOf(c[i])]
    BY <1>1, <1>2
<1>7. n \in Nat \ {0} /\ n \in Nat
    OBVIOUS
<1> HIDE DEF c, n
<1>8. Chain(c, n, s)
    BY <1>1, <1>3, <1>4, <1>5, <1>7 DEF Chain
<1> QED
    BY <1>6, <1>7, <1>8

-----------------------------------------------------------------------------
(* What is found is a walk with the score it claims.                       *)

(* What is popped at a target.                                             *)
Winner(e) ==
    /\ e \in frontier /\ Fresh(e) /\ NodeOf(e.state) \in problem.target
    /\ \A f \in frontier : ~LexLess(HeapKey(f), HeapKey(e))

(* One step of the way: where it leads, and that scores rise.              *)
LEMMA ChainSteps ==
    ASSUME ProblemOK, SearchShape, Ahead, NEW s, NEW n, NEW c, Chain(c, n, s),
           NEW i \in 1..(n - 1)
    PROVE  /\ i \in 1..n /\ i + 1 \in 1..n
           /\ c[i] \in State /\ c[i + 1] \in State
           /\ scores[c[i]] \in Score /\ scores[c[i + 1]] \in Score
           /\ Reaches(c[i], c[i + 1])
           /\ NodeOf(c[i + 1]) = Beyond(NodeOf(c[i]), c[i + 1][2])
           /\ scores[c[i]][1] + StepCost <= scores[c[i + 1]][1]
<1>1. i \in 1..n /\ i + 1 \in 1..n
    BY DEF Chain
<1>2. /\ c[i] \in DOMAIN scores /\ c[i + 1] \in DOMAIN scores
      /\ c[i + 1] \notin Starts /\ c[i] = parents[c[i + 1]]
    BY <1>1 DEF Chain
<1>3. Reaches(c[i], c[i + 1]) /\ scores[c[i]][1] + StepCost <= scores[c[i + 1]][1]
    BY <1>2, ParentIs
<1>4. NodeOf(c[i + 1]) = Beyond(NodeOf(c[i]), c[i + 1][2])
    BY <1>3 DEF Reaches, Onward, NodeOf
<1> QED
    BY <1>1, <1>2, <1>3, <1>4 DEF SearchShape

(* What comes before the winner on its way has been expanded: queued, it   *)
(* would be cheaper.                                                       *)
LEMMA ChainIsSettled ==
    ASSUME ProblemOK, SearchShape, Ahead, NEW e, Winner(e), NEW n, NEW c,
           Chain(c, n, e.state), NEW i \in 1..(n - 1)
    PROVE  /\ Settled(c[i])
           /\ scores[c[i + 1]] = Stepped(scores[c[i]], c[i], c[i + 1][2])
<1>1. n \in Nat \ {0} /\ c[n] = e.state /\ n \in 1..n /\ 1 \in Nat
    BY DEF Chain
<1>2. \A j \in 1..n : /\ scores[c[j]] \in Score /\ scores[c[j]][1] \in Nat
                      /\ c[j] \in State /\ c[j] \in DOMAIN scores
                      /\ NodeOf(c[j]) \in Node
    BY StateIs DEF Chain, SearchShape, Score
<1>3. \A j \in 1..n : Heuristic(NodeOf(c[j])) \in Nat
    BY <1>2, HeuristicChanges DEF ProblemOK
<1>4. scores[c[i]][1] < scores[c[n]][1]
    <2> DEFINE f == [j \in 1..n |-> scores[c[j]][1]]
    <2>1. \A j \in 1..n : f[j] \in Int /\ f[j] = scores[c[j]][1]
        BY <1>2
    <2>2. ASSUME NEW j \in 1..(n - 1) PROVE f[j] < f[j + 1]
        <3>1. j \in 1..n /\ j + 1 \in 1..n /\ scores[c[j]][1] + StepCost <= scores[c[j + 1]][1]
            BY ChainSteps
        <3>2. StepCost \in Nat /\ StepCost > 0
            BY SearchAssumption
        <3>3. f[j] = scores[c[j]][1] /\ f[j + 1] = scores[c[j + 1]][1]
            BY <2>1, <3>1
        <3> HIDE DEF f
        <3> QED
            BY <1>2, <3>1, <3>2, <3>3
    <2>3. i \in 1..n /\ i < n
        BY <1>1
    <2> HIDE DEF f
    <2>4. f[i] < f[n]
        BY <1>1, <2>1, <2>2, <2>3, Rises
    <2> QED
        BY <1>1, <2>1, <2>3, <2>4
<1>5. scores[c[i]][1] + Heuristic(NodeOf(c[i])) <= scores[c[n]][1] + Heuristic(NodeOf(c[n]))
    <2> DEFINE f == [j \in 1..n |-> scores[c[j]][1] + Heuristic(NodeOf(c[j]))]
    <2>1. \A j \in 1..n : /\ f[j] \in Int
                          /\ f[j] = scores[c[j]][1] + Heuristic(NodeOf(c[j]))
        BY <1>2, <1>3
    <2>2. ASSUME NEW j \in 1..(n - 1) PROVE f[j] <= f[j + 1]
        <3>1. /\ j \in 1..n /\ j + 1 \in 1..n
              /\ scores[c[j]][1] + StepCost <= scores[c[j + 1]][1]
              /\ Reaches(c[j], c[j + 1])
              /\ NodeOf(c[j + 1]) = Beyond(NodeOf(c[j]), c[j + 1][2])
            BY ChainSteps
        <3>2. Heuristic(NodeOf(c[j])) <= Heuristic(NodeOf(c[j + 1])) + StepCost
            <4>1. c[j + 1][2] \in 1..4
                BY <3>1 DEF Reaches
            <4> QED
                BY <1>2, <3>1, <4>1, HeuristicChanges DEF ProblemOK
        <3>3. StepCost \in Nat
            BY SearchAssumption
        <3>4. /\ f[j] = scores[c[j]][1] + Heuristic(NodeOf(c[j]))
              /\ f[j + 1] = scores[c[j + 1]][1] + Heuristic(NodeOf(c[j + 1]))
            BY <2>1, <3>1
        <3>5. /\ scores[c[j]][1] \in Nat /\ scores[c[j + 1]][1] \in Nat
              /\ Heuristic(NodeOf(c[j])) \in Nat /\ Heuristic(NodeOf(c[j + 1])) \in Nat
            BY <1>2, <1>3, <3>1
        <3> HIDE DEF f
        <3> QED
            BY <3>1, <3>2, <3>3, <3>4, <3>5
    <2>3. i \in 1..n /\ i <= n
        BY <1>1
    <2> HIDE DEF f
    <2>4. f[i] <= f[n]
        BY <1>1, <2>1, <2>2, <2>3, NeverFalls
    <2> QED
        BY <1>1, <2>1, <2>3, <2>4
<1>6. ~Queued(c[i])
    <2> SUFFICES ASSUME Queued(c[i]) PROVE FALSE
        OBVIOUS
    <2> DEFINE f == [state |-> c[i], score |-> scores[c[i]]]
    <2>1. f \in frontier /\ f \in Pushed /\ e \in Pushed
        BY DEF Queued, SearchShape, Winner
    <2>2. e.score = scores[c[n]] /\ i \in 1..n
        BY <1>1 DEF Winner, Fresh
    <2>3. \/ e.score[1] + Heuristic(NodeOf(e.state)) < f.score[1] + Heuristic(NodeOf(f.state))
          \/ NoWorse(e.score, f.score)
        BY <2>1, KeyOrder DEF ProblemOK, Winner
    <2>4. ~NoWorse(e.score, f.score)
        <3>1. NoWorse(e.score, f.score) => e.score[1] <= f.score[1]
            BY <2>1, NoWorseOrder DEF Pushed
        <3>2. f.score[1] < e.score[1] /\ f.score[1] \in Nat /\ e.score[1] \in Nat
            BY <1>1, <1>2, <1>4, <2>2
        <3> QED
            BY <3>1, <3>2
    <2>5. /\ scores[c[i]][1] \in Nat /\ scores[c[n]][1] \in Nat
          /\ Heuristic(NodeOf(c[i])) \in Nat /\ Heuristic(NodeOf(c[n])) \in Nat
        BY <1>1, <1>2, <1>3, <2>2
    <2> QED
        BY <1>1, <1>5, <2>2, <2>3, <2>4, <2>5
<1>7. /\ i \in 1..n /\ i + 1 \in 1..n
      /\ scores[c[i]] \in Score /\ scores[c[i + 1]] \in Score
      /\ Reaches(c[i], c[i + 1])
    BY ChainSteps
<1>8. Settled(c[i])
    BY <1>2, <1>6, <1>7 DEF Ahead
<1> DEFINE d == c[i + 1][2]
<1>9. /\ d \in 1..4 /\ c[i + 1] = Onward(c[i], d) /\ Open(c[i], d)
      /\ NoWorse(Stepped(scores[c[i]], c[i], d), scores[c[i + 1]])
    BY <1>7 DEF Reaches
<1>10. NoWorse(scores[c[i + 1]], Stepped(scores[c[i]], c[i], d))
    BY <1>8, <1>9 DEF Settled
<1>11. Stepped(scores[c[i]], c[i], d) \in Score
    BY <1>7, SteppedIs
<1> HIDE DEF d
<1>12. scores[c[i + 1]] = Stepped(scores[c[i]], c[i], d)
    BY <1>7, <1>9, <1>10, <1>11, NoWorseOrder
<1> QED
    BY <1>8, <1>12 DEF d

(* A bend counts once.                                                     *)
Bend(s, d) == IF s[2] # NoDirection /\ s[2] # d THEN BendPenalty ELSE 0

(* And what entering a node costs depends on the node alone.               *)
Entering(n) ==
    (IF n \in problem.near THEN 1 ELSE 0) * ProximityPenalty
      + (IF n \in problem.priced THEN CongestionPenalty ELSE 0)

LEMMA SteppedBends ==
    ASSUME NEW score \in Score, NEW s, NEW d
    PROVE  /\ Entering(Beyond(NodeOf(s), d)) \in Nat
           /\ Stepped(score, s, d)[1]
                = score[1] + StepCost + Bend(s, d) + Entering(Beyond(NodeOf(s), d))
<1> DEFINE next == Beyond(NodeOf(s), d)
           marked == IF next \in problem.near THEN 1 ELSE 0
           price == IF next \in problem.priced THEN CongestionPenalty ELSE 0
           near == marked * ProximityPenalty + price
           bend == IF s[2] # NoDirection /\ s[2] # d THEN 1 ELSE 0
<1>1. marked * ProximityPenalty \in Nat /\ price \in Nat /\ near \in Nat
      /\ BendPenalty \in Nat /\ StepCost \in Nat
    <2>1. marked \in Nat /\ ProximityPenalty \in Nat /\ price \in Nat
        BY SearchAssumption
    <2> HIDE DEF marked
    <2>2. marked * ProximityPenalty \in Nat
        BY <2>1, Multiples
    <2> QED
        BY <2>1, <2>2, SearchAssumption
<1>2. Stepped(score, s, d)[1]
        = score[1] + (StepCost + bend * BendPenalty + marked * ProximityPenalty) + price
    BY DEF Stepped, Raised, NodeOf
<1>3. bend * BendPenalty = Bend(s, d) /\ Bend(s, d) \in Nat
    <2>1. 1 * BendPenalty = BendPenalty /\ 0 * BendPenalty = 0
        BY <1>1
    <2> QED
        BY <1>1, <2>1 DEF Bend
<1>4. score[1] \in Nat
    BY DEF Score
<1>5. near = marked * ProximityPenalty + price /\ near = Entering(next)
    BY DEF Entering
<1> HIDE DEF marked, price, near, bend
<1> QED
    BY <1>1, <1>2, <1>3, <1>4, <1>5

(* Coming back to a node never pays, whichever way the search goes on from *)
(* there: all that was saved is a bend, and a bend has been paid for since.*)
LEMMA ChainIsSimple ==
    ASSUME ProblemOK, SearchShape, Ahead, NEW e, Winner(e), NEW n, NEW c,
           Chain(c, n, e.state)
    PROVE  \A i \in 1..n, j \in 1..n : NodeOf(c[i]) = NodeOf(c[j]) => i = j
<1>1. n \in Nat \ {0} /\ c[n] = e.state /\ n \in 1..n /\ 1 \in Nat
    BY DEF Chain
<1>2. ASSUME NEW i \in 1..n, NEW j \in 1..n, i < j, NodeOf(c[i]) = NodeOf(c[j]) PROVE FALSE
    <2>1. i \in 1..(n - 1)
        BY <1>1, <1>2
    <2>2. Settled(c[i])
        BY <2>1, ChainIsSettled
    <2>3. CASE j = n
        BY <1>1, <1>2, <2>2, <2>3 DEF Settled, Winner
    <2>4. CASE j # n
        <3> DEFINE d == c[j + 1][2]
                   f == [l \in 1..n |-> scores[c[l]][1] + Bend(c[l], d)]
        <3>1. j \in 1..(n - 1)
            BY <1>1, <2>4
        <3>2. /\ Reaches(c[j], c[j + 1]) /\ d \in 1..4
              /\ c[j + 1] = Onward(c[j], d) /\ Open(c[j], d)
              /\ scores[c[j]] \in Score /\ scores[c[j + 1]] \in Score
              /\ scores[c[j + 1]] = Stepped(scores[c[j]], c[j], d)
            BY <3>1, ChainSteps, ChainIsSettled DEF Reaches
        <3>3. scores[c[i]] \in Score
            BY <2>1, ChainSteps
        <3>4. Onward(c[i], d) = c[j + 1] /\ Open(c[i], d)
            BY <1>2, <3>2 DEF Onward, Open
        <3>5. NoWorse(scores[c[j + 1]], Stepped(scores[c[i]], c[i], d))
            BY <2>2, <3>2, <3>4 DEF Settled
        <3>6. Stepped(scores[c[i]], c[i], d) \in Score
            BY <3>3, SteppedIs
        <3>7. scores[c[j + 1]][1] <= Stepped(scores[c[i]], c[i], d)[1]
            BY <3>2, <3>5, <3>6, NoWorseOrder
        <3> DEFINE near == Entering(Beyond(NodeOf(c[j]), d))
        <3>8. near \in Nat /\ Stepped(scores[c[j]], c[j], d)[1]
                                 = scores[c[j]][1] + StepCost + Bend(c[j], d) + near
            BY <3>2, SteppedBends
        <3>9. Stepped(scores[c[i]], c[i], d)[1]
                = scores[c[i]][1] + StepCost + Bend(c[i], d) + near
            <4>1. NodeOf(c[i]) = NodeOf(c[j])
                BY <1>2
            <4> QED
                BY <3>3, <4>1, SteppedBends
        <3>10. \A s, b : Bend(s, b) \in Nat
            BY SearchAssumption DEF Bend
        <3>11. \A l \in 1..n : scores[c[l]] \in Score /\ scores[c[l]][1] \in Nat
            BY DEF Chain, SearchShape, Score
        <3>12. StepCost \in Nat /\ StepCost > 0
            BY SearchAssumption
        <3> HIDE DEF d, near
        <3>13. \A l \in 1..n : f[l] \in Int /\ f[l] = scores[c[l]][1] + Bend(c[l], d)
            BY <3>10, <3>11
        <3> HIDE DEF f
        <3>14. f[j] <= f[i]
            <4>1. /\ scores[c[i]][1] \in Nat /\ scores[c[j]][1] \in Nat
                  /\ Bend(c[i], d) \in Nat /\ Bend(c[j], d) \in Nat
                BY <3>10, <3>11
            <4>2. scores[c[j]][1] + StepCost + Bend(c[j], d) + near
                    <= scores[c[i]][1] + StepCost + Bend(c[i], d) + near
                BY <3>2, <3>7, <3>8, <3>9
            <4>3. scores[c[j]][1] + Bend(c[j], d) <= scores[c[i]][1] + Bend(c[i], d)
                BY <3>8, <3>12, <4>1, <4>2
            <4> QED
                BY <3>13, <4>3
        <3>15. ASSUME NEW l \in 1..(n - 1) PROVE f[l] < f[l + 1]
            <4> DEFINE b == c[l + 1][2]
            <4>1. /\ l \in 1..n /\ l + 1 \in 1..n /\ b \in 1..4
                  /\ scores[c[l + 1]] = Stepped(scores[c[l]], c[l], b)
                BY ChainSteps, ChainIsSettled DEF Reaches
            <4> DEFINE more == Entering(Beyond(NodeOf(c[l]), b))
            <4>2. more \in Nat /\ Stepped(scores[c[l]], c[l], b)[1]
                                   = scores[c[l]][1] + StepCost + Bend(c[l], b) + more
                BY <3>11, <4>1, SteppedBends
            <4>3. Bend(c[l], d) <= Bend(c[l], b) + Bend(c[l + 1], d)
                <5>1. b # NoDirection
                    BY <4>1, NoDirectionIs
                <5> QED
                    BY <5>1, SearchAssumption DEF Bend
            <4>4. /\ scores[c[l]][1] \in Nat /\ scores[c[l + 1]][1] \in Nat
                  /\ Bend(c[l], d) \in Nat /\ Bend(c[l], b) \in Nat /\ Bend(c[l + 1], d) \in Nat
                BY <3>10, <3>11, <4>1
            <4>5. /\ f[l] = scores[c[l]][1] + Bend(c[l], d)
                  /\ f[l + 1] = scores[c[l + 1]][1] + Bend(c[l + 1], d)
                BY <3>13, <4>1
            <4>6. scores[c[l + 1]][1] = scores[c[l]][1] + StepCost + Bend(c[l], b) + more
                BY <4>1, <4>2
            <4> HIDE DEF b, more
            <4> QED
                BY <3>12, <4>2, <4>3, <4>4, <4>5, <4>6
        <3>16. f[i] < f[j]
            BY <1>1, <1>2, <3>13, <3>15, Rises
        <3>17. f[i] \in Int /\ f[j] \in Int
            BY <3>13
        <3> QED
            BY <3>14, <3>16, <3>17
    <2> QED
        BY <2>3, <2>4
<1> SUFFICES ASSUME NEW i \in 1..n, NEW j \in 1..n, NodeOf(c[i]) = NodeOf(c[j]), i # j
             PROVE  FALSE
    OBVIOUS
<1>3. i < j \/ j < i
    BY <1>1
<1> QED
    BY <1>2, <1>3

LEMMA FoundIsWalk ==
    ASSUME ProblemOK, SearchShape, Ahead, NEW e, Winner(e)
    PROVE  WayTo(e.state) \in Walks /\ WalkScore(WayTo(e.state)) = e.score
<1> DEFINE s == e.state
           route == WayTo(s)
<1>1. s \in DOMAIN scores /\ scores[s] = e.score
    BY DEF Winner, Ahead, Fresh
<1>2. PICK n, c : n \in Nat /\ Chain(c, n, s) /\ route = [i \in 1..n |-> NodeOf(c[i])]
    BY <1>1, WayIsChain
<1> n \in Nat
    BY <1>2
<1>3. n \in Nat \ {0} /\ c[n] = s /\ c[1] \in Starts /\ 1 \in 1..n /\ n \in 1..n
    BY <1>2 DEF Chain
<1>4. \A i \in 1..n : /\ c[i] \in DOMAIN scores /\ c[i] \in State
                      /\ NodeOf(c[i]) \in Node /\ route[i] = NodeOf(c[i])
    BY <1>2, StateIs DEF Chain, SearchShape
<1>5. route \in [1..n -> Node]
    BY <1>2, <1>4
<1> HIDE DEF route, s
<1>6. ASSUME NEW i \in 2..n
      PROVE  /\ i - 1 \in 1..n /\ i \in 1..n
             /\ c[i][2] \in 1..4 /\ c[i] = Onward(c[i - 1], c[i][2])
             /\ route[i] = Beyond(route[i - 1], c[i][2])
             /\ {route[i - 1], route[i]} \in problem.legal
             /\ scores[c[i]] = Stepped(scores[c[i - 1]], c[i - 1], c[i][2])
    <2>1. i - 1 \in 1..(n - 1) /\ (i - 1) + 1 = i /\ i - 1 \in 1..n /\ i \in 1..n
        BY <1>3
    <2>2. /\ Reaches(c[i - 1], c[i])
          /\ NodeOf(c[i]) = Beyond(NodeOf(c[i - 1]), c[i][2])
        BY <1>2, <2>1, ChainSteps
    <2>3. scores[c[i]] = Stepped(scores[c[i - 1]], c[i - 1], c[i][2])
        <3>1. PICK j \in 1..(n - 1) : j = i - 1 /\ j + 1 = i
            BY <2>1
        <3>2. Chain(c, n, e.state)
            BY <1>2 DEF s
        <3>3. j \in 1..(n - 1)
            BY <3>1
        <3>4. scores[c[j + 1]] = Stepped(scores[c[j]], c[j], c[j + 1][2])
            BY <3>2, <3>3, ChainIsSettled
        <3> QED
            BY <3>1, <3>4
    <2> QED
        BY <1>4, <2>1, <2>2, <2>3 DEF Reaches, Open
<1>7. LegalRoute(route, n)
    <2>1. route[1] \in problem.source
        BY <1>3, <1>4, StartsAreStates
    <2> QED
        BY <1>3, <1>5, <1>6, <2>1 DEF LegalRoute
<1>8. ASSUME NEW i \in 1..n PROVE Along(route, i) = c[i]
    <2>1. c[i] = <<route[i], c[i][2]>>
        BY <1>4, StateIs
    <2>2. CASE i = 1
        <3>1. c[i][2] = NoDirection
            BY <1>3, <2>2, NoDirectionIs, StartsAreStates
        <3> QED
            BY <2>1, <2>2, <3>1 DEF Along
    <2>3. CASE i # 1
        <3>1. i \in 2..n
            BY <2>3
        <3>2. route[i - 1] \in Node
            BY <1>4, <1>6, <3>1
        <3>3. c[i][2] \in 1..4 /\ route[i] = Beyond(route[i - 1], c[i][2])
            BY <1>6, <3>1
        <3>4. Heading(route, i) = c[i][2]
            BY <3>2, <3>3, HeadingIs
        <3> QED
            BY <2>1, <2>3, <3>4 DEF Along
    <2> QED
        BY <2>2, <2>3
<1>9. \A i \in 1..n : PrefixScore(route, i) = scores[c[i]]
    <2> DEFINE Bad == {i \in 1..n : PrefixScore(route, i) # scores[c[i]]}
    <2>1. SUFFICES ASSUME Bad # {} PROVE FALSE
        OBVIOUS
    <2>2. PICK i \in Bad : \A j \in Bad : i <= j
        <3>1. Bad \subseteq Nat
            OBVIOUS
        <3> HIDE DEF Bad
        <3> QED
            BY <2>1, <3>1, LeastNatural
    <2>3. i \in 1..n /\ PrefixScore(route, i) # scores[c[i]]
        OBVIOUS
    <2>4. CASE i = 1
        <3>1. PrefixScore(route, i) = NoScore
            BY <1>7, <2>3, <2>4, PrefixSteps
        <3>2. scores[c[i]] = NoScore
            BY <1>3, <2>4 DEF Ahead
        <3> QED
            BY <2>3, <3>1, <3>2
    <2>5. CASE i # 1
        <3>1. i \in 2..n /\ i - 1 \in 1..n /\ ~(i <= i - 1)
            BY <2>3, <2>5
        <3>2. PrefixScore(route, i - 1) = scores[c[i - 1]]
            BY <2>2, <3>1
        <3>3. PrefixScore(route, i)
                = Stepped(PrefixScore(route, i - 1), Along(route, i - 1), Heading(route, i))
            BY <1>7, <2>3, <2>5, PrefixSteps
        <3>4. Along(route, i - 1) = c[i - 1] /\ Heading(route, i) = c[i][2]
            <4>1. route[i - 1] \in Node
                BY <1>4, <3>1
            <4>2. c[i][2] \in 1..4 /\ route[i] = Beyond(route[i - 1], c[i][2])
                BY <1>6, <3>1
            <4>3. Heading(route, i) = c[i][2]
                BY <4>1, <4>2, HeadingIs
            <4> QED
                BY <1>8, <3>1, <4>3
        <3> QED
            BY <1>6, <2>3, <3>1, <3>2, <3>3, <3>4
    <2> QED
        BY <2>4, <2>5
<1>10. Len(route) = n
    BY <1>3, <1>5, LenIs
<1>11. WalkScore(route) = PrefixScore(route, n)
    BY <1>10 DEF WalkScore, PrefixScore
<1>12. Simple(route)
    <2>1. \A i \in 1..n, j \in 1..n : NodeOf(c[i]) = NodeOf(c[j]) => i = j
        BY <1>2, ChainIsSimple DEF s
    <2>2. DOMAIN route = 1..n
        BY <1>5
    <2> QED
        BY <1>4, <2>1, <2>2 DEF Simple
<1>13. n \in 1..Cardinality(Node)
    <2>1. route \in Injection(1..n, Node)
        BY <1>5, <1>12 DEF Injection, IsInjective, Simple
    <2>2. Cardinality(1..n) <= Cardinality(Node)
        BY <2>1, NodeIsFinite, FS_Injection
    <2>3. Cardinality(1..n) = n
        <3>1. Cardinality(1..n) = IF 1 > n THEN 0 ELSE n - 1 + 1
            BY <1>3, FS_Interval
        <3> QED
            BY <1>3, <3>1
    <2>4. Cardinality(Node) \in Nat
        BY NodeIsFinite, FS_CardinalityType
    <2> QED
        BY <1>3, <2>2, <2>3, <2>4
<1>14. route[n] \in problem.target
    BY <1>3, <1>4 DEF Winner, s
<1>15. route \in Walks
    BY <1>7, <1>12, <1>13, <1>14, WalksAre
<1> QED
    BY <1>1, <1>3, <1>9, <1>11, <1>15 DEF route, s

-----------------------------------------------------------------------------
(* The steps of the search.                                                *)

LEMMA WalksAreFixed ==
    ASSUME problem' = problem
    PROVE  /\ Walks' = Walks
           /\ \A route : WalkScore(route)' = WalkScore(route)
<1>1. Walks' = Walks
    BY DEF Walks
<1>2. \A route : WalkScore(route)' = WalkScore(route)
    BY DEF WalkScore
<1> QED
    BY <1>1, <1>2

LEMMA PopKeepsAhead ==
    ASSUME SearchShape, Ahead, NEW e \in frontier, DiscardStale(e)
    PROVE  SearchShape' /\ Ahead'
<1>1. /\ frontier' = frontier \ {e} /\ scores[e.state] # e.score
      /\ UNCHANGED <<problem, scores, parents, expanded, leg>>
    BY DEF DiscardStale, Popped, Fresh
<1>2. Starts' = Starts
    BY <1>1 DEF Starts
<1>3. SearchShape'
    <2>1. frontier' \subseteq Pushed /\ IsFiniteSet(frontier')
        BY <1>1, FS_Subset DEF SearchShape
    <2> QED
        BY <1>1, <1>2, <2>1 DEF SearchShape
<1>4. \A s \in DOMAIN scores : Queued(s) => Queued(s)'
    BY <1>1 DEF Queued
<1>5. \A s \in DOMAIN scores : Settled(s) => Settled(s)'
    BY <1>1 DEF Settled, Open, Onward, Stepped, Raised
<1>6. \A s \in DOMAIN parents : Reaches(parents[s], s) => Reaches(parents[s], s)'
    BY <1>1 DEF Reaches, Open, Onward, Stepped, Raised
<1> QED
    BY <1>1, <1>2, <1>3, <1>4, <1>5, <1>6 DEF Ahead

(* A search that has run dry has settled all it reached, and so everything *)
(* a walk would go through.                                                *)
LEMMA DryMeansNoWalk ==
    ASSUME ProblemOK, SearchShape, Ahead, frontier = {}
    PROVE  Walks = {}
<1> SUFFICES ASSUME NEW w \in Walks PROVE FALSE
    OBVIOUS
<1>1. PICK n \in 1..Cardinality(Node) : LegalRoute(w, n) /\ w[n] \in problem.target
    BY WalksAre
<1>2. \E k \in 1..n : Queued(Along(w, k))
    BY <1>1, SearchIsAhead
<1> QED
    BY <1>2 DEF Queued

LEMMA ArriveIsShortest ==
    ASSUME ProblemOK, SearchShape, Ahead, frontier # {}, NEW e, e = Cheapest, Arrive(e)
    PROVE  SearchIsShortest'
<1>1. /\ leg'.status = "found" /\ leg'.score = e.score /\ leg'.route = WayTo(e.state)
      /\ problem' = problem
    BY DEF Arrive, Leg
<1>2. Winner(e)
    BY CheapestIs DEF Winner, Arrive, Ends, SearchShape, ProblemOK
<1>3. WayTo(e.state) \in Walks /\ WalkScore(WayTo(e.state)) = e.score
    BY <1>2, FoundIsWalk
<1>4. ASSUME NEW w \in Walks PROVE ~LexLess(WalkScore(w), e.score)
    <2>1. PICK n \in 1..Cardinality(Node) : LegalRoute(w, n) /\ w[n] \in problem.target
        BY WalksAre
    <2>2. Len(w) = n
        BY <2>1, LenIs DEF LegalRoute
    <2>3. WalkScore(w) = PrefixScore(w, n)
        BY <2>2 DEF WalkScore, PrefixScore
    <2> QED
        BY <1>2, <2>1, <2>3, NoWalkIsLess DEF Winner
<1> QED
    BY <1>1, <1>3, <1>4, WalksAreFixed DEF SearchIsShortest

LEMMA SearchStepInv ==
    ASSUME RouteInv, [SearchNext]_searchVars
    PROVE  RouteInv'
<1> USE DEF RouteInv
<1>1. CASE UNCHANGED searchVars
    <2>1. UNCHANGED <<problem, frontier, scores, parents, expanded, leg>>
        BY <1>1 DEF searchVars
    <2>2. ProblemOK'
        BY <2>1, ProblemIsFixed
    <2>3. SearchShape'
        BY <2>1 DEF SearchShape, Starts
    <2>4. ASSUME Ahead PROVE Ahead'
        <3>1. \A s \in DOMAIN scores : Queued(s) => Queued(s)'
            BY <2>1 DEF Queued
        <3>2. \A s \in DOMAIN scores : Settled(s) => Settled(s)'
            BY <2>1 DEF Settled, Open, Onward, Stepped, Raised
        <3>3. \A s \in DOMAIN parents : Reaches(parents[s], s) => Reaches(parents[s], s)'
            BY <2>1 DEF Reaches, Open, Onward, Stepped, Raised
        <3> QED
            BY <2>1, <2>4, <3>1, <3>2, <3>3 DEF Ahead, Starts
    <2>5. SearchIsShortest'
        BY <2>1, WalksAreFixed DEF SearchIsShortest
    <2> QED
        BY <2>1, <2>2, <2>3, <2>4, <2>5
<1>2. ASSUME LegOpen, NEW e, e = Cheapest,
             DiscardStale(e) \/ Arrive(e) \/ ExceedBudget(e) \/ Expand(e)
      PROVE  RouteInv'
    <2>1. leg.status = "searching" /\ Ahead /\ frontier # {}
        BY <1>2 DEF LegOpen
    <2>2. e \in frontier
        BY <1>2, <2>1, CheapestIs DEF SearchShape, ProblemOK
    <2>3. problem' = problem
        BY <1>2 DEF DiscardStale, Arrive, ExceedBudget, Expand
    <2>4. ProblemOK'
        BY <2>3, ProblemIsFixed
    <2>5. CASE DiscardStale(e)
        <3>1. leg' = leg
            BY <2>5 DEF DiscardStale
        <3> QED
            BY <2>1, <2>2, <2>4, <2>5, <3>1, PopKeepsAhead DEF SearchIsShortest
    <2>6. CASE Arrive(e)
        <3>1. /\ frontier' = frontier \ {e} /\ leg'.status = "found"
              /\ UNCHANGED <<problem, scores, parents, expanded>>
            BY <2>6 DEF Arrive, Popped, Leg
        <3>2. SearchShape'
            BY <3>1, FS_Subset DEF SearchShape, Starts
        <3>3. SearchIsShortest'
            BY <1>2, <2>1, <2>6, ArriveIsShortest
        <3> QED
            BY <2>4, <3>1, <3>2, <3>3
    <2>7. CASE ExceedBudget(e)
        <3>1. /\ frontier' = frontier \ {e} /\ leg'.status = "search_budget"
              /\ UNCHANGED <<problem, scores, parents, expanded>>
            BY <2>7 DEF ExceedBudget, Popped, Leg
        <3>2. SearchShape'
            BY <3>1, FS_Subset DEF SearchShape, Starts
        <3>3. SearchIsShortest'
            BY <3>1 DEF SearchIsShortest
        <3> QED
            BY <2>4, <3>1, <3>2, <3>3
    <2>8. CASE Expand(e)
        <3>1. leg' = leg
            BY <2>8 DEF Expand
        <3> QED
            BY <2>1, <2>2, <2>4, <2>8, <3>1, ExpandKeepsAhead DEF SearchIsShortest
    <2> QED
        BY <1>2, <2>5, <2>6, <2>7, <2>8
<1>3. CASE Exhausted
    <2>1. /\ leg.status = "searching" /\ frontier = {} /\ leg'.status = "no_path"
          /\ UNCHANGED <<problem, frontier, scores, parents, expanded>>
        BY <1>3 DEF Exhausted, Leg
    <2>2. Walks' = {}
        BY <2>1, DryMeansNoWalk, WalksAreFixed
    <2>3. SearchIsShortest'
        BY <2>1, <2>2 DEF SearchIsShortest
    <2>4. SearchShape'
        BY <2>1 DEF SearchShape, Starts
    <2> QED
        BY <2>1, <2>3, <2>4, ProblemIsFixed
<1>4. CASE StopSearch
    <2>1. /\ leg'.status = "stopped"
          /\ UNCHANGED <<problem, frontier, scores, parents, expanded>>
        BY <1>4 DEF StopSearch, Leg
    <2>2. SearchShape' /\ SearchIsShortest'
        BY <2>1 DEF SearchShape, Starts, SearchIsShortest
    <2> QED
        BY <2>1, <2>2, ProblemIsFixed
<1> QED
    BY <1>1, <1>2, <1>3, <1>4 DEF SearchNext

(* In every behaviour of the search, for any lattice, costs, obstacles and *)
(* ends: the leg A* finds (_search of routing/astar.py) is a legal walk    *)
(* that visits no node twice and has the score it claims, no walk scores   *)
(* less in cost, then physical cost, bends and proximity, and a search     *)
(* that answers no_path is right about that.                               *)
THEOREM SearchFindsShortest == SearchSpec => []SearchIsShortest
<1>1. SearchInit => RouteInv
    BY SearchInitInv
<1>2. RouteInv /\ [SearchNext]_searchVars => RouteInv'
    BY SearchStepInv
<1>3. RouteInv => SearchIsShortest
    BY DEF RouteInv
<1> QED
    BY <1>1, <1>2, <1>3, PTL DEF SearchSpec

LEMMA InvariantTypesSearch == RouteInv => SearchTypeOK
BY DEF RouteInv, SearchShape, SearchTypeOK, Pushed

(* What the search queues and records are states of the lattice with       *)
(* scores, and every reached state but a start has a parent.               *)
THEOREM SearchKeepsTypes == SearchSpec => []SearchTypeOK
<1>1. SearchInit => RouteInv
    BY SearchInitInv
<1>2. RouteInv /\ [SearchNext]_searchVars => RouteInv'
    BY SearchStepInv
<1>3. RouteInv => SearchTypeOK
    BY InvariantTypesSearch
<1> QED
    BY <1>1, <1>2, <1>3, PTL DEF SearchSpec


-----------------------------------------------------------------------------
(* The search over layers.                                                 *)

(* Its lattice: where a step leads, and what it costs.                     *)

StepPrice(n, m) == IF IsVia(n, m) THEN ViaCost ELSE MoveCost

LEMMA LayeredNodeIs ==
    ASSUME NEW n \in LayeredNode
    PROVE  /\ n[1] \in 0..LayerX /\ n[2] \in 0..LayerY /\ n[3] \in Layers
           /\ n[1] \in Int /\ n[2] \in Int /\ n[3] \in Int
           /\ n = <<n[1], n[2], n[3]>>
<1>1. /\ n[1] \in 0..LayerX /\ n[2] \in 0..LayerY /\ n[3] \in Layers
      /\ n = <<n[1], n[2], n[3]>>
    BY DEF LayeredNode
<1>2. LayerX \in Nat /\ LayerY \in Nat /\ Layers \subseteq Int
    BY LayeredAssumption
<1> QED
    BY <1>1, <1>2

LEMMA LayeredNodeIsFinite == IsFiniteSet(LayeredNode)
<1>1. IsFiniteSet(0..LayerX) /\ IsFiniteSet(0..LayerY) /\ IsFiniteSet(Layers)
    BY LayeredAssumption, FS_Interval
<1>2. IsFiniteSet((0..LayerX) \X (0..LayerY))
    BY <1>1, FS_Product
<1>3. IsFiniteSet(((0..LayerX) \X (0..LayerY)) \X Layers)
    BY <1>1, <1>2, FS_Product
<1> DEFINE S == ((0..LayerX) \X (0..LayerY)) \X Layers
           f == [x \in S |-> <<x[1][1], x[1][2], x[2]>>]
<1>4. IsFiniteSet({f[x] : x \in DOMAIN f})
    <2>1. IsFiniteSet(DOMAIN f)
        BY <1>3
    <2> HIDE DEF f
    <2> QED
        BY <2>1, ImageIsFinite
<1>5. LayeredNode \subseteq {f[x] : x \in DOMAIN f}
    <2>1. ASSUME NEW n \in LayeredNode PROVE n \in {f[x] : x \in DOMAIN f}
        <3> DEFINE x == <<<<n[1], n[2]>>, n[3]>>
        <3>1. x \in DOMAIN f /\ f[x] = n
            BY LayeredNodeIs
        <3> QED
            BY <3>1
    <2> QED
        BY <2>1
<1> QED
    BY <1>4, <1>5, FS_Subset

LEMMA DistanceIs ==
    ASSUME NEW a \in Int, NEW b \in Int
    PROVE  Distance(a, b) = IF a >= b THEN a - b ELSE b - a
<1> DEFINE far == IF a >= b THEN a - b ELSE b - a
           S == {a - b, b - a}
<1>1. far \in S /\ far >= a - b /\ far >= b - a /\ far \in Int
    OBVIOUS
<1>2. \A x \in S : x \in Int /\ far >= x
    OBVIOUS
<1> HIDE DEF far, S
<1>3. ASSUME NEW x \in S, \A y \in S : x >= y PROVE x = far
    <2>1. x >= far /\ far >= x /\ x \in Int /\ far \in Int
        BY <1>1, <1>2, <1>3
    <2> QED
        BY <2>1
<1>4. (CHOOSE x \in S : \A y \in S : x >= y) = far
    BY <1>1, <1>2, <1>3
<1> QED
    BY <1>4 DEF Distance, Max, far, S

LayoutOK ==
    /\ layout.goal \in LayeredNode /\ layout.capped \in BOOLEAN /\ layout.cap \in Nat

(* A step is a move on the layer or a via in place, and the estimate is    *)
(* never more than a step too much.                                        *)
LEMMA EstimateIs ==
    ASSUME LayoutOK, NEW n \in LayeredNode
    PROVE  /\ Estimate(n) \in Nat
           /\ n = layout.goal => Estimate(n) = 0
           /\ \A m \in Neighbours(n) :
                 m \in LayeredNode /\ Estimate(n) <= Estimate(m) + StepPrice(n, m)
<1> DEFINE g == layout.goal
           far(p) == Distance(p[1], g[1]) + Distance(p[2], g[2])
           over(p) == IF p[3] # g[3] THEN ViaCost ELSE 0
<1>1. /\ g[1] \in Int /\ g[2] \in Int /\ n[1] \in Int /\ n[2] \in Int
      /\ MoveCost \in Nat /\ ViaCost \in Nat
    BY LayeredNodeIs, LayeredAssumption DEF LayoutOK
<1>2. \A p \in LayeredNode : far(p) \in Nat /\ Estimate(p) = far(p) * MoveCost + over(p)
    <2> SUFFICES ASSUME NEW p \in LayeredNode
                 PROVE  far(p) \in Nat /\ Estimate(p) = far(p) * MoveCost + over(p)
        OBVIOUS
    <2>1. p[1] \in Int /\ p[2] \in Int
        BY LayeredNodeIs
    <2>2. Distance(p[1], g[1]) \in Nat /\ Distance(p[2], g[2]) \in Nat
        <3>1. \A a, b \in Int : Distance(a, b) \in Nat
            BY DistanceIs
        <3> HIDE DEF g
        <3> QED
            BY <1>1, <2>1, <3>1
    <2> QED
        BY <2>2 DEF Estimate
<1>3. \A p \in LayeredNode : over(p) \in Nat /\ far(p) * MoveCost \in Nat
    BY <1>1, <1>2, Multiples
<1>4. Estimate(n) \in Nat
    <2>1. far(n) * MoveCost \in Nat /\ over(n) \in Nat
          /\ Estimate(n) = far(n) * MoveCost + over(n)
        BY <1>2, <1>3
    <2> HIDE DEF far, over
    <2> QED
        BY <2>1
<1>5. n = g => Estimate(n) = 0
    <2>1. n = g => Distance(n[1], g[1]) = 0 /\ Distance(n[2], g[2]) = 0
        BY <1>1, DistanceIs
    <2>2. n = g => far(n) = 0 /\ over(n) = 0
        BY <2>1
    <2>3. 0 * MoveCost = 0
        BY <1>1
    <2> HIDE DEF far, over
    <2> QED
        BY <1>2, <2>2, <2>3
<1>6. ASSUME NEW m \in Neighbours(n)
      PROVE  m \in LayeredNode /\ Estimate(n) <= Estimate(m) + StepPrice(n, m)
    <2>1. /\ m \in LayeredNode
          /\ \/ m[3] = n[3] /\ Distance(m[1], n[1]) + Distance(m[2], n[2]) = 1
             \/ m[3] # n[3] /\ IsVia(n, m)
        BY DEF Neighbours
    <2>2. m[1] \in Int /\ m[2] \in Int
        BY <2>1, LayeredNodeIs
    <2>3. CASE m[3] = n[3] /\ Distance(m[1], n[1]) + Distance(m[2], n[2]) = 1
        <3>1. /\ Distance(m[1], n[1]) = IF m[1] >= n[1] THEN m[1] - n[1] ELSE n[1] - m[1]
              /\ Distance(m[2], n[2]) = IF m[2] >= n[2] THEN m[2] - n[2] ELSE n[2] - m[2]
            BY <1>1, <2>2, DistanceIs
        <3>2. m[1] # n[1] \/ m[2] # n[2]
            BY <1>1, <2>2, <2>3, <3>1
        <3>3. ~IsVia(n, m)
            BY <3>2 DEF IsVia, Column
        <3>4. far(n) <= far(m) + 1
            <4>1. /\ Distance(m[1], g[1]) = IF m[1] >= g[1] THEN m[1] - g[1] ELSE g[1] - m[1]
                  /\ Distance(m[2], g[2]) = IF m[2] >= g[2] THEN m[2] - g[2] ELSE g[2] - m[2]
                  /\ Distance(n[1], g[1]) = IF n[1] >= g[1] THEN n[1] - g[1] ELSE g[1] - n[1]
                  /\ Distance(n[2], g[2]) = IF n[2] >= g[2] THEN n[2] - g[2] ELSE g[2] - n[2]
                BY <1>1, <2>2, DistanceIs
            <4> QED
                BY <1>1, <2>2, <2>3, <3>1, <4>1
        <3>5. over(n) = over(m)
            BY <2>3
        <3>6. far(n) * MoveCost <= far(m) * MoveCost + MoveCost
            <4>1. far(n) \in Nat /\ far(m) \in Nat /\ far(m) + 1 \in Nat
                BY <1>2, <2>1
            <4> HIDE DEF far
            <4> QED
                BY <1>1, <3>4, <4>1, Multiples
        <3> HIDE DEF far, over
        <3> QED
            BY <1>1, <1>2, <1>3, <2>1, <3>3, <3>5, <3>6 DEF StepPrice
    <2>4. CASE m[3] # n[3] /\ IsVia(n, m)
        <3>1. m[1] = n[1] /\ m[2] = n[2]
            BY <2>4 DEF IsVia, Column
        <3>2. far(m) = far(n) /\ over(n) <= over(m) + ViaCost
            BY <1>1, <3>1
        <3> HIDE DEF far, over
        <3> QED
            BY <1>1, <1>2, <1>3, <2>1, <2>4, <3>2 DEF StepPrice
    <2> QED
        BY <2>1, <2>3, <2>4
<1> QED
    BY <1>4, <1>5, <1>6

-----------------------------------------------------------------------------
(* Labels.                                                                 *)

(* A label that leaves another nothing to add.                             *)
NoDearer(l, m) ==
    IF layout.capped THEN l.vias <= m.vias /\ l.cost <= m.cost
    ELSE l.cost < m.cost \/ (l.cost = m.cost /\ l.vias <= m.vias)

LEMMA LabelIs ==
    ASSUME NEW l \in Label
    PROVE  l.vias \in Nat /\ l.cost \in Nat /\ l = [vias |-> l.vias, cost |-> l.cost]
BY DEF Label

LEMMA NoDearerOrder ==
    ASSUME NEW l \in Label, NEW m \in Label
    PROVE  /\ NoDearer(l, l)
           /\ NoDearer(l, m) /\ NoDearer(m, l) => l = m
           /\ \A k \in Label : NoDearer(l, m) /\ NoDearer(m, k) => NoDearer(l, k)
           /\ NoDearer(l, m) => l.cost <= m.cost
           /\ NoDearer(l, m) /\ l.cost = m.cost => l.vias <= m.vias
           /\ layout.capped /\ NoDearer(l, m) => l.vias <= m.vias
           /\ ~layout.capped => NoDearer(l, m) \/ NoDearer(m, l)
<1>1. /\ l.vias \in Nat /\ l.cost \in Nat /\ m.vias \in Nat /\ m.cost \in Nat
      /\ \A k \in Label : k.vias \in Nat /\ k.cost \in Nat
    BY LabelIs
<1>2. ASSUME NoDearer(l, m), NoDearer(m, l) PROVE l = m
    <2>1. l.vias = m.vias /\ l.cost = m.cost
        BY <1>1, <1>2 DEF NoDearer
    <2> QED
        BY <2>1, LabelIs
<1> QED
    BY <1>1, <1>2 DEF NoDearer

LEMMA LabelledIs ==
    ASSUME NEW n, NEW m, NEW l \in Label
    PROVE  /\ Labelled(n, l, m) \in Label
           /\ Labelled(n, l, m).cost = l.cost + StepPrice(n, m)
           /\ Labelled(n, l, m).vias = l.vias + (IF IsVia(n, m) THEN 1 ELSE 0)
           /\ StepPrice(n, m) \in Nat \ {0}
           /\ \A k \in Label : NoDearer(k, l) => NoDearer(Labelled(n, k, m), Labelled(n, l, m))
           /\ \A k \in Label : Labelled(n, k, m) = Labelled(n, l, m) => k = l
<1>1. /\ MoveCost \in Nat \ {0} /\ ViaCost \in Nat \ {0}
      /\ \A k \in Label : k.vias \in Nat /\ k.cost \in Nat
    BY LayeredAssumption, LabelIs
<1>2. \A k \in Label :
         /\ Labelled(n, k, m) \in Label
         /\ Labelled(n, k, m).cost = k.cost + StepPrice(n, m)
         /\ Labelled(n, k, m).vias = k.vias + (IF IsVia(n, m) THEN 1 ELSE 0)
    BY <1>1 DEF Labelled, Label, StepPrice
<1>3. StepPrice(n, m) \in Nat \ {0}
    BY <1>1 DEF StepPrice
<1>4. ASSUME NEW k \in Label, NoDearer(k, l)
      PROVE  NoDearer(Labelled(n, k, m), Labelled(n, l, m))
    BY <1>1, <1>2, <1>3, <1>4 DEF NoDearer
<1>5. ASSUME NEW k \in Label, Labelled(n, k, m) = Labelled(n, l, m) PROVE k = l
    <2>1. k.vias = l.vias /\ k.cost = l.cost
        BY <1>1, <1>2, <1>3, <1>5
    <2> QED
        BY <2>1, LabelIs
<1> QED
    BY <1>2, <1>3, <1>4, <1>5

(* What an arrival adds to its node's labels, and which of them stay.      *)
LEMMA ImprovingIs ==
    ASSUME NEW n, labels[n] \subseteq Label, NEW l \in Label
    PROVE  /\ Improving(n, l) <=> ~\E m \in labels[n] : NoDearer(m, l)
           /\ Improving(n, l) => Kept(n, l) = {m \in labels[n] : ~NoDearer(l, m)} \cup {l}
<1>1. CASE layout.capped
    BY <1>1 DEF Improving, Kept, NoDearer, Dominates
<1>2. CASE ~layout.capped
    <2>1. \A m \in labels[n] : /\ m.cost \in Nat /\ m.vias \in Nat
                               /\ l.cost \in Nat /\ l.vias \in Nat
        BY LabelIs
    <2>2. Improving(n, l) <=> ~\E m \in labels[n] : NoDearer(m, l)
        BY <1>2, <2>1 DEF Improving, NoDearer
    <2>3. ASSUME Improving(n, l) PROVE \A m \in labels[n] : NoDearer(l, m)
        BY <1>2, <2>1, <2>3 DEF Improving, NoDearer
    <2> QED
        BY <1>2, <2>2, <2>3 DEF Kept
<1> QED
    BY <1>1, <1>2

-----------------------------------------------------------------------------
(* The order of the queue.                                                 *)

Arrival == [node : LayeredNode, label : Label]
Total(a) == a.label.cost + Estimate(a.node)

LEMMA RankIs ==
    ASSUME LayoutOK, NEW a \in Arrival
    PROVE  /\ Rank(a) \in [1..6 -> Int]
           /\ Rank(a)[1] = Total(a) /\ Rank(a)[2] = a.label.cost /\ Rank(a)[3] = a.label.vias
           /\ Rank(a)[4] = a.node[1] /\ Rank(a)[5] = a.node[2] /\ Rank(a)[6] = a.node[3]
<1> DEFINE n == a.node
           l == a.label
           t == l.cost + Estimate(n)
<1>1. n[1] \in Int /\ n[2] \in Int /\ n[3] \in Int /\ l.cost \in Nat /\ l.vias \in Nat
    BY LayeredNodeIs, LabelIs DEF Arrival
<1>2. t \in Int
    <2>1. Estimate(n) \in Nat
        BY EstimateIs DEF Arrival
    <2> QED
        BY <1>1, <2>1
<1>3. Rank(a) = <<t, l.cost, l.vias, n[1], n[2], n[3]>>
    BY DEF Rank
<1>4. Total(a) = t
    BY DEF Total
<1> HIDE DEF n, l, t
<1>5. <<t, l.cost, l.vias, n[1], n[2], n[3]>> \in [1..6 -> Int]
    BY <1>1, <1>2
<1> QED
    BY <1>3, <1>4, <1>5 DEF n, l

LEMMA RankTellsArrival ==
    ASSUME LayoutOK, NEW a \in Arrival, NEW b \in Arrival, Rank(a) = Rank(b)
    PROVE  a = b
<1>1. /\ a.label.cost = b.label.cost /\ a.label.vias = b.label.vias
      /\ a.node[1] = b.node[1] /\ a.node[2] = b.node[2] /\ a.node[3] = b.node[3]
    BY RankIs
<1>2. a.label = b.label
    <2>1. a.label \in Label /\ b.label \in Label
        BY DEF Arrival
    <2> QED
        BY <1>1, <2>1, LabelIs
<1>3. a.node = b.node
    <2>1. a.node \in LayeredNode /\ b.node \in LayeredNode
        BY DEF Arrival
    <2> QED
        BY <1>1, <2>1, LayeredNodeIs
<1> QED
    BY <1>2, <1>3 DEF Arrival

LEMMA FirstIs ==
    ASSUME LayoutOK, queue \subseteq Arrival, IsFiniteSet(queue), queue # {}
    PROVE  First \in queue /\ \A b \in queue : ~LexLess(Rank(b), Rank(First))
<1> DEFINE R == {p \in queue \X queue : LexLess(Rank(p[1]), Rank(p[2]))}
           Ranked(b) == [rank |-> Rank(b), arrival |-> b]
           ranked == {Ranked(b) : b \in queue}
           a == CHOOSE x \in ranked : \A y \in ranked \ {x} : LexLess(x.rank, y.rank)
<1>1. /\ \A b \in queue : Rank(b) \in [1..6 -> Int]
      /\ \A b, c \in queue : Rank(b) = Rank(c) => b = c
    BY RankIs, RankTellsArrival
<1>2. \A b, c \in queue : <<b, c>> \in R <=> LexLess(Rank(b), Rank(c))
    OBVIOUS
<1> HIDE DEF R
<1>3. \A b, c, d \in queue : <<b, c>> \in R /\ <<c, d>> \in R => <<b, d>> \in R
    <2> SUFFICES ASSUME NEW b \in queue, NEW c \in queue, NEW d \in queue,
                        LexLess(Rank(b), Rank(c)), LexLess(Rank(c), Rank(d))
                 PROVE  LexLess(Rank(b), Rank(d))
        BY <1>2
    <2> QED
        BY <1>1, LexOrder, 6 \in Nat
<1>4. \A b, c \in queue : b = c \/ <<b, c>> \in R \/ <<c, b>> \in R
    <2> SUFFICES ASSUME NEW b \in queue, NEW c \in queue
                 PROVE  b = c \/ LexLess(Rank(b), Rank(c)) \/ LexLess(Rank(c), Rank(b))
        BY <1>2
    <2> QED
        BY <1>1, LexOrder, 6 \in Nat
<1>5. PICK f \in queue : \A b \in queue : f = b \/ <<f, b>> \in R
    BY <1>3, <1>4, LeastExists
<1>6. \A x \in ranked : x.arrival \in queue /\ x.rank = Rank(x.arrival)
                          /\ x = Ranked(x.arrival)
    OBVIOUS
<1>7. \A b \in queue : Ranked(b) \in ranked /\ Ranked(b).rank = Rank(b)
    OBVIOUS
<1>8. First = a.arrival
    BY DEF First, Before, LexLess
<1> HIDE DEF ranked, Ranked
<1>9. \E x \in ranked : \A y \in ranked \ {x} : LexLess(x.rank, y.rank)
    <2>1. ASSUME NEW y \in ranked \ {Ranked(f)} PROVE LexLess(Ranked(f).rank, y.rank)
        <3>1. y.arrival # f /\ y.arrival \in queue
            BY <1>6, <2>1
        <3>2. LexLess(Rank(f), Rank(y.arrival))
            BY <3>1, <1>2, <1>5
        <3> QED
            BY <3>2, <1>6, <1>7, <2>1
    <2> QED
        BY <2>1, <1>7
<1>10. a \in ranked /\ \A y \in ranked \ {a} : LexLess(a.rank, y.rank)
    BY <1>9
<1> HIDE DEF a
<1>11. ASSUME NEW b \in queue, LexLess(Rank(b), Rank(a.arrival)) PROVE FALSE
    <2>1. Ranked(b) \in ranked /\ a.arrival \in queue /\ a.rank = Rank(a.arrival)
        BY <1>6, <1>7, <1>10
    <2>2. Ranked(b) # a => LexLess(Rank(a.arrival), Rank(b))
        BY <2>1, <1>7, <1>10
    <2>3. Ranked(b) = a => Rank(a.arrival) = Rank(b)
        BY <2>1, <1>7
    <2> QED
        BY <1>1, <1>11, <2>1, <2>2, <2>3, LexOrder, 6 \in Nat
<1> QED
    BY <1>6, <1>8, <1>10, <1>11

(* Nothing queued is cheaper by its estimate than what comes first, nor    *)
(* as cheap and its label cheaper, nor that and with fewer vias.           *)
LEMMA FirstIsCheapest ==
    ASSUME LayoutOK, queue \subseteq Arrival, IsFiniteSet(queue), NEW b \in queue
    PROVE  /\ First \in queue
           /\ ~(Total(b) < Total(First))
           /\ ~(Total(b) <= Total(First) /\ b.label.cost < First.label.cost)
           /\ ~(/\ Total(b) <= Total(First) /\ b.label.cost = First.label.cost
                /\ b.label.vias < First.label.vias)
<1>1. First \in queue /\ ~LexLess(Rank(b), Rank(First)) /\ First \in Arrival /\ b \in Arrival
    BY FirstIs
<1> DEFINE r == Rank(b)
           s == Rank(First)
<1>2. /\ r \in [1..6 -> Int] /\ s \in [1..6 -> Int]
      /\ r[1] = Total(b) /\ r[2] = b.label.cost /\ r[3] = b.label.vias
      /\ s[1] = Total(First) /\ s[2] = First.label.cost /\ s[3] = First.label.vias
    BY <1>1, RankIs
<1>3. ~LexLess(r, s)
    BY <1>1
<1> HIDE DEF r, s
<1>4. \A i \in 1..6 : ~(r[i] < s[i] /\ \A j \in 1..(i - 1) : r[j] = s[j])
    BY <1>2, <1>3 DEF LexLess
<1>5. ~(r[1] < s[1])
    BY <1>4
<1>6. ~(r[1] = s[1] /\ r[2] < s[2])
    <2>1. \A j \in 1..(2 - 1) : j = 1
        OBVIOUS
    <2> QED
        BY <1>4, <2>1
<1>7. ~(r[1] = s[1] /\ r[2] = s[2] /\ r[3] < s[3])
    <2>1. \A j \in 1..(3 - 1) : j = 1 \/ j = 2
        OBVIOUS
    <2> QED
        BY <1>4, <2>1
<1>8. \A i \in 1..3 : r[i] \in Int /\ s[i] \in Int
    BY <1>2
<1> QED
    BY <1>1, <1>2, <1>5, <1>6, <1>7, <1>8

-----------------------------------------------------------------------------
(* The inductive invariant.                                                *)

NoLabel == [vias |-> 0, cost |-> 0]
Allowed(l) == layout.capped => l.vias <= layout.cap
Awaits(n, l) == [node |-> n, label |-> l] \in queue

(* What a label that was expanded has done for the nodes next to it.       *)
Done(n, l) ==
    /\ n # layout.goal
    /\ \A m \in Neighbours(n) : Allowed(Labelled(n, l, m)) =>
          \E x \in labels[m] : NoDearer(x, Labelled(n, l, m))

(* A label comes from one of the node before it, which has since kept that *)
(* label or a better one.                                                  *)
CameFrom(p, n, l) ==
    /\ p[1] \in LayeredNode /\ n \in Neighbours(p[1])
    /\ \E x \in Label :
          /\ p = KeyOf(p[1], x.vias) /\ l = Labelled(p[1], x, n)
          /\ \E m \in labels[p[1]] : NoDearer(m, x)

LayeredShape ==
    /\ labels = [n \in LayeredNode |-> labels[n]]
    /\ \A n \in LayeredNode : labels[n] \subseteq Label
    /\ queue \subseteq Arrival /\ IsFiniteSet(queue)
    /\ IsFiniteSet(DOMAIN origins) /\ Cardinality(DOMAIN origins) < MaxNodes
    /\ work \in 0..LayeredExpansions
    /\ planned.status \in {"planning", "found", "no_path", "search_budget",
                           "grid_budget", "stopped"}
    /\ \A n \in LayeredNode : \A l, m \in labels[n] : NoDearer(l, m) => l = m

Covered ==
    /\ NoLabel \in labels[Start]
    /\ {Start, layout.goal} \cap layout.blocked = {}
    /\ \A a \in queue : \E m \in labels[a.node] : NoDearer(m, a.label)
    /\ \A n \in LayeredNode : \A l \in labels[n] :
          /\ Allowed(l)
          /\ Awaits(n, l) \/ Done(n, l)
          /\ n # Start => KeyOf(n, l.vias) \in DOMAIN origins
                          /\ CameFrom(origins[KeyOf(n, l.vias)], n, l)

LayeredInv ==
    /\ LayoutOK /\ LayeredShape
    /\ Planning => Covered
    /\ LayeredSearchIsShortest

(* A node's labels differ in what tells a state of the search.             *)
LEMMA KeyTellsLabel ==
    ASSUME NEW S, S \subseteq Label, \A x, y \in S : NoDearer(x, y) => x = y,
           NEW n, NEW l \in S, NEW m \in S, KeyOf(n, l.vias) = KeyOf(n, m.vias)
    PROVE  l = m
<1>1. l \in Label /\ m \in Label
    OBVIOUS
<1>2. layout.capped => l.vias = m.vias
    BY DEF KeyOf
<1>3. /\ l.cost \in Nat /\ m.cost \in Nat /\ l.vias \in Nat /\ m.vias \in Nat
    BY <1>1, LabelIs
<1>4. NoDearer(l, m) \/ NoDearer(m, l)
    BY <1>1, <1>2, <1>3 DEF NoDearer
<1> QED
    BY <1>4

(* What is popped stands for one label, its own if that is still kept.     *)
LEMMA CurrentIs ==
    ASSUME LayoutOK, LayeredShape, NEW a \in queue, NEW l \in Current(a)
    PROVE  /\ a.node \in LayeredNode /\ l \in labels[a.node] /\ l \in Label
           /\ a.label \in labels[a.node] => l = a.label
<1>1. a.node \in LayeredNode /\ l \in labels[a.node] /\ l \in Label
    BY DEF LayeredShape, Arrival, Current
<1>2. ASSUME a.label \in labels[a.node] PROVE l = a.label
    <2>1. CASE layout.capped
        BY <2>1 DEF Current
    <2>2. CASE ~layout.capped
        BY <1>1, <1>2, <2>2, NoDearerOrder DEF LayeredShape
    <2> QED
        BY <2>1, <2>2
<1> QED
    BY <1>1, <1>2

LEMMA ZeroIsLeast ==
    ASSUME NEW l \in Label
    PROVE  NoLabel \in Label /\ NoDearer(NoLabel, l)
BY LabelIs DEF NoLabel, NoDearer, Label

-----------------------------------------------------------------------------
(* Spreading, in terms of the nodes that get a new label.                  *)

Reached(a, l) ==
    {m \in Neighbours(a.node) :
       Allowed(Labelled(a.node, l, m)) /\ Improving(m, Labelled(a.node, l, m))}

NewKeys(a, l) == {KeyOf(m, Labelled(a.node, l, m).vias) : m \in Reached(a, l)}

NewArrivals(a, l) == {[node |-> m, label |-> Labelled(a.node, l, m)] : m \in Reached(a, l)}

NewLabels(a, l) ==
    [n \in LayeredNode |->
       IF n \in Reached(a, l) THEN Kept(n, Labelled(a.node, l, n)) ELSE labels[n]]

NewOrigins(a, l) ==
    [k \in DOMAIN origins \cup NewKeys(a, l) |->
       IF k \in NewKeys(a, l) THEN KeyOf(a.node, l.vias) ELSE origins[k]]

LEMMA SpreadIs ==
    ASSUME NEW a, NEW l, Spread(a, l), Planning'
    PROVE  /\ a.node # layout.goal /\ work' = work + 1
           /\ layout' = layout /\ planned' = planned
           /\ Cardinality(DOMAIN origins \cup NewKeys(a, l)) + 1 <= MaxNodes
           /\ labels' = NewLabels(a, l)
           /\ queue' = (queue \ {a}) \cup NewArrivals(a, l)
           /\ origins' = NewOrigins(a, l)
BY DEF Spread, Reached, NewKeys, NewArrivals, NewLabels, NewOrigins, Allowed, Planning, Plan

LEMMA LayoutFixed ==
    ASSUME layout' = layout
    PROVE  /\ LayoutOK => LayoutOK'
           /\ \A x, y : NoDearer(x, y)' <=> NoDearer(x, y)
           /\ \A n : Neighbours(n)' = Neighbours(n)
           /\ \A l : Allowed(l)' <=> Allowed(l)
           /\ \A n, v : KeyOf(n, v)' = KeyOf(n, v)
BY DEF LayoutOK, NoDearer, Neighbours, Allowed, KeyOf

(* As labels only get better, what an expanded label has done stays done   *)
(* and what came from a label still does.                                  *)
Better ==
    \A n \in LayeredNode :
       /\ labels[n] \subseteq Label /\ labels'[n] \subseteq Label
       /\ \A x \in labels[n] : \E y \in labels'[n] : NoDearer(y, x)

LEMMA DoneStays ==
    ASSUME LayoutOK, layout' = layout, Better, NEW n \in LayeredNode, NEW l \in Label, Done(n, l)
    PROVE  Done(n, l)'
<1>1. n # layout'.goal
    BY DEF Done
<1>2. ASSUME NEW m \in Neighbours(n), Allowed(Labelled(n, l, m))
      PROVE  \E x \in labels'[m] : NoDearer(x, Labelled(n, l, m))
    <2>1. m \in LayeredNode /\ Labelled(n, l, m) \in Label
        BY LabelledIs DEF Neighbours
    <2>2. PICK x \in labels[m] : NoDearer(x, Labelled(n, l, m))
        BY <1>2 DEF Done
    <2>3. PICK y \in labels'[m] : NoDearer(y, x)
        BY <2>1 DEF Better
    <2>4. x \in Label /\ y \in Label
        BY <2>1 DEF Better
    <2> QED
        BY <2>1, <2>2, <2>3, <2>4, NoDearerOrder
<1> QED
    BY <1>1, <1>2, LayoutFixed DEF Done

LEMMA CameFromStays ==
    ASSUME LayoutOK, layout' = layout, Better, NEW n \in LayeredNode, NEW l \in Label,
           NEW p, CameFrom(p, n, l)
    PROVE  CameFrom(p, n, l)'
<1>1. p[1] \in LayeredNode /\ n \in Neighbours(p[1])
    BY DEF CameFrom
<1>2. PICK x \in Label : /\ p = KeyOf(p[1], x.vias) /\ l = Labelled(p[1], x, n)
                         /\ \E m \in labels[p[1]] : NoDearer(m, x)
    BY DEF CameFrom
<1>3. PICK m \in labels[p[1]] : NoDearer(m, x)
    BY <1>2
<1>4. PICK y \in labels'[p[1]] : NoDearer(y, m)
    BY <1>1 DEF Better
<1>5. m \in Label /\ y \in Label
    BY <1>1 DEF Better
<1>6. NoDearer(y, x)
    BY <1>3, <1>4, <1>5, NoDearerOrder
<1> QED
    BY <1>1, <1>2, <1>6, LayoutFixed DEF CameFrom

(* What spreading does to the labels of a node.                            *)
LEMMA SpreadLabels ==
    ASSUME LayoutOK, LayeredShape, NEW a \in queue, NEW l \in Current(a), Spread(a, l), Planning',
           NEW n \in LayeredNode
    PROVE  /\ n \notin Reached(a, l) => labels'[n] = labels[n]
           /\ n \in Reached(a, l) =>
                 /\ labels'[n] = {x \in labels[n] : ~NoDearer(Labelled(a.node, l, n), x)}
                                   \cup {Labelled(a.node, l, n)}
                 /\ ~\E x \in labels[n] : NoDearer(x, Labelled(a.node, l, n))
           /\ Labelled(a.node, l, n) \in Label
           /\ labels[n] \subseteq Label /\ labels'[n] \subseteq Label
           /\ \A x \in labels[n] : \E y \in labels'[n] : NoDearer(y, x)
           /\ \A x, y \in labels'[n] : NoDearer(x, y) => x = y
<1> DEFINE new == Labelled(a.node, l, n)
<1>1. l \in Label /\ new \in Label /\ labels[n] \subseteq Label
      /\ \A x, y \in labels[n] : NoDearer(x, y) => x = y
    BY CurrentIs, LabelledIs DEF LayeredShape
<1>2. labels'[n] = IF n \in Reached(a, l) THEN Kept(n, new) ELSE labels[n]
    <2>1. labels' = NewLabels(a, l)
        BY SpreadIs
    <2> QED
        BY <2>1 DEF NewLabels
<1>3. CASE n \notin Reached(a, l)
    <2>1. labels'[n] = labels[n]
        BY <1>2, <1>3
    <2> HIDE DEF new
    <2> QED
        BY <1>1, <1>3, <2>1, NoDearerOrder DEF new
<1>4. CASE n \in Reached(a, l)
    <2>1. Improving(n, new)
        BY <1>4 DEF Reached
    <2>2. /\ labels'[n] = {x \in labels[n] : ~NoDearer(new, x)} \cup {new}
          /\ ~\E x \in labels[n] : NoDearer(x, new)
        <3> HIDE DEF new
        <3> QED
            BY <1>1, <1>2, <1>4, <2>1, ImprovingIs
    <2> HIDE DEF new
    <2>3. labels'[n] \subseteq Label
        BY <1>1, <2>2
    <2>4. \A x \in labels[n] : \E y \in labels'[n] : NoDearer(y, x)
        <3> SUFFICES ASSUME NEW x \in labels[n] PROVE \E y \in labels'[n] : NoDearer(y, x)
            OBVIOUS
        <3>1. CASE NoDearer(new, x)
            BY <2>2, <3>1
        <3>2. CASE ~NoDearer(new, x)
            <4>1. x \in labels'[n] /\ NoDearer(x, x)
                BY <1>1, <2>2, <3>2, NoDearerOrder
            <4> QED
                BY <4>1
        <3> QED
            BY <3>1, <3>2
    <2>5. \A x, y \in labels'[n] : NoDearer(x, y) => x = y
        BY <1>1, <2>2
    <2> QED
        BY <1>1, <1>4, <2>2, <2>3, <2>4, <2>5 DEF new
<1> QED
    BY <1>3, <1>4

LEMMA SpreadBetters ==
    ASSUME LayoutOK, LayeredShape, NEW a \in queue, NEW l \in Current(a), Spread(a, l), Planning'
    PROVE  Better /\ layout' = layout
<1>1. \A n \in LayeredNode :
         /\ labels[n] \subseteq Label /\ labels'[n] \subseteq Label
         /\ \A x \in labels[n] : \E y \in labels'[n] : NoDearer(y, x)
    BY SpreadLabels
<1>2. layout' = layout
    BY SpreadIs
<1> QED
    BY <1>1, <1>2 DEF Better

LEMMA SpreadKeepsShape ==
    ASSUME LayoutOK, LayeredShape, NEW a \in queue, NEW l \in Current(a), Spread(a, l), Planning',
           work < LayeredExpansions
    PROVE  LayeredShape'
<1> DEFINE fresh == NewArrivals(a, l)
<1>1. l \in Label /\ a.node \in LayeredNode /\ layout' = layout
    BY CurrentIs, SpreadIs
<1>2. /\ work' = work + 1
      /\ Cardinality(DOMAIN origins \cup NewKeys(a, l)) + 1 <= MaxNodes
      /\ DOMAIN origins' = DOMAIN origins \cup NewKeys(a, l)
      /\ queue' = (queue \ {a}) \cup fresh
      /\ labels' = [n \in LayeredNode |-> labels'[n]]
      /\ planned' = planned
    <2>1. labels' = NewLabels(a, l) /\ origins' = NewOrigins(a, l)
        BY SpreadIs
    <2>2. labels' = [n \in LayeredNode |-> labels'[n]]
        BY <2>1 DEF NewLabels
    <2>3. DOMAIN origins' = DOMAIN origins \cup NewKeys(a, l)
        BY <2>1 DEF NewOrigins
    <2> QED
        BY <2>2, <2>3, SpreadIs
<1>3. work' \in 0..LayeredExpansions
    <2>1. work \in 0..LayeredExpansions /\ LayeredExpansions \in Nat
        BY LayeredAssumption DEF LayeredShape
    <2> QED
        BY <1>2, <2>1
<1>4. Reached(a, l) \subseteq LayeredNode /\ IsFiniteSet(Reached(a, l))
    <2>1. Reached(a, l) \subseteq LayeredNode
        BY DEF Reached, Neighbours
    <2> QED
        BY <2>1, LayeredNodeIsFinite, FS_Subset
<1>5. fresh \subseteq Arrival
    BY <1>1, <1>4, LabelledIs DEF Arrival, NewArrivals
<1>6. IsFiniteSet(fresh) /\ IsFiniteSet(NewKeys(a, l))
    <2> DEFINE f == [m \in Reached(a, l) |-> [node |-> m, label |-> Labelled(a.node, l, m)]]
               g == [m \in Reached(a, l) |-> KeyOf(m, Labelled(a.node, l, m).vias)]
    <2>1. IsFiniteSet(DOMAIN f) /\ IsFiniteSet(DOMAIN g)
        BY <1>4
    <2>2. fresh = {f[m] : m \in DOMAIN f} /\ NewKeys(a, l) = {g[m] : m \in DOMAIN g}
        BY DEF NewKeys, NewArrivals
    <2> HIDE DEF f, g
    <2> QED
        BY <2>1, <2>2, ImageIsFinite
<1> HIDE DEF fresh
<1>7. queue' \subseteq Arrival /\ IsFiniteSet(queue')
    <2>1. queue \subseteq Arrival /\ IsFiniteSet(queue)
        BY DEF LayeredShape
    <2>2. IsFiniteSet(queue \ {a})
        BY <2>1, FS_Subset
    <2>3. IsFiniteSet((queue \ {a}) \cup fresh)
        BY <1>6, <2>2, FS_Union
    <2> QED
        BY <1>2, <1>5, <2>1, <2>3
<1>8. IsFiniteSet(DOMAIN origins') /\ Cardinality(DOMAIN origins') < MaxNodes
    <2>1. IsFiniteSet(DOMAIN origins)
        BY DEF LayeredShape
    <2>2. IsFiniteSet(DOMAIN origins \cup NewKeys(a, l))
        BY <1>6, <2>1, FS_Union
    <2>3. Cardinality(DOMAIN origins \cup NewKeys(a, l)) \in Nat /\ MaxNodes \in Nat
        BY <2>2, FS_CardinalityType, LayeredAssumption
    <2> QED
        BY <1>2, <2>2, <2>3
<1>9. \A n \in LayeredNode :
         labels'[n] \subseteq Label /\ \A x, y \in labels'[n] : NoDearer(x, y)' => x = y
    BY <1>1, SpreadLabels, LayoutFixed
<1> QED
    BY <1>2, <1>3, <1>7, <1>8, <1>9 DEF LayeredShape

LEMMA SpreadKeepsCovered ==
    ASSUME LayoutOK, LayeredShape, Covered, NEW a \in queue, NEW l \in Current(a),
           Spread(a, l), Planning', LayeredShape'
    PROVE  Covered'
<1> DEFINE New(m) == Labelled(a.node, l, m)
<1>1. /\ a.node \in LayeredNode /\ l \in labels[a.node] /\ l \in Label
      /\ layout' = layout /\ LayoutOK' /\ Better /\ a.node # layout.goal
    BY CurrentIs, SpreadIs, SpreadBetters, LayoutFixed
<1>2. queue' = (queue \ {a}) \cup NewArrivals(a, l) /\ origins' = NewOrigins(a, l)
    BY SpreadIs
<1>3. /\ Reached(a, l) \subseteq LayeredNode
      /\ \A m \in Reached(a, l) : /\ m \in Neighbours(a.node) /\ New(m) \in Label
                                  /\ Allowed(New(m)) /\ New(m) \in labels'[m]
    <2>1. Reached(a, l) \subseteq LayeredNode
        BY DEF Reached, Neighbours
    <2>2. \A m \in Reached(a, l) : New(m) \in Label /\ New(m) \in labels'[m]
        BY <2>1, SpreadLabels
    <2> QED
        BY <2>1, <2>2 DEF Reached
<1>4. Start \notin Reached(a, l) /\ Start \in LayeredNode
    <2>1. Start \in LayeredNode
        BY LayeredAssumption DEF LayeredNode
    <2>2. NoLabel \in labels[Start]
        BY DEF Covered
    <2>3. NoDearer(NoLabel, New(Start))
        BY <2>1, SpreadLabels, ZeroIsLeast
    <2> QED
        BY <2>1, <2>2, <2>3, SpreadLabels
<1>5. NoLabel \in labels'[Start]
    BY <1>4, SpreadLabels DEF Covered
<1>6. ASSUME NEW b \in queue'
      PROVE  \E m \in labels'[b.node] : NoDearer(m, b.label)
    <2>1. CASE b \in queue
        <3>1. PICK m \in labels[b.node] : NoDearer(m, b.label)
            BY <2>1 DEF Covered
        <3>2. b.node \in LayeredNode /\ b.label \in Label
            BY <2>1 DEF LayeredShape, Arrival
        <3>3. PICK y \in labels'[b.node] : NoDearer(y, m)
            BY <1>1, <3>2 DEF Better
        <3>4. m \in Label /\ y \in Label
            BY <1>1, <3>2 DEF Better
        <3> QED
            BY <3>1, <3>2, <3>3, <3>4, NoDearerOrder
    <2>2. CASE b \notin queue
        <3>1. PICK m \in Reached(a, l) : b.node = m /\ b.label = New(m)
            BY <1>2, <2>2 DEF NewArrivals
        <3> HIDE DEF New
        <3> QED
            BY <1>3, <3>1, NoDearerOrder
    <2> QED
        BY <2>1, <2>2
<1>7. Done(a.node, l)'
    <2>1. ASSUME NEW m \in Neighbours(a.node), Allowed(New(m))
          PROVE  \E x \in labels'[m] : NoDearer(x, New(m))
        <3>1. m \in LayeredNode /\ New(m) \in Label /\ labels[m] \subseteq Label
            BY SpreadLabels DEF Neighbours
        <3>2. CASE m \in Reached(a, l)
            <4> HIDE DEF New
            <4> QED
                BY <1>3, <3>1, <3>2, NoDearerOrder
        <3>3. CASE m \notin Reached(a, l)
            <4>1. ~Improving(m, New(m))
                BY <2>1, <3>3 DEF Reached
            <4>2. \E x \in labels[m] : NoDearer(x, New(m))
                <5> HIDE DEF New
                <5> QED
                    BY <3>1, <4>1, ImprovingIs
            <4>3. labels'[m] = labels[m]
                BY <3>1, <3>3, SpreadLabels
            <4> QED
                BY <4>2, <4>3
        <3> QED
            BY <3>2, <3>3
    <2> QED
        BY <1>1, <2>1, LayoutFixed DEF Done
<1>8. ASSUME NEW n \in LayeredNode, NEW x \in labels'[n]
      PROVE  Allowed(x)' /\ (Awaits(n, x)' \/ Done(n, x)')
    <2>1. CASE x \in labels[n]
        <3>1. x \in Label /\ Allowed(x) /\ (Awaits(n, x) \/ Done(n, x))
            BY <2>1 DEF Covered, LayeredShape
        <3>2. CASE [node |-> n, label |-> x] = a
            <4>1. n = a.node /\ x = l
                BY <2>1, <3>2, CurrentIs
            <4> QED
                BY <1>1, <1>7, <3>1, <4>1, LayoutFixed
        <3>3. CASE Awaits(n, x) /\ [node |-> n, label |-> x] # a
            <4>1. Awaits(n, x)'
                BY <1>2, <3>3 DEF Awaits
            <4> QED
                BY <1>1, <3>1, <4>1, LayoutFixed
        <3>4. CASE Done(n, x)
            <4>1. Done(n, x)'
                BY <1>1, <3>1, <3>4, DoneStays
            <4> QED
                BY <1>1, <3>1, <4>1, LayoutFixed
        <3> QED
            BY <3>1, <3>2, <3>3, <3>4
    <2>2. CASE x \notin labels[n]
        <3>1. n \in Reached(a, l) /\ x = New(n)
            BY <2>2, SpreadLabels
        <3>2. [node |-> n, label |-> x] \in queue'
            BY <1>2, <3>1 DEF NewArrivals
        <3>3. Allowed(x)
            BY <1>3, <3>1
        <3> HIDE DEF New
        <3> QED
            BY <1>1, <3>2, <3>3, LayoutFixed DEF Awaits
    <2> QED
        BY <2>1, <2>2
<1>9. ASSUME NEW n \in LayeredNode, NEW x \in labels'[n], n # Start
      PROVE  (/\ KeyOf(n, x.vias) \in DOMAIN origins
              /\ CameFrom(origins[KeyOf(n, x.vias)], n, x))'
    <2>1. PICK k : k = KeyOf(n, x.vias) /\ k = KeyOf(n, x.vias)'
        BY <1>1, LayoutFixed
    <2>2. SUFFICES \E p : /\ k \in DOMAIN origins' /\ origins'[k] = p
                          /\ p[1] \in LayeredNode /\ x \in Label /\ CameFrom(p, n, x)'
        BY <2>1 DEF CameFrom
    <2>3. CASE k \in NewKeys(a, l)
        <3>1. PICK m \in Reached(a, l) : k = KeyOf(m, New(m).vias)
            BY <2>3 DEF NewKeys
        <3>2. m = n
            BY <2>1, <3>1 DEF KeyOf
        <3>3. New(n) \in labels'[n] /\ KeyOf(n, x.vias) = KeyOf(n, New(n).vias)
            BY <1>3, <2>1, <3>1, <3>2
        <3>4. x = New(n)
            <4>1. /\ labels'[n] \subseteq Label
                  /\ \A y, z \in labels'[n] : NoDearer(y, z) => y = z
                BY SpreadLabels
            <4> HIDE DEF New
            <4> QED
                BY <3>3, <4>1, KeyTellsLabel
        <3>5. PICK p : p = KeyOf(a.node, l.vias)
            OBVIOUS
        <3>6. origins'[k] = p /\ k \in DOMAIN origins' /\ p[1] = a.node
            BY <1>2, <2>3, <3>5 DEF KeyOf, NewOrigins
        <3>7. n \in Neighbours(a.node)
            BY <1>3, <3>1, <3>2
        <3>8. CameFrom(p, n, x)
            <4>1. NoDearer(l, l)
                BY <1>1, NoDearerOrder
            <4> QED
                BY <1>1, <3>4, <3>5, <3>6, <3>7, <4>1 DEF CameFrom
        <3>9. x \in Label
            BY <3>4, SpreadLabels
        <3>10. CameFrom(p, n, x)'
            BY <1>1, <3>8, <3>9, CameFromStays
        <3> QED
            BY <1>1, <3>6, <3>9, <3>10
    <2>4. CASE k \notin NewKeys(a, l)
        <3>1. n \notin Reached(a, l) \/ x # New(n)
            BY <2>1, <2>4 DEF NewKeys
        <3>2. x \in labels[n]
            BY <3>1, SpreadLabels
        <3>3. PICK p : p = origins[k]
            OBVIOUS
        <3>4. k \in DOMAIN origins /\ CameFrom(p, n, x) /\ x \in Label
            <4>1. CameFrom(origins[KeyOf(n, x.vias)], n, x) /\ KeyOf(n, x.vias) \in DOMAIN origins
                BY <1>9, <3>2 DEF Covered
            <4> QED
                BY <2>1, <3>2, <3>3, <4>1 DEF LayeredShape
        <3>5. k \in DOMAIN origins' /\ origins'[k] = p
            BY <1>2, <2>4, <3>3, <3>4 DEF NewOrigins
        <3>6. CameFrom(p, n, x)'
            BY <1>1, <3>4, CameFromStays
        <3>7. p[1] \in LayeredNode
            BY <3>4 DEF CameFrom
        <3> QED
            BY <3>4, <3>5, <3>6, <3>7
    <2> QED
        BY <2>3, <2>4
<1> QED
    BY <1>1, <1>5, <1>6, <1>8, <1>9, LayoutFixed DEF Covered

-----------------------------------------------------------------------------
(* The walks of the reference.                                             *)

WalkRec == [node : LayeredNode, vias : Nat, cost : Nat]
StartWalk == [node |-> Start, vias |-> 0, cost |-> 0]
LabelOf(w) == [vias |-> w.vias, cost |-> w.cost]

Walk(w, m) ==
    LET l == Labelled(w.node, [vias |-> w.vias, cost |-> w.cost], m)
    IN  [node |-> m, vias |-> l.vias, cost |-> l.cost]

(* All that some walks make, a step on, up to a cost.                      *)
Extended(ws, bound) ==
    ws \cup {w \in UNION {{Walk(v, m) : m \in Neighbours(v.node)} : v \in ws} :
               w.cost <= bound /\ (layout.capped => w.vias <= layout.cap)}

Walker(f, n, bound) ==
    f = [i \in 0..n |->
           IF i = 0 THEN {[node |-> Start, vias |-> 0, cost |-> 0]}
           ELSE LET ws == f[i - 1]
                IN  ws \cup {w \in UNION {{Walk(v, m) : m \in Neighbours(v.node)} : v \in ws} :
                               w.cost <= bound /\ (layout.capped => w.vias <= layout.cap)}]

LEMMA WalkIs ==
    ASSUME NEW v \in WalkRec, NEW m \in Neighbours(v.node)
    PROVE  /\ Walk(v, m) \in WalkRec
           /\ Walk(v, m).node = m
           /\ LabelOf(v) \in Label
           /\ LabelOf(Walk(v, m)) = Labelled(v.node, LabelOf(v), m)
           /\ Walk(v, m).cost = v.cost + StepPrice(v.node, m)
           /\ StepPrice(v.node, m) \in Nat \ {0}
<1>1. v.node \in LayeredNode /\ v.vias \in Nat /\ v.cost \in Nat
    BY DEF WalkRec
<1>2. LabelOf(v) \in Label
    BY <1>1 DEF LabelOf, Label
<1>3. m \in LayeredNode
    BY DEF Neighbours
<1> DEFINE l == Labelled(v.node, LabelOf(v), m)
<1>4. l \in Label /\ l.cost = v.cost + StepPrice(v.node, m) /\ StepPrice(v.node, m) \in Nat \ {0}
    BY <1>2, LabelledIs DEF LabelOf
<1>5. l.vias \in Nat /\ l.cost \in Nat /\ l = [vias |-> l.vias, cost |-> l.cost]
    BY <1>4, LabelIs
<1>6. Walk(v, m) = [node |-> m, vias |-> l.vias, cost |-> l.cost]
    BY DEF Walk, LabelOf
<1> HIDE DEF l
<1> QED
    BY <1>2, <1>3, <1>4, <1>5, <1>6 DEF WalkRec, LabelOf, l

LEMMA WalkerExists ==
    ASSUME NEW n \in Nat, NEW bound
    PROVE  \E f : Walker(f, n, bound)
<1> DEFINE before == [ws \in SUBSET WalkRec |-> Extended(ws, bound)]
<1>1. Start \in LayeredNode
    BY LayeredAssumption DEF LayeredNode
<1>2. {StartWalk} \in SUBSET WalkRec
    BY <1>1 DEF WalkRec, StartWalk
<1>3. \A ws \in SUBSET WalkRec :
         Extended(ws, bound) \in SUBSET WalkRec /\ before[ws] = Extended(ws, bound)
    <2> SUFFICES ASSUME NEW ws \in SUBSET WalkRec
                 PROVE  Extended(ws, bound) \subseteq WalkRec
        OBVIOUS
    <2>1. \A v \in ws : \A m \in Neighbours(v.node) : Walk(v, m) \in WalkRec
        BY WalkIs
    <2> QED
        BY <2>1 DEF Extended
<1> HIDE DEF before
<1>4. PICK f : Backwards(f, n, {StartWalk}, {}, before)
    BY BackwardsExists
<1>5. \A i \in 0..n : f[i] = IF i = 0 THEN {StartWalk} ELSE before[f[i - 1]]
    BY <1>4, BackwardsIs
<1>6. \A i \in 0..n : f[i] \in SUBSET WalkRec
    <2> DEFINE Bad == {i \in 0..n : f[i] \notin SUBSET WalkRec}
    <2>1. SUFFICES ASSUME Bad # {} PROVE FALSE
        OBVIOUS
    <2>2. PICK i \in Bad : \A j \in Bad : i <= j
        <3>1. Bad \subseteq Nat
            OBVIOUS
        <3> HIDE DEF Bad
        <3> QED
            BY <2>1, <3>1, LeastNatural
    <2>3. i \in 0..n /\ f[i] \notin SUBSET WalkRec /\ i # 0
        BY <1>2, <1>5
    <2>4. i - 1 \in 0..n /\ ~(i <= i - 1)
        BY <2>3
    <2>5. f[i - 1] \in SUBSET WalkRec
        BY <2>2, <2>4
    <2>6. f[i] = before[f[i - 1]]
        BY <1>5, <2>3
    <2> QED
        BY <1>3, <2>3, <2>5, <2>6
<1> DEFINE after(i) == IF i = 0 THEN {StartWalk} ELSE Extended(f[i - 1], bound)
<1>7. ASSUME NEW i \in 0..n PROVE f[i] = after(i)
    <2>1. CASE i = 0
        BY <1>5, <2>1
    <2>2. CASE i # 0
        <3>1. i - 1 \in 0..n
            BY <2>2
        <3> QED
            BY <1>3, <1>5, <1>6, <2>2, <3>1
    <2> QED
        BY <2>1, <2>2
<1>8. f = [i \in 0..n |-> f[i]]
    BY <1>4 DEF Backwards
<1> HIDE DEF after
<1>9. f = [i \in 0..n |-> after(i)]
    BY <1>7, <1>8
<1>10. Walker(f, n, bound)
    BY <1>9 DEF Walker, after, Extended, StartWalk
<1> QED
    BY <1>10

(* What holds of the walk of no steps, and of each walk a step on from one *)
(* of which it holds, holds of every walk.                                 *)
LEMMA WalkedInduct ==
    ASSUME NEW S, NEW bound, StartWalk \in S,
           \A v \in S : \A m \in Neighbours(v.node) :
              Walk(v, m).cost <= bound /\ (layout.capped => Walk(v, m).vias <= layout.cap)
                => Walk(v, m) \in S
    PROVE  Walked(bound) \subseteq S
<1> DEFINE N == Cardinality(LayeredNode)
           W == CHOOSE f : Walker(f, N, bound)
<1>1. Walked(bound) = W[N]
    BY DEF Walked, Walker, Walk
<1>2. N \in Nat
    BY LayeredNodeIsFinite, FS_CardinalityType
<1> HIDE DEF N
<1>3. Walker(W, N, bound)
    BY <1>2, WalkerExists
<1> HIDE DEF W
<1> DEFINE after(i) == IF i = 0 THEN {StartWalk} ELSE Extended(W[i - 1], bound)
<1>4. W = [i \in 0..N |-> after(i)]
    BY <1>3 DEF Walker, Extended, StartWalk
<1> HIDE DEF after
<1>5. \A i \in 0..N : W[i] = after(i)
    BY <1>4
<1>6. \A ws \in SUBSET S : Extended(ws, bound) \in SUBSET S
    BY DEF Extended
<1>7. \A i \in 0..N : W[i] \in SUBSET S
    <2> DEFINE Bad == {i \in 0..N : W[i] \notin SUBSET S}
    <2>1. SUFFICES ASSUME Bad # {} PROVE FALSE
        OBVIOUS
    <2>2. PICK i \in Bad : \A j \in Bad : i <= j
        <3>1. Bad \subseteq Nat
            OBVIOUS
        <3> HIDE DEF Bad
        <3> QED
            BY <2>1, <3>1, LeastNatural
    <2>3. i \in 0..N /\ W[i] \notin SUBSET S
        OBVIOUS
    <2>4. CASE i = 0
        BY <1>5, <2>3, <2>4 DEF after
    <2>5. CASE i # 0
        <3>1. i - 1 \in 0..N /\ ~(i <= i - 1)
            BY <1>2, <2>3, <2>5
        <3>2. W[i - 1] \in SUBSET S
            BY <2>2, <3>1
        <3>3. W[i] = Extended(W[i - 1], bound)
            BY <1>5, <2>3, <2>5 DEF after
        <3> QED
            BY <1>6, <2>3, <3>2, <3>3
    <2> QED
        BY <2>4, <2>5
<1> QED
    BY <1>1, <1>2, <1>7

(* Along a walk the search has a label that leaves it nothing to add, or   *)
(* one still queued that is cheaper, also by its estimate.                 *)
Seen(w) ==
    /\ w \in WalkRec /\ Allowed(LabelOf(w)) /\ w.node \notin layout.blocked
    /\ \/ \E m \in labels[w.node] : NoDearer(m, LabelOf(w))
       \/ \E b \in queue : /\ Total(b) <= w.cost + Estimate(w.node)
                           /\ b.label.cost < w.cost

LEMMA WalkGoesOn ==
    ASSUME LayoutOK, LayeredShape, Covered, NEW v, Seen(v), NEW m \in Neighbours(v.node),
           Allowed(LabelOf(Walk(v, m)))
    PROVE  Seen(Walk(v, m))
<1> DEFINE w == Walk(v, m)
           price == StepPrice(v.node, m)
<1>1. v \in WalkRec /\ v.node \in LayeredNode /\ v.cost \in Nat /\ v.vias \in Nat
    BY DEF Seen, WalkRec
<1>2. /\ w \in WalkRec /\ w.node = m /\ LabelOf(v) \in Label
      /\ LabelOf(w) = Labelled(v.node, LabelOf(v), m)
      /\ w.cost = v.cost + price /\ price \in Nat \ {0}
    BY <1>1, WalkIs
<1>3. m \notin layout.blocked /\ m \in LayeredNode
    BY DEF Neighbours
<1>4. /\ Estimate(v.node) <= Estimate(m) + price
      /\ Estimate(v.node) \in Nat /\ Estimate(m) \in Nat
    BY <1>1, <1>3, EstimateIs
<1> HIDE DEF w, price
<1>5. ASSUME NEW b \in queue, Total(b) <= v.cost + Estimate(v.node), b.label.cost <= v.cost
      PROVE  Total(b) <= w.cost + Estimate(w.node) /\ b.label.cost < w.cost
    <2>1. b.node \in LayeredNode /\ b.label.cost \in Nat
        BY DEF LayeredShape, Arrival, Label
    <2>2. Total(b) \in Nat
        BY <2>1, EstimateIs DEF Total
    <2> QED
        BY <1>1, <1>2, <1>4, <1>5, <2>1, <2>2
<1>6. CASE \E b \in queue : Total(b) <= v.cost + Estimate(v.node) /\ b.label.cost < v.cost
    <2>1. PICK b \in queue : Total(b) <= v.cost + Estimate(v.node) /\ b.label.cost < v.cost
        BY <1>6
    <2>2. b.label.cost \in Nat
        BY DEF LayeredShape, Arrival, Label
    <2>3. b.label.cost <= v.cost
        BY <1>1, <2>1, <2>2
    <2> QED
        BY <1>2, <1>3, <1>5, <2>1, <2>3 DEF Seen, w
<1>7. CASE \E x \in labels[v.node] : NoDearer(x, LabelOf(v))
    <2>1. PICK x \in labels[v.node] : NoDearer(x, LabelOf(v))
        BY <1>7
    <2>2. x \in Label /\ x.cost \in Nat /\ x.cost <= v.cost
        <3>1. x \in Label
            BY <1>1 DEF LayeredShape
        <3>2. x.cost <= LabelOf(v).cost
            BY <1>2, <2>1, <3>1, NoDearerOrder
        <3> QED
            BY <3>1, <3>2 DEF LabelOf, Label
    <2>3. CASE Awaits(v.node, x)
        <3> DEFINE b == [node |-> v.node, label |-> x]
        <3>1. b \in queue /\ b.label.cost = x.cost /\ Total(b) = x.cost + Estimate(v.node)
            BY <2>3 DEF Awaits, Total
        <3>2. Total(b) <= v.cost + Estimate(v.node) /\ b.label.cost <= v.cost
            BY <1>1, <1>4, <2>2, <3>1
        <3> HIDE DEF b
        <3> QED
            BY <1>2, <1>3, <1>5, <3>1, <3>2 DEF Seen, w
    <2>4. CASE Done(v.node, x)
        <3> DEFINE y == Labelled(v.node, x, m)
        <3>1. y \in Label /\ NoDearer(y, LabelOf(w)) /\ LabelOf(w) \in Label
            BY <1>2, <2>1, <2>2, LabelledIs
        <3>2. Allowed(y)
            <4>1. layout.capped => y.vias <= LabelOf(w).vias
                BY <3>1, NoDearerOrder
            <4>2. y.vias \in Nat /\ LabelOf(w).vias \in Nat /\ layout.cap \in Nat
                BY <3>1, LabelIs DEF LayoutOK
            <4>3. Allowed(LabelOf(w))
                BY DEF w
            <4> QED
                BY <4>1, <4>2, <4>3 DEF Allowed
        <3> HIDE DEF y
        <3>3. PICK z \in labels[m] : NoDearer(z, y)
            BY <2>4, <3>2 DEF Done, y
        <3>4. z \in Label
            BY <1>3 DEF LayeredShape
        <3>5. NoDearer(z, LabelOf(w))
            BY <3>1, <3>3, <3>4, NoDearerOrder
        <3> QED
            BY <1>2, <1>3, <3>3, <3>5 DEF Seen, w
    <2> QED
        BY <1>1, <2>1, <2>3, <2>4 DEF Covered
<1> QED
    BY <1>6, <1>7 DEF Seen

LEMMA WalksAreSeen ==
    ASSUME LayoutOK, LayeredShape, Covered, NEW bound, NEW w \in Walked(bound)
    PROVE  Seen(w) /\ (w.cost <= bound \/ w = StartWalk)
<1> DEFINE S == {v \in WalkRec : Seen(v) /\ (v.cost <= bound \/ v = StartWalk)}
<1>1. StartWalk \in S
    <2>1. StartWalk \in WalkRec /\ StartWalk.node = Start
        BY LayeredAssumption DEF StartWalk, WalkRec, LayeredNode
    <2>2. LabelOf(StartWalk) = NoLabel
        BY DEF StartWalk, LabelOf, NoLabel
    <2>3. Allowed(NoLabel) /\ NoDearer(NoLabel, NoLabel)
        <3>1. NoLabel \in Label /\ NoLabel.vias = 0
            BY DEF NoLabel, Label
        <3> QED
            BY <3>1, ZeroIsLeast DEF Allowed, LayoutOK
    <2> QED
        BY <2>1, <2>2, <2>3 DEF Seen, Covered
<1>2. ASSUME NEW v \in S, NEW m \in Neighbours(v.node),
             Walk(v, m).cost <= bound, layout.capped => Walk(v, m).vias <= layout.cap
      PROVE  Walk(v, m) \in S
    <2>1. Allowed(LabelOf(Walk(v, m)))
        BY <1>2 DEF Allowed, LabelOf
    <2>2. Seen(Walk(v, m))
        BY <2>1, WalkGoesOn
    <2> QED
        BY <1>2, <2>2 DEF Seen
<1> HIDE DEF S
<1>3. Walked(bound) \subseteq S
    BY <1>1, <1>2, WalkedInduct
<1> QED
    BY <1>3 DEF S

(* So no walk to the goal is cheaper than a label popped there, nor as     *)
(* cheap with fewer vias, and with nothing queued no walk leads there.     *)
LEMMA NothingCheaper ==
    ASSUME LayoutOK, LayeredShape, Covered, NEW a, a = First, queue # {}, a.node = layout.goal,
           NEW w \in Walked(a.label.cost), w.node = layout.goal
    PROVE  w.cost = a.label.cost /\ w.vias >= a.label.vias
<1>1. a \in queue /\ a \in Arrival /\ a.node \in LayeredNode /\ a.label \in Label
    BY FirstIs DEF LayeredShape, Arrival
<1>2. a.label.cost \in Nat /\ a.label.vias \in Nat
    BY <1>1, LabelIs
<1>3. Seen(w) /\ w \in WalkRec /\ w.cost \in Nat /\ w.vias \in Nat
    BY WalksAreSeen DEF Seen, WalkRec
<1>4. w.cost <= a.label.cost
    BY <1>2, WalksAreSeen DEF StartWalk
<1>5. Estimate(layout.goal) = 0 /\ layout.goal \in LayeredNode
    BY EstimateIs DEF LayoutOK
<1>6. Total(a) = a.label.cost
    BY <1>2, <1>5 DEF Total
<1>7. ASSUME NEW b \in queue, Total(b) <= w.cost, b.label.cost < w.cost
      PROVE  FALSE
    <2>1. b.node \in LayeredNode /\ b.label.cost \in Nat
        BY DEF LayeredShape, Arrival, Label
    <2>2. Total(b) \in Nat
        BY <2>1, EstimateIs DEF Total
    <2>3. Total(b) <= Total(a) /\ b.label.cost < a.label.cost
        BY <1>2, <1>3, <1>4, <1>6, <1>7, <2>1, <2>2
    <2> QED
        BY <2>3, FirstIsCheapest DEF LayeredShape
<1>8. PICK m \in labels[layout.goal] : NoDearer(m, LabelOf(w))
    BY <1>3, <1>5, <1>7 DEF Seen
<1> DEFINE b == [node |-> layout.goal, label |-> m]
<1>9. b \in queue /\ b.label = m /\ b.node = layout.goal
    BY <1>5, <1>8 DEF Covered, Done, Awaits
<1>10. m \in Label /\ m.cost \in Nat /\ m.vias \in Nat /\ Total(b) = m.cost
    <2>1. m \in Label
        BY <1>5, <1>8 DEF LayeredShape
    <2> QED
        BY <1>5, <2>1, LabelIs DEF Total
<1> HIDE DEF b
<1>11. /\ m.cost <= w.cost /\ (m.cost = w.cost => m.vias <= w.vias)
    <2>1. LabelOf(w) \in Label /\ LabelOf(w).cost = w.cost /\ LabelOf(w).vias = w.vias
        BY <1>3 DEF LabelOf, Label
    <2> QED
        BY <1>8, <1>10, <2>1, NoDearerOrder
<1>12. /\ ~(m.cost <= a.label.cost /\ m.cost < a.label.cost)
       /\ ~(m.cost <= a.label.cost /\ m.cost = a.label.cost /\ m.vias < a.label.vias)
    BY <1>6, <1>9, <1>10, FirstIsCheapest DEF LayeredShape
<1> QED
    BY <1>2, <1>3, <1>4, <1>10, <1>11, <1>12

LEMMA NothingThere ==
    ASSUME LayoutOK, LayeredShape, Covered, queue = {}, NEW bound, NEW w \in Walked(bound)
    PROVE  w.node # layout.goal
<1> SUFFICES ASSUME w.node = layout.goal PROVE FALSE
    OBVIOUS
<1>1. PICK m \in labels[layout.goal] : NoDearer(m, LabelOf(w))
    BY WalksAreSeen DEF Seen
<1> QED
    BY <1>1 DEF Covered, Done, Awaits, LayoutOK

-----------------------------------------------------------------------------
(* The way back from what is found.                                        *)

(* What is popped is the first of the queue, and lies at the goal.         *)
PoppedAtGoal(a) == queue # {} /\ a = First /\ a.node = layout.goal

LEMMA PoppedIsKept ==
    ASSUME LayoutOK, LayeredShape, Covered, NEW a, PoppedAtGoal(a)
    PROVE  /\ a.label \in labels[layout.goal] /\ a.label \in Label
           /\ a.label.cost \in Nat /\ a.label.vias \in Nat
           /\ Total(a) = a.label.cost /\ Estimate(layout.goal) = 0
<1>1. a \in queue /\ a.node = layout.goal /\ a.label \in Label
    BY FirstIs DEF LayeredShape, Arrival, PoppedAtGoal
<1>2. a.label.cost \in Nat /\ a.label.vias \in Nat
    BY <1>1, LabelIs
<1>3. Estimate(layout.goal) = 0 /\ layout.goal \in LayeredNode
    BY EstimateIs DEF LayoutOK
<1>4. Total(a) = a.label.cost
    BY <1>1, <1>2, <1>3 DEF Total
<1>5. PICK m \in labels[layout.goal] : NoDearer(m, a.label)
    BY <1>1 DEF Covered
<1> DEFINE b == [node |-> layout.goal, label |-> m]
<1>6. b \in queue /\ b.label = m /\ b.node = layout.goal
    BY <1>3, <1>5 DEF Covered, Done, Awaits
<1>7. m \in Label /\ m.cost \in Nat /\ m.vias \in Nat /\ Total(b) = m.cost
    <2>1. m \in Label
        BY <1>3, <1>5 DEF LayeredShape
    <2> QED
        BY <1>3, <2>1, LabelIs DEF Total
<1> HIDE DEF b
<1>8. m.cost <= a.label.cost /\ (m.cost = a.label.cost => m.vias <= a.label.vias)
    BY <1>1, <1>5, <1>7, NoDearerOrder
<1>9. /\ ~(m.cost <= a.label.cost /\ m.cost < a.label.cost)
      /\ ~(m.cost <= a.label.cost /\ m.cost = a.label.cost /\ m.vias < a.label.vias)
    BY <1>4, <1>6, <1>7, FirstIsCheapest DEF LayeredShape, PoppedAtGoal
<1>10. m.cost = a.label.cost /\ m.vias = a.label.vias
    BY <1>2, <1>7, <1>8, <1>9
<1>11. m = a.label
    BY <1>1, <1>7, <1>10, LabelIs
<1> QED
    BY <1>1, <1>2, <1>3, <1>4, <1>5, <1>11

(* A label that is no dearer than what is popped comes from one that is    *)
(* still kept as it was: queued, it would have been popped, and expanded   *)
(* since it has made of this label what it could.                          *)
LEMMA CameFromKept ==
    ASSUME LayoutOK, LayeredShape, Covered, NEW a, PoppedAtGoal(a),
           NEW n \in LayeredNode, n # Start, NEW l \in labels[n],
           l.cost + Estimate(n) <= Total(a), l.cost <= a.label.cost,
           NEW p, p = origins[KeyOf(n, l.vias)]
    PROVE  /\ p[1] \in LayeredNode /\ n \in Neighbours(p[1]) /\ l \in Label
           /\ \E x \in labels[p[1]] :
                 /\ x \in Label /\ p = KeyOf(p[1], x.vias) /\ l = Labelled(p[1], x, n)
                 /\ x.cost + Estimate(p[1]) <= Total(a)
                 /\ x.cost < l.cost
<1>1. CameFrom(p, n, l) /\ Allowed(l)
    BY DEF Covered
<1>2. p[1] \in LayeredNode /\ n \in Neighbours(p[1]) /\ l \in Label /\ l.cost \in Nat
    BY <1>1, LabelIs DEF CameFrom, LayeredShape
<1>3. PICK x \in Label, m \in labels[p[1]] :
         p = KeyOf(p[1], x.vias) /\ l = Labelled(p[1], x, n) /\ NoDearer(m, x)
    BY <1>1 DEF CameFrom
<1>4. m \in Label /\ m.cost \in Nat /\ x.cost \in Nat /\ m.vias \in Nat /\ x.vias \in Nat
    BY <1>2, <1>3, LabelIs DEF LayeredShape
<1> DEFINE price == StepPrice(p[1], n)
<1>5. l.cost = x.cost + price /\ price \in Nat \ {0}
    <2>1. x \in Label /\ l = Labelled(p[1], x, n)
        BY <1>3
    <2>2. /\ Labelled(p[1], x, n).cost = x.cost + StepPrice(p[1], n)
          /\ StepPrice(p[1], n) \in Nat \ {0}
        BY <2>1, LabelledIs
    <2> QED
        BY <2>1, <2>2
<1>6. /\ Estimate(p[1]) <= Estimate(n) + price
      /\ Estimate(p[1]) \in Nat /\ Estimate(n) \in Nat
    BY <1>2, EstimateIs
<1> HIDE DEF price
<1>7. a.label.cost \in Nat /\ Total(a) = a.label.cost
    BY PoppedIsKept
<1>8. x.cost + Estimate(p[1]) <= Total(a) /\ x.cost < l.cost
    BY <1>2, <1>4, <1>5, <1>6, <1>7
<1>9. m.cost <= x.cost
    BY <1>3, <1>4, NoDearerOrder
<1>10. ~Awaits(p[1], m)
    <2> SUFFICES ASSUME Awaits(p[1], m) PROVE FALSE
        OBVIOUS
    <2> DEFINE b == [node |-> p[1], label |-> m]
    <2>1. b \in queue /\ b.label = m /\ Total(b) = m.cost + Estimate(p[1])
        BY DEF Awaits, Total
    <2>2. Total(b) <= Total(a) /\ b.label.cost < a.label.cost
        BY <1>2, <1>4, <1>6, <1>7, <1>8, <1>9, <2>1
    <2> HIDE DEF b
    <2> QED
        BY <2>1, <2>2, FirstIsCheapest DEF LayeredShape, PoppedAtGoal
<1>11. Done(p[1], m)
    BY <1>2, <1>3, <1>10 DEF Covered
<1> DEFINE y == Labelled(p[1], m, n)
<1>12. y \in Label /\ NoDearer(y, l)
    BY <1>3, <1>4, LabelledIs
<1>13. Allowed(y)
    <2>1. layout.capped => y.vias <= l.vias
        BY <1>2, <1>12, NoDearerOrder
    <2>2. y.vias \in Nat /\ l.vias \in Nat /\ layout.cap \in Nat
        BY <1>2, <1>12, LabelIs DEF LayoutOK
    <2> QED
        BY <1>1, <2>1, <2>2 DEF Allowed
<1> HIDE DEF y
<1>14. PICK z \in labels[n] : NoDearer(z, y)
    BY <1>2, <1>11, <1>13 DEF Done, y
<1>15. z \in Label
    BY DEF LayeredShape
<1>16. NoDearer(z, l)
    BY <1>2, <1>12, <1>14, <1>15, NoDearerOrder
<1>17. z = l
    BY <1>16 DEF LayeredShape
<1>18. y = l
    BY <1>2, <1>12, <1>14, <1>17, NoDearerOrder
<1>19. m = x
    BY <1>3, <1>4, <1>18, LabelledIs DEF y
<1> QED
    BY <1>2, <1>3, <1>8, <1>19

(* The states of the search that such labels are, and the label of one.    *)
LabelAt(k) == CHOOSE l \in labels[k[1]] : k = KeyOf(k[1], l.vias)
Home == {KeyOf(Start, 0)}
LiveKeys(a) ==
    {k \in DOMAIN origins :
       /\ k[1] \in LayeredNode /\ k[1] # Start
       /\ \E l \in labels[k[1]] :
             /\ k = KeyOf(k[1], l.vias)
             /\ l.cost + Estimate(k[1]) <= Total(a) /\ l.cost <= a.label.cost}

LEMMA LabelAtIs ==
    ASSUME LayoutOK, LayeredShape, NEW n \in LayeredNode, NEW l \in labels[n]
    PROVE  LabelAt(KeyOf(n, l.vias)) = l /\ KeyOf(n, l.vias)[1] = n
<1> DEFINE k == KeyOf(n, l.vias)
<1>1. k[1] = n
    BY DEF KeyOf
<1>2. LabelAt(k) \in labels[n] /\ k = KeyOf(n, LabelAt(k).vias)
    BY <1>1 DEF LabelAt
<1>3. labels[n] \subseteq Label /\ \A x, y \in labels[n] : NoDearer(x, y) => x = y
    BY DEF LayeredShape
<1> HIDE DEF k
<1>4. KeyOf(n, LabelAt(k).vias) = KeyOf(n, l.vias)
    BY <1>2 DEF k
<1>5. LabelAt(k) = l
    BY <1>2, <1>3, <1>4, KeyTellsLabel
<1> QED
    BY <1>1, <1>5 DEF k

LEMMA StartIsHome ==
    ASSUME LayoutOK, LayeredShape, Covered
    PROVE  /\ labels[Start] = {NoLabel} /\ LabelAt(KeyOf(Start, 0)) = NoLabel
           /\ KeyOf(Start, 0)[1] = Start
<1>1. Start \in LayeredNode
    BY LayeredAssumption DEF LayeredNode
<1>2. NoLabel \in labels[Start] /\ NoLabel.vias = 0
    BY DEF Covered, NoLabel
<1>3. \A l \in labels[Start] : l = NoLabel
    BY <1>1, <1>2, ZeroIsLeast DEF LayeredShape
<1>4. LabelAt(KeyOf(Start, NoLabel.vias)) = NoLabel /\ KeyOf(Start, NoLabel.vias)[1] = Start
    BY <1>1, <1>2, LabelAtIs
<1> QED
    BY <1>2, <1>3, <1>4

LEMMA LiveStep ==
    ASSUME LayoutOK, LayeredShape, Covered, NEW a, PoppedAtGoal(a), NEW k \in LiveKeys(a),
           NEW p, p = origins[k]
    PROVE  /\ p \in LiveKeys(a) \cup Home
           /\ p[1] \in LayeredNode /\ k[1] \in Neighbours(p[1])
           /\ LabelAt(k) \in Label /\ LabelAt(p) \in Label
           /\ LabelAt(k) = Labelled(p[1], LabelAt(p), k[1])
           /\ LabelAt(p).cost < LabelAt(k).cost
<1>1. k[1] \in LayeredNode /\ k[1] # Start
    BY DEF LiveKeys
<1>2. PICK l \in labels[k[1]] :
         /\ k = KeyOf(k[1], l.vias)
         /\ l.cost + Estimate(k[1]) <= Total(a) /\ l.cost <= a.label.cost
    BY DEF LiveKeys
<1>3. LabelAt(k) = l
    BY <1>1, <1>2, LabelAtIs
<1>4. /\ p[1] \in LayeredNode /\ k[1] \in Neighbours(p[1]) /\ l \in Label
      /\ \E x \in labels[p[1]] :
            /\ x \in Label /\ p = KeyOf(p[1], x.vias) /\ l = Labelled(p[1], x, k[1])
            /\ x.cost + Estimate(p[1]) <= Total(a)
            /\ x.cost < l.cost
    BY <1>1, <1>2, CameFromKept
<1>5. PICK x \in labels[p[1]] :
            /\ x \in Label /\ p = KeyOf(p[1], x.vias) /\ l = Labelled(p[1], x, k[1])
            /\ x.cost + Estimate(p[1]) <= Total(a)
            /\ x.cost < l.cost
    BY <1>4
<1>6. LabelAt(p) = x
    BY <1>4, <1>5, LabelAtIs
<1>7. x.cost <= a.label.cost
    BY <1>2, <1>4, <1>5, LabelIs, PoppedIsKept
<1>8. CASE p[1] = Start
    <2>1. x = NoLabel
        BY <1>5, <1>8, StartIsHome
    <2>2. p \in Home
        BY <1>5, <1>8, <2>1 DEF Home, NoLabel
    <2> QED
        BY <1>3, <1>4, <1>5, <1>6, <2>2
<1>9. CASE p[1] # Start
    <2>1. p \in DOMAIN origins
        BY <1>4, <1>5, <1>9 DEF Covered
    <2>2. p \in LiveKeys(a)
        BY <1>4, <1>5, <1>7, <1>9, <2>1 DEF LiveKeys
    <2> QED
        BY <1>3, <1>4, <1>5, <1>6, <2>2
<1> QED
    BY <1>8, <1>9

(* The K steps back from s, all of them over live labels.                  *)
TracedBack(a, s, K, B) ==
    /\ K \in Nat
    /\ PlannedRoute(s) = [i \in 1..(K + 1) |-> B[K + 1 - i][1]]
    /\ B[0] = s /\ B[K] = KeyOf(Start, 0)
    /\ \A i \in 0..(K - 1) : B[i] \in LiveKeys(a) /\ B[i + 1] = origins[B[i]]

LEMMA PlannedRouteIs ==
    ASSUME LayoutOK, LayeredShape, Covered, NEW a, PoppedAtGoal(a),
           NEW s \in LiveKeys(a) \cup Home
    PROVE  \E K, B : TracedBack(a, s, K, B)
<1> DEFINE N == Cardinality(DOMAIN origins)
           BackOf(f) ==
             f = [i \in 0..N |->
                    IF i = 0 THEN s
                    ELSE LET later == f[i - 1]
                         IN  IF later = KeyOf(Start, 0) THEN later ELSE origins[later]]
           B == CHOOSE f : BackOf(f)
           K == Min({i \in 0..N : B[i] = KeyOf(Start, 0)})
           T == LiveKeys(a)
           worth == [k \in T |-> LabelAt(k).cost]
<1>1. PlannedRoute(s) = [i \in 1..(K + 1) |-> B[K + 1 - i][1]]
    BY DEF PlannedRoute
<1>2. N \in Nat /\ IsFiniteSet(T) /\ Cardinality(T) <= N
    <2>1. T \subseteq DOMAIN origins
        BY DEF LiveKeys
    <2> HIDE DEF T
    <2> QED
        BY <2>1, FS_CardinalityType, FS_Subset DEF LayeredShape
<1> HIDE DEF N
<1>3. Backwards(B, N, s, Home, origins)
    <2>1. \A f : BackOf(f) <=> Backwards(f, N, s, Home, origins)
        BY DEF Backwards, Home
    <2>2. \E f : Backwards(f, N, s, Home, origins)
        BY <1>2, BackwardsExists
    <2> HIDE DEF BackOf
    <2>3. BackOf(B)
        BY <2>1, <2>2
    <2> QED
        BY <2>1, <2>3
<1>4. ASSUME NEW k \in T
      PROVE  /\ worth[k] \in Nat /\ origins[k] \in T \cup Home
             /\ origins[k] \in T => worth[origins[k]] < worth[k]
    <2>1. PICK p : p = origins[k]
        OBVIOUS
    <2>2. /\ p \in LiveKeys(a) \cup Home /\ LabelAt(k) \in Label
          /\ LabelAt(p).cost < LabelAt(k).cost
        BY <2>1, LiveStep
    <2>3. LabelAt(k).cost \in Nat
        BY <2>2, LabelIs
    <2>4. worth[k] = LabelAt(k).cost
        OBVIOUS
    <2>5. p \in T => worth[p] = LabelAt(p).cost
        OBVIOUS
    <2> HIDE DEF worth
    <2> QED
        BY <2>1, <2>2, <2>3, <2>4, <2>5
<1>5. T \cap Home = {}
    BY StartIsHome DEF LiveKeys, Home
<1>6. s \in T \cup Home
    OBVIOUS
<1>7. K = Min({i \in 0..N : B[i] \in Home})
    <2>1. {i \in 0..N : B[i] \in Home} = {i \in 0..N : B[i] = KeyOf(Start, 0)}
        BY DEF Home
    <2> HIDE DEF B
    <2> QED
        BY <2>1
<1> HIDE DEF B, T, worth, K
<1>8. BackIsTight(T, N, Home, origins, worth, s, B, K)
    <2>1. \A k \in T : worth[k] \in Nat /\ origins[k] \in T \cup Home
        BY <1>4
    <2>2. \A k \in T : origins[k] \in T => worth[origins[k]] < worth[k]
        BY <1>4
    <2> QED
        BY <1>2, <1>3, <1>5, <1>6, <1>7, <2>1, <2>2 DEF BackIsTight
<1>9. ComesHome(T, N, Home, origins, s, B, K)
    BY <1>8, WayHome
<1>10. K \in Nat /\ B[0] = s /\ B[K] = KeyOf(Start, 0)
    BY <1>2, <1>9 DEF ComesHome, Home
<1>11. \A i \in 0..(K - 1) : B[i] \in LiveKeys(a) /\ B[i + 1] = origins[B[i]]
    BY <1>9 DEF ComesHome, T
<1>12. TracedBack(a, s, K, B)
    BY <1>1, <1>10, <1>11 DEF TracedBack
<1> QED
    BY <1>12

(* Labels made step by step along a route count its vias and add up what   *)
(* its steps cost.                                                         *)
ViasTo(r, k) == Cardinality({i \in 2..k : IsVia(r[i - 1], r[i])})

LEMMA LabelsAddUp ==
    ASSUME NEW n \in Nat, NEW r, NEW made, made[1] = NoLabel,
           \A i \in 1..(n - 1) : /\ made[i + 1] \in Label
                                 /\ made[i + 1] = Labelled(r[i], made[i], r[i + 1]),
           NEW k \in 1..n
    PROVE  /\ ViasTo(r, k) \in Nat /\ made[k].vias = ViasTo(r, k)
           /\ made[k].cost = ViasTo(r, k) * ViaCost + (k - 1 - ViasTo(r, k)) * MoveCost
<1> DEFINE Q == {i \in Nat : IsVia(r[i - 1], r[i])}
           V(j) == Cardinality({i \in 2..j : i \in Q})
           OK(j) == /\ V(j) \in Nat /\ j - 1 - V(j) \in Nat /\ made[j].vias = V(j)
                    /\ made[j].cost = V(j) * ViaCost + (j - 1 - V(j)) * MoveCost
                    /\ made[j] \in Label
           Bad == {j \in 1..n : ~OK(j)}
<1>1. ViasTo(r, k) = V(k)
    <2>1. {i \in 2..k : IsVia(r[i - 1], r[i])} = {i \in 2..k : i \in Q}
        OBVIOUS
    <2> QED
        BY <2>1 DEF ViasTo
<1>2. ViaCost \in Nat \ {0} /\ MoveCost \in Nat \ {0}
    BY LayeredAssumption
<1>3. SUFFICES ASSUME Bad # {} PROVE FALSE
    BY <1>1
<1> HIDE DEF Q
<1>4. PICK j \in Bad : \A i \in Bad : j <= i
    <2>1. Bad \subseteq Nat
        OBVIOUS
    <2> HIDE DEF Bad
    <2> QED
        BY <1>3, <2>1, LeastNatural
<1>5. j \in 1..n /\ j \in Nat /\ ~OK(j)
    OBVIOUS
<1>6. CASE j = 1
    <2>1. V(1) = 0
        BY CountGrows, 2 \in Nat, 1 \in Nat
    <2>2. V(1) * ViaCost + (1 - 1 - V(1)) * MoveCost = 0
        BY <1>2, <2>1
    <2>3. NoLabel \in Label /\ NoLabel.vias = 0 /\ NoLabel.cost = 0
        BY DEF NoLabel, Label
    <2> HIDE DEF V
    <2> QED
        BY <1>5, <1>6, <2>1, <2>2, <2>3
<1>7. CASE j # 1
    <2> DEFINE i == j - 1
    <2>1. i \in 1..n /\ i \in 1..(n - 1) /\ i \in Nat /\ i + 1 = j /\ 2 <= j /\ ~(j <= i)
        BY <1>5, <1>7
    <2>2. V(j) = V(i) + IF j \in Q THEN 1 ELSE 0
        BY <1>5, <2>1, CountGrows, 2 \in Nat
    <2>3. OK(i)
        BY <1>4, <2>1
    <2>4. made[j] \in Label /\ made[j] = Labelled(r[i], made[i], r[j])
        BY <2>1
    <2>5. j \in Q <=> IsVia(r[i], r[j])
        BY <1>5 DEF Q
    <2> HIDE DEF i, V
    <2>6. /\ made[j].cost = made[i].cost + StepPrice(r[i], r[j])
          /\ made[j].vias = made[i].vias + IF IsVia(r[i], r[j]) THEN 1 ELSE 0
        BY <2>3, <2>4, LabelledIs
    <2>7. CASE IsVia(r[i], r[j])
        <3>1. V(j) = V(i) + 1 /\ j - 1 - V(j) = i - 1 - V(i)
            BY <2>1, <2>2, <2>3, <2>5, <2>7
        <3>2. (V(i) + 1) * ViaCost = V(i) * ViaCost + ViaCost
            BY <1>2, <2>3, Multiples
        <3>3. V(i) * ViaCost \in Nat /\ (i - 1 - V(i)) * MoveCost \in Nat
            BY <1>2, <2>3, Multiples
        <3>4. made[j].cost = made[i].cost + ViaCost /\ made[j].vias = made[i].vias + 1
            BY <2>6, <2>7 DEF StepPrice
        <3>5. V(j) * ViaCost = V(i) * ViaCost + ViaCost
            BY <3>1, <3>2
        <3>6. (j - 1 - V(j)) * MoveCost = (i - 1 - V(i)) * MoveCost
            BY <3>1
        <3>7. V(j) * ViaCost + (j - 1 - V(j)) * MoveCost
                = V(i) * ViaCost + (i - 1 - V(i)) * MoveCost + ViaCost
            BY <1>2, <3>3, <3>5, <3>6
        <3>8. made[j].cost = V(j) * ViaCost + (j - 1 - V(j)) * MoveCost
            BY <2>3, <3>4, <3>7
        <3> QED
            BY <1>5, <2>3, <2>4, <3>1, <3>4, <3>8
    <2>8. CASE ~IsVia(r[i], r[j])
        <3>1. V(j) = V(i) /\ j - 1 - V(j) = (i - 1 - V(i)) + 1
            BY <2>1, <2>2, <2>3, <2>5, <2>8
        <3>2. ((i - 1 - V(i)) + 1) * MoveCost = (i - 1 - V(i)) * MoveCost + MoveCost
            BY <1>2, <2>3, Multiples
        <3>3. V(i) * ViaCost \in Nat /\ (i - 1 - V(i)) * MoveCost \in Nat
            BY <1>2, <2>3, Multiples
        <3>4. made[j].cost = made[i].cost + MoveCost /\ made[j].vias = made[i].vias
            BY <2>3, <2>6, <2>8, LabelIs DEF StepPrice
        <3>5. V(j) * ViaCost = V(i) * ViaCost
            BY <3>1
        <3>6. (j - 1 - V(j)) * MoveCost = (i - 1 - V(i)) * MoveCost + MoveCost
            BY <3>1, <3>2
        <3>7. V(j) * ViaCost + (j - 1 - V(j)) * MoveCost
                = V(i) * ViaCost + (i - 1 - V(i)) * MoveCost + MoveCost
            BY <1>2, <3>3, <3>5, <3>6
        <3>8. made[j].cost = V(j) * ViaCost + (j - 1 - V(j)) * MoveCost
            BY <2>3, <3>4, <3>7
        <3>9. j - 1 - V(j) \in Nat
            BY <2>3, <3>1
        <3> QED
            BY <1>5, <2>3, <2>4, <3>1, <3>4, <3>8, <3>9
    <2> QED
        BY <2>7, <2>8
<1> QED
    BY <1>6, <1>7

LEMMA FoundIsRoute ==
    ASSUME LayoutOK, LayeredShape, Covered, NEW a, PoppedAtGoal(a),
           NEW r, r = PlannedRoute(KeyOf(a.node, a.label.vias))
    PROVE  /\ r[1] = Start /\ r[Len(r)] = layout.goal
           /\ \A i \in 2..Len(r) : r[i] \in Neighbours(r[i - 1])
           /\ RouteCost(r) = a.label.cost
           /\ RouteVias(r) = a.label.vias
           /\ layout.capped => RouteVias(r) <= layout.cap
<1> DEFINE s == KeyOf(a.node, a.label.vias)
<1>1. /\ a.node = layout.goal /\ layout.goal \in LayeredNode
      /\ a.label \in labels[layout.goal] /\ a.label \in Label
      /\ a.label.cost \in Nat /\ a.label.vias \in Nat
      /\ a.label.cost + Estimate(layout.goal) <= Total(a)
    BY PoppedIsKept DEF PoppedAtGoal, LayoutOK
<1>2. s[1] = layout.goal /\ LabelAt(s) = a.label
    BY <1>1, LabelAtIs
<1>3. s \in LiveKeys(a) \cup Home
    <2>1. CASE layout.goal = Start
        <3>1. a.label = NoLabel
            BY <1>1, <2>1, StartIsHome
        <3> QED
            BY <1>1, <2>1, <3>1 DEF Home, NoLabel
    <2>2. CASE layout.goal # Start
        <3>1. s \in DOMAIN origins
            BY <1>1, <2>2 DEF Covered
        <3> QED
            BY <1>1, <1>2, <2>2, <3>1 DEF LiveKeys
    <2> QED
        BY <2>1, <2>2
<1> HIDE DEF s
<1>4. PICK K, B : TracedBack(a, s, K, B)
    BY <1>3, PlannedRouteIs
<1> USE DEF TracedBack
<1> DEFINE n == K + 1
           made == [i \in 1..n |-> LabelAt(B[K + 1 - i])]
<1>5. n \in Nat /\ 1 \in 1..n /\ n \in 1..n /\ K + 1 - 1 = K /\ K + 1 - n = 0
    BY <1>4
<1>6. r = [i \in 1..n |-> B[K + 1 - i][1]]
    BY <1>4 DEF s
<1>7. Len(r) = n
    <2>1. r \in [1..n -> {B[K + 1 - i][1] : i \in 1..n}]
        BY <1>6
    <2> HIDE DEF n
    <2> QED
        BY <1>5, <2>1, LenIs
<1>8. \A i \in 1..n : r[i] = B[K + 1 - i][1] /\ made[i] = LabelAt(B[K + 1 - i])
    BY <1>6
<1> HIDE DEF n, made
<1>9. r[1] = Start /\ made[1] = NoLabel /\ r[n] = layout.goal /\ made[n] = a.label
    BY <1>2, <1>4, <1>5, <1>8, StartIsHome
<1>10. ASSUME NEW i \in 1..(n - 1)
       PROVE  /\ r[i + 1] \in Neighbours(r[i])
              /\ made[i + 1] \in Label /\ made[i + 1] = Labelled(r[i], made[i], r[i + 1])
    <2> DEFINE j == K + 1 - (i + 1)
    <2>1. j \in 0..(K - 1) /\ j + 1 = K + 1 - i /\ i \in 1..n /\ i + 1 \in 1..n
        BY <1>4 DEF n
    <2>2. /\ r[i] = B[j + 1][1] /\ made[i] = LabelAt(B[j + 1])
          /\ r[i + 1] = B[j][1] /\ made[i + 1] = LabelAt(B[j])
        BY <1>8, <2>1
    <2> HIDE DEF j
    <2>3. B[j] \in LiveKeys(a) /\ B[j + 1] = origins[B[j]]
        BY <1>4, <2>1
    <2>4. /\ B[j][1] \in Neighbours(B[j + 1][1]) /\ LabelAt(B[j]) \in Label
          /\ LabelAt(B[j]) = Labelled(B[j + 1][1], LabelAt(B[j + 1]), B[j][1])
        BY <2>3, LiveStep
    <2> QED
        BY <2>2, <2>4
<1>11. \A i \in 2..n : r[i] \in Neighbours(r[i - 1])
    <2> SUFFICES ASSUME NEW i \in 2..n PROVE r[i] \in Neighbours(r[i - 1])
        OBVIOUS
    <2>1. i - 1 \in 1..(n - 1) /\ (i - 1) + 1 = i
        BY <1>5
    <2>2. r[(i - 1) + 1] \in Neighbours(r[i - 1])
        BY <1>10, <2>1
    <2> QED
        BY <2>1, <2>2
<1>12. /\ ViasTo(r, n) \in Nat /\ made[n].vias = ViasTo(r, n)
       /\ made[n].cost = ViasTo(r, n) * ViaCost + (n - 1 - ViasTo(r, n)) * MoveCost
    BY <1>5, <1>9, <1>10, LabelsAddUp
<1>13. RouteVias(r) = ViasTo(r, n)
    BY <1>7 DEF RouteVias, ViasTo
<1>14. RouteCost(r) = a.label.cost /\ RouteVias(r) = a.label.vias
    BY <1>7, <1>9, <1>12, <1>13 DEF RouteCost
<1>15. layout.capped => a.label.vias <= layout.cap
    BY <1>1 DEF Covered, Allowed
<1> QED
    BY <1>7, <1>9, <1>11, <1>14, <1>15

-----------------------------------------------------------------------------
(* The steps of the search over layers.                                    *)

LEMMA RoutesAreFixed ==
    ASSUME layout' = layout
    PROVE  /\ \A n : Neighbours(n)' = Neighbours(n)
           /\ \A route : RouteVias(route)' = RouteVias(route) /\ RouteCost(route)' = RouteCost(route)
           /\ \A bound : Walked(bound)' = Walked(bound)
<1>1. \A n : Neighbours(n)' = Neighbours(n)
    BY DEF Neighbours
<1>2. \A route : RouteVias(route)' = RouteVias(route) /\ RouteCost(route)' = RouteCost(route)
    BY DEF RouteVias, RouteCost, IsVia, Column
<1>3. \A bound : Walked(bound)' = Walked(bound)
    BY DEF Walked, Neighbours
<1> QED
    BY <1>1, <1>2, <1>3

LEMMA ReachIsShortest ==
    ASSUME LayoutOK, LayeredShape, Covered, queue # {}, NEW a, a = First, Reach(a)
    PROVE  LayeredSearchIsShortest'
<1>1. /\ planned'.status = "found" /\ planned'.cost = a.label.cost
      /\ planned'.route = PlannedRoute(KeyOf(a.node, a.label.vias))
      /\ layout' = layout
    BY DEF Reach, Plan
<1>2. PoppedAtGoal(a)
    BY DEF PoppedAtGoal, Reach
<1> DEFINE r == PlannedRoute(KeyOf(a.node, a.label.vias))
<1>3. /\ r[1] = Start /\ r[Len(r)] = layout.goal
      /\ \A i \in 2..Len(r) : r[i] \in Neighbours(r[i - 1])
      /\ RouteCost(r) = a.label.cost
      /\ RouteVias(r) = a.label.vias
      /\ layout.capped => RouteVias(r) <= layout.cap
    BY <1>2, FoundIsRoute
<1>4. \A w \in Walked(a.label.cost) : w.node = layout.goal =>
         w.cost = a.label.cost /\ w.vias >= RouteVias(r)
    BY <1>2, <1>3, NothingCheaper DEF PoppedAtGoal
<1> HIDE DEF r
<1>5. PICK c, t : c = a.label.cost /\ t = r
    OBVIOUS
<1>6. planned'.cost = c /\ planned'.route = t /\ planned'.status = "found"
    BY <1>1, <1>5 DEF r
<1>7. /\ t[1] = Start /\ t[Len(t)] = layout'.goal
      /\ \A i \in 2..Len(t) : t[i] \in Neighbours(t[i - 1])'
      /\ RouteCost(t)' = c
      /\ layout'.capped => RouteVias(t)' <= layout'.cap
    BY <1>1, <1>3, <1>5, RoutesAreFixed
<1>8. \A w \in Walked(c)' : w.node = layout'.goal => w.cost = c /\ w.vias >= RouteVias(t)'
    BY <1>1, <1>4, <1>5, RoutesAreFixed
<1> QED
    BY <1>6, <1>7, <1>8 DEF LayeredSearchIsShortest

(* A search that is left as it is, but for how it ended.                   *)
LEMMA LayoutStays ==
    ASSUME LayoutOK, LayeredShape, UNCHANGED <<layout, labels, queue, origins>>,
           work' \in 0..LayeredExpansions,
           planned'.status \in {"planning", "found", "no_path", "search_budget",
                                "grid_budget", "stopped"}
    PROVE  LayoutOK' /\ LayeredShape'
<1>1. LayoutOK'
    BY LayoutFixed
<1>2. \A x, y : NoDearer(x, y)' <=> NoDearer(x, y)
    BY LayoutFixed
<1>3. LayeredShape'
    BY <1>2 DEF LayeredShape
<1> QED
    BY <1>1, <1>3

LEMMA PopKeepsCovered ==
    ASSUME LayoutOK, LayeredShape, Covered, NEW a \in queue, SkipStale(a)
    PROVE  LayoutOK' /\ LayeredShape' /\ Covered'
<1>1. /\ UNCHANGED <<layout, labels, origins, work, planned>> /\ queue' = queue \ {a}
      /\ Current(a) = {}
    BY DEF SkipStale, Dequeued
<1>2. LayoutOK'
    BY <1>1, LayoutFixed
<1>3. \A x, y : NoDearer(x, y)' <=> NoDearer(x, y)
    BY <1>1, LayoutFixed
<1>4. LayeredShape'
    <2>1. IsFiniteSet(queue')
        BY <1>1, FS_Subset DEF LayeredShape
    <2> QED
        BY <1>1, <1>3, <2>1 DEF LayeredShape
<1>5. a.label \notin labels[a.node]
    BY <1>1 DEF Current
<1>6. ASSUME NEW n \in LayeredNode, NEW l \in labels[n]
      PROVE  /\ Allowed(l)' /\ (Awaits(n, l)' \/ Done(n, l)')
             /\ n # Start => KeyOf(n, l.vias)' \in DOMAIN origins'
                             /\ CameFrom(origins[KeyOf(n, l.vias)], n, l)'
    <2>1. Allowed(l)'
        BY <1>1 DEF Covered, Allowed
    <2>2. Awaits(n, l) => Awaits(n, l)'
        BY <1>1, <1>5 DEF Awaits
    <2>3. Done(n, l) => Done(n, l)'
        BY <1>1, LayoutFixed DEF Done
    <2>4. ASSUME n # Start
          PROVE  /\ KeyOf(n, l.vias)' \in DOMAIN origins'
                 /\ CameFrom(origins[KeyOf(n, l.vias)], n, l)'
        <3>1. PICK k : k = KeyOf(n, l.vias)
            OBVIOUS
        <3>2. PICK p : p = origins[k]
            OBVIOUS
        <3>3. KeyOf(n, l.vias)' = k /\ origins'[k] = p
            BY <1>1, <3>1, <3>2, LayoutFixed
        <3>4. k \in DOMAIN origins /\ CameFrom(p, n, l)
            BY <2>4, <3>1, <3>2 DEF Covered
        <3>5. CameFrom(p, n, l)'
            BY <1>1, <3>4, LayoutFixed DEF CameFrom
        <3> QED
            BY <1>1, <3>3, <3>4, <3>5
    <2> QED
        BY <2>1, <2>2, <2>3, <2>4 DEF Covered
<1>7. \A b \in queue' : \E m \in labels'[b.node] : NoDearer(m, b.label)'
    BY <1>1, <1>3 DEF Covered
<1>8. NoLabel \in labels'[Start] /\ {Start, layout'.goal} \cap layout'.blocked = {}
    BY <1>1 DEF Covered
<1>9. Covered'
    BY <1>1, <1>6, <1>7, <1>8 DEF Covered
<1> QED
    BY <1>2, <1>4, <1>9

LEMMA UnfinishedIsShortest ==
    ASSUME planned.status \notin {"found", "no_path"}
    PROVE  LayeredSearchIsShortest
BY DEF LayeredSearchIsShortest

LEMMA LayeredInitInv ==
    ASSUME LayeredInit PROVE LayeredInv
<1>1. Start \in LayeredNode
    BY LayeredAssumption DEF LayeredNode
<1>2. LayoutOK
    <2>1. Goals \subseteq LayeredNode /\ ViaCaps \subseteq Nat
        BY LayeredAssumption DEF LayeredNode
    <2>2. layout.goal \in Goals /\ layout.capped \in BOOLEAN /\ layout.cap \in ViaCaps
        BY DEF LayeredInit
    <2> QED
        BY <2>1, <2>2 DEF LayoutOK
<1>3. NoLabel \in Label /\ NoLabel.vias = 0
    BY DEF NoLabel, Label
<1>4. /\ labels = [n \in LayeredNode |-> IF n = Start THEN {NoLabel} ELSE {}]
      /\ queue = {[node |-> Start, label |-> NoLabel]}
      /\ DOMAIN origins = {} /\ work = 0
      /\ planned = Terminals(layout.goal, layout.blocked)
    BY DEF LayeredInit, NoLabel
<1>5. planned.status \in {"planning", "found", "no_path"}
    BY <1>4 DEF Terminals, Plan
<1>6. LayeredShape
    <2>1. IsFiniteSet(queue) /\ IsFiniteSet(DOMAIN origins) /\ Cardinality(DOMAIN origins) = 0
        BY <1>4, FS_Singleton, FS_EmptySet
    <2>2. queue \subseteq Arrival
        BY <1>1, <1>3, <1>4 DEF Arrival
    <2>3. MaxNodes \in Nat \ {0} /\ LayeredExpansions \in Nat \ {0}
        BY LayeredAssumption
    <2>4. \A n \in LayeredNode : labels[n] \subseteq {NoLabel}
        BY <1>4
    <2>5. labels = [n \in LayeredNode |-> labels[n]]
        BY <1>4
    <2> QED
        BY <1>3, <1>4, <1>5, <2>1, <2>2, <2>3, <2>4, <2>5 DEF LayeredShape
<1>7. ASSUME Planning PROVE Covered
    <2>1. {Start, layout.goal} \cap layout.blocked = {}
        BY <1>4, <1>7 DEF Planning, Terminals, Plan
    <2>2. \A n \in LayeredNode : \A l \in labels[n] : n = Start /\ l = NoLabel
        BY <1>4
    <2>3. Allowed(NoLabel) /\ Awaits(Start, NoLabel) /\ NoDearer(NoLabel, NoLabel)
        BY <1>2, <1>3, <1>4, ZeroIsLeast DEF Allowed, Awaits, LayoutOK
    <2>4. NoLabel \in labels[Start]
        BY <1>1, <1>4
    <2>5. \A a \in queue : a.node = Start /\ a.label = NoLabel
        BY <1>4
    <2>6. \A a \in queue : \E m \in labels[a.node] : NoDearer(m, a.label)
        BY <2>3, <2>4, <2>5
    <2>7. \A n \in LayeredNode : \A l \in labels[n] :
             n = Start /\ Allowed(l) /\ Awaits(n, l)
        BY <2>2, <2>3
    <2> QED
        BY <2>1, <2>4, <2>6, <2>7 DEF Covered
<1>8. CASE {Start, layout.goal} \cap layout.blocked # {}
    <2>1. planned.status = "no_path"
        BY <1>4, <1>8 DEF Terminals, Plan
    <2>2. ASSUME Start \notin layout.blocked, NEW bound, NEW w \in Walked(bound)
          PROVE  w.node # layout.goal
        <3> DEFINE S == {v \in WalkRec : v.node \notin layout.blocked}
        <3>1. StartWalk \in S
            BY <1>1, <2>2 DEF StartWalk, WalkRec
        <3>2. ASSUME NEW v \in S, NEW m \in Neighbours(v.node) PROVE Walk(v, m) \in S
            BY WalkIs DEF Neighbours
        <3> HIDE DEF S
        <3>3. Walked(bound) \subseteq S
            BY <3>1, <3>2, WalkedInduct
        <3> QED
            BY <1>8, <2>2, <3>3 DEF S
    <2>3. LayeredSearchIsShortest
        BY <2>1, <2>2 DEF LayeredSearchIsShortest
    <2> QED
        BY <1>2, <1>6, <1>7, <2>3 DEF LayeredInv
<1>9. CASE {Start, layout.goal} \cap layout.blocked = {} /\ layout.goal = Start
    <2>1. planned = Plan("found", 0, <<Start>>)
        BY <1>4, <1>9 DEF Terminals
    <2>2. RouteVias(<<Start>>) = 0 /\ RouteCost(<<Start>>) = 0
        <3>1. {i \in 2..Len(<<Start>>) : IsVia(<<Start>>[i - 1], <<Start>>[i])} = {}
            OBVIOUS
        <3>2. RouteVias(<<Start>>) = 0
            BY <3>1, FS_EmptySet DEF RouteVias
        <3>3. 0 * ViaCost = 0 /\ 0 * MoveCost = 0
            BY LayeredAssumption
        <3> QED
            BY <3>2, <3>3 DEF RouteCost
    <2>3. Walked(0) \subseteq {StartWalk}
        <3>1. StartWalk \in WalkRec /\ StartWalk.cost = 0
            BY <1>1 DEF StartWalk, WalkRec
        <3>2. \A m \in Neighbours(StartWalk.node) : ~(Walk(StartWalk, m).cost <= 0)
            BY <3>1, WalkIs
        <3> DEFINE S == {StartWalk}
        <3>3. StartWalk \in S /\ \A v \in S : v = StartWalk
            OBVIOUS
        <3> HIDE DEF S
        <3>4. Walked(0) \subseteq S
            BY <3>2, <3>3, WalkedInduct
        <3> QED
            BY <3>4 DEF S
    <2>4. LayeredSearchIsShortest
        BY <1>2, <1>9, <2>1, <2>2, <2>3 DEF LayeredSearchIsShortest, Plan, StartWalk, LayoutOK
    <2> QED
        BY <1>2, <1>6, <1>7, <2>4 DEF LayeredInv
<1>10. CASE {Start, layout.goal} \cap layout.blocked = {} /\ layout.goal # Start
    <2>1. planned.status = "planning"
        BY <1>4, <1>10 DEF Terminals, Plan
    <2> QED
        BY <1>2, <1>6, <1>7, <2>1, UnfinishedIsShortest DEF LayeredInv
<1> QED
    BY <1>8, <1>9, <1>10

LEMMA LayeredStepInv ==
    ASSUME LayeredInv, [LayeredNext]_layeredVars
    PROVE  LayeredInv'
<1> USE DEF LayeredInv
<1> DEFINE Ended == {"planning", "found", "no_path", "search_budget", "grid_budget", "stopped"}
<1>1. CASE UNCHANGED layeredVars
    <2>1. UNCHANGED <<layout, labels, queue, origins, work, planned>>
        BY <1>1 DEF layeredVars
    <2>2. LayoutOK' /\ LayeredShape'
        BY <2>1, LayoutStays DEF LayeredShape
    <2>3. ASSUME Covered PROVE Covered'
        <3>1. \A n \in LayeredNode : \A l \in labels[n] :
                 /\ Allowed(l) => Allowed(l)'
                 /\ Awaits(n, l) => Awaits(n, l)'
                 /\ Done(n, l) => Done(n, l)'
            BY <2>1, LayoutFixed DEF Awaits, Done
        <3>2. \A p, n, l : CameFrom(p, n, l) => CameFrom(p, n, l)'
            BY <2>1, LayoutFixed DEF CameFrom
        <3>3. ASSUME NEW n \in LayeredNode, NEW l \in labels[n], n # Start
              PROVE  /\ KeyOf(n, l.vias)' \in DOMAIN origins'
                     /\ CameFrom(origins[KeyOf(n, l.vias)], n, l)'
            <4>1. PICK k, p : k = KeyOf(n, l.vias) /\ p = origins[k]
                OBVIOUS
            <4>2. KeyOf(n, l.vias)' = k /\ origins'[k] = p
                BY <2>1, <4>1, LayoutFixed
            <4>3. k \in DOMAIN origins /\ CameFrom(p, n, l)
                BY <2>3, <3>3, <4>1 DEF Covered
            <4> QED
                BY <2>1, <3>2, <4>2, <4>3
        <3>4. \A x, y : NoDearer(x, y)' <=> NoDearer(x, y)
            BY <2>1, LayoutFixed
        <3> QED
            BY <2>1, <2>3, <3>1, <3>3, <3>4 DEF Covered
    <2>4. LayeredSearchIsShortest'
        BY <2>1, RoutesAreFixed DEF LayeredSearchIsShortest
    <2> QED
        BY <2>1, <2>2, <2>3, <2>4 DEF Planning
<1>2. ASSUME UNCHANGED <<layout, labels, queue, origins>>, work' \in 0..LayeredExpansions,
             planned'.status \in Ended \ {"planning"}, LayeredSearchIsShortest'
      PROVE  LayeredInv'
    BY <1>2, LayoutStays DEF Planning
<1>3. ASSUME Planning, queue # {}, work < LayeredExpansions, NEW a, a = First,
             SkipStale(a) \/ Reach(a) \/ \E l \in Current(a) : Spread(a, l)
      PROVE  LayeredInv'
    <2>1. Covered /\ a \in queue /\ planned.status = "planning"
        BY <1>3, FirstIs DEF Planning, LayeredShape
    <2>2. work + 1 \in 0..LayeredExpansions
        BY <1>3, LayeredAssumption DEF LayeredShape
    <2>3. CASE SkipStale(a)
        <3>1. LayoutOK' /\ LayeredShape' /\ Covered' /\ planned' = planned
            BY <2>1, <2>3, PopKeepsCovered DEF SkipStale
        <3> QED
            BY <2>1, <3>1, UnfinishedIsShortest DEF LayeredSearchIsShortest
    <2>4. CASE Reach(a)
        <3>1. /\ UNCHANGED <<layout, labels, origins>> /\ queue' = queue \ {a}
              /\ planned'.status = "found" /\ work' = work + 1
            BY <2>4 DEF Reach, Dequeued, Plan
        <3>2. LayeredSearchIsShortest'
            BY <1>3, <2>1, <2>4, ReachIsShortest
        <3>3. LayoutOK'
            BY <3>1, LayoutFixed
        <3>4. LayeredShape'
            <4>1. IsFiniteSet(queue') /\ queue' \subseteq Arrival
                BY <3>1, FS_Subset DEF LayeredShape
            <4>2. \A x, y : NoDearer(x, y)' <=> NoDearer(x, y)
                BY <3>1, LayoutFixed
            <4> QED
                BY <2>2, <3>1, <4>1, <4>2 DEF LayeredShape
        <3> QED
            BY <3>1, <3>2, <3>3, <3>4 DEF Planning
    <2>5. ASSUME NEW l \in Current(a), Spread(a, l) PROVE LayeredInv'
        <3>1. CASE Planning'
            <4>1. LayeredShape' /\ Covered'
                BY <1>3, <2>1, <2>5, <3>1, SpreadKeepsShape, SpreadKeepsCovered
            <4>2. layout' = layout /\ planned' = planned
                BY <2>5, <3>1, SpreadIs
            <4>3. LayoutOK'
                BY <4>2, LayoutFixed
            <4>4. LayeredSearchIsShortest'
                BY <2>1, <4>2 DEF LayeredSearchIsShortest
            <4> QED
                BY <4>1, <4>3, <4>4
        <3>2. CASE ~Planning'
            <4>1. /\ UNCHANGED <<layout, labels, queue, origins>> /\ work' = work + 1
                  /\ planned'.status = "grid_budget"
                BY <2>1, <2>5, <3>2 DEF Spread, Plan, Planning
            <4>2. LayeredSearchIsShortest'
                BY <4>1 DEF LayeredSearchIsShortest
            <4> QED
                BY <1>2, <2>2, <4>1, <4>2
        <3> QED
            BY <3>1, <3>2
    <2> QED
        BY <1>3, <2>3, <2>4, <2>5
<1>4. CASE OutOfExpansions \/ StopPlanning
    <2>1. /\ UNCHANGED <<layout, labels, queue, origins, work>>
          /\ planned'.status \in {"search_budget", "stopped"}
        BY <1>4 DEF OutOfExpansions, StopPlanning, Plan
    <2>2. LayeredSearchIsShortest'
        BY <2>1 DEF LayeredSearchIsShortest
    <2> QED
        BY <1>2, <2>1, <2>2 DEF LayeredShape
<1>5. CASE NothingQueued
    <2>1. /\ Planning /\ queue = {} /\ planned'.status = "no_path"
          /\ UNCHANGED <<layout, labels, queue, origins, work>>
        BY <1>5 DEF NothingQueued, Plan
    <2>2. \A bound : \A w \in Walked(bound) : w.node # layout.goal
        BY <2>1, NothingThere
    <2>3. \A bound : \A w \in Walked(bound)' : w.node # layout'.goal
        BY <2>1, <2>2, RoutesAreFixed
    <2>4. LayeredSearchIsShortest'
        BY <2>1, <2>3 DEF LayeredSearchIsShortest
    <2> QED
        BY <1>2, <2>1, <2>4 DEF LayeredShape
<1> QED
    BY <1>1, <1>3, <1>4, <1>5 DEF LayeredNext

(* In every behaviour of the search over layers, for any lattice, costs,   *)
(* obstacles, keepouts, ends and cap: the route it plans (route_layered of *)
(* routing/layered_astar.py) is a legal walk within the cap, of the cost   *)
(* it claims; no walk within the cap costs less, or as much with fewer     *)
(* vias; and a search that answers no_path is right about that.            *)
THEOREM LayeredSearchFindsShortest == LayeredSpec => []LayeredSearchIsShortest
<1>1. LayeredInit => LayeredInv
    BY LayeredInitInv
<1>2. LayeredInv /\ [LayeredNext]_layeredVars => LayeredInv'
    BY LayeredStepInv
<1>3. LayeredInv => LayeredSearchIsShortest
    BY DEF LayeredInv
<1> QED
    BY <1>1, <1>2, <1>3, PTL DEF LayeredSpec

LEMMA InvariantTypesLayers == LayeredInv => LayeredTypeOK
<1> SUFFICES ASSUME LayeredInv PROVE LayeredTypeOK
    OBVIOUS
<1>1. LayoutOK /\ LayeredShape
    BY DEF LayeredInv
<1>2. ASSUME NEW n \in LayeredNode, ~layout.capped PROVE Cardinality(labels[n]) <= 1
    <2>1. labels[n] \subseteq Label /\ \A x, y \in labels[n] : NoDearer(x, y) => x = y
        BY <1>1 DEF LayeredShape
    <2>2. \A x, y \in labels[n] : x = y
        BY <1>2, <2>1, NoDearerOrder
    <2>3. CASE labels[n] = {}
        BY <2>3, FS_EmptySet
    <2>4. CASE labels[n] # {}
        <3>1. PICK x : labels[n] = {x}
            BY <2>2, <2>4
        <3> QED
            BY <3>1, FS_Singleton
    <2> QED
        BY <2>3, <2>4
<1> QED
    BY <1>1, <1>2 DEF LayeredShape, LayeredTypeOK, Arrival

(* Labels and queued arrivals are of the lattice, without a cap a node     *)
(* keeps one label, and the searches stay within their budgets.            *)
THEOREM LayeredSearchKeepsTypes == LayeredSpec => []LayeredTypeOK
<1>1. LayeredInit => LayeredInv
    BY LayeredInitInv
<1>2. LayeredInv /\ [LayeredNext]_layeredVars => LayeredInv'
    BY LayeredStepInv
<1>3. LayeredInv => LayeredTypeOK
    BY InvariantTypesLayers
<1> QED
    BY <1>1, <1>2, <1>3, PTL DEF LayeredSpec
===============================================================================
