------------------------------ MODULE RouteSearch ------------------------------
(***************************************************************************)
(* _search of routing/astar.py: one leg of a route, from the lattice nodes *)
(* of one copper component to those of another, by A* over states of a     *)
(* node and the direction it was entered in.  A score counts the policy's  *)
(* cost first, then the physical cost, the bends and the steps taken close *)
(* to an obstacle; a step may be priced by the congestion policy.          *)
(*                                                                         *)
(* Which lattice edges the obstacles leave, which nodes are close to one   *)
(* and which are priced is the problem, chosen initially.  The policy      *)
(* prices a step by its edge and the node it enters; here the price is on  *)
(* the node alone, and one amount.                                         *)
(***************************************************************************)
EXTENDS Integers, Sequences, FiniteSetsExt

CONSTANTS
    LatticeX, LatticeY,   \* the lattice is (0..LatticeX) \X (0..LatticeY)
    StepCost, BendPenalty, ProximityPenalty, CongestionPenalty,
    MaxExpansions,
    Sources, Targets,     \* the sets of nodes either component may cover
    MaxBlocked,   \* bound on the edges obstacles take away, for TLC
    MaxMarked     \* bound on the near and priced nodes, for TLC

ASSUME SearchAssumption ==
    /\ LatticeX \in Nat \ {0} /\ LatticeY \in Nat
    /\ StepCost \in Nat \ {0}
    /\ BendPenalty \in Nat /\ ProximityPenalty \in Nat /\ CongestionPenalty \in Nat
    /\ MaxExpansions \in Nat \ {0} /\ MaxBlocked \in Nat /\ MaxMarked \in Nat
    /\ \A nodes \in Sources \cup Targets :
          nodes # {} /\ nodes \subseteq (0..LatticeX) \X (0..LatticeY)

VARIABLES
    problem,  \* the legal edges, the near nodes, the priced nodes and both ends
    frontier, \* the queued states with the score they were queued with
    scores,     \* the best score of every state reached so far
    parents,  \* [reached state -> the state it was reached from]
    expanded, \* expansions; what earlier legs spent only lowers their bound
    leg       \* how the search ended

searchVars == <<problem, frontier, scores, parents, expanded, leg>>

Node == (0..LatticeX) \X (0..LatticeY)
Directions == <<<<1, 0>>, <<0, -1>>, <<-1, 0>>, <<0, 1>>>>
NoDirection == Len(Directions) + 1
State == Node \X (1..NoDirection)
NodeOf(state) == state[1]
Score == [1..4 -> Nat]
Leg(status, score, route) == [status |-> status, score |-> score, route |-> route]
NoScore == <<0, 0, 0, 0>>

Beyond(n, d) == <<n[1] + Directions[d][1], n[2] + Directions[d][2]>>
Edges == {{n, Beyond(n, d)} : n \in Node, d \in 1..4} \cap SUBSET Node

LexLess(a, b) ==
    \E i \in DOMAIN a : a[i] < b[i] /\ \A j \in 1..(i - 1) : a[j] = b[j]

(* The distance to the box around the targets.                             *)
Outside(low, high, v) == Max({low - v, 0, v - high})
Heuristic(n) ==
    LET xs == {t[1] : t \in problem.target}
        ys == {t[2] : t \in problem.target}
    IN  (Outside(Min(xs), Max(xs), n[1]) + Outside(Min(ys), Max(ys), n[2])) * StepCost

(* What entering the next node in direction d adds to a score.             *)
Raised(score, from, d, next) ==
    LET bend == IF from[2] # NoDirection /\ from[2] # d THEN 1 ELSE 0
        near == IF next \in problem.near THEN 1 ELSE 0
        cost == StepCost + bend * BendPenalty + near * ProximityPenalty
        price == IF next \in problem.priced THEN CongestionPenalty ELSE 0
    IN  <<score[1] + cost + price, score[2] + cost, score[3] + bend, score[4] + near>>

Starts == {<<n, NoDirection>> : n \in problem.source}

(* The heap's order: estimated total, score, place, direction.             *)
HeapKey(e) ==
    LET n == NodeOf(e.state)
    IN  <<e.score[1] + Heuristic(n), e.score[1], e.score[2], e.score[3], e.score[4],
          n[2], n[1], e.state[2]>>

Cheapest ==
    LET keyed == {[key |-> HeapKey(e), entry |-> e] : e \in frontier}
    IN  (CHOOSE a \in keyed : \A b \in keyed \ {a} : LexLess(a.key, b.key)).entry

LegOpen == leg.status = "searching" /\ frontier # {}
Fresh(e) == scores[e.state] = e.score
Popped(e) == frontier' = frontier \ {e}
Ends(e) == Fresh(e) /\ NodeOf(e.state) \in problem.target
Continues(e) == Fresh(e) /\ NodeOf(e.state) \notin problem.target

DiscardStale(e) ==
    /\ ~Fresh(e) /\ Popped(e)
    /\ UNCHANGED <<problem, scores, parents, expanded, leg>>

(* The nodes of the states the end was reached through, from a start on.   *)
WayTo(state) ==
    LET Back[i \in 0..Cardinality(State)] ==
          IF i = 0 THEN state
          ELSE LET later == Back[i - 1]
               IN  IF later \in Starts THEN later ELSE parents[later]
        steps == Min({i \in 0..Cardinality(State) : Back[i] \in Starts})
    IN  [i \in 1..(steps + 1) |-> NodeOf(Back[steps + 1 - i])]

Arrive(e) ==
    /\ Ends(e) /\ Popped(e)
    /\ leg' = Leg("found", e.score, WayTo(e.state))
    /\ UNCHANGED <<problem, scores, parents, expanded>>

ExceedBudget(e) ==
    /\ Continues(e) /\ expanded >= MaxExpansions /\ Popped(e)
    /\ leg' = Leg("search_budget", NoScore, <<>>)
    /\ UNCHANGED <<problem, scores, parents, expanded>>

(* Mutant of Improves: a reached state keeps the score it got first.       *)
ImprovesOnce(score, state) == state \notin DOMAIN scores

(* A neighbour is queued when its new score beats the one it has.          *)
Improves(score, state) ==
    state \notin DOMAIN scores \/ LexLess(score, scores[state])

Expand(e) ==
    /\ Continues(e) /\ expanded < MaxExpansions
    /\ LET n == NodeOf(e.state)
           reached ==
             {r \in {[state |-> <<Beyond(n, d), d>>,
                      score |-> Raised(e.score, e.state, d, Beyond(n, d))] :
                       d \in {c \in 1..4 : {n, Beyond(n, c)} \in problem.legal}} :
                Improves(r.score, r.state)}
           states == {r.state : r \in reached}
           ScoreOf(s) == (CHOOSE r \in reached : r.state = s).score
       IN  /\ frontier' = (frontier \ {e}) \cup reached
           /\ scores' = [s \in DOMAIN scores \cup states |->
                         IF s \in states THEN ScoreOf(s) ELSE scores[s]]
           /\ parents' = [s \in DOMAIN parents \cup states |->
                            IF s \in states THEN e.state ELSE parents[s]]
    /\ expanded' = expanded + 1
    /\ UNCHANGED <<problem, leg>>

Exhausted ==
    /\ leg.status = "searching" /\ frontier = {}
    /\ leg' = Leg("no_path", NoScore, <<>>)
    /\ UNCHANGED <<problem, frontier, scores, parents, expanded>>

(* A cancellation, the budget of obstacle checks, or a congestion policy   *)
(* that raises or answers something else than a price.                     *)
StopSearch ==
    /\ LegOpen
    /\ leg' = Leg("stopped", NoScore, <<>>)
    /\ UNCHANGED <<problem, frontier, scores, parents, expanded>>

UpTo(k, S) == UNION {kSubset(i, S) : i \in 0..k}

SearchInit ==
    /\ problem \in
         [legal : {Edges \ blocked : blocked \in UpTo(MaxBlocked, Edges)},
          near : UpTo(MaxMarked, Node), priced : UpTo(MaxMarked, Node),
          source : Sources, target : Targets]
    /\ Cardinality(problem.near) + Cardinality(problem.priced) <= MaxMarked
    /\ frontier = {[state |-> s, score |-> NoScore] : s \in Starts}
    /\ scores = [s \in Starts |-> NoScore]
    /\ parents = [s \in {} |-> s]
    /\ expanded = 0
    /\ leg = Leg("searching", NoScore, <<>>)

SearchNext ==
    \/ /\ LegOpen
       /\ \E e \in {Cheapest} : DiscardStale(e) \/ Arrive(e) \/ ExceedBudget(e) \/ Expand(e)
    \/ Exhausted \/ StopSearch

SearchSpec == SearchInit /\ [][SearchNext]_searchVars

(***************************************************************************)
(* Properties                                                              *)
(***************************************************************************)
SearchTypeOK ==
    /\ \A e \in frontier : e.state \in State /\ e.score \in Score
    /\ DOMAIN scores \subseteq State /\ \A s \in DOMAIN scores : scores[s] \in Score
    /\ DOMAIN parents = DOMAIN scores \ Starts
    /\ expanded \in 0..MaxExpansions
    /\ leg.status \in {"searching", "found", "search_budget", "no_path", "stopped"}

(* The reference: every legal walk from a source to a target that visits   *)
(* no node twice, with the score of taking it.                             *)
Simple(route) == \A i, j \in DOMAIN route : route[i] = route[j] => i = j

Walks ==
    LET Grown[k \in 1..Cardinality(Node)] ==
          IF k = 1 THEN {<<n>> : n \in problem.source}
          ELSE {w \in {Append(p, n) : p \in Grown[k - 1], n \in Node} :
                  Simple(w) /\ {w[k - 1], w[k]} \in problem.legal}
    IN  {w \in UNION {Grown[k] : k \in DOMAIN Grown} : w[Len(w)] \in problem.target}

Heading(route, i) == CHOOSE d \in 1..4 : Beyond(route[i - 1], d) = route[i]

WalkScore(route) ==
    LET steps == Len(route) - 1
        bends == Cardinality({i \in 3..Len(route) :
                                Heading(route, i) # Heading(route, i - 1)})
        Entered(marked) == Cardinality({i \in 2..Len(route) : route[i] \in marked})
        cost == steps * StepCost + bends * BendPenalty
                  + Entered(problem.near) * ProximityPenalty
    IN  <<cost + Entered(problem.priced) * CongestionPenalty, cost, bends,
          Entered(problem.near)>>

(* The leg that is found is a legal walk with the score it claims, and no  *)
(* walk at all scores less, in cost, physical cost, bends and proximity;   *)
(* and only a search that has no walk says that there is none.             *)
SearchIsShortest ==
    /\ leg.status = "found" =>
         /\ leg.route \in Walks /\ WalkScore(leg.route) = leg.score
         /\ \A w \in Walks : ~LexLess(WalkScore(w), leg.score)
    /\ leg.status = "no_path" => Walks = {}
================================================================================
