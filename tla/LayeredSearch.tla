----------------------------- MODULE LayeredSearch -----------------------------
(***************************************************************************)
(* route_layered of routing/layered_astar.py: A* over lattice nodes of     *)
(* several layers, where a via changes the layer in place.  Without a cap  *)
(* on vias a node carries one label; with a cap a node carries a Pareto    *)
(* front of labels, because a cheaper arrival may have used up the vias    *)
(* that a dearer one still has.  Both searches take the queued label with  *)
(* the least estimate, then cost, then vias.                               *)
(***************************************************************************)
EXTENDS Integers, Sequences, FiniteSetsExt

CONSTANTS
    LayerX, LayerY, Layers, \* the lattice: (0..LayerX) \X (0..LayerY) on every layer
    Start, Goals,       \* where a route starts, and the ends it may have
    MoveCost, ViaCost,
    LayeredExpansions,  \* settings.max_expansions
    MaxNodes,           \* settings.max_nodes
    ViaCaps,            \* the caps tried, for TLC
    Obstacles, Keepouts \* the blocked nodes, and the columns without vias, for TLC

ASSUME LayeredAssumption ==
    /\ LayerX \in Nat /\ LayerY \in Nat /\ Layers \subseteq Int /\ IsFiniteSet(Layers)
    /\ {Start} \cup Goals \subseteq (0..LayerX) \X (0..LayerY) \X Layers
    /\ MoveCost \in Nat \ {0} /\ ViaCost \in Nat \ {0}
    /\ LayeredExpansions \in Nat \ {0} /\ MaxNodes \in Nat \ {0}
    /\ ViaCaps \subseteq Nat
    /\ Obstacles \subseteq SUBSET ((0..LayerX) \X (0..LayerY) \X Layers)
    /\ Keepouts \subseteq SUBSET ((0..LayerX) \X (0..LayerY))

VARIABLES
    layout,   \* obstacles, columns without vias, goal and cap
    labels,   \* [node -> the labels it carries]
    queue,    \* queued arrivals
    origins,  \* [arrival's key -> the key it came from]
    work,     \* expansions so far
    planned   \* how the search ended

layeredVars == <<layout, labels, queue, origins, work, planned>>

LayeredNode == (0..LayerX) \X (0..LayerY) \X Layers
Column(n) == <<n[1], n[2]>>
Label == [vias : Nat, cost : Nat]
Plan(status, cost, route) == [status |-> status, cost |-> cost, route |-> route]

Distance(a, b) == Max({a - b, b - a})
Estimate(n) ==
    (Distance(n[1], layout.goal[1]) + Distance(n[2], layout.goal[2])) * MoveCost
      + (IF n[3] # layout.goal[3] THEN ViaCost ELSE 0)

IsVia(n, m) == Column(n) = Column(m)

(* A step to a cardinal neighbour, or by a full-stack via to any other     *)
(* layer where no keepout forbids one.                                     *)
Neighbours(n) ==
    {m \in LayeredNode \ layout.blocked :
       \/ m[3] = n[3] /\ Distance(m[1], n[1]) + Distance(m[2], n[2]) = 1
       \/ m[3] # n[3] /\ IsVia(n, m) /\ Column(n) \notin layout.noVia}

(* What is one state of the search: a node, with its via count if capped.  *)
KeyOf(n, vias) == <<n, IF layout.capped THEN vias ELSE 0>>

(* Mutant of Dominates: the vias a label has used up do not count.         *)
DominatesByCost(l, m) == l.cost <= m.cost

(* A label at most as dear with at most as many vias.                      *)
Dominates(l, m) == l.vias <= m.vias /\ l.cost <= m.cost

Improving(n, l) ==
    IF layout.capped THEN ~\E m \in labels[n] : Dominates(m, l)
    ELSE \A m \in labels[n] : l.cost < m.cost \/ (l.cost = m.cost /\ l.vias < m.vias)

Kept(n, l) ==
    IF layout.capped THEN {m \in labels[n] : ~Dominates(l, m)} \cup {l} ELSE {l}

(* The heap's order.                                                       *)
Rank(a) ==
    LET n == a.node
    IN  <<a.label.cost + Estimate(n), a.label.cost, a.label.vias, n[1], n[2], n[3]>>

Before(r, s) ==
    \E i \in DOMAIN r : r[i] < s[i] /\ \A j \in 1..(i - 1) : r[j] = s[j]

First ==
    LET ranked == {[rank |-> Rank(a), arrival |-> a] : a \in queue}
    IN  (CHOOSE a \in ranked : \A b \in ranked \ {a} : Before(a.rank, b.rank)).arrival

(* A queued arrival is expanded if its label is still one of its node's;   *)
(* without a cap only the cost is compared, and the vias are the label's.  *)
Current(a) ==
    {l \in labels[a.node] : IF layout.capped THEN l = a.label ELSE l.cost = a.label.cost}

Planning == planned.status = "planning"
Dequeued(a) == queue' = queue \ {a}

SkipStale(a) ==
    /\ Current(a) = {} /\ Dequeued(a)
    /\ UNCHANGED <<layout, labels, origins, work, planned>>

(* The nodes of the states the goal was reached through, from the start.   *)
PlannedRoute(key) ==
    LET Back[i \in 0..Cardinality(DOMAIN origins)] ==
          IF i = 0 THEN key
          ELSE LET later == Back[i - 1]
               IN  IF later = KeyOf(Start, 0) THEN later ELSE origins[later]
        steps == Min({i \in 0..Cardinality(DOMAIN origins) : Back[i] = KeyOf(Start, 0)})
    IN  [i \in 1..(steps + 1) |-> Back[steps + 1 - i][1]]

Reach(a) ==
    /\ Current(a) # {} /\ a.node = layout.goal /\ Dequeued(a)
    /\ planned' = Plan("found", a.label.cost, PlannedRoute(KeyOf(a.node, a.label.vias)))
    /\ work' = work + 1
    /\ UNCHANGED <<layout, labels, origins>>

(* The label a node gets from the label of a neighbour.                    *)
Labelled(n, l, m) ==
    IF IsVia(n, m) THEN [vias |-> l.vias + 1, cost |-> l.cost + ViaCost]
    ELSE [vias |-> l.vias, cost |-> l.cost + MoveCost]

(* One neighbour after the other is labelled and queued; the search ends   *)
(* at the first state beyond the node budget.                              *)
Spread(a, l) ==
    LET New(m) == Labelled(a.node, l, m)
        reached == {m \in Neighbours(a.node) :
                      /\ layout.capped => New(m).vias <= layout.cap
                      /\ Improving(m, New(m))}
        keys == {KeyOf(m, New(m).vias) : m \in reached}
    IN  /\ a.node # layout.goal /\ work' = work + 1
        /\ \/ /\ Cardinality(DOMAIN origins \cup keys) + 1 > MaxNodes
              /\ planned' = Plan("grid_budget", 0, <<>>)
              /\ UNCHANGED <<labels, queue, origins>>
           \/ /\ Cardinality(DOMAIN origins \cup keys) + 1 <= MaxNodes
              /\ labels' = [n \in LayeredNode |->
                              IF n \in reached THEN Kept(n, New(n)) ELSE labels[n]]
              /\ queue' = (queue \ {a}) \cup {[node |-> m, label |-> New(m)] : m \in reached}
              /\ origins' = [k \in DOMAIN origins \cup keys |->
                               IF k \in keys THEN KeyOf(a.node, l.vias) ELSE origins[k]]
              /\ UNCHANGED planned
        /\ UNCHANGED layout

OutOfExpansions ==
    /\ Planning /\ queue # {} /\ work >= LayeredExpansions
    /\ planned' = Plan("search_budget", 0, <<>>)
    /\ UNCHANGED <<layout, labels, queue, origins, work>>

NothingQueued ==
    /\ Planning /\ queue = {}
    /\ planned' = Plan("no_path", 0, <<>>)
    /\ UNCHANGED <<layout, labels, queue, origins, work>>

(* A cancellation, or the budget of obstacle checks.                       *)
StopPlanning ==
    /\ Planning /\ queue # {}
    /\ planned' = Plan("stopped", 0, <<>>)
    /\ UNCHANGED <<layout, labels, queue, origins, work>>

(* Terminals are looked at before the search starts.                       *)
Terminals(goal, blocked) ==
    IF {Start, goal} \cap blocked # {} THEN Plan("no_path", 0, <<>>)
    ELSE IF goal = Start THEN Plan("found", 0, <<Start>>)
    ELSE Plan("planning", 0, <<>>)

LayeredInit ==
    /\ layout \in
         [blocked : Obstacles, noVia : Keepouts, goal : Goals,
          capped : BOOLEAN, cap : ViaCaps]
    /\ layout.capped \/ layout.cap = Min(ViaCaps)
    /\ planned = Terminals(layout.goal, layout.blocked)
    /\ labels = [n \in LayeredNode |->
                   IF n = Start THEN {[vias |-> 0, cost |-> 0]} ELSE {}]
    /\ queue = {[node |-> Start, label |-> [vias |-> 0, cost |-> 0]]}
    /\ origins = [k \in {} |-> k] /\ work = 0

LayeredNext ==
    \/ /\ Planning /\ queue # {} /\ work < LayeredExpansions
       /\ \E a \in {First} :
            SkipStale(a) \/ Reach(a) \/ \E l \in Current(a) : Spread(a, l)
    \/ OutOfExpansions \/ NothingQueued \/ StopPlanning

LayeredSpec == LayeredInit /\ [][LayeredNext]_layeredVars

(***************************************************************************)
(* Properties                                                              *)
(***************************************************************************)
LayeredTypeOK ==
    /\ \A n \in LayeredNode : labels[n] \subseteq Label
    /\ \A n \in LayeredNode : ~layout.capped => Cardinality(labels[n]) <= 1
    /\ \A a \in queue : a.node \in LayeredNode /\ a.label \in Label
    /\ work \in 0..LayeredExpansions /\ Cardinality(DOMAIN origins) < MaxNodes
    /\ planned.status \in {"planning", "found", "no_path", "search_budget",
                           "grid_budget", "stopped"}

(* The reference: everything that walks within the cap can make of a node, *)
(* step by step, up to a cost.                                             *)
Walked(bound) ==
    LET Step(w, m) ==
          LET l == Labelled(w.node, [vias |-> w.vias, cost |-> w.cost], m)
          IN  [node |-> m, vias |-> l.vias, cost |-> l.cost]
        Within[i \in 0..Cardinality(LayeredNode)] ==
          IF i = 0 THEN {[node |-> Start, vias |-> 0, cost |-> 0]}
          ELSE LET ws == Within[i - 1]
               IN  ws \cup {w \in UNION {{Step(v, m) : m \in Neighbours(v.node)} : v \in ws} :
                              w.cost <= bound /\ (layout.capped => w.vias <= layout.cap)}
    IN  Within[Cardinality(LayeredNode)]

RouteVias(route) ==
    Cardinality({i \in 2..Len(route) : IsVia(route[i - 1], route[i])})
RouteCost(route) ==
    RouteVias(route) * ViaCost + (Len(route) - 1 - RouteVias(route)) * MoveCost

(* The route that is found is a legal walk of the cost it claims, within   *)
(* the cap; no walk within the cap costs less, or as much with fewer vias; *)
(* and a search that says there is none has none.                          *)
LayeredSearchIsShortest ==
    /\ planned.status = "found" =>
         /\ planned.route[1] = Start /\ planned.route[Len(planned.route)] = layout.goal
         /\ \A i \in 2..Len(planned.route) :
              planned.route[i] \in Neighbours(planned.route[i - 1])
         /\ RouteCost(planned.route) = planned.cost
         /\ layout.capped => RouteVias(planned.route) <= layout.cap
         /\ \A w \in Walked(planned.cost) : w.node = layout.goal =>
              w.cost = planned.cost /\ w.vias >= RouteVias(planned.route)
    /\ planned.status = "no_path" /\ Start \notin layout.blocked =>
         \A w \in Walked(Cardinality(LayeredNode) * (MoveCost + ViaCost)) :
           w.node # layout.goal
================================================================================
