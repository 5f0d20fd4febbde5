--------------------------- MODULE NegotiatedRouting ---------------------------
(***************************************************************************)
(* negotiate_routes of routing/congestion.py: bounded passes that route    *)
(* every net that was ripped up, one after the other over a shared ledger, *)
(* let an independent gate judge the whole set, and decide by the declared *)
(* rule of routing/negotiation_plan.py which nets the next pass reroutes.  *)
(* Without a plan every pass reroutes every net.                           *)
(*                                                                         *)
(* The router is pluggable, so its outcome is the environment's choice: a  *)
(* route, a refusal, a cancellation or a result that is not bound to the   *)
(* request.  The order in which a pass visits its nets is a slot with four *)
(* rules and is left open.  The optional local repair is not modelled.     *)
(***************************************************************************)
EXTENDS CongestionLedger

CONSTANTS
    Clearance,  \* the least distance between two nets' cells
    Window,     \* the declared rip-up window, in cells
    MaxRipup,   \* nets a top-conflict rule rips up
    MaxPasses, MaxWork, MaxWorkPerNet

ASSUME NegotiationAssumption ==
    /\ Clearance \in Nat \ {0} /\ Window \in Nat /\ MaxRipup \in Nat \ {0}
    /\ MaxPasses \in Nat \ {0} /\ MaxWork \in Nat /\ MaxWorkPerNet \in Nat \ {0}

VARIABLES
    terms,   \* what the caller declared: rip-up rule and kind of router
    joined,  \* the nets whose pads the board already connects
    pass,    \* the pass, its nets, those still to visit and what it found
    ledger,
    kept,    \* what the next pass may keep, and the nets it has to reroute
    best,    \* the best set a pass has produced
    spent,   \* work charged to the caller's budget
    refused, \* history: the nets the gate's last refusal names
    outcome  \* what the run returns

negotiationVars ==
    <<terms, joined, pass, ledger, kept, best, spent, refused, outcome>>

Rule == {"none", "all", "conflicted", "top", "window"}
NoRoutes == [n \in Nets |-> NoRoute]
NoPass ==
    [phase |-> "between", number |-> 0, order |-> {}, queue |-> {},
     working |-> NoRoutes, connected |-> {}, unrouted |-> {}, failure |-> "none"]
Pass ==
    [phase : {"between", "searching", "judged", "over"}, number : 0..MaxPasses,
     order : SUBSET Nets, queue : SUBSET Nets, working : Allocation,
     connected : SUBSET Nets, unrouted : SUBSET Nets,
     failure : {"none", "no_candidate", "budget"}]
NoOutcome ==
    [status |-> "running", candidates |-> NoRoutes, connected |-> {}, unrouted |-> {}]

Planned == terms.rule # "none"
Searching == pass.phase = "searching"

Publish(status, candidates, connected, unrouted) ==
    /\ outcome' = [status |-> status, candidates |-> candidates,
                   connected |-> connected, unrouted |-> unrouted]
    /\ pass' = [pass EXCEPT !.phase = "over"]

(* A cancellation and a router that breaks its contract publish nothing.   *)
Abandon(status) == Publish(status, NoRoutes, {}, Nets)

PublishBest ==
    Publish(IF best'.unrouted # {} /\ Held(best'.candidates) = {} /\ best'.connected = {}
            THEN "no_path" ELSE "partial",
            best'.candidates, best'.connected, best'.unrouted)

(***************************************************************************)
(* A pass                                                                  *)
(***************************************************************************)
BeginPass ==
    /\ pass.phase = "between"
    /\ LET keep == Held(kept.working) \ kept.ripup
           order == IF Planned THEN kept.ripup ELSE Nets
       IN  /\ pass' = [NoPass EXCEPT !.phase = "searching", !.number = pass.number + 1,
                         !.order = order, !.queue = order,
                         !.working = [n \in Nets |-> IF n \in keep THEN kept.working[n]
                                                     ELSE NoRoute],
                         !.connected = kept.connected \ kept.ripup]
           /\ ledger' = IF Planned THEN RetainOnly(ledger, keep) ELSE EmptyLedger
    /\ UNCHANGED <<terms, joined, kept, best, spent, refused, outcome>>

CancelRun ==
    /\ pass.phase \in {"between", "searching"}
    /\ Abandon("cancelled")
    /\ UNCHANGED <<terms, joined, ledger, kept, best, spent, refused>>

(* Mutant of Allowance: the replay is not provided for.                    *)
AllowanceWhole == MaxWork - spent

(* A generic router gets half of what is left, because its search is       *)
(* replayed by the reference one.                                          *)
Allowance == IF terms.replay THEN (MaxWork - spent) \div 2 ELSE MaxWork - spent

Charge(work) == spent' = spent + (IF terms.replay THEN 2 * work ELSE work)

Visited(n) == [pass EXCEPT !.queue = @ \ {n}]

BudgetExhausted ==
    /\ Searching /\ pass.queue # {} /\ Allowance <= 0
    /\ pass' = [pass EXCEPT !.queue = {}, !.failure = "budget",
                  !.unrouted = @ \cup (pass.order \ Held(pass.working))]
    /\ UNCHANGED <<terms, joined, ledger, kept, best, spent, refused, outcome>>

Search(n) ==
    /\ Searching /\ n \in pass.queue /\ Allowance > 0
    /\ \E work \in 1..MaxWorkPerNet :
         /\ work <= Allowance /\ Charge(work)
         /\ \/ /\ n \notin joined
               /\ \E route \in Routes :
                    /\ pass' = [Visited(n) EXCEPT !.working[n] = route]
                    /\ ledger' = AddCandidate(ledger, n, route)
            \/ /\ n \in joined
               /\ pass' = [Visited(n) EXCEPT !.connected = @ \cup {n}]
               /\ UNCHANGED ledger
            \/ /\ pass' = [Visited(n) EXCEPT !.unrouted = @ \cup {n},
                                             !.failure = "no_candidate"]
               /\ UNCHANGED ledger
    /\ UNCHANGED <<terms, joined, kept, best, refused, outcome>>

(* The router raises, or answers something else than it was asked, or its  *)
(* replay disagrees.                                                       *)
RouterBreaks ==
    /\ Searching /\ pass.queue # {} /\ Allowance > 0
    /\ Abandon("invalid")
    /\ UNCHANGED <<terms, joined, ledger, kept, best, spent, refused>>

(***************************************************************************)
(* The gate                                                                *)
(***************************************************************************)
Missing == Nets \ (Held(pass.working) \cup pass.connected)

Violates(m, n) == m # n /\ ~Apart(pass.working[m], pass.working[n], Clearance)

(* What a pass leaves after its verdict, and whether it beats the best so  *)
(* far: fewer overflow units, fewer unrouted nets, less wire.  Equal sets  *)
(* are told apart by their identities.                                     *)
Wire(a) == Units(a, Nets)
Excess(l) == Cardinality(Surplus(l, Overflow(l)))
Key(s) == <<s.excess, Cardinality(s.unrouted), Wire(s.candidates)>>

Less(k, m) ==
    \/ k[1] < m[1]
    \/ k[1] = m[1] /\ k[2] < m[2]
    \/ k[1] = m[1] /\ k[2] = m[2] /\ k[3] < m[3]

Offer(s) ==
    \/ (~best.known \/ ~Less(Key(best), Key(s)))
       /\ best' = [known |-> TRUE, excess |-> s.excess, candidates |-> s.candidates,
                   connected |-> s.connected, unrouted |-> s.unrouted]
    \/ best.known /\ ~Less(Key(s), Key(best)) /\ UNCHANGED best

(* ripup_net_ids: what the next pass routes again, held being the nets     *)
(* that kept something the gate did not blame.                             *)
Top(nets) ==
    {n \in nets :
       Cardinality({m \in nets : \/ ConflictScore(ledger, m) > ConflictScore(ledger, n)
                                 \/ /\ ConflictScore(ledger, m) = ConflictScore(ledger, n)
                                    /\ m < n}) < MaxRipup}

RipUp(held, forced) ==
    LET conflicted == {n \in held : ConflictScore(ledger, n) > 0}
    IN  CASE terms.rule \in {"none", "all"} -> Nets
          [] terms.rule = "conflicted" -> (Nets \ held) \cup conflicted
          [] terms.rule = "top" -> (Nets \ held) \cup Top(conflicted)
          [] terms.rule = "window" ->
               (Nets \ held) \cup conflicted
                 \cup (held \cap NetsWithinWindow(ledger, conflicted \cup forced, Window))

(* Mutant of Blameless: the nets the gate named are kept, too.             *)
BlamelessOrNot(retained, forced) == Held(retained.working) \cup retained.connected

Blameless(retained, forced) ==
    (Held(retained.working) \cup retained.connected) \ forced

(* How a judged pass ends: with a completed run, by stopping with the best *)
(* set, with nothing when it found nothing, or with another pass.  What it *)
(* found are the routes that survive the gate and every connection, those  *)
(* of a refused pass too: a refusal takes them out of s, the set offered   *)
(* for publication, and leaves the pass's own record of them alone.        *)
Continue(s, retained, forced) ==
    LET held == Blameless(retained, forced)
        ripup == RipUp(held, forced)
        stuck == Planned /\ (ripup = {} \/ pass.failure = "budget")
        nothing == /\ pass.failure # "none"
                   /\ Held(s.candidates) = {} /\ pass.connected = {}
    IN  \/ /\ s.unrouted = {} /\ s.excess = 0
           /\ Publish("completed", s.candidates, s.connected, {})
           /\ UNCHANGED kept
        \/ /\ ~(s.unrouted = {} /\ s.excess = 0)
           /\ kept' = [working |-> retained.working, connected |-> retained.connected,
                       ripup |-> ripup]
           /\ \/ stuck /\ PublishBest
              \/ ~stuck /\ nothing /\ Publish("no_path", NoRoutes, {}, s.unrouted)
              \/ ~stuck /\ ~nothing /\ pass.number = MaxPasses /\ PublishBest
              \/ /\ ~stuck /\ ~nothing /\ pass.number < MaxPasses
                 /\ pass' = [NoPass EXCEPT !.number = pass.number]
                 /\ UNCHANGED outcome

Judged == Searching /\ pass.queue = {}

AcceptSet ==
    /\ Judged
    /\ ~\E m, n \in Held(pass.working) : Violates(m, n)
    /\ LET s == [excess |-> Excess(ledger), candidates |-> pass.working,
                 connected |-> pass.connected, unrouted |-> pass.unrouted \cup Missing]
       IN  /\ Offer(s)
           /\ Continue(s, [working |-> pass.working, connected |-> pass.connected], {})
    /\ refused' = {}
    /\ UNCHANGED <<terms, joined, ledger, spent>>

(* Mutant of RefuseWith: the refused routes may become the best set.       *)
RefuseLeniently(forced, retained) ==
    LET s == [excess |-> Excess(ledger), candidates |-> pass.working,
              connected |-> pass.connected, unrouted |-> pass.unrouted \cup Missing]
    IN  /\ Offer(s) /\ Continue(s, retained, forced)
        /\ UNCHANGED <<terms, joined, ledger, spent>>

(* A refused pass contributes nothing to the best set.  A violation names  *)
(* one pair, which may not be kept; a refusal that blames nobody in        *)
(* particular keeps nothing.                                               *)
RefuseWith(forced, retained) ==
    LET s == [excess |-> 0, candidates |-> NoRoutes, connected |-> {},
              unrouted |-> pass.unrouted \cup Missing \cup Held(pass.working)
                             \cup pass.connected]
    IN  /\ Offer(s) /\ Continue(s, retained, forced)
        /\ UNCHANGED <<terms, joined, ledger, spent>>

RefusePair ==
    /\ Judged
    /\ \E m, n \in Held(pass.working) :
         /\ Violates(m, n)
         /\ refused' = {m, n}
         /\ RefuseWith({m, n}, [working |-> pass.working, connected |-> pass.connected])

RefuseAll ==
    /\ Judged /\ Cardinality(Held(pass.working)) > 1
    /\ refused' = Nets
    /\ RefuseWith({}, [working |-> NoRoutes, connected |-> {}])

NegotiationInit ==
    /\ terms \in [rule : Rule, replay : BOOLEAN]
    /\ joined \in SUBSET Nets
    /\ pass = NoPass /\ ledger = EmptyLedger /\ spent = 0 /\ refused = {}
    /\ kept = [working |-> NoRoutes, connected |-> {}, ripup |-> Nets]
    /\ best = [known |-> FALSE, excess |-> 0, candidates |-> NoRoutes,
               connected |-> {}, unrouted |-> Nets]
    /\ outcome = NoOutcome

NegotiationNext ==
    \/ BeginPass \/ CancelRun \/ BudgetExhausted \/ RouterBreaks
    \/ \E n \in Nets : Search(n)
    \/ AcceptSet \/ RefusePair \/ RefuseAll

NegotiationSpec == NegotiationInit /\ [][NegotiationNext]_negotiationVars

(***************************************************************************)
(* Properties                                                              *)
(***************************************************************************)
NegotiationTypeOK ==
    /\ terms \in [rule : Rule, replay : BOOLEAN] /\ joined \subseteq Nets
    /\ pass \in Pass /\ ledger \in Ledger /\ spent \in Nat /\ refused \subseteq Nets
    /\ kept \in [working : Allocation, connected : SUBSET Nets, ripup : SUBSET Nets]
    /\ best \in [known : BOOLEAN, excess : Nat, candidates : Allocation,
                 connected : SUBSET Nets, unrouted : SUBSET Nets]
    /\ outcome \in [status : {"running", "cancelled", "invalid", "completed",
                              "partial", "no_path"},
                    candidates : Allocation, connected : SUBSET Nets,
                    unrouted : SUBSET Nets]

(* Whatever was kept, ripped up, refused or cut short on the way: every    *)
(* published pair of routes keeps its clearance, each net is accounted     *)
(* for, once unless a budget that ran out counts a connected net as        *)
(* unrouted as well, a completed run routed every net, and a run that was  *)
(* cancelled or met a broken router publishes no copper at all.            *)
PublishedSetIsLegal ==
    outcome.status # "running" =>
      /\ \A m, n \in Held(outcome.candidates) :
           m # n => Apart(outcome.candidates[m], outcome.candidates[n], Clearance)
      /\ Nets = Held(outcome.candidates) \cup outcome.connected \cup outcome.unrouted
      /\ Held(outcome.candidates) \cap (outcome.connected \cup outcome.unrouted) = {}
      /\ outcome.connected \cap outcome.unrouted # {} => Allowance <= 0
      /\ outcome.status = "completed" => outcome.unrouted = {}
      /\ outcome.status \in {"cancelled", "invalid", "no_path"} =>
           Held(outcome.candidates) = {} /\ outcome.connected = {}

(* The ledger that retain_only leaves, by whichever branch, counts exactly *)
(* the routes of the pass: the ones it kept and the ones it found.         *)
LedgerMatchesAllocation ==
    Searching =>
      /\ ledger.held = pass.working
      /\ \A c \in Cells :
           ledger.present[c] = Cardinality({n \in Nets : c \in pass.working[n]})

(* The searches and their replays together stay within the caller's budget.*)
BudgetRespected == spent <= MaxWork

(* What a pass keeps was not blamed by the gate in the pass before, and    *)
(* under the rules that rip up every conflicted net no two kept nets share *)
(* a resource.                                                             *)
KeptSetIsSound ==
    LET held == Held(pass.working) \ pass.order
    IN  Searching =>
          /\ held \cap refused = {}
          /\ terms.rule \in {"conflicted", "window"} =>
               \A m, n \in held :
                 m # n => pass.working[m] \cap pass.working[n] = {}
================================================================================
