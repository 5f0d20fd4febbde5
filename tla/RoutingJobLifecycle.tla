-------------------------- MODULE RoutingJobLifecycle --------------------------
(***************************************************************************)
(* What the routing-job ledger promises to whoever watches a job, with no  *)
(* word about workers, leases, revisions or retries                        *)
(* (docs/adr/0043-durable-routing-job-ledger.md, 0046-...leases...md):     *)
(*   - a job is queued, runs at most once and ends in one final state;     *)
(*   - a cancellation, once requested, never becomes a completion;         *)
(*   - a completed job binds a candidate that fits it, for good;           *)
(*   - a record is kept for its whole retention, and goes only after it.   *)
(***************************************************************************)
EXTENDS Naturals

CONSTANTS Jobs, Candidates, Valid, None, Ttl

VARIABLES
    clock,  \* time
    row     \* row[j]: what a lookup of job j shows

Gone == [status |-> "absent", created |-> 0, candidate |-> None]
Queued(t) == [status |-> "queued", created |-> t, candidate |-> None]

Expired(r) == r.status # "absent" /\ clock >= r.created + Ttl

Become(j, status) == row'[j] = [row[j] EXCEPT !.status = status]

Expire(j) == Expired(row[j]) /\ row'[j] = Gone

Create(j) ==
    /\ row[j] = Gone \/ Expired(row[j])
    /\ row'[j] = Queued(clock)

Claim(j) == row[j].status = "queued" /\ Become(j, "running")

Cancel(j) ==
    \/ row[j].status = "queued" /\ Become(j, "cancelled")
    \/ row[j].status = "running" /\ Become(j, "cancel_requested")

Acknowledge(j) == row[j].status = "cancel_requested" /\ Become(j, "cancelled")

Fail(j) == row[j].status = "running" /\ Become(j, "failed")

Complete(j) ==
    /\ row[j].status = "running"
    /\ \E c \in Candidates :
          /\ <<c, j>> \in Valid
          /\ row'[j] = [status |-> "completed", created |-> row[j].created, candidate |-> c]

Move(j) == Create(j) \/ Claim(j) \/ Cancel(j) \/ Acknowledge(j) \/ Fail(j) \/ Complete(j)

(* One job moves at a time; any number of others may expire with it.       *)
Step ==
    /\ clock' = clock
    /\ DOMAIN row' = Jobs
    /\ \E j \in Jobs :
          /\ Move(j) \/ Expire(j)
          /\ \A k \in Jobs \ {j} : row'[k] = row[k] \/ Expire(k)

Wait == clock' = clock + 1 /\ UNCHANGED row

Init == clock = 0 /\ row = [j \in Jobs |-> Gone]

Next == Step \/ Wait

Spec == Init /\ [][Next]_<<clock, row>>
===============================================================================
