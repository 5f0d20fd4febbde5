----------------------------- MODULE MCRoutingJobs -----------------------------
(***************************************************************************)
(* Small instances of the routing-job ledger and its workers for TLC.      *)
(***************************************************************************)
EXTENDS RoutingJobProperties, TLC

CONSTANTS j1, j2, c1, c2  \* jobs and candidates

\* c1 is a route for j1 and c2 one for no job (a stale or malformed result).
MCValid == {<<c1, j1>>}
MCLease == [j \in Jobs |-> 2]
MCShortLease == [j \in Jobs |-> 1]

\* One code with a message stands for all of them; one code has none.
MCMapped == {"no_path"}
MCUnmapped == {"obstacle_check_budget_exceeded"}

\* Workers are interchangeable where every one of them may crash.
MCSymmetry == Permutations(Workers)
================================================================================
