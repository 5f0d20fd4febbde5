----------------------------- MODULE MCRoutingServer -----------------------------
(* Small instances of the routing server for TLC.                          *)
EXTENDS RoutingServerProperties

CONSTANTS j1, j2, a1, a2, c1

\* The second job has no valid route: whatever its executor returns fails.
MCValid == Candidates \X {j1}
MCLease == [j \in Jobs |-> 2]
MCMapped == {"no_path"}
MCUnmapped == {"obstacle_check_budget_exceeded"}

\* The second context creates the first job anew, on a server that has not
\* crashed and does not crash after it; nobody starts a job in the last tick.
MCStart(s, j, a) ==
    /\ PutRequest(s, j, a)
    /\ now < MaxNow
    /\ a = a2 => j = j1 /\ now > 1 /\ crashes[s] = 0

MCCrash(s) == CrashServer(s) /\ now < MaxNow /\ \A j \in Jobs : requests[j].context # a2

\* Either candidate may fit the first job, so exports ask for one of them;
\* only the first context looks a job up for its own sake, the first one.
MCCall(u) ==
    \/ GetJob(u) \/ CancelJob(u) \/ RequestCancel(u)
    \/ ExportLookup(u) \/ ExportAnswer(u)
    \/ AskForJob(u, j1, a1)
    \/ \E a \in Contexts : ExportRead(u, c1, j1, a)

MCNext ==
    \/ \E u \in Callers : MCCall(u)
    \/ \E s \in Workers :
          \/ StartStep(s) \/ ThreadStep(s) \/ MCCrash(s)
          \/ \E j \in Jobs, a \in Contexts : MCStart(s, j, a)
    \/ ClockTicks

MCSpec == ServerInit /\ [][MCNext]_allVars /\ ServerFairness
===============================================================================
