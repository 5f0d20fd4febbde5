------------------------- MODULE RoutingServerProperties -------------------------
(***************************************************************************)
(* What must be true of the routing tools of a server, over its crashes,   *)
(* expiring rows and full tables.                                          *)
(***************************************************************************)
EXTENDS RoutingServer, RoutingJobProperties

(* Every variable of the tables and the server keeps its type, a thread    *)
(* that works has a future, and a manifest is only stored inside a         *)
(* publication.                                                            *)
ServerTypeOK ==
    /\ RepositoryTypeOK
    /\ queue \in [Workers -> Seq([job : Jobs, context : Contexts])]
    /\ thread \in [Workers -> {"free", "found", "ready", "working", "manifest"}]
    /\ creating \in [Workers -> [job : Jobs, context : Contexts,
                                 step : {"create", "rollback", "schedule"}] \cup {NoCreation}]
    /\ exporting \in [Callers -> [candidate : Candidates \cup {None}, job : Jobs \cup {None},
                                  context : Contexts \cup {None}, given : BOOLEAN]]
    /\ crashes \in [Workers -> 0..MaxCrashes]
    /\ \A s \in Workers : /\ thread[s] # "free" => queue[s] # <<>>
                          /\ thread[s] = "manifest" => pc[s] = "publish"

RequestKept(j) ==
    j \in Requested(now) /\ j \in Stored(Purge(now)) => requests'[j] = requests[j]

(* The request of a job that lookups still show disappears only when its   *)
(* own retention has passed: neither a purge nor the rollback of a refused *)
(* creation, which may be a repeated one, takes it away                    *)
(* (job_repository.py:799-808).                                            *)
RequestKeptForJob == [][\A j \in Jobs : RequestKept(j)]_allVars

(* The request that is stored now was there at time t.                     *)
MadeBy(j, t) == requests[j] # NoRequest /\ requests[j].expires_at <= t + Ttl

GeometryFits(u) ==
    LET e == exporting'[u] IN
    e.given /\ ~exporting[u].given
    => LET at == lookup[u].at
           r == jobs[e.job]
       IN  /\ e.job \in Stored(Purge(at))
           /\ r.status = "completed" /\ r.candidate_id = e.candidate
           /\ ValidateCandidate(e.candidate, e.job)
           /\ r.created_at <= at /\ MadeBy(e.job, at) => requests[e.job].context = e.context

(* "the bounded orphan ... cannot be retrieved without a completed job     *)
(* record and matching caller context" (docs/adr/0048-durable-routing-     *)
(* request-result-export.md:49): artifacts are stored before the ledger    *)
(* completes, and read before the record is, so that jobs are cancelled,   *)
(* expire and are created anew in between.  Geometry is handed over only   *)
(* for a record, not expired when the lookup began, that is completed with *)
(* it, and if that record and the request beside it are not younger than   *)
(* the lookup, to the context that may see them.  (A record created later  *)
(* may be another context's: what is handed over is then the caller's own  *)
(* artifact, read before.)                                                 *)
GeometryOnlyForCompletedJob == [][\A u \in Callers : GeometryFits(u)]_allVars

(* The server drives its workers and the ledger as RoutingJobWorker allows *)
(* any number of callers and workers to, so what holds there holds here.   *)
ImplementsWorkers == Spec

(* A job that was submitted to the executor is taken up and comes to an    *)
(* end without anybody's help, as long as its server lives: also behind    *)
(* another job, and when the tables have no room for its candidate.  A job *)
(* created anew under the id of a future that is already at work is not    *)
(* submitted, and is left out (mcp_server.py:268).                         *)
Awaits(s, j) ==
    \E i \in DOMAIN queue[s] :
        /\ queue[s][i] = [job |-> j, context |-> requests[j].context]
        /\ i = 1 => thread[s] = "free" /\ lookup[s] = NoLookup

StartedJobSettles ==
    \A s \in Workers, j \in Jobs :
        (Awaits(s, j) /\ crashes[s] = 0)
        ~> (~Shows(j, "queued") /\ ~Shows(j, "running")) \/ crashes[s] > 0

(* "detect expired running records and close them" (docs/adr/0046-routing- *)
(* worker-leases-and-tasks-deferral.md:35), "a process restart can close   *)
(* stale leases" (:55): an execution that finds its job running under a    *)
(* lease that is over closes it.                                           *)
StaleLeaseClosed ==
    [][\A s \in Workers :
          /\ queue[s] # <<>> /\ thread[s] = "free" /\ queue'[s] = Tail(queue[s])
          /\ crashes' = crashes
          => LET j == Job(s).job
             IN  Shows(j, "running") => ~LeaseOver(j, now)
      ]_allVars
===============================================================================
