------------------------------ MODULE RoutingServer ------------------------------
(***************************************************************************)
(* The routing-job tools of the MCP server (mcp_server.py,                 *)
(* routing_job_service.py) over the repository and the worker.  A server   *)
(* process has one executor thread, which runs one job at a time with a    *)
(* worker object of its own, and keeps a future per job that is not done.  *)
(*                                                                         *)
(* A worker of RoutingJobWorker stands for the worker objects of one       *)
(* server, one after the other: it is down between the end of one that     *)
(* still held its lease and the next.                                      *)
(*                                                                         *)
(* The repository's lock, held by a creation and by a publication, is held *)
(* for less than a tick of the clock.                                      *)
(***************************************************************************)
EXTENDS RoutingJobRepository, Sequences

CONSTANT MaxCrashes  \* bound on crashes of a server, for TLC

ASSUME ServerAssumption ==
    /\ Crashable = Workers
    /\ Workers \cap Callers = {}
    /\ MaxCrashes \in Nat

VARIABLES
    queue,      \* [Workers -> the futures that are not done, in order]
    thread,     \* [Workers -> how far the first of them is]
    creating,   \* [Workers -> the start call that holds the lock]
    exporting,  \* [Callers -> a read export, and the geometry handed over]
    crashes     \* [Workers -> Nat]

workerVars == <<pc, seen, lease, result, cancel>>
tableVars == <<requests, exports, manifests, lookup>>
serverVars == <<queue, thread, creating, exporting, crashes>>
allVars == <<vars, tableVars, serverVars>>

NoCreation == [job |-> None, context |-> None, step |-> "none"]
NoExport == [candidate |-> None, job |-> None, context |-> None, given |-> FALSE]

Locked(s) == creating[s].step \in {"create", "rollback"} \/ thread[s] = "manifest"

(* A caller waits for one answer at a time.                                *)
Waiting(u) == exporting[u].candidate # None /\ ~exporting[u].given

InQueue(s, j) == \E i \in DOMAIN queue[s] : queue[s][i].job = j
Job(s) == Head(queue[s])

-----------------------------------------------------------------------------
(* start_routing: RoutingJobRepository.create and _schedule_routing_job.   *)

PutRequest(s, j, a) ==
    /\ creating[s] = NoCreation /\ ~Locked(s)
    /\ MayPutRequest(j, a, now)
    /\ requests' = RequestPut(j, a, now)
    /\ creating' = [creating EXCEPT ![s] = [job |-> j, context |-> a, step |-> "create"]]
    /\ UNCHANGED <<vars, exports, manifests, lookup, queue, thread, exporting, crashes>>

(* A ledger that is full refuses, and the creation is rolled back.         *)
CreateJob(s) ==
    LET j == creating[s].job
    IN  /\ creating[s].step = "create"
        /\ Submit(j)
        /\ creating' = [creating EXCEPT ![s].step =
                           IF CreateFull(j, now) THEN "rollback" ELSE "schedule"]
        /\ UNCHANGED <<tableVars, queue, thread, exporting, crashes>>

RollBack(s) ==
    /\ creating[s].step = "rollback"
    /\ requests' = RequestRemoved(creating[s].job)
    /\ creating' = [creating EXCEPT ![s] = NoCreation]
    /\ UNCHANGED <<vars, exports, manifests, lookup, queue, thread, exporting, crashes>>

(* A job whose future is not done is not submitted again.                  *)
Schedule(s) ==
    LET j == creating[s].job
    IN  /\ creating[s].step = "schedule"
        /\ queue' = IF InQueue(s, j) THEN queue
                    ELSE [queue EXCEPT ![s] =
                             Append(@, [job |-> j, context |-> creating[s].context])]
        /\ creating' = [creating EXCEPT ![s] = NoCreation]
        /\ UNCHANGED <<vars, tableVars, thread, exporting, crashes>>

-----------------------------------------------------------------------------
(* execute_routing_job on the executor's thread.                           *)

(* Mutant of FutureDone: the thread is not given back.                     *)
FutureForgotten(s) == queue' = [queue EXCEPT ![s] = Tail(@)] /\ UNCHANGED thread

FutureDone(s) ==
    /\ queue' = [queue EXCEPT ![s] = Tail(@)]
    /\ thread' = [thread EXCEPT ![s] = "free"]

(* The job is looked up once by execute_routing_job, which leaves          *)
(* everything but a queued job alone, and once by RoutingJobRepository's   *)
(* execute.                                                                *)
AskJob(s) ==
    /\ queue[s] # <<>> /\ thread[s] \in {"free", "found"}
    /\ ReadRequest(s, Job(s).job, Job(s).context)
    /\ UNCHANGED <<vars, exports, manifests, serverVars>>

FetchJob(s) ==
    /\ queue[s] # <<>>
    /\ \/ /\ thread[s] = "free"
          /\ IF RecordShown(s) /\ jobs[Job(s).job].status = "queued"
             THEN thread' = [thread EXCEPT ![s] = "found"] /\ UNCHANGED queue
             ELSE FutureDone(s)
       \/ /\ thread[s] = "found"
          /\ IF RecordShown(s)
             THEN thread' = [thread EXCEPT ![s] = "ready"] /\ UNCHANGED queue
             ELSE FutureDone(s)
    /\ ReadRecord(s)
    /\ UNCHANGED <<now, workerVars, requests, exports, manifests, creating, exporting, crashes>>

NewWorker(s) ==
    /\ thread[s] = "ready"
    /\ Restart(s)
    /\ UNCHANGED <<tableVars, serverVars>>

BeginWork(s) ==
    /\ thread[s] = "ready"
    /\ CallClaim(s, Job(s).job, "claim")
    /\ thread' = [thread EXCEPT ![s] = "working"]
    /\ UNCHANGED <<tableVars, queue, creating, exporting, crashes>>

(* The worker's own steps; publication is the repository's.                *)
Work(s) ==
    /\ thread[s] = "working"
    /\ pc[s] # "publish"
    /\ Progress(s)
    /\ UNCHANGED <<tableVars, serverVars>>

(* _publish_candidate_artifacts, under the repository's lock: the geometry *)
(* and then the manifest, before the ledger completes.                     *)
PublishExport(s) ==
    LET j == lease[s].job
        c == result[s].candidate
        a == Job(s).context
    IN  /\ thread[s] = "working" /\ pc[s] = "publish"
        /\ ~Locked(s)
        /\ \/ /\ ValidateCandidate(c, j) /\ MayPutArtifact(exports, c, j, a, now)
              /\ exports' = ArtifactPut(exports, c, j, a, now)
              /\ thread' = [thread EXCEPT ![s] = "manifest"]
              /\ UNCHANGED vars
           \/ /\ ~ValidateCandidate(c, j)
              /\ PublishFails(s, "invalid_request")
              /\ UNCHANGED <<exports, thread>>
           \/ /\ ValidateCandidate(c, j) /\ ~MayPutArtifact(exports, c, j, a, now)
              /\ PublishFails(s, "worker_error")
              /\ UNCHANGED <<exports, thread>>
        /\ UNCHANGED <<requests, manifests, lookup, queue, creating, exporting, crashes>>

(* Mutant of AfterPublication: the candidate is completed without a last   *)
(* look at the cancellation.                                               *)
CompletesAtOnce(s) ==
    /\ pc[s] = "publish"
    /\ Go(s, "complete")
    /\ UNCHANGED <<jobs, now, seen, lease, result, cancel>>

AfterPublication(s) == PublishArtifacts(s)

PublishManifest(s) ==
    LET j == lease[s].job
        c == result[s].candidate
    IN  /\ thread[s] = "manifest"
        /\ IF MayPutArtifact(manifests, c, j, None, now)
           THEN /\ manifests' = ArtifactPut(manifests, c, j, None, now)
                /\ AfterPublication(s)
           ELSE UNCHANGED manifests /\ PublishFails(s, "worker_error")
        /\ thread' = [thread EXCEPT ![s] = "working"]
        /\ UNCHANGED <<requests, exports, lookup, queue, creating, exporting, crashes>>

(* execute has returned or raised; a lease that is still held goes with    *)
(* its worker object.                                                      *)
EndWork(s) ==
    /\ thread[s] = "working"
    /\ pc[s] = "idle"
    /\ IF Active(s) THEN Crash(s) ELSE UNCHANGED vars
    /\ FutureDone(s)
    /\ UNCHANGED <<tableVars, creating, exporting, crashes>>

-----------------------------------------------------------------------------
(* The other tools.                                                        *)

(* get_routing_job and cancel_routing_job begin alike.                     *)
AskForJob(u, j, a) ==
    /\ ~Waiting(u) /\ cancel[u] = NoCancel
    /\ ReadRequest(u, j, a)
    /\ UNCHANGED <<vars, exports, manifests, serverVars>>

GetJob(u) ==
    /\ ~Waiting(u)
    /\ ReadRecord(u)
    /\ Observe(lookup[u].at)
    /\ UNCHANGED <<requests, exports, manifests, serverVars>>

CancelJob(u) ==
    /\ ~Waiting(u)
    /\ RecordShown(u)
    /\ ReadRecord(u)
    /\ CancelLookup(u, lookup[u].job, lookup[u].at)
    /\ UNCHANGED <<requests, exports, manifests, serverVars>>

RequestCancel(u) == CancelCas(u) /\ UNCHANGED <<tableVars, serverVars>>

(* export_routing_candidate reads the geometry first and looks the job up  *)
(* after it.  A handle without geometry is refused in any case, and what   *)
(* its lookup still purges is AskForJob's and GetJob's matter.             *)
ExportRead(u, c, j, a) ==
    /\ ~Waiting(u) /\ cancel[u] = NoCancel /\ lookup[u] = NoLookup
    /\ exports' = ArtifactsPurged(exports, now)
    /\ exporting' = [exporting EXCEPT ![u] =
          IF exports'[c].job = j /\ exports'[c].context = a
          THEN [candidate |-> c, job |-> j, context |-> a, given |-> FALSE]
          ELSE NoExport]
    /\ UNCHANGED <<vars, requests, manifests, lookup, queue, thread, creating, crashes>>

ExportLookup(u) ==
    /\ Waiting(u)
    /\ ReadRequest(u, exporting[u].job, exporting[u].context)
    /\ UNCHANGED <<vars, exports, manifests, serverVars>>

MayExport(u) ==
    /\ RecordShown(u)
    /\ jobs[lookup[u].job].status = "completed"
    /\ jobs[lookup[u].job].candidate_id = exporting[u].candidate

ExportAnswer(u) ==
    /\ Waiting(u)
    /\ exporting' = [exporting EXCEPT ![u] =
          IF MayExport(u) THEN [exporting[u] EXCEPT !.given = TRUE] ELSE NoExport]
    /\ ReadRecord(u)
    /\ UNCHANGED <<now, workerVars, requests, exports, manifests, queue, thread, creating, crashes>>

-----------------------------------------------------------------------------
(* A server dies with its thread, its futures and its creation; the next   *)
(* one opens the same tables.                                              *)
CrashServer(s) ==
    /\ crashes[s] < MaxCrashes
    /\ crashes' = [crashes EXCEPT ![s] = @ + 1]
    /\ IF pc[s] = "down" THEN UNCHANGED vars ELSE Crash(s)
    /\ queue' = [queue EXCEPT ![s] = <<>>]
    /\ thread' = [thread EXCEPT ![s] = "free"]
    /\ creating' = [creating EXCEPT ![s] = NoCreation]
    /\ lookup' = [lookup EXCEPT ![s] = NoLookup]
    /\ UNCHANGED <<requests, exports, manifests, exporting>>

ClockTicks ==
    /\ \A s \in Workers : ~Locked(s)
    /\ TimePasses
    /\ UNCHANGED <<tableVars, serverVars>>

ServerInit ==
    /\ Init
    /\ RepositoryInit
    /\ queue = [s \in Workers |-> <<>>]
    /\ thread = [s \in Workers |-> "free"]
    /\ creating = [s \in Workers |-> NoCreation]
    /\ exporting = [u \in Callers |-> NoExport]
    /\ crashes = [s \in Workers |-> 0]

StartStep(s) == CreateJob(s) \/ RollBack(s) \/ Schedule(s)

ThreadStep(s) ==
    \/ AskJob(s) \/ FetchJob(s) \/ NewWorker(s) \/ BeginWork(s) \/ Work(s)
    \/ PublishExport(s) \/ PublishManifest(s) \/ EndWork(s)

ToolCall ==
    \E u \in Callers :
        \/ GetJob(u) \/ CancelJob(u) \/ RequestCancel(u)
        \/ ExportLookup(u) \/ ExportAnswer(u)
        \/ \E j \in Jobs, a \in Contexts :
              \/ AskForJob(u, j, a)
              \/ \E c \in Candidates : ExportRead(u, c, j, a)

ServerNext ==
    \/ ToolCall
    \/ \E s \in Workers :
          \/ StartStep(s) \/ ThreadStep(s) \/ CrashServer(s)
          \/ \E j \in Jobs, a \in Contexts : PutRequest(s, j, a)
    \/ ClockTicks

ServerSpec == ServerInit /\ [][ServerNext]_allVars

(* A call that holds the lock goes on, the executor's thread runs, and it  *)
(* gets the lock that calls keep taking and releasing.                     *)
ServerFairness ==
    \A s \in Workers :
        WF_allVars(StartStep(s)) /\ WF_allVars(ThreadStep(s)) /\ SF_allVars(PublishExport(s))

ServerFairSpec == ServerSpec /\ ServerFairness
===============================================================================
