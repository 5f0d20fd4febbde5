-------------------------- MODULE RoutingServerProofs --------------------------
(***************************************************************************)
(* Proofs about the routing tools of any number of server processes.       *)
(*                                                                         *)
(* Every step of a server is a step of the workers and callers of          *)
(* RoutingJobWorker, or leaves their variables alone; so the invariants    *)
(* proved there hold here, and the tables beside the ledger are reasoned   *)
(* about with them.                                                        *)
(***************************************************************************)
EXTENDS RoutingServerProperties, RoutingJobProofs, SequenceTheorems

Future == [job : Jobs, context : Contexts]

LEMMA QueueFacts ==
    ASSUME NEW S, NEW q \in Seq(S)
    PROVE  /\ q # <<>> => Head(q) \in S /\ Tail(q) \in Seq(S)
           /\ \A e \in S : Append(q, e) \in Seq(S) /\ Append(q, e) # <<>>
BY HeadTailProperties, AppendProperties

(* The job in hand.                                                        *)
LEMMA FutureTyped ==
    ASSUME ServerTypeOK, NEW s \in Workers, queue[s] # <<>>
    PROVE  Job(s) \in Future /\ Job(s).job \in Jobs /\ Job(s).context \in Contexts
<1>1. queue[s] \in Seq(Future)
  BY DEF ServerTypeOK, Future
<1>2. Job(s) \in Future
  BY <1>1, QueueFacts DEF Job
<1> QED BY <1>2 DEF Future

LEMMA CreationTyped ==
    ASSUME ServerTypeOK, NEW s \in Workers, creating[s].step # "none"
    PROVE  /\ creating[s].job \in Jobs /\ creating[s].context \in Contexts
           /\ creating[s] \in [job : Jobs, context : Contexts,
                               step : {"create", "rollback", "schedule"}]
BY DEF ServerTypeOK, NoCreation

-----------------------------------------------------------------------------
(* The servers drive the workers.                                          *)

LEMMA LookupTyped ==
    ASSUME ServerTypeOK, NEW p \in Workers \cup Callers
    PROVE  lookup[p].at \in 0..now
BY DEF ServerTypeOK, RepositoryTypeOK

LEMMA CallsImplement ==
    ASSUME ServerTypeOK, ToolCall \/ ClockTicks
    PROVE  [Next]_vars
<1>1. CASE \E u \in Callers : GetJob(u)
  BY <1>1, LookupTyped DEF GetJob, Next, CallerStep
<1>2. CASE \E u \in Callers : RequestCancel(u)
  BY <1>2 DEF RequestCancel, Next, CallerStep
<1>3. CASE \E u \in Callers : ExportAnswer(u)
  BY <1>3, LookupTyped DEF ExportAnswer, ReadRecord, workerVars, Observe, Next, CallerStep
<1>4. CASE \E u \in Callers : CancelJob(u)
  <2>1. PICK u \in Callers : CancelJob(u)
    BY <1>4
  <2>2. lookup[u].job \in Jobs /\ lookup[u].at \in 0..now
    BY <2>1, LookupTyped DEF CancelJob, RecordShown, Stored
  <2> QED BY <2>1, <2>2 DEF CancelJob, Next, CallerStep
<1>5. CASE \E u \in Callers, j \in Jobs, a \in Contexts :
              AskForJob(u, j, a) \/ \E c \in Candidates : ExportRead(u, c, j, a)
  BY <1>5 DEF ExportRead, AskForJob
<1>6. CASE ClockTicks
  BY <1>6 DEF ClockTicks, Next
<1>7. CASE \E u \in Callers : ExportLookup(u)
  BY <1>7 DEF ExportLookup
<1> QED BY <1>1, <1>2, <1>3, <1>4, <1>5, <1>6, <1>7 DEF ToolCall

LEMMA StartsImplement ==
    ASSUME ServerTypeOK, NEW s \in Workers,
           \/ StartStep(s) \/ CrashServer(s)
           \/ \E j \in Jobs, a \in Contexts : PutRequest(s, j, a)
    PROVE  [Next]_vars
<1>1. CASE CreateJob(s)
  <2>1. creating[s].job \in Jobs
    BY <1>1, CreationTyped DEF CreateJob
  <2> QED BY <1>1, <2>1 DEF CreateJob, Next, CallerStep
<1>2. CASE CrashServer(s)
  BY <1>2 DEF CrashServer, Next, WorkerStep
<1>3. CASE \/ RollBack(s) \/ Schedule(s)
           \/ \E j \in Jobs, a \in Contexts : PutRequest(s, j, a)
  BY <1>3 DEF RollBack, Schedule, PutRequest
<1> QED BY <1>1, <1>2, <1>3 DEF StartStep

LEMMA ThreadsImplement ==
    ASSUME ServerTypeOK, NEW s \in Workers, ThreadStep(s)
    PROVE  [Next]_vars
<1>1. CASE FetchJob(s)
  BY <1>1, LookupTyped DEF FetchJob, ReadRecord, workerVars, Observe, Next, CallerStep
<1>2. CASE NewWorker(s)
  BY <1>2 DEF NewWorker, Next, WorkerStep
<1>3. CASE BeginWork(s)
  <2>1. Job(s).job \in Jobs
    BY <1>3, FutureTyped DEF BeginWork, ServerTypeOK
  <2> QED BY <1>3, <2>1 DEF BeginWork, Next, WorkerStep
<1>4. CASE Work(s)
  BY <1>4 DEF Work, Next, WorkerStep
<1>5. \A code : PublishFails(s, code) /\ code \in {"invalid_request", "worker_error"} => Next
  BY DEF Next, WorkerStep, Progress
<1>6. CASE PublishExport(s)
  BY <1>5, <1>6 DEF PublishExport
<1>7. CASE PublishManifest(s)
  BY <1>5, <1>7 DEF PublishManifest, AfterPublication, Next, WorkerStep, Progress
<1>8. CASE EndWork(s)
  BY <1>8 DEF EndWork, Next, WorkerStep
<1>9. CASE AskJob(s)
  BY <1>9 DEF AskJob
<1> QED BY <1>1, <1>2, <1>3, <1>4, <1>6, <1>7, <1>8, <1>9 DEF ThreadStep

LEMMA ServerStepImplements ==
    ASSUME ServerTypeOK, [ServerNext]_allVars
    PROVE  [Next]_vars
BY CallsImplement, StartsImplement, ThreadsImplement DEF ServerNext, allVars

-----------------------------------------------------------------------------
(* Types of the tables and the server.                                     *)

LEMMA TablesTyped ==
    ASSUME RepositoryTypeOK, NEW t \in Nat
    PROVE  /\ RequestsPurged(t) \in [Jobs -> Request]
           /\ \A j \in Jobs, a \in Contexts : RequestPut(j, a, t) \in [Jobs -> Request]
           /\ \A j \in Jobs : RequestRemoved(j) \in [Jobs -> Request]
<1>1. NoRequest \in Request /\ RequestsPurged(t) \in [Jobs -> Request]
  BY DEF RepositoryTypeOK, RequestsPurged, NoRequest, Request
<1>2. ASSUME NEW a \in Contexts
      PROVE  [context |-> a, expires_at |-> t + Ttl] \in Request
  BY StoreAssumption DEF Request
<1> QED BY <1>1, <1>2 DEF RepositoryTypeOK, RequestPut, RequestRemoved

LEMMA ArtifactsTyped ==
    ASSUME NEW table \in [Candidates -> Artifact], NEW t \in Nat
    PROVE  /\ ArtifactsPurged(table, t) \in [Candidates -> Artifact]
           /\ \A c \in Candidates \cup {None}, j \in Jobs \cup {None}, a \in Contexts \cup {None} :
                 ArtifactPut(table, c, j, a, t) \in [Candidates -> Artifact]
<1>1. ArtifactsPurged(table, t) \in [Candidates -> Artifact]
  BY DEF ArtifactsPurged, NoArtifact, Artifact
<1>2. ASSUME NEW j \in Jobs \cup {None}, NEW a \in Contexts \cup {None}
      PROVE  [job |-> j, context |-> a, expires_at |-> t + Ttl] \in Artifact
  BY StoreAssumption DEF Artifact
<1>3. ASSUME NEW x \in Artifact, NEW c
      PROVE  [ArtifactsPurged(table, t) EXCEPT ![c] = x] \in [Candidates -> Artifact]
  BY <1>1
<1> QED BY <1>1, <1>2, <1>3 DEF ArtifactPut

LookupRow == [job : Jobs \cup {None}, at : 0..now, found : BOOLEAN]
LookupTypeOK == lookup \in [Workers \cup Callers -> LookupRow]

(* A lookup begins, ends or goes on.                                       *)
LEMMA LookupSteps ==
    ASSUME ServerTypeOK, [ServerNext]_allVars
    PROVE  \/ lookup' = lookup
           \/ \E p \in Workers \cup Callers : lookup' = [lookup EXCEPT ![p] = NoLookup]
           \/ \E p \in Workers \cup Callers, j \in Jobs \cup {None} : \E a : ReadRequest(p, j, a)
<1>1. ASSUME NEW u \in Callers, GetJob(u) \/ CancelJob(u) \/ ExportAnswer(u)
      PROVE  lookup' = [lookup EXCEPT ![u] = NoLookup]
  BY <1>1 DEF GetJob, CancelJob, ExportAnswer, ReadRecord
<1>2. ASSUME NEW u \in Callers, NEW j \in Jobs, NEW a \in Contexts, AskForJob(u, j, a)
      PROVE  ReadRequest(u, j, a)
  BY <1>2 DEF AskForJob
<1>3. ASSUME NEW u \in Callers, ExportLookup(u)
      PROVE  /\ ReadRequest(u, exporting[u].job, exporting[u].context)
             /\ exporting[u].job \in Jobs \cup {None}
  BY <1>3 DEF ExportLookup, ServerTypeOK
<1>4. ASSUME NEW u \in Callers, RequestCancel(u)
      PROVE  lookup' = lookup
  BY <1>4 DEF RequestCancel, tableVars
<1>5. ASSUME NEW u \in Callers, NEW j, NEW a, NEW c, ExportRead(u, c, j, a)
      PROVE  lookup' = lookup
  BY <1>5 DEF ExportRead
<1>6. ASSUME NEW s \in Workers, StartStep(s) \/ \E j \in Jobs, a \in Contexts : PutRequest(s, j, a)
      PROVE  lookup' = lookup
  BY <1>6 DEF StartStep, CreateJob, RollBack, Schedule, PutRequest, tableVars
<1>7. ASSUME NEW s \in Workers, CrashServer(s) \/ FetchJob(s)
      PROVE  lookup' = [lookup EXCEPT ![s] = NoLookup]
  BY <1>7 DEF CrashServer, FetchJob, ReadRecord
<1>8. ASSUME NEW s \in Workers, AskJob(s)
      PROVE  Job(s).job \in Jobs /\ ReadRequest(s, Job(s).job, Job(s).context)
  BY <1>8, FutureTyped DEF AskJob
<1>9. ASSUME NEW s \in Workers, ThreadStep(s), ~AskJob(s), ~FetchJob(s)
      PROVE  lookup' = lookup
  BY <1>9
  DEF ThreadStep, NewWorker, BeginWork, Work, PublishExport, PublishManifest, EndWork, tableVars
<1>10. ClockTicks \/ UNCHANGED allVars => lookup' = lookup
  BY DEF ClockTicks, tableVars, allVars
<1> QED
  BY <1>1, <1>2, <1>3, <1>4, <1>5, <1>6, <1>7, <1>8, <1>9, <1>10 DEF ServerNext, ToolCall

LEMMA LookupStaysTyped ==
    ASSUME ServerTypeOK, IInv, [ServerNext]_allVars
    PROVE  LookupTypeOK'
<1>1. now \in Nat /\ now' \in Nat /\ now <= now'
  BY ServerStepImplements, NextKeepsIInv, IInvParts DEF StoreTypeOK, LedgerStep, Ticks
<1>2. lookup \in [Workers \cup Callers -> LookupRow'] /\ NoLookup \in LookupRow'
  <2>1. NoLookup \in LookupRow' /\ 0..now \subseteq 0..now'
    BY <1>1 DEF NoLookup, LookupRow
  <2>2. LookupRow \subseteq LookupRow'
    BY <2>1 DEF LookupRow
  <2> QED BY <2>1, <2>2 DEF ServerTypeOK, RepositoryTypeOK, LookupRow
<1>3. ASSUME NEW p \in Workers \cup Callers, NEW j \in Jobs \cup {None}, NEW a,
             ReadRequest(p, j, a)
      PROVE  lookup' \in [Workers \cup Callers -> LookupRow']
  <2>1. [job |-> j, at |-> now, found |-> RequestFound(j, a)] \in LookupRow'
    BY <1>1 DEF LookupRow, RequestFound
  <2> QED BY <1>2, <1>3, <2>1 DEF ReadRequest
<1> QED BY <1>2, <1>3, LookupSteps DEF LookupTypeOK

(* A step of server s that changes its own thread, futures and creation.   *)
LEMMA OneServerTyped ==
    ASSUME ServerTypeOK, RepositoryTypeOK', exporting' = exporting,
           NEW s \in Workers,
           NEW q \in Seq(Future), queue' = queue \/ queue' = [queue EXCEPT ![s] = q],
           queue' = queue => q = queue[s],
           NEW h \in {"free", "found", "ready", "working", "manifest"},
           thread' = thread \/ thread' = [thread EXCEPT ![s] = h],
           thread' = thread => h = thread[s],
           NEW c \in [job : Jobs, context : Contexts,
                      step : {"create", "rollback", "schedule"}] \cup {NoCreation},
           creating' = creating \/ creating' = [creating EXCEPT ![s] = c],
           crashes' \in [Workers -> 0..MaxCrashes],
           h # "free" => q # <<>>,
           h = "manifest" => pc'[s] = "publish",
           \A v \in Workers \ {s} : pc'[v] = pc[v]
    PROVE  ServerTypeOK'
<1>1. /\ queue' \in [Workers -> Seq(Future)] /\ queue'[s] = q
      /\ \A v \in Workers \ {s} : queue'[v] = queue[v]
  <2>1. queue \in [Workers -> Seq(Future)]
    BY DEF ServerTypeOK, Future
  <2> QED BY <2>1
<1>2. /\ thread' \in [Workers -> {"free", "found", "ready", "working", "manifest"}]
      /\ thread'[s] = h /\ \A v \in Workers \ {s} : thread'[v] = thread[v]
  <2>1. thread \in [Workers -> {"free", "found", "ready", "working", "manifest"}]
    BY DEF ServerTypeOK
  <2> QED BY <2>1
<1>3. creating' \in [Workers -> [job : Jobs, context : Contexts,
                                 step : {"create", "rollback", "schedule"}] \cup {NoCreation}]
  BY DEF ServerTypeOK
<1> QED BY <1>1, <1>2, <1>3 DEF ServerTypeOK, Future

(* Steps that leave every server's thread where it was.                    *)
LEMMA CallsTyped ==
    ASSUME ServerTypeOK, IInv, LookupTypeOK', ToolCall \/ ClockTicks
    PROVE  ServerTypeOK'
<1>1. now \in Nat /\ RepositoryTypeOK
  BY IInvParts DEF StoreTypeOK, ServerTypeOK
<1>2. pc' = pc
  BY DEF ToolCall, AskForJob, GetJob, CancelJob, RequestCancel, ExportRead, ExportLookup,
         ExportAnswer, ClockTicks, Observe, CancelCas, CancelLookup, TimePasses, workerVars, vars
<1>3. UNCHANGED <<queue, thread, creating, crashes>>
  BY DEF ToolCall, AskForJob, GetJob, CancelJob, RequestCancel, ExportRead, ExportLookup,
         ExportAnswer, ClockTicks, serverVars
<1>4. requests' \in [Jobs -> Request]
  BY <1>1, TablesTyped
  DEF ToolCall, AskForJob, GetJob, CancelJob, RequestCancel, ExportRead, ExportLookup,
      ExportAnswer, ClockTicks, ReadRequest, tableVars, RepositoryTypeOK
<1>5. exports' \in [Candidates -> Artifact] /\ manifests' \in [Candidates -> Artifact]
  BY <1>1, ArtifactsTyped
  DEF ToolCall, AskForJob, GetJob, CancelJob, RequestCancel, ExportRead, ExportLookup,
      ExportAnswer, ClockTicks, tableVars, RepositoryTypeOK
<1> DEFINE E == [candidate : Candidates \cup {None}, job : Jobs \cup {None},
                 context : Contexts \cup {None}, given : BOOLEAN]
<1>6. exporting' \in [Callers -> E]
  <2>1. exporting \in [Callers -> E] /\ NoExport \in E
    BY DEF ServerTypeOK, NoExport
  <2>2. ASSUME NEW u \in Callers, ExportAnswer(u)
        PROVE  exporting' \in [Callers -> E]
    <3>1. [exporting[u] EXCEPT !.given = TRUE] \in E
      BY <2>1
    <3> QED BY <2>1, <2>2, <3>1 DEF ExportAnswer
  <2>3. ASSUME NEW u \in Callers, NEW j \in Jobs, NEW a \in Contexts, NEW c \in Candidates,
               ExportRead(u, c, j, a)
        PROVE  exporting' \in [Callers -> E]
    <3>1. [candidate |-> c, job |-> j, context |-> a, given |-> FALSE] \in E
      OBVIOUS
    <3> QED BY <2>1, <2>3, <3>1 DEF ExportRead
  <2> QED
    BY <2>1, <2>2, <2>3
    DEF ToolCall, AskForJob, GetJob, CancelJob, RequestCancel, ExportLookup, ClockTicks, serverVars
<1> QED
  BY <1>2, <1>3, <1>4, <1>5, <1>6
  DEF ServerTypeOK, RepositoryTypeOK, LookupTypeOK, LookupRow

LEMMA StartsTyped ==
    ASSUME ServerTypeOK, IInv, LookupTypeOK', NEW s \in Workers,
           \/ StartStep(s) \/ CrashServer(s)
           \/ \E j \in Jobs, a \in Contexts : PutRequest(s, j, a)
    PROVE  ServerTypeOK'
<1> DEFINE C == [job : Jobs, context : Contexts, step : {"create", "rollback", "schedule"}]
<1>1. /\ now \in Nat /\ RepositoryTypeOK /\ pc \in [Workers -> PC]
      /\ queue[s] \in Seq(Future) /\ creating[s] \in C \cup {NoCreation}
      /\ thread[s] \in {"free", "found", "ready", "working", "manifest"}
      /\ thread[s] # "free" => queue[s] # <<>>
      /\ thread[s] = "manifest" => pc[s] = "publish"
      /\ crashes \in [Workers -> 0..MaxCrashes]
  BY IInvParts DEF StoreTypeOK, ServerTypeOK, Future, LocalsOK
<1>2. ASSUME NEW j \in Jobs, NEW a \in Contexts, PutRequest(s, j, a)
      PROVE  ServerTypeOK'
  <2>1. RepositoryTypeOK'
    <3>1. RequestPut(j, a, now) \in [Jobs -> Request]
      BY <1>1, TablesTyped
    <3> QED BY <1>1, <1>2, <3>1 DEF PutRequest, RepositoryTypeOK, LookupTypeOK, LookupRow
  <2>2. [job |-> j, context |-> a, step |-> "create"] \in C
    OBVIOUS
  <2> QED BY <1>1, <1>2, <2>1, <2>2, OneServerTyped DEF PutRequest, vars
<1>3. CASE CreateJob(s)
  <2>1. RepositoryTypeOK'
    BY <1>1, <1>3 DEF CreateJob, tableVars, RepositoryTypeOK, LookupTypeOK, LookupRow
  <2>2. creating[s] \in C
    BY <1>3, CreationTyped DEF CreateJob
  <2>3. ASSUME NEW p \in {"rollback", "schedule"}
        PROVE  [creating[s] EXCEPT !.step = p] \in C
    BY <2>2
  <2>4. PICK c \in C : creating' = [creating EXCEPT ![s] = c]
    <3> DEFINE p == IF CreateFull(creating[s].job, now) THEN "rollback" ELSE "schedule"
               d == [creating[s] EXCEPT !.step = p]
    <3>1. p \in {"rollback", "schedule"}
      OBVIOUS
    <3>2. creating' = [creating EXCEPT ![s].step = p]
      BY <1>3 DEF CreateJob
    <3> HIDE DEF p
    <3>3. creating' = [creating EXCEPT ![s] = d]
      BY <3>2
    <3>4. d \in C
      BY <2>3, <3>1
    <3> QED BY <3>3, <3>4
  <2>5. c \in C \cup {NoCreation}
    OBVIOUS
  <2>6. /\ queue' = queue /\ thread' = thread /\ exporting' = exporting /\ crashes' = crashes
        /\ pc' = pc
    BY <1>3 DEF CreateJob, Submit
  <2> HIDE DEF C
  <2> QED BY <1>1, <2>1, <2>4, <2>5, <2>6, OneServerTyped DEF C
<1>4. CASE RollBack(s)
  <2>1. RepositoryTypeOK'
    <3>1. RequestRemoved(creating[s].job) \in [Jobs -> Request]
      BY <1>1, <1>4, TablesTyped, CreationTyped DEF RollBack
    <3> QED BY <1>1, <1>4, <3>1 DEF RollBack, RepositoryTypeOK, LookupTypeOK, LookupRow
  <2> QED BY <1>1, <1>4, <2>1, OneServerTyped DEF RollBack, vars
<1>5. CASE Schedule(s)
  <2>1. RepositoryTypeOK'
    BY <1>1, <1>5 DEF Schedule, tableVars, RepositoryTypeOK, LookupTypeOK, LookupRow
  <2> DEFINE e == [job |-> creating[s].job, context |-> creating[s].context]
  <2>2. e \in Future
    BY <1>5, CreationTyped DEF Schedule, Future
  <2>3. Append(queue[s], e) \in Seq(Future) /\ Append(queue[s], e) # <<>>
    BY <1>1, <2>2, QueueFacts
  <2>4. CASE queue' = queue
    BY <1>1, <1>5, <2>1, <2>4, OneServerTyped DEF Schedule, vars
  <2>5. CASE queue' = [queue EXCEPT ![s] = Append(queue[s], e)]
    <3>1. queue' = queue => Append(queue[s], e) = queue[s]
      BY <2>5 DEF ServerTypeOK
    <3> HIDE DEF e
    <3> QED BY <1>1, <1>5, <2>1, <2>3, <2>5, <3>1, OneServerTyped DEF Schedule, vars
  <2> QED BY <1>5, <2>4, <2>5 DEF Schedule
<1>6. CASE CrashServer(s)
  <2>1. RepositoryTypeOK'
    BY <1>1, <1>6 DEF CrashServer, RepositoryTypeOK, LookupTypeOK, LookupRow
  <2>2. crashes' \in [Workers -> 0..MaxCrashes]
    BY <1>1, <1>6, ServerAssumption DEF CrashServer
  <2>3. \A v \in Workers \ {s} : pc'[v] = pc[v]
    BY <1>1, <1>6 DEF CrashServer, Crash, Go, vars
  <2>4. <<>> \in Seq(Future)
    BY EmptySeq
  <2>5. (queue' = queue => <<>> = queue[s]) /\ (thread' = thread => "free" = thread[s])
    BY <1>6 DEF CrashServer, ServerTypeOK
  <2> QED BY <1>6, <2>1, <2>2, <2>3, <2>4, <2>5, OneServerTyped DEF CrashServer
<1> QED BY <1>2, <1>3, <1>4, <1>5, <1>6 DEF StartStep

LEMMA ThreadsTyped ==
    ASSUME ServerTypeOK, IInv, LookupTypeOK', NEW s \in Workers, ThreadStep(s)
    PROVE  ServerTypeOK'
<1> DEFINE T == {"free", "found", "ready", "working", "manifest"}
<1>1. /\ now \in Nat /\ RepositoryTypeOK /\ pc \in [Workers -> PC]
      /\ queue[s] \in Seq(Future) /\ thread[s] \in T /\ thread \in [Workers -> T]
      /\ queue \in [Workers -> Seq(Future)]
      /\ thread[s] # "free" => queue[s] # <<>>
      /\ thread[s] = "manifest" => pc[s] = "publish"
      /\ crashes \in [Workers -> 0..MaxCrashes]
      /\ lease[s].job \in Jobs \cup {None} /\ result[s].candidate \in Candidates \cup {None}
  BY IInvParts DEF StoreTypeOK, ServerTypeOK, Future, LocalsOK, LeaseRecord, ResultRecord
<1>2. creating[s] \in [job : Jobs, context : Contexts,
                       step : {"create", "rollback", "schedule"}] \cup {NoCreation}
  BY DEF ServerTypeOK
<1>3. UNCHANGED <<creating, exporting, crashes>>
  BY DEF ThreadStep, AskJob, FetchJob, NewWorker, BeginWork, Work, PublishExport, PublishManifest,
         EndWork, serverVars
<1>4. WorkerStep(s) \/ pc' = pc
  <2>1. \A code \in {"invalid_request", "worker_error"} : PublishFails(s, code) => WorkerStep(s)
    BY DEF WorkerStep, Progress
  <2>2. PublishArtifacts(s) => WorkerStep(s)
    BY DEF WorkerStep, Progress
  <2>3. Crash(s) \/ Restart(s) \/ Progress(s) => WorkerStep(s)
    BY DEF WorkerStep
  <2>4. CASE BeginWork(s)
    <3>1. Job(s).job \in Jobs
      BY <2>4, FutureTyped DEF BeginWork, ServerTypeOK
    <3> QED BY <2>4, <3>1 DEF BeginWork, WorkerStep
  <2> QED
    BY <2>1, <2>2, <2>3, <2>4
    DEF ThreadStep, AskJob, FetchJob, NewWorker, Work, PublishExport, PublishManifest,
        AfterPublication, EndWork, workerVars, vars
<1>5. \A v \in Workers \ {s} : pc'[v] = pc[v]
  BY <1>4, OthersUntouched DEF Untouched
<1>6. RepositoryTypeOK'
  <2>1. requests' \in [Jobs -> Request]
    BY <1>1, TablesTyped
    DEF ThreadStep, AskJob, FetchJob, NewWorker, BeginWork, Work, PublishExport, PublishManifest,
        EndWork, ReadRequest, tableVars, RepositoryTypeOK
  <2>2. CASE PublishExport(s)
    <3>1. Job(s).context \in Contexts
      BY <1>1, <2>2, FutureTyped DEF PublishExport
    <3>2. ArtifactPut(exports, result[s].candidate, lease[s].job, Job(s).context, now)
          \in [Candidates -> Artifact]
      BY <1>1, <3>1, ArtifactsTyped DEF RepositoryTypeOK
    <3> QED BY <1>1, <2>1, <2>2, <3>2 DEF PublishExport, RepositoryTypeOK, LookupTypeOK, LookupRow
  <2>3. CASE PublishManifest(s)
    <3>1. ArtifactPut(manifests, result[s].candidate, lease[s].job, None, now)
          \in [Candidates -> Artifact]
      BY <1>1, ArtifactsTyped DEF RepositoryTypeOK
    <3> QED BY <1>1, <2>1, <2>3, <3>1 DEF PublishManifest, RepositoryTypeOK, LookupTypeOK, LookupRow
  <2>4. CASE UNCHANGED <<exports, manifests>>
    BY <1>1, <2>1, <2>4 DEF RepositoryTypeOK, LookupTypeOK, LookupRow
  <2> QED
    BY <2>2, <2>3, <2>4
    DEF ThreadStep, AskJob, FetchJob, NewWorker, BeginWork, Work, EndWork, tableVars
(* How far the thread gets, and whether its future is done.                *)
<1>7. CASE FutureDone(s) /\ queue[s] # <<>>
  <2>1. Tail(queue[s]) \in Seq(Future)
    BY <1>1, <1>7, QueueFacts
  <2>2. /\ queue' = [queue EXCEPT ![s] = Tail(queue[s])]
        /\ thread' = [thread EXCEPT ![s] = "free"]
    BY <1>7 DEF FutureDone
  <2>3. (queue' = queue => Tail(queue[s]) = queue[s]) /\ (thread' = thread => "free" = thread[s])
    BY <1>1, <2>2
  <2> QED BY <1>1, <1>2, <1>3, <1>5, <1>6, <2>1, <2>2, <2>3, OneServerTyped
<1>8. ASSUME NEW h \in T, queue' = queue, queue[s] # <<>>,
             thread' = thread \/ thread' = [thread EXCEPT ![s] = h],
             thread' = thread => h = thread[s], h = "manifest" => pc'[s] = "publish"
      PROVE  ServerTypeOK'
  <2>1. /\ exporting' = exporting /\ creating' = creating
        /\ crashes' \in [Workers -> 0..MaxCrashes]
        /\ creating[s] \in [job : Jobs, context : Contexts,
                           step : {"create", "rollback", "schedule"}] \cup {NoCreation}
    BY <1>1, <1>2, <1>3
  <2>2. queue[s] \in Seq(Future) /\ (queue' = queue => queue[s] = queue[s])
    BY <1>1
  <2> QED
    BY <1>5, <1>6, <1>8, <2>1, <2>2, OneServerTyped
<1>9. \A h \in T : thread' = [thread EXCEPT ![s] = h] => (thread' = thread => h = thread[s])
  BY <1>1
<1>10. CASE FetchJob(s)
  BY <1>7, <1>8, <1>9, <1>10 DEF FetchJob
<1>11. CASE EndWork(s)
  BY <1>1, <1>7, <1>11 DEF EndWork
<1>12. CASE BeginWork(s)
  BY <1>1, <1>8, <1>9, <1>12 DEF BeginWork
<1>13. CASE NewWorker(s) \/ Work(s)
  BY <1>1, <1>8, <1>13 DEF NewWorker, Work, serverVars
<1>14. CASE PublishExport(s)
  <2>1. queue' = queue /\ queue[s] # <<>> /\ thread[s] = "working" /\ pc[s] = "publish"
    BY <1>1, <1>14 DEF PublishExport
  <2>2. CASE thread' = [thread EXCEPT ![s] = "manifest"] /\ UNCHANGED vars
    BY <1>8, <1>9, <2>1, <2>2 DEF vars
  <2>3. CASE thread' = thread
    BY <1>8, <2>1, <2>3
  <2> QED BY <1>14, <2>2, <2>3 DEF PublishExport
<1>15. CASE PublishManifest(s)
  BY <1>1, <1>8, <1>9, <1>15 DEF PublishManifest
<1>16. CASE AskJob(s)
  BY <1>1, <1>8, <1>16 DEF AskJob, serverVars, vars
<1> QED BY <1>10, <1>11, <1>12, <1>13, <1>14, <1>15, <1>16 DEF ThreadStep

-----------------------------------------------------------------------------
(* The server keeps its types and implements the workers.                  *)

LEMMA ServerInitTyped == ServerInit => ServerTypeOK
<1> SUFFICES ASSUME ServerInit PROVE ServerTypeOK
  OBVIOUS
<1>1. RepositoryTypeOK
  BY DEF ServerInit, Init, StoreInit, RepositoryInit, RepositoryTypeOK, NoRequest, Request,
         NoArtifact, Artifact, NoLookup
<1>2. <<>> \in Seq([job : Jobs, context : Contexts])
  BY EmptySeq
<1>3. NoExport \in [candidate : Candidates \cup {None}, job : Jobs \cup {None},
                    context : Contexts \cup {None}, given : BOOLEAN]
  BY DEF NoExport
<1>4. 0 \in 0..MaxCrashes
  BY ServerAssumption
<1> QED BY <1>1, <1>2, <1>3, <1>4 DEF ServerInit, ServerTypeOK

LEMMA ServerStepTyped ==
    ASSUME ServerTypeOK, IInv, [ServerNext]_allVars
    PROVE  ServerTypeOK' /\ IInv'
<1>1. IInv'
  BY ServerStepImplements, NextKeepsIInv
<1>2. CASE UNCHANGED allVars
  <2>1. pc' = pc /\ now' = now /\ UNCHANGED tableVars /\ UNCHANGED serverVars
    BY <1>2 DEF allVars, vars
  <2>2. RepositoryTypeOK'
    BY <2>1 DEF ServerTypeOK, RepositoryTypeOK, tableVars
  <2>3. UNCHANGED <<queue, thread, creating, exporting, crashes>>
    BY <2>1 DEF serverVars
  <2> QED BY <1>1, <2>1, <2>2, <2>3 DEF ServerTypeOK
<1> QED BY <1>1, <1>2, CallsTyped, StartsTyped, ThreadsTyped, LookupStaysTyped DEF ServerNext

LEMMA AlwaysTyped == ServerSpec => [](ServerTypeOK /\ IInv)
<1>1. ServerInit => IInv
  BY InitIInv DEF ServerInit
<1> QED BY <1>1, ServerInitTyped, ServerStepTyped, PTL DEF ServerSpec

(* Type correctness of the tables and of every server's thread, futures,   *)
(* creations and exports (mcp_server.py, job_repository.py): a thread that *)
(* works has a future, a manifest is written only inside a publication.    *)
THEOREM ServerKeepsTypes == ServerSpec => []ServerTypeOK
BY AlwaysTyped, PTL

(* Any number of servers over one ledger drive it as RoutingJobWorker      *)
(* allows: every invariant and action property proved of Spec holds of     *)
(* ServerSpec (mcp_server.py:240-330, routing_job_service.py).             *)
THEOREM ServersImplementWorkers == ServerSpec => ImplementsWorkers
<1>1. ServerInit => Init
  BY DEF ServerInit
<1>2. ServerTypeOK /\ [ServerNext]_allVars => [Next]_vars
  BY ServerStepImplements
<1> QED BY <1>1, <1>2, AlwaysTyped, PTL DEF ServerSpec, Spec, ImplementsWorkers

-----------------------------------------------------------------------------
(* Requests: while a creation that was refused is rolled back, its job     *)
(* cannot have come into being.                                            *)

LEMMA RowInPurge ==
    ASSUME NEW j \in Jobs, NEW t
    PROVE  j \in Stored(Purge(t)) <=> jobs[j].status # "absent" /\ ~(jobs[j].expires_at <= t)
BY DEF Stored, Purge, NoRecord

LEMMA FullStays ==
    ASSUME IInv, Bounded, Bounded', [Next]_vars, now' = now, NEW j \in Jobs, CreateFull(j, now)
    PROVE  CreateFull(j, now)'
<1> DEFINE S == Stored(Purge(now))
<1>1. now \in Nat /\ LedgerStep
  BY NextKeepsIInv, IInvParts DEF Ticks, StoreTypeOK
<1>2. \A k \in Jobs : k \in S' <=> jobs'[k].status # "absent" /\ ~(jobs'[k].expires_at <= now)
  BY <1>1 DEF LedgerStep, Stored, Purge, NoRecord
<1>3. ASSUME NEW k \in S
      PROVE  k \in S'
  <2>1. k \in Jobs /\ jobs[k].status # "absent" /\ ~(jobs[k].expires_at <= now)
    BY RowInPurge DEF Stored
  <2>2. Kept(k) \/ Moved(k)
    BY <1>1, <2>1 DEF LedgerStep, Created
  <2> QED BY <1>2, <2>1, <2>2, MovedRow DEF Kept
<1>4. j \notin S'
  <2>1. ~(jobs[j].status # "absent" /\ ~(jobs[j].expires_at <= now))
    BY RowInPurge DEF CreateFull
  <2>2. CASE NothingCreated
    BY <1>2, <2>1, <2>2 DEF NothingCreated
  <2>3. ASSUME NEW k \in Jobs, Submit(k)
        PROVE  j \notin S'
    <3>1. jobs'[j] = jobs[j] \/ jobs'[j] = Purge(now)[j]
      BY <2>3 DEF Submit, StoreCreate, Purge
    <3>2. Purge(now)[j] = jobs[j] \/ Purge(now)[j].status = "absent"
      BY DEF Purge, NoRecord
    <3> QED BY <1>2, <2>1, <3>1, <3>2
  <2> QED BY <2>2, <2>3, OnlySubmitCreates
<1>5. S \subseteq Jobs /\ S' \subseteq Stored(jobs)'
  <2>1. S' \subseteq Jobs
    BY DEF Stored
  <2> QED BY <1>2, <2>1 DEF Stored
<1>6. IsFiniteSet(S') /\ IsFiniteSet(S)
  <2>1. IsFiniteSet(Stored(jobs)')
    BY DEF Bounded
  <2>2. IsFiniteSet(S')
    BY <1>5, <2>1, FS_Subset
  <2>3. S \subseteq S'
    BY <1>3
  <2> QED BY <2>2, <2>3, FS_Subset
<1>7. Cardinality(S) <= Cardinality(S')
  BY <1>3, <1>6, FS_Subset
<1>8. Cardinality(S) \in Nat /\ Cardinality(S') \in Nat /\ Cardinality(S) >= MaxRecords
  BY <1>6, FS_CardinalityType DEF CreateFull
<1>9. Cardinality(S') >= MaxRecords
  BY <1>7, <1>8, StoreAssumption
<1> QED BY <1>4, <1>9 DEF CreateFull

RollbackOK ==
    \A s \in Workers : creating[s].step = "rollback" => CreateFull(creating[s].job, now)

LEMMA CreationSteps ==
    ASSUME ServerTypeOK, [ServerNext]_allVars, NEW s \in Workers
    PROVE  \/ creating'[s] = creating[s]
           \/ creating'[s].step \in {"none", "create"}
           \/ CreateJob(s)
<1>1. DOMAIN creating = Workers
  BY DEF ServerTypeOK
<1>2. ASSUME NEW v \in Workers, v # s,
             StartStep(v) \/ \E j \in Jobs, a \in Contexts : PutRequest(v, j, a)
      PROVE  creating'[s] = creating[s]
  BY <1>1, <1>2 DEF StartStep, CreateJob, RollBack, Schedule, PutRequest
<1>3. CASE \E j \in Jobs, a \in Contexts : PutRequest(s, j, a)
  <2>1. creating'[s].step = "create"
    BY <1>1, <1>3 DEF PutRequest
  <2> QED BY <2>1
<1>4. CASE RollBack(s) \/ Schedule(s)
  BY <1>1, <1>4 DEF RollBack, Schedule, NoCreation
<1>5. ASSUME NEW v \in Workers, CrashServer(v)
      PROVE  creating'[s] = creating[s] \/ creating'[s].step = "none"
  BY <1>1, <1>5 DEF CrashServer, NoCreation
<1>6. ASSUME NEW v \in Workers, ThreadStep(v)
      PROVE  creating' = creating
  BY <1>6
  DEF ThreadStep, AskJob, FetchJob, NewWorker, BeginWork, Work, PublishExport, PublishManifest,
      EndWork, serverVars
<1>7. ToolCall \/ ClockTicks \/ UNCHANGED allVars => creating' = creating
  BY DEF ToolCall, AskForJob, GetJob, CancelJob, RequestCancel, ExportRead, ExportLookup,
         ExportAnswer, ClockTicks, serverVars, allVars
<1> QED BY <1>2, <1>3, <1>4, <1>5, <1>6, <1>7 DEF ServerNext, StartStep

(* Time stands still while a creation holds the lock.                      *)
LEMMA LockStopsClock ==
    ASSUME ServerTypeOK, IInv, [ServerNext]_allVars, NEW s \in Workers,
           creating[s].step = "rollback"
    PROVE  now' = now
<1>1. ~ClockTicks
  BY DEF ClockTicks, Locked
<1>2. [Next]_vars /\ now \in Nat
  BY ServerStepImplements, IInvParts DEF StoreTypeOK
<1>3. ASSUME now' # now
      PROVE  TimePasses
  <2>1. ~CallerStep
    BY <1>3 DEF CallerStep, Submit, Observe, CancelLookup, CancelCas
  <2>2. ASSUME NEW v \in Workers, WorkerStep(v)
        PROVE  FALSE
    <3>1. ~Progress(v)
      BY <1>3
      DEF Progress, ClaimRead, CloseOrphan, Start, ExecutorStep,
          ExecutorReturns, ExecutorRaises, ExecutorBreaks, ExecutorStops, FailProbe,
          DoneProbe, FinalProbe, ProbeThen, FailCas, StopRead, StopWrite, Check,
          PublishArtifacts, PublishFails, Complete, RaceRead, RaceAck
    <3> QED
      BY <1>3, <2>2, <3>1 DEF WorkerStep, CallClaim, Crash, Restart
  <2> QED
    BY <1>2, <1>3, <2>1, <2>2 DEF Next, vars
<1>4. ~TimePasses
  <2>1. CASE ToolCall
    BY <1>2, <2>1
    DEF ToolCall, AskForJob, GetJob, CancelJob, RequestCancel, ExportRead, ExportLookup,
        ExportAnswer, Observe, CancelLookup, CancelCas, TimePasses, Tick, vars
  <2>2. ASSUME NEW v \in Workers,
               \/ StartStep(v) \/ CrashServer(v)
               \/ \E j \in Jobs, a \in Contexts : PutRequest(v, j, a)
        PROVE  now' = now
    BY <2>2
    DEF StartStep, CreateJob, RollBack, Schedule, CrashServer, PutRequest, Submit, Crash, vars
  <2>3. ASSUME NEW v \in Workers, ThreadStep(v)
        PROVE  now' = now
    <3>1. Progress(v) => now' = now
      BY DEF Progress, ClaimRead, CloseOrphan, Start, ExecutorStep,
             ExecutorReturns, ExecutorRaises, ExecutorBreaks, ExecutorStops, FailProbe,
             DoneProbe, FinalProbe, ProbeThen, FailCas, StopRead, StopWrite, Check,
             PublishArtifacts, PublishFails, Complete, RaceRead, RaceAck
    <3> QED
      BY <2>3, <3>1
      DEF ThreadStep, AskJob, FetchJob, NewWorker, BeginWork, Work, PublishExport, PublishManifest,
          AfterPublication, EndWork, Restart, CallClaim, PublishArtifacts, PublishFails, Crash,
          vars
  <2>4. TimePasses => now' # now
    BY <1>2 DEF TimePasses, Tick
  <2> QED BY <1>1, <2>1, <2>2, <2>3, <2>4 DEF ServerNext, allVars, vars
<1> QED BY <1>3, <1>4

LEMMA RollbackStaysOK ==
    ASSUME ServerTypeOK, IInv, Bounded, Bounded', RollbackOK, [ServerNext]_allVars
    PROVE  RollbackOK'
<1> SUFFICES ASSUME NEW s \in Workers, creating'[s].step = "rollback"
             PROVE  CreateFull(creating[s].job, now)'
  BY DEF RollbackOK
<1>1. CASE creating'[s] = creating[s]
  <2>1. PICK j \in Jobs : j = creating[s].job
    BY <1>1, CreationTyped
  <2>2. now' = now /\ CreateFull(j, now)
    BY <1>1, <2>1, LockStopsClock DEF RollbackOK
  <2>3. CreateFull(j, now)'
    BY <2>2, FullStays, ServerStepImplements
  <2>4. creating'[s].job = j
    BY <1>1, <2>1
  <2> QED BY <2>3, <2>4 DEF CreateFull
<1>2. CASE CreateJob(s)
  <2>1. PICK j \in Jobs : j = creating[s].job
    BY <1>2, CreationTyped DEF CreateJob
  <2>2. creating' = [creating EXCEPT ![s].step =
                        IF CreateFull(j, now) THEN "rollback" ELSE "schedule"]
    BY <1>2, <2>1 DEF CreateJob
  <2>3. creating \in [Workers -> [job : Jobs, context : Contexts,
                                  step : {"create", "rollback", "schedule"}] \cup {NoCreation}]
    BY DEF ServerTypeOK
  <2>4. creating'[s] = [creating[s] EXCEPT !.step =
                           IF CreateFull(j, now) THEN "rollback" ELSE "schedule"]
    BY <2>2, <2>3
  <2>5. creating[s] \in [job : Jobs, context : Contexts,
                         step : {"create", "rollback", "schedule"}]
    BY <1>2, CreationTyped DEF CreateJob
  <2>6. creating'[s].job = j /\ CreateFull(j, now)
    BY <2>1, <2>4, <2>5
  <2>7. jobs' = jobs /\ now' = now
    BY <1>2, <2>1, <2>6 DEF CreateJob, Submit, StoreCreate
  <2> QED BY <2>6, <2>7 DEF CreateFull, Stored, Purge
<1> QED BY <1>1, <1>2, CreationSteps

(* A request that is not over goes only with the roll-back of its job's    *)
(* refused creation.                                                       *)
LEMMA RequestSteps ==
    ASSUME ServerTypeOK, RollbackOK, [ServerNext]_allVars, NEW j \in Jobs
    PROVE  \/ requests'[j] = requests[j] \/ requests'[j] = RequestsPurged(now)[j]
           \/ requests'[j] = NoRequest /\ CreateFull(j, now) /\ now' = now
           \/ /\ \E s \in Workers, a \in Contexts : PutRequest(s, j, a)
              /\ j \notin Requested(now)
              /\ requests'[j].expires_at = now + Ttl
<1> DEFINE RowKept == requests'[j] = requests[j] \/ requests'[j] = RequestsPurged(now)[j]
<1>1. ASSUME NEW u \in Callers, NEW k \in Jobs, NEW a \in Contexts, AskForJob(u, k, a)
      PROVE  RowKept
  BY <1>1 DEF AskForJob, ReadRequest
<1>2. ASSUME NEW u \in Callers, ExportLookup(u)
      PROVE  RowKept
  BY <1>2 DEF ExportLookup, ReadRequest
<1>3. CASE ToolCall \/ ClockTicks
  BY <1>1, <1>2, <1>3
  DEF ToolCall, GetJob, CancelJob, RequestCancel, ExportRead, ExportAnswer, ClockTicks, tableVars
<1>4. ASSUME NEW s \in Workers, CreateJob(s) \/ Schedule(s) \/ CrashServer(s)
      PROVE  RowKept
  BY <1>4 DEF CreateJob, Schedule, CrashServer, tableVars
<1>5. ASSUME NEW s \in Workers, RollBack(s)
      PROVE  RowKept \/ (requests'[j] = NoRequest /\ CreateFull(j, now) /\ now' = now)
  <2>1. CreateFull(creating[s].job, now) /\ now' = now
    BY <1>5 DEF RollBack, RollbackOK, vars
  <2>2. requests \in [Jobs -> Request] /\ requests' = RequestRemoved(creating[s].job)
    BY <1>5 DEF RollBack, ServerTypeOK, RepositoryTypeOK
  <2>3. CASE creating[s].job = j
    BY <2>1, <2>2, <2>3 DEF RequestRemoved
  <2>4. CASE creating[s].job # j
    BY <2>2, <2>4 DEF RequestRemoved
  <2> QED BY <2>3, <2>4
<1>6. ASSUME NEW s \in Workers, ThreadStep(s)
      PROVE  RowKept
  BY <1>6
  DEF ThreadStep, AskJob, FetchJob, NewWorker, BeginWork, Work, PublishExport, PublishManifest,
      EndWork, ReadRequest, tableVars
<1>7. ASSUME NEW s \in Workers, NEW k \in Jobs, NEW a \in Contexts, PutRequest(s, k, a)
      PROVE  \/ RowKept
             \/ j = k /\ j \notin Requested(now) /\ requests'[j].expires_at = now + Ttl
  BY <1>7 DEF PutRequest, RequestPut, RequestsPurged
<1>8. UNCHANGED allVars => RowKept
  BY DEF allVars, tableVars
<1> QED BY <1>3, <1>4, <1>5, <1>6, <1>7, <1>8 DEF ServerNext, StartStep

(* What is put, purged or removed is not the request of a stored job.      *)
LEMMA StepKeepsRequests ==
    ASSUME ServerTypeOK, RollbackOK, [ServerNext]_allVars, NEW j \in Jobs
    PROVE  RequestKept(j)
BY RequestSteps DEF RequestKept, Requested, RequestsPurged, CreateFull

LEMMA AlwaysRollbackOK == ServerSpec => [](ServerTypeOK /\ IInv /\ Bounded /\ RollbackOK)
<1>1. ServerInit => Bounded /\ RollbackOK
  BY InitBounded DEF ServerInit, RollbackOK, NoCreation
<1>2. ServerTypeOK /\ IInv /\ Bounded /\ RollbackOK /\ [ServerNext]_allVars => Bounded' /\ RollbackOK'
  BY ServerStepImplements, NextKeepsBounded, RollbackStaysOK
<1> QED BY <1>1, <1>2, AlwaysTyped, PTL DEF ServerSpec

(* The request of a job that lookups still show disappears only when its   *)
(* own retention has passed, with any number of servers creating, rolling  *)
(* back and crashing at once (job_repository.py:799-808).                  *)
THEOREM RequestIsKeptForJob == ServerSpec => RequestKeptForJob
<1>1. ServerTypeOK /\ IInv /\ Bounded /\ RollbackOK /\ [ServerNext]_allVars
      => [\A j \in Jobs : RequestKept(j)]_allVars
  BY StepKeepsRequests
<1> QED BY <1>1, AlwaysRollbackOK, PTL DEF ServerSpec, RequestKeptForJob

-----------------------------------------------------------------------------
(* Exports.                                                                *)

(* A completed record names a candidate that fits its job.                 *)
CompletedOK ==
    \A j \in Jobs :
        jobs[j].status = "completed" => ValidateCandidate(jobs[j].candidate_id, j)

(* An export in progress names what its caller asked for.                  *)
ExportOK ==
    \A u \in Callers :
        exporting[u].candidate # None =>
            exporting[u].job \in Jobs /\ exporting[u].context \in Contexts

LEMMA CompletedStaysOK ==
    ASSUME IInv, CompletedOK, [Next]_vars
    PROVE  CompletedOK'
<1> SUFFICES ASSUME NEW j \in Jobs, jobs'[j].status = "completed"
             PROVE  ValidateCandidate(jobs'[j].candidate_id, j)
  BY DEF CompletedOK, ValidateCandidate
<1>1. CASE jobs'[j] = jobs[j]
  BY <1>1 DEF CompletedOK
<1>2. CASE jobs'[j] = NoRecord
  BY <1>2 DEF NoRecord
<1>3. CASE Created(j)
  BY <1>3, CreatedRow
<1>4. CASE Moved(j)
  <2>1. jobs[j] \in Record /\ RowOK(jobs[j])
    BY IInvParts DEF StoreTypeOK, LedgerOK
  <2> QED BY <1>4, <2>1, MoveFields DEF Moved, ValidateCandidate
<1> QED BY <1>1, <1>2, <1>3, <1>4, NextKeepsIInv DEF LedgerStep, Ticks, Kept

(* Only the two halves of an export change one.                            *)
LEMMA ExportSteps ==
    ASSUME ServerTypeOK, [ServerNext]_allVars
    PROVE  \/ exporting' = exporting
           \/ \E u \in Callers :
                 \/ ExportAnswer(u)
                 \/ \E j \in Jobs, a \in Contexts, c \in Candidates : ExportRead(u, c, j, a)
<1>1. ASSUME NEW s \in Workers,
             \/ StartStep(s) \/ CrashServer(s)
             \/ \E j \in Jobs, a \in Contexts : PutRequest(s, j, a)
      PROVE  exporting' = exporting
  BY <1>1 DEF StartStep, CreateJob, RollBack, Schedule, CrashServer, PutRequest
<1>2. ASSUME NEW s \in Workers, ThreadStep(s)
      PROVE  exporting' = exporting
  BY <1>2
  DEF ThreadStep, AskJob, FetchJob, NewWorker, BeginWork, Work, PublishExport, PublishManifest,
      EndWork, serverVars
<1> QED
  BY <1>1, <1>2
  DEF ServerNext, ToolCall, AskForJob, GetJob, CancelJob, RequestCancel, ExportLookup, ClockTicks,
      serverVars, allVars

LEMMA ExportStaysOK ==
    ASSUME ServerTypeOK, ExportOK, [ServerNext]_allVars
    PROVE  ExportOK'
<1> DEFINE E == [candidate : Candidates \cup {None}, job : Jobs \cup {None},
                 context : Contexts \cup {None}, given : BOOLEAN]
<1>1. exporting \in [Callers -> E]
  BY DEF ServerTypeOK
<1>2. CASE exporting' = exporting
  BY <1>2 DEF ExportOK
<1>3. ASSUME NEW u \in Callers, ExportAnswer(u)
      PROVE  ExportOK'
  <2>1. \/ exporting' = [exporting EXCEPT ![u] = NoExport]
        \/ exporting' = [exporting EXCEPT ![u] = [exporting[u] EXCEPT !.given = TRUE]]
    BY <1>3 DEF ExportAnswer
  <2>2. ASSUME NEW v \in Callers
        PROVE  \/ exporting'[v] = NoExport
               \/ /\ exporting'[v].job = exporting[v].job
                  /\ exporting'[v].context = exporting[v].context
                  /\ exporting'[v].candidate = exporting[v].candidate
    <3>1. exporting[v] \in E
      BY <1>1
    <3>2. exporting'[v] \in {NoExport, exporting[v], [exporting[v] EXCEPT !.given = TRUE]}
      BY <1>1, <2>1
    <3> QED BY <3>1, <3>2
  <2> QED BY <2>2 DEF ExportOK, NoExport
<1>4. ASSUME NEW u \in Callers, NEW j \in Jobs, NEW a \in Contexts, NEW c \in Candidates,
             ExportRead(u, c, j, a)
      PROVE  ExportOK'
  BY <1>1, <1>4 DEF ExportRead, ExportOK, NoExport
<1> QED BY <1>2, <1>3, <1>4, ExportSteps

(* A caller's lookup for an export goes on as it began.                    *)
LEMMA ExportLookupSteps ==
    ASSUME ServerTypeOK, [ServerNext]_allVars, NEW u \in Callers,
           Waiting(u)', lookup'[u] # NoLookup
    PROVE  \/ ExportLookup(u)
           \/ Waiting(u) /\ lookup'[u] = lookup[u] /\ exporting'[u] = exporting[u]
<1>1. /\ lookup \in [Workers \cup Callers -> LookupRow] /\ DOMAIN exporting = Callers
      /\ \A v \in Workers : v # u
  BY ServerAssumption DEF ServerTypeOK, RepositoryTypeOK, LookupRow
<1> DEFINE Goal == Waiting(u) /\ lookup'[u] = lookup[u] /\ exporting'[u] = exporting[u]
<1>2. ASSUME lookup'[u] = lookup[u], exporting'[u] = exporting[u]
      PROVE  Goal
  BY <1>2 DEF Waiting
<1>3. ASSUME NEW v \in Callers, GetJob(v) \/ CancelJob(v) \/ RequestCancel(v)
      PROVE  Goal
  <2>1. exporting' = exporting
    BY <1>3 DEF GetJob, CancelJob, RequestCancel, serverVars
  <2>2. v # u => lookup'[u] = lookup[u]
    BY <1>1, <1>3 DEF GetJob, CancelJob, RequestCancel, ReadRecord, tableVars
  <2>3. v = u => lookup'[u] = lookup[u]
    BY <1>1, <1>3 DEF GetJob, CancelJob, RequestCancel, ReadRecord, tableVars
  <2> QED BY <1>2, <2>1, <2>2, <2>3
<1>4. ASSUME NEW v \in Callers, ExportAnswer(v)
      PROVE  Goal
  BY <1>1, <1>2, <1>4 DEF ExportAnswer, ReadRecord
<1>5. ASSUME NEW v \in Callers, NEW j \in Jobs, NEW a \in Contexts, AskForJob(v, j, a)
      PROVE  Goal
  BY <1>1, <1>2, <1>5 DEF AskForJob, ReadRequest, Waiting, serverVars
<1>6. ASSUME NEW v \in Callers, ExportLookup(v), v # u
      PROVE  Goal
  BY <1>1, <1>2, <1>6 DEF ExportLookup, ReadRequest, serverVars
<1>7. ASSUME NEW v \in Callers, NEW j \in Jobs, NEW a \in Contexts, NEW c \in Candidates,
             ExportRead(v, c, j, a)
      PROVE  Goal
  BY <1>1, <1>2, <1>7 DEF ExportRead
<1>8. ASSUME NEW s \in Workers, ThreadStep(s)
      PROVE  Goal
  <2>1. exporting' = exporting
    BY <1>8
    DEF ThreadStep, AskJob, FetchJob, NewWorker, BeginWork, Work, PublishExport,
        PublishManifest, EndWork, serverVars
  <2>2. lookup'[u] = lookup[u]
    BY <1>1, <1>8
    DEF ThreadStep, AskJob, FetchJob, NewWorker, BeginWork, Work, PublishExport,
        PublishManifest, EndWork, ReadRequest, ReadRecord, tableVars
  <2> QED BY <1>2, <2>1, <2>2
<1>9. ASSUME NEW s \in Workers,
             \/ StartStep(s) \/ CrashServer(s)
             \/ \E j \in Jobs, a \in Contexts : PutRequest(s, j, a)
      PROVE  Goal
  <2>1. exporting' = exporting
    BY <1>9 DEF StartStep, CreateJob, RollBack, Schedule, CrashServer, PutRequest
  <2>2. lookup'[u] = lookup[u]
    BY <1>1, <1>9
    DEF StartStep, CreateJob, RollBack, Schedule, CrashServer, PutRequest, tableVars
  <2> QED BY <1>2, <2>1, <2>2
<1>10. ClockTicks \/ UNCHANGED allVars => Goal
  BY <1>2 DEF ClockTicks, tableVars, serverVars, allVars
<1> QED
  BY <1>3, <1>4, <1>5, <1>6, <1>7, <1>8, <1>9, <1>10 DEF ServerNext, ToolCall

(* What the lookup of an export that found its request may rely on: in the *)
(* tick in which it began the request is still there, or there is no room  *)
(* to create the job anew; later, a record and a request that are not      *)
(* younger than the lookup are those it began with.                        *)
Fresh(u) ==
    LET j == exporting[u].job IN
    lookup[u].at = now
    => \/ j \in Requested(now) /\ requests[j].context = exporting[u].context
       \/ CreateFull(j, now)

Own(u) ==
    LET j == exporting[u].job
        at == lookup[u].at
    IN  j \in Stored(Purge(at)) /\ jobs[j].created_at <= at /\ MadeBy(j, at)
        => requests[j].context = exporting[u].context

ExportLookupOK ==
    \A u \in Callers :
        Waiting(u) /\ lookup[u].found
        => lookup[u].job = exporting[u].job /\ Fresh(u) /\ Own(u)

(* The lookup begins.                                                      *)
LEMMA LookupBegins ==
    ASSUME ServerTypeOK, ExportOK, NEW u \in Callers, ExportLookup(u), lookup'[u].found
    PROVE  lookup'[u].job = exporting'[u].job /\ Fresh(u)' /\ Own(u)'
<1> DEFINE j == exporting[u].job
<1>1. lookup \in [Workers \cup Callers -> LookupRow]
  BY DEF ServerTypeOK, RepositoryTypeOK, LookupRow
<1>2. lookup'[u] = [job |-> j, at |-> now, found |-> RequestFound(j, exporting[u].context)]
  BY <1>1 DEF ExportLookup, ReadRequest
<1>3. j \in Jobs /\ exporting[u].context # None
  BY RepositoryAssumption DEF ExportLookup, Waiting, ExportOK
<1>4. exporting' = exporting /\ now' = now
  BY DEF ExportLookup, serverVars, vars
<1>5. requests' = RequestsPurged(now) /\ RequestsPurged(now)[j].context = exporting[u].context
  <2>1. RequestFound(j, exporting[u].context)
    BY <1>2
  <2> QED BY <2>1 DEF ExportLookup, ReadRequest, RequestFound
<1>6. requests'[j] # NoRequest /\ ~(requests'[j].expires_at <= now)
  BY <1>3, <1>5 DEF RequestsPurged, NoRequest
<1>7. (j \in Requested(now))'
  BY <1>3, <1>4, <1>6 DEF Requested, RequestsPurged
<1> QED BY <1>2, <1>4, <1>5, <1>7 DEF Fresh, Own

(* The lookup goes on, within its tick.                                    *)
LEMMA FreshStays ==
    ASSUME ServerTypeOK, IInv, Bounded, Bounded', RollbackOK, [ServerNext]_allVars,
           NEW u \in Callers, exporting[u].job \in Jobs, Fresh(u),
           lookup'[u] = lookup[u], exporting'[u] = exporting[u]
    PROVE  Fresh(u)'
<1> DEFINE j == exporting[u].job
<1> SUFFICES ASSUME lookup[u].at = now'
             PROVE  \/ (j \in Requested(now) /\ requests[j].context = exporting[u].context)'
                    \/ CreateFull(j, now)'
  BY DEF Fresh, CreateFull, Requested
<1>1. [Next]_vars /\ now \in Nat /\ lookup[u].at \in 0..now
  BY ServerStepImplements, LookupTyped, IInvParts DEF StoreTypeOK
<1>2. now' = now
  BY <1>1, NextKeepsIInv DEF LedgerStep, Ticks
<1>3. CASE CreateFull(j, now)
  BY <1>1, <1>2, <1>3, FullStays
<1>4. CASE j \in Requested(now) /\ requests[j].context = exporting[u].context /\ ~CreateFull(j, now)
  <2>1. RequestsPurged(now)[j] = requests[j] /\ requests[j] # NoRequest
    BY <1>4 DEF Requested, RequestsPurged
  <2>2. requests'[j] = requests[j]
    BY <1>4, <2>1, RequestSteps
  <2>3. (j \in Requested(now))'
    BY <1>2, <2>1, <2>2 DEF Requested, RequestsPurged, NoRequest
  <2> QED BY <1>4, <2>2, <2>3
<1> QED BY <1>2, <1>3, <1>4 DEF Fresh

(* The lookup goes on: what is made anew is younger.                       *)
LEMMA OwnStays ==
    ASSUME ServerTypeOK, IInv, Bounded, Bounded', RollbackOK, [ServerNext]_allVars,
           NEW u \in Callers, exporting[u].job \in Jobs, Fresh(u), Own(u), Fresh(u)',
           lookup'[u] = lookup[u], exporting'[u] = exporting[u]
    PROVE  Own(u)'
<1> DEFINE j == exporting[u].job
           at == lookup[u].at
<1> SUFFICES ASSUME j \in Stored(Purge(at))', jobs'[j].created_at <= at, MadeBy(j, at)'
             PROVE  requests'[j].context = exporting[u].context
  BY DEF Own, MadeBy, Stored, Purge
<1>1. [Next]_vars /\ now \in Nat /\ at \in 0..now /\ at \in Nat
  BY ServerStepImplements, LookupTyped, IInvParts DEF StoreTypeOK
<1>2. jobs'[j].status # "absent" /\ ~(jobs'[j].expires_at <= at)
  BY DEF Stored, Purge, NoRecord
(* A record that is created is as old as the lookup only in its tick, and  *)
(* then it is created beside the request the lookup found.                 *)
<1>3. CASE Created(j)
  <2>1. at = now /\ jobs'[j].expires_at = now + Ttl /\ now + Ttl > now
    BY <1>1, <1>3, CreatedRow, StoreAssumption
  <2>2. now' = now
    <3>1. jobs' # jobs
      BY <1>1, <1>2, <1>3, <2>1, RowInPurge DEF Created
    <3> QED BY <1>1, <3>1, NextKeepsIInv DEF LedgerStep, Ticks
  <2>3. ~CreateFull(j, now)'
    BY <1>2, <2>1, <2>2 DEF CreateFull, Stored, Purge
  <2> QED BY <2>1, <2>2, <2>3 DEF Fresh, Requested, CreateFull
<1>4. CASE Kept(j) \/ Moved(j) \/ jobs' = jobs
  <2>1. jobs'[j].created_at = jobs[j].created_at /\ jobs'[j].expires_at = jobs[j].expires_at
        /\ jobs[j].status # "absent"
    BY <1>2, <1>4, MovedRow DEF Kept, NoRecord
  <2>2. j \in Stored(Purge(at)) /\ jobs[j].created_at <= at
    BY <1>2, <2>1, RowInPurge
  <2>3. requests'[j] # NoRequest /\ requests'[j].expires_at <= at + Ttl
    BY DEF MadeBy
  <2>4. CASE requests'[j] = requests[j] \/ requests'[j] = RequestsPurged(now)[j]
    <3>1. requests'[j] = requests[j]
      BY <2>3, <2>4 DEF RequestsPurged
    <3> QED BY <2>2, <2>3, <3>1 DEF Own, MadeBy
  <2>5. CASE /\ j \notin Requested(now)
             /\ requests'[j].expires_at = now + Ttl
    <3>1. at = now
      BY <1>1, <2>3, <2>5, StoreAssumption
    <3>2. CreateFull(j, now)
      BY <2>5, <3>1 DEF Fresh
    <3> QED BY <2>2, <3>1, <3>2 DEF CreateFull
  <2> QED BY <2>3, <2>4, <2>5, RequestSteps
<1> QED BY <1>1, <1>3, <1>4, NextKeepsIInv DEF LedgerStep, Ticks

LEMMA ExportLookupStaysOK ==
    ASSUME ServerTypeOK, IInv, Bounded, Bounded', RollbackOK, ExportOK, ExportLookupOK,
           [ServerNext]_allVars
    PROVE  ExportLookupOK'
<1> SUFFICES ASSUME NEW u \in Callers, Waiting(u)', lookup'[u].found
             PROVE  lookup'[u].job = exporting'[u].job /\ Fresh(u)' /\ Own(u)'
  BY DEF ExportLookupOK
<1>1. lookup'[u] # NoLookup
  BY DEF NoLookup
<1>2. CASE ExportLookup(u)
  BY <1>2, LookupBegins
<1>3. CASE Waiting(u) /\ lookup'[u] = lookup[u] /\ exporting'[u] = exporting[u]
  <2>1. exporting[u].job \in Jobs
    BY <1>3 DEF Waiting, ExportOK
  <2>2. lookup[u].job = exporting[u].job /\ Fresh(u) /\ Own(u)
    BY <1>3 DEF ExportLookupOK
  <2>3. Fresh(u)'
    BY <1>3, <2>1, <2>2, FreshStays
  <2> QED BY <1>3, <2>1, <2>2, <2>3, OwnStays
<1> QED BY <1>1, <1>2, <1>3, ExportLookupSteps

LEMMA StepGivesGeometry ==
    ASSUME ServerTypeOK, IInv, CompletedOK, ExportOK, ExportLookupOK, [ServerNext]_allVars,
           NEW u \in Callers
    PROVE  GeometryFits(u)
<1> DEFINE E == [candidate : Candidates \cup {None}, job : Jobs \cup {None},
                 context : Contexts \cup {None}, given : BOOLEAN]
           e == exporting[u]
<1> SUFFICES ASSUME exporting'[u].given, ~e.given
             PROVE  GeometryFits(u)
  BY DEF GeometryFits
<1>1. exporting \in [Callers -> E] /\ e \in E
  BY DEF ServerTypeOK
<1>2. ASSUME NEW v \in Callers, NEW j \in Jobs, NEW a \in Contexts, NEW c \in Candidates,
             ExportRead(v, c, j, a)
      PROVE  FALSE
  BY <1>1, <1>2 DEF ExportRead, NoExport
<1>3. ExportAnswer(u) /\ MayExport(u)
  <2>1. PICK v \in Callers : ExportAnswer(v)
    BY <1>2, ExportSteps
  <2>2. v = u
    BY <1>1, <2>1 DEF ExportAnswer
  <2>3. MayExport(u)
    BY <1>1, <2>1, <2>2 DEF ExportAnswer, NoExport
  <2> QED BY <2>1, <2>2, <2>3
<1>4. exporting'[u].job = e.job /\ exporting'[u].context = e.context
      /\ exporting'[u].candidate = e.candidate
  <2>1. exporting'[u] = [e EXCEPT !.given = TRUE]
    BY <1>1, <1>3 DEF ExportAnswer
  <2> QED BY <1>1, <2>1
<1>5. Waiting(u) /\ lookup[u].found /\ e.job \in Jobs
  BY <1>3 DEF ExportAnswer, MayExport, RecordShown, Waiting, ExportOK
<1>6. lookup[u].job = e.job /\ Own(u)
  BY <1>5 DEF ExportLookupOK
<1>7. /\ e.job \in Stored(Purge(lookup[u].at))
      /\ jobs[e.job].status = "completed" /\ jobs[e.job].candidate_id = e.candidate
  BY <1>3, <1>6 DEF MayExport, RecordShown
<1>8. ValidateCandidate(e.candidate, e.job)
  BY <1>5, <1>7 DEF CompletedOK
<1> QED BY <1>4, <1>6, <1>7, <1>8 DEF GeometryFits, Own

(* Geometry is handed over only for a record that is completed with that   *)
(* very candidate and that had not expired when the caller's lookup began, *)
(* and, if record and request are not younger than the lookup, to the      *)
(* context that may see them: whatever expires, is cancelled, rolled back  *)
(* or created anew between the read of the artifact, the read of the       *)
(* request and the read of the record (docs/adr/0048:49).                  *)
THEOREM GeometryGoesToCompletedJob == ServerSpec => GeometryOnlyForCompletedJob
<1>1. ServerInit => CompletedOK /\ ExportOK /\ ExportLookupOK
  BY DEF ServerInit, Init, StoreInit, NoRecord, CompletedOK, ExportOK, NoExport, ExportLookupOK,
         Waiting
<1>2. ServerTypeOK /\ IInv /\ Bounded /\ Bounded' /\ RollbackOK
      /\ CompletedOK /\ ExportOK /\ ExportLookupOK /\ [ServerNext]_allVars
      => CompletedOK' /\ ExportOK' /\ ExportLookupOK'
  BY ServerStepImplements, CompletedStaysOK, ExportStaysOK, ExportLookupStaysOK
<1>3. ServerTypeOK /\ IInv /\ CompletedOK /\ ExportOK /\ ExportLookupOK /\ [ServerNext]_allVars
      => [\A u \in Callers : GeometryFits(u)]_allVars
  BY StepGivesGeometry
<1>4. ServerSpec => [](ServerTypeOK /\ IInv /\ CompletedOK /\ ExportOK /\ ExportLookupOK)
  BY <1>1, <1>2, AlwaysRollbackOK, PTL DEF ServerSpec
<1> QED BY <1>3, <1>4, PTL DEF ServerSpec, GeometryOnlyForCompletedJob
================================================================================
