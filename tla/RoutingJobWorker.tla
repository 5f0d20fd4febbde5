--------------------------- MODULE RoutingJobWorker ---------------------------
(***************************************************************************)
(* Workers executing routing jobs through the shared ledger                *)
(* (src/copper_mcp/routing/job_worker.py), with the callers that create,   *)
(* look up and cancel jobs beside them (routing_job_service.py).           *)
(*                                                                         *)
(* A worker is one RoutingJobWorker object in some server process.  It     *)
(* shares nothing with the others but the ledger and the clock, so a step  *)
(* is one SQLite transaction, or one run of code between two of them: the  *)
(* program counter names the transaction that comes next.  Anything may    *)
(* happen between two steps: another worker, a caller, a tick, a crash.    *)
(*                                                                         *)
(* claim and recover_expired read the clock once and use that value in     *)
(* every later call, so the model keeps it; a lookup's value is as old as  *)
(* the lookup; the other methods read it afresh for each transaction.      *)
(***************************************************************************)
EXTENDS RoutingJobStore

CONSTANTS
    Workers,        \* worker objects, in any number of server processes
    Callers,        \* clients of cancel_routing_job
    Lease,          \* Lease[j]: the lease of job j, min(30 s, max_runtime_ms)
    ExecutorCodes,  \* failure codes the executor may raise
    Crashable       \* the workers whose process may die

ASSUME WorkerAssumption ==
    /\ None \notin Jobs
    /\ Lease \in [Jobs -> Nat \ {0}]
    /\ ExecutorCodes \subseteq FailureCode \ {"cancelled"}
    /\ Crashable \subseteq Workers

VARIABLES
    pc,      \* what each worker does next
    seen,    \* the last record a worker read, and the clock value it captured
    lease,   \* _active: the lease a worker holds; born is a ghost (see below)
    result,  \* what the executor or the publication hook handed back
    cancel   \* a caller's cancellation between its lookup and its CAS

vars == <<jobs, now, pc, seen, lease, result, cancel>>

(* born is the creation time of the record that was claimed: no code reads *)
(* it.  It tells a record from a later one under the same job id.          *)
NoLease == [job |-> None, revision |-> 0, until |-> 0, born |-> 0]
NotSeen == [job |-> None, at |-> 0, status |-> "absent", revision |-> 0]
NoResult == [code |-> "none", candidate |-> None]
NoCancel == [job |-> None, revision |-> 0]

Claiming == {"claim", "recover", "start", "close"}
Executing == {"executing", "fail_probe", "fail_cas", "stop_read", "stop_write",
              "done_probe", "check", "publish", "final_probe", "complete",
              "race_read", "race_ack"}
PC == {"idle", "down"} \cup Claiming \cup Executing

Active(w) == lease[w].job # None

LeaseRecord == [job : Jobs \cup {None}, revision : Nat, until : Nat, born : Nat]
SeenRecord == [job : Jobs \cup {None}, at : Nat,
               status : Status \cup {"absent"}, revision : Nat]
ResultRecord == [code : FailureCode \cup {"none"}, candidate : Candidates \cup {None}]
CancelRecord == [job : Jobs, revision : Nat] \cup {NoCancel}

(* Mutant of MessageCodes: the commonest failure has no message either.    *)
MessageCodesFewer == FailureCode \ {"obstacle_check_budget_exceeded", "no_path"}

(* The codes _failure_message has a message for; the others raise KeyError *)
(* inside the except clause that handles the executor's failure.           *)
MessageCodes == FailureCode \ {"obstacle_check_budget_exceeded"}

-----------------------------------------------------------------------------
(* Callers.                                                                *)

Submit(j) ==
    /\ StoreCreate(j, now)
    /\ UNCHANGED <<now, pc, seen, lease, result, cancel>>

(* get_routing_job, or any other lookup: the ledger is purged, as of the   *)
(* time t at which the lookup started.                                     *)
Observe(t) ==
    /\ StoreGet(t)
    /\ UNCHANGED <<now, pc, seen, lease, result, cancel>>

(* cancel_routing_job reads the record's revision in one transaction and   *)
(* requests the cancellation in another; a record that changed in between  *)
(* makes the request raise.                                                *)
CancelLookup(c, j, t) ==
    /\ cancel[c] = NoCancel
    /\ j \in Stored(Purge(t))
    /\ StoreGet(t)
    /\ cancel' = [cancel EXCEPT ![c] = [job |-> j, revision |-> jobs[j].revision]]
    /\ UNCHANGED <<now, pc, seen, lease, result>>

CancelCas(c) ==
    /\ cancel[c] # NoCancel
    /\ LET j == cancel[c].job IN
           IF RequestCancelOK(j, cancel[c].revision, now)
           THEN StoreRequestCancel(j, now)
           ELSE UNCHANGED jobs
    /\ cancel' = [cancel EXCEPT ![c] = NoCancel]
    /\ UNCHANGED <<now, pc, seen, lease, result>>

-----------------------------------------------------------------------------
(* Claim and recovery.                                                     *)

Go(w, label) == pc' = [pc EXCEPT ![w] = label]

See(w, j, t) ==
    seen' = [seen EXCEPT ![w] = [job |-> j, at |-> t, status |-> jobs[j].status,
                                 revision |-> jobs[j].revision]]

(* The call returns or raises, and the worker forgets its locals.          *)
Finish(w) ==
    /\ Go(w, "idle")
    /\ seen' = [seen EXCEPT ![w] = NotSeen]
    /\ result' = [result EXCEPT ![w] = NoResult]

(* self._active = None on the way out.                                     *)
Release(w) ==
    /\ Finish(w)
    /\ lease' = [lease EXCEPT ![w] = NoLease]

(* claim refuses while the worker holds a lease; recover_expired does not. *)
CallClaim(w, j, label) ==
    /\ pc[w] = "idle"
    /\ label = "claim" => ~Active(w)
    /\ Go(w, label)
    /\ seen' = [seen EXCEPT ![w] =
           [job |-> j, at |-> now, status |-> "absent", revision |-> 0]]
    /\ UNCHANGED <<jobs, now, lease, result, cancel>>

(* Mutant of LeaseOver: the lease ends one tick early.                     *)
LeaseOverEarly(j, t) == t + 1 >= jobs[j].updated_at + Lease[j]

(* A record nobody has touched for a whole lease belongs to no live worker. *)
LeaseOver(j, t) == t >= jobs[j].updated_at + Lease[j]

(* A running or cancelling record is closed once it has not changed for a  *)
(* whole lease; only claim takes a queued one.                             *)
ClaimRead(w) ==
    LET j == seen[w].job
        t == seen[w].at
        orphan == jobs[j].status \in {"running", "cancel_requested"} /\ LeaseOver(j, t)
        mine == pc[w] = "claim" /\ jobs[j].status = "queued"
    IN  /\ pc[w] \in {"claim", "recover"}
        /\ StoreGet(t)
        /\ IF j \in Stored(Purge(t)) /\ (orphan \/ mine)
           THEN /\ Go(w, IF mine THEN "start" ELSE "close")
                /\ See(w, j, t)
                /\ UNCHANGED result
           ELSE Finish(w)
        /\ UNCHANGED <<now, lease, cancel>>

CloseOrphan(w) ==
    LET j == seen[w].job
        t == seen[w].at
        rev == seen[w].revision
    IN  /\ pc[w] = "close"
        /\ CASE seen[w].status = "running" /\ FailOK(j, "worker_error", rev, t)
                  -> StoreFail(j, "worker_error", t)
             [] seen[w].status = "cancel_requested" /\ AcknowledgeOK(j, rev, t)
                  -> StoreAcknowledge(j, t)
             [] OTHER -> UNCHANGED jobs
        /\ Finish(w)
        /\ UNCHANGED <<now, lease, cancel>>

Start(w) ==
    LET j == seen[w].job
        t == seen[w].at
    IN  /\ pc[w] = "start"
        /\ IF StartOK(j, seen[w].revision, t)
           THEN /\ StoreStart(j, t)
                /\ lease' = [lease EXCEPT ![w] =
                       [job |-> j, revision |-> seen[w].revision + 1,
                        until |-> t + Lease[j], born |-> jobs[j].created_at]]
                /\ Go(w, "executing")
                /\ seen' = [seen EXCEPT ![w] = NotSeen]
                /\ UNCHANGED result
           ELSE /\ Finish(w)
                /\ UNCHANGED <<jobs, lease>>
        /\ UNCHANGED <<now, cancel>>

-----------------------------------------------------------------------------
(* Execution.                                                              *)

(* CancellationProbe.is_cancelled: true once the lease is over, when the   *)
(* job is gone, and when a caller asked for its cancellation.              *)
IsCancelled(w) ==
    LET j == lease[w].job IN
        \/ now >= lease[w].until
        \/ j \notin Stored(Purge(now))
        \/ jobs[j].status \in {"cancel_requested", "cancelled"}

Probe(w) ==
    IF now >= lease[w].until THEN UNCHANGED jobs ELSE StoreGet(now)

(* Mutant of ProbeThen: the lease is dropped as soon as it is over.        *)
ProbeDropsLease(w, label) ==
    /\ Probe(w)
    /\ Go(w, IF IsCancelled(w) THEN "stop_read" ELSE label)
    /\ lease' = IF IsCancelled(w) THEN [lease EXCEPT ![w] = NoLease] ELSE lease
    /\ UNCHANGED <<now, seen, result, cancel>>

(* Every path that probes goes to _cancel_or_expire when told to stop.     *)
ProbeThen(w, label) ==
    /\ Probe(w)
    /\ Go(w, IF IsCancelled(w) THEN "stop_read" ELSE label)
    /\ UNCHANGED <<now, seen, lease, result, cancel>>

ExecutorReturns(w, c) ==
    /\ pc[w] = "executing"
    /\ Go(w, "done_probe")
    /\ result' = [result EXCEPT ![w].candidate = c]
    /\ UNCHANGED <<jobs, now, seen, lease, cancel>>

(* RoutingJobExecutionError.  The message is looked up before anything     *)
(* else; without one the KeyError leaves execute, the lease still held.    *)
ExecutorRaises(w, code) ==
    /\ pc[w] = "executing"
    /\ IF code \in MessageCodes
       THEN /\ Go(w, "fail_probe")
            /\ result' = [result EXCEPT ![w].code = code]
            /\ UNCHANGED seen
       ELSE Finish(w)
    /\ UNCHANGED <<jobs, now, lease, cancel>>

(* TimeoutError, or any exception that is not a routing one.               *)
ExecutorBreaks(w, code) ==
    /\ pc[w] = "executing"
    /\ Go(w, "fail_probe")
    /\ result' = [result EXCEPT ![w].code = code]
    /\ UNCHANGED <<jobs, now, seen, lease, cancel>>

(* RoutingJobCancelledError, which the executor may raise at any time.     *)
ExecutorStops(w) ==
    /\ pc[w] = "executing"
    /\ Go(w, "stop_read")
    /\ UNCHANGED <<jobs, now, seen, lease, result, cancel>>

(* _fail_or_cancel                                                         *)
FailProbe(w) == pc[w] = "fail_probe" /\ ProbeThen(w, "fail_cas")

FailCas(w) ==
    LET j == lease[w].job
        code == result[w].code
    IN  /\ pc[w] = "fail_cas"
        /\ IF FailOK(j, code, lease[w].revision, now)
           THEN StoreFail(j, code, now)
           ELSE UNCHANGED jobs
        /\ Release(w)
        /\ UNCHANGED <<now, cancel>>

(* _cancel_or_expire                                                       *)
StopRead(w) ==
    LET j == lease[w].job IN
    /\ pc[w] = "stop_read"
    /\ StoreGet(now)
    /\ IF j \in Stored(Purge(now))
       THEN /\ Go(w, "stop_write")
            /\ See(w, j, now)
            /\ UNCHANGED <<lease, result>>
       ELSE Release(w)
    /\ UNCHANGED <<now, cancel>>

(* A record that is no longer running is returned as it is once the lease  *)
(* is over; before that it is failed, which the store refuses.             *)
StopWrite(w) ==
    LET j == lease[w].job
        rev == seen[w].revision
        asked == seen[w].status = "cancel_requested"
        fails == ~asked /\ (seen[w].status = "running" \/ now < lease[w].until)
    IN  /\ pc[w] = "stop_write"
        /\ CASE asked /\ AcknowledgeOK(j, rev, now) -> StoreAcknowledge(j, now)
             [] fails /\ FailOK(j, "worker_error", rev, now)
                  -> StoreFail(j, "worker_error", now)
             [] OTHER -> UNCHANGED jobs
        /\ Release(w)
        /\ UNCHANGED <<now, cancel>>

(* The candidate's way to publication.                                     *)
DoneProbe(w) == pc[w] = "done_probe" /\ ProbeThen(w, "check")

Check(w) ==
    LET j == lease[w].job
        eligible == jobs[j].status = "running" /\ jobs[j].revision = lease[w].revision
    IN  /\ pc[w] = "check"
        /\ StoreGet(now)
        /\ IF j \in Stored(Purge(now))
           THEN /\ Go(w, IF eligible THEN "publish" ELSE "race_read")
                /\ UNCHANGED <<seen, lease, result>>
           ELSE Release(w)
        /\ UNCHANGED <<now, cancel>>

(* before_complete: it stores the candidate's artifacts, or fails.         *)
PublishArtifacts(w) ==
    /\ pc[w] = "publish"
    /\ Go(w, "final_probe")
    /\ UNCHANGED <<jobs, now, seen, lease, result, cancel>>

PublishFails(w, code) ==
    /\ pc[w] = "publish"
    /\ Go(w, "fail_probe")
    /\ result' = [result EXCEPT ![w].code = code]
    /\ UNCHANGED <<jobs, now, seen, lease, cancel>>

FinalProbe(w) == pc[w] = "final_probe" /\ ProbeThen(w, "complete")

(* The completion CAS: a lost race is resolved, a record that is gone or a *)
(* candidate that does not fit its job becomes invalid_request.            *)
Complete(w) ==
    LET j == lease[w].job
        c == result[w].candidate
        rev == lease[w].revision
        raced == /\ j \in Stored(Purge(now))
                 /\ jobs[j].status # "running" \/ jobs[j].revision # rev
    IN  /\ pc[w] = "complete"
        /\ \/ /\ CompleteOK(j, c, rev, now)
              /\ StoreComplete(j, c, now)
              /\ Release(w)
           \/ /\ raced
              /\ Go(w, "race_read")
              /\ UNCHANGED <<jobs, seen, lease, result>>
           \/ /\ ~CompleteOK(j, c, rev, now) /\ ~raced
              /\ Go(w, "fail_probe")
              /\ result' = [result EXCEPT ![w].code = "invalid_request"]
              /\ UNCHANGED <<jobs, seen, lease>>
        /\ UNCHANGED <<now, cancel>>

(* _resolve_publish_race                                                   *)
RaceRead(w) ==
    LET j == lease[w].job IN
    /\ pc[w] = "race_read"
    /\ StoreGet(now)
    /\ IF j \in Stored(Purge(now)) /\ jobs[j].status = "cancel_requested"
       THEN /\ Go(w, "race_ack")
            /\ See(w, j, now)
            /\ UNCHANGED <<lease, result>>
       ELSE Release(w)
    /\ UNCHANGED <<now, cancel>>

RaceAck(w) ==
    LET j == lease[w].job IN
    /\ pc[w] = "race_ack"
    /\ IF AcknowledgeOK(j, seen[w].revision, now)
       THEN StoreAcknowledge(j, now)
       ELSE UNCHANGED jobs
    /\ Release(w)
    /\ UNCHANGED <<now, cancel>>

-----------------------------------------------------------------------------
(* A process dies and takes its workers with it; the ledger stays.         *)
Crash(w) ==
    /\ w \in Crashable
    /\ pc[w] # "down"
    /\ Go(w, "down")
    /\ seen' = [seen EXCEPT ![w] = NotSeen]
    /\ result' = [result EXCEPT ![w] = NoResult]
    /\ lease' = [lease EXCEPT ![w] = NoLease]
    /\ UNCHANGED <<jobs, now, cancel>>

Restart(w) ==
    /\ pc[w] = "down"
    /\ Go(w, "idle")
    /\ UNCHANGED <<jobs, now, seen, lease, result, cancel>>

TimePasses == Tick /\ UNCHANGED <<jobs, pc, seen, lease, result, cancel>>

Init ==
    /\ StoreInit
    /\ pc = [w \in Workers |-> "idle"]
    /\ seen = [w \in Workers |-> NotSeen]
    /\ lease = [w \in Workers |-> NoLease]
    /\ result = [w \in Workers |-> NoResult]
    /\ cancel = [c \in Callers |-> NoCancel]

CallerStep ==
    \/ \E j \in Jobs : Submit(j)
    \/ \E t \in 0..now : Observe(t)
    \/ \E c \in Callers, j \in Jobs, t \in 0..now : CancelLookup(c, j, t)
    \/ \E c \in Callers : CancelCas(c)

ExecutorStep(w) ==
    \/ \E c \in Candidates : ExecutorReturns(w, c)
    \/ \E code \in ExecutorCodes : ExecutorRaises(w, code)
    \/ \E code \in {"search_budget_exceeded", "worker_error"} : ExecutorBreaks(w, code)
    \/ ExecutorStops(w)

(* What a worker goes on to do by itself once it has been called.          *)
Progress(w) ==
    \/ ClaimRead(w) \/ CloseOrphan(w) \/ Start(w)
    \/ ExecutorStep(w)
    \/ FailProbe(w) \/ FailCas(w)
    \/ StopRead(w) \/ StopWrite(w)
    \/ DoneProbe(w) \/ Check(w)
    \/ PublishArtifacts(w)
    \/ \E code \in {"invalid_request", "worker_error"} : PublishFails(w, code)
    \/ FinalProbe(w) \/ Complete(w)
    \/ RaceRead(w) \/ RaceAck(w)

WorkerStep(w) ==
    \/ \E j \in Jobs, label \in {"claim", "recover"} : CallClaim(w, j, label)
    \/ Progress(w)
    \/ Crash(w) \/ Restart(w)

Next ==
    \/ CallerStep
    \/ \E w \in Workers : WorkerStep(w)
    \/ TimePasses

Spec == Init /\ [][Next]_vars
===============================================================================
