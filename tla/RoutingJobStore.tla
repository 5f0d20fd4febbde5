---------------------------- MODULE RoutingJobStore ----------------------------
(***************************************************************************)
(* The SQLite ledger of routing-job records (jobs.py, RoutingJobStore).    *)
(* Every public method is one BEGIN IMMEDIATE transaction and therefore    *)
(* one atomic step of whoever calls it, in whichever process: the server   *)
(* opens the ledger under the workspace, so two servers share it.          *)
(*                                                                         *)
(* A method that raises rolls its transaction back, the purge included;    *)
(* get is the exception and commits the purge on a miss too.               *)
(***************************************************************************)
EXTENDS RoutingJobRecord, FiniteSets

CONSTANTS
    Ttl,         \* job record retention (ttl_ms)
    MaxRecords,  \* ledger capacity (max_records)
    MaxNow       \* bound on the clock, for TLC

ASSUME StoreAssumption ==
    /\ Ttl \in Nat \ {0}
    /\ MaxRecords \in Nat \ {0}
    /\ MaxNow \in Nat

VARIABLES
    jobs,  \* the ledger: job id -> record, NoRecord where there is no row
    now    \* wall-clock time, shared by the processes of one machine

(* Mutant of Purge: a record expires one tick early.                       *)
PurgeEarly(t) ==
    [j \in Jobs |-> IF jobs[j].expires_at <= t + 1 THEN NoRecord ELSE jobs[j]]

(* _purge_locked: DELETE ... WHERE expires_at_ms <= t                      *)
Purge(t) ==
    [j \in Jobs |-> IF jobs[j].expires_at <= t THEN NoRecord ELSE jobs[j]]

Stored(ledger) == {j \in Jobs : ledger[j].status # "absent"}

(* Mutant of CreateFull: the capacity check is off by one.                 *)
CreateOverfull(j, t) ==
    /\ j \notin Stored(Purge(t))
    /\ Cardinality(Stored(Purge(t))) > MaxRecords

(* RoutingJobStore.create: idempotent on the job id, bounded by capacity.  *)
(* Mutant of CreateFull: a repeat of a stored job counts as a new one.     *)
CreateFullRepeat(j, t) == Cardinality(Stored(Purge(t))) >= MaxRecords

CreateFull(j, t) ==
    /\ j \notin Stored(Purge(t))
    /\ Cardinality(Stored(Purge(t))) >= MaxRecords

(* Mutant of StoreCreate: an existing record is replaced, not returned.    *)
StoreUpsert(j, t) ==
    IF CreateFull(j, t)
    THEN UNCHANGED jobs
    ELSE jobs' = [Purge(t) EXCEPT ![j] = CreateRecord(t, Ttl)]

StoreCreate(j, t) ==
    IF CreateFull(j, t)
    THEN UNCHANGED jobs
    ELSE IF j \in Stored(Purge(t))
         THEN jobs' = Purge(t)
         ELSE jobs' = [Purge(t) EXCEPT ![j] = CreateRecord(t, Ttl)]

(* RoutingJobStore.get and purge: both commit the purge, hit or miss.      *)
StoreGet(t) == jobs' = Purge(t)

(* RoutingJobStore._transition.  Purging happens before the lookup, so an  *)
(* expired row is not found; the record's own revision and time checks run *)
(* again inside the operation.                                             *)
Current(j, expected, t) ==
    /\ j \in Stored(Purge(t))
    /\ MayTransition(Purge(t)[j], expected, t)

Write(j, t, r) == jobs' = [Purge(t) EXCEPT ![j] = r]

(* Each CAS method either commits its transition or leaves the ledger as   *)
(* it was and raises; the caller's next step depends on which.             *)
StartOK(j, expected, t) == Current(j, expected, t) /\ MayStart(jobs[j])
FailOK(j, code, expected, t) == Current(j, expected, t) /\ MayFail(jobs[j], code)
AcknowledgeOK(j, expected, t) == Current(j, expected, t) /\ MayAcknowledgeCancel(jobs[j])
RequestCancelOK(j, expected, t) == Current(j, expected, t) /\ MayRequestCancel(jobs[j])
CompleteOK(j, c, expected, t) ==
    /\ Current(j, expected, t)
    /\ MayComplete(jobs[j])
    /\ ValidateCandidate(c, j)

StoreStart(j, t) == Write(j, t, StartRecord(jobs[j], t))
StoreFail(j, code, t) == Write(j, t, FailRecord(jobs[j], code, t))
StoreAcknowledge(j, t) == Write(j, t, AcknowledgeCancelRecord(jobs[j], t))
StoreRequestCancel(j, t) == Write(j, t, RequestCancelRecord(jobs[j], t))
StoreComplete(j, c, t) == Write(j, t, CompleteRecord(jobs[j], c, t))

(* The clock the stores and workers read (time.time_ns); it only advances. *)
Tick ==
    /\ now < MaxNow
    /\ now' = now + 1

StoreTypeOK ==
    /\ jobs \in [Jobs -> Record]
    /\ now \in Nat

StoreInit ==
    /\ jobs = [j \in Jobs |-> NoRecord]
    /\ now = 0
================================================================================
