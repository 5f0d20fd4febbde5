------------------------- MODULE OptimizationRepository -------------------------
(***************************************************************************)
(* The SQLite repository of optimization jobs (optimization/repository.py).*)
(* Every method runs under BEGIN IMMEDIATE, in the server and in the       *)
(* isolated worker process alike, and is one atomic step.  Before its own  *)
(* transaction each method but cancellation_requested commits maintenance: *)
(* leases that are over close their jobs as interrupted, rows whose        *)
(* retention is over are deleted.  A method that then refuses leaves       *)
(* exactly the maintenance behind.                                         *)
(*                                                                         *)
(* Methods are written as the table they leave, so that a caller can       *)
(* compose them; time is the lapsing of leases and the ageing of rows.     *)
(***************************************************************************)
EXTENDS OptimizationRecord, FiniteSets

CONSTANT MaxRecords  \* capacity of the job table

ASSUME RepositoryAssumption == MaxRecords \in Nat \ {0}

VARIABLE rows  \* [Jobs -> Row]

Stored(table) == {j \in Jobs : table[j].status # "absent"}

(* Mutant of Stop: the package row of a stopped job is forgotten.          *)
StopKeeping(r, code) == [FailRecord(r, code) EXCEPT !.lease = "none", !.old = FALSE]

(* A transition that stops a job clears its lease and deletes its package. *)
Stop(r, code) ==
    [FailRecord(r, code) EXCEPT !.lease = "none", !.old = FALSE, !.package = None]

(* Mutant of Recover: a lease that is over only frees its job again.       *)
RecoverRequeue(r) == [r EXCEPT !.status = "queued", !.lease = "none"]

(* _recover_expired_leases_locked, on a row whose lease is over.           *)
Recover(r) ==
    IF r.status \in Terminal THEN [r EXCEPT !.lease = "none"] ELSE Stop(r, "interrupted")

(* _maintenance_locked: recovery resets the retention of what it closes,   *)
(* so that only rows without a lease are deleted.                          *)
Maintained ==
    [j \in Jobs |-> IF rows[j].lease = "lapsed" THEN Recover(rows[j])
                    ELSE IF rows[j].old /\ rows[j].lease = "none" THEN NoRow
                    ELSE rows[j]]

(* A committed write renews the row's retention.                           *)
Put(table, j, r) == [table EXCEPT ![j] = [r EXCEPT !.old = FALSE]]

(* create: idempotent on the job id, bounded by capacity.                  *)
CreateFull(table, j) ==
    /\ j \notin Stored(table)
    /\ Cardinality(Stored(table)) >= MaxRecords
Create(table, j) ==
    IF j \in Stored(table) THEN table ELSE Put(table, j, CreateRecord)

(* cancellation_requested: reads without maintenance.                      *)
Unavailable(j) ==
    \/ rows[j].status = "absent"
    \/ rows[j].old /\ rows[j].lease # "live"
CancellationRequested(j) == rows[j].status = "cancelled"

(* claim: the first holder of the only fence under which a job can run.    *)
MayClaim(j) == Maintained[j].status = "queued" /\ Maintained[j].lease # "live"
Claim(j) ==
    Put(Maintained, j, [AdvanceRecord(Maintained[j], "inspecting") EXCEPT
                           !.fence = @ + 1, !.lease = "live"])

(* _assert_lease_locked: fence, revision and time of the holder's lease.   *)
LeaseHeld(j, fence, revision) ==
    /\ Maintained[j].fence = fence
    /\ Maintained[j].revision = revision
    /\ Maintained[j].lease = "live"

(* heartbeat: the same lease, a later end, fresh retention.                *)
Heartbeat(j) == Put(Maintained, j, Maintained[j])

(* compare_and_swap under a lease.  What closes or publishes a job drops   *)
(* the lease; what closes it deletes the package, what publishes it        *)
(* inserts one.                                                            *)
SwapCharge(j) == Put(Maintained, j, ChargeRecord(Maintained[j]))
SwapAdvance(j, next) == Put(Maintained, j, AdvanceRecord(Maintained[j], next))
SwapFail(j, code) == Put(Maintained, j, Stop(Maintained[j], code))
SwapSelect(j, l) ==
    Put(Maintained, j, [SelectRecord(Maintained[j], l) EXCEPT
                           !.lease = "none",
                           !.package = IF @ = None THEN l ELSE @])

(* cancel: by revision, whoever holds a lease.                             *)
MayCancel(table, j, revision) == table[j].revision = revision /\ MayFail(table[j])
Cancel(table, j, code) == Put(table, j, Stop(table[j], code))

(* recover_interrupted, called for a job that awaits approval.             *)
RecoverInterrupted(table, j) ==
    IF table[j].status = "awaiting_approval" /\ table[j].lease # "live"
    THEN Put(table, j, Stop(table[j], "interrupted"))
    ELSE table

(* approve with complete=True: consent and completion in one write.        *)
MayApproveRow(table, j, l) ==
    table[j].lease = "none" /\ MayApprove(table[j], l) /\ table[j].package = l
Approve(table, j) ==
    Put(table, j, AdvanceRecord(ApproveRecord(table[j]), "completed"))
===============================================================================
