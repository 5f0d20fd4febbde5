--------------------------- MODULE OptimizationWorker ---------------------------
(***************************************************************************)
(* The isolated worker process of one launch: optimization/worker.py       *)
(* (execute_optimization_job and its probe) driven by the coordinators of  *)
(* optimization/coordinator.py and evaluation_v2.py, under the guardian of *)
(* optimization/_process_guard.py.  The process claims its job, charges    *)
(* the time spent before the claim, and runs a callback that checkpoints,  *)
(* advances and charges under the lease until it publishes a package or    *)
(* fails; then it answers its supervisor, or ends without an answer.       *)
(*                                                                         *)
(* A checkpoint is a heartbeat and a read that only the lease's holder can *)
(* tell from one step: whatever stops the second would have stopped the    *)
(* first.  A checkpoint and the write it guards stay two steps.            *)
(***************************************************************************)
EXTENDS OptimizationRepository

CONSTANTS
    WorkerCodes,  \* the failure codes a coordinator raises
    MaxCharges    \* bound on charges within a launch, for TLC

ASSUME WorkerAssumption ==
    /\ WorkerCodes \subseteq FailureCode \ {"cancelled", "interrupted"}
    /\ MaxCharges \in Nat

VARIABLES
    child,   \* [Launches -> the process, its lease and what it will answer]
    overdue  \* the launches whose absolute deadline has passed

NoAnswer == [status |-> "absent", revision |-> 0]
Answer(r) == [status |-> r.status, revision |-> r.revision]

NoChild ==
    [pc |-> "unborn", job |-> None, fence |-> 0, revision |-> 0,
     charges |-> 0, code |-> "none", answer |-> NoAnswer]

Child ==
    [pc : {"unborn", "claiming", "claimed", "working", "writing", "failing",
           "charged", "answered", "crashed", "dead"},
     job : Jobs \cup {None}, fence : Nat, revision : Nat,
     charges : Nat, code : FailureCode \cup {"none"},
     answer : [status : Status \cup {"absent"}, revision : Nat]]

Alive(l) == child[l].pc \notin {"unborn", "crashed", "dead"}

(* The lease of a launch as the repository sees it.                        *)
HoldsLease(l) == LeaseHeld(child[l].job, child[l].fence, child[l].revision)

MoveTo(l, pc) == child' = [child EXCEPT ![l].pc = pc]

(* The end of a process: of what it knew only its lease's fence remains,   *)
(* in the repository.                                                      *)
Ended(l, pc) ==
    child' = [child EXCEPT ![l] = [NoChild EXCEPT !.pc = pc, !.job = child[l].job,
                                                  !.fence = child[l].fence]]
Kill(l) == Ended(l, "dead")

(* The stored record becomes the answer; without a row there is none.      *)
AnswerCurrent(l) ==
    LET r == Maintained[child[l].job]
    IN  IF r.status = "absent"
        THEN Ended(l, "crashed")
        ELSE child' = [child EXCEPT ![l].pc = "answered", ![l].answer = Answer(r),
                                    ![l].code = "none"]

(* A write under the lease; its holder learns the new revision.            *)
WriteUnderLease(l, table, pc) ==
    LET j == child[l].job
    IN  /\ rows' = table
        /\ child' = [child EXCEPT ![l].pc = pc, ![l].revision = table[j].revision,
                                  ![l].answer = IF pc = "answered" THEN Answer(table[j])
                                                ELSE NoAnswer]

FailWith(l, code) == child' = [child EXCEPT ![l].pc = "failing", ![l].code = code]

(* The claim at the start of execute_optimization_job: whoever does not    *)
(* get the lease ends without an answer.                                   *)
ClaimJob(l) ==
    LET j == child[l].job
    IN  /\ child[l].pc = "claiming"
        /\ IF MayClaim(j)
           THEN /\ rows' = Claim(j)
                /\ child' = [child EXCEPT
                     ![l].fence = Claim(j)[j].fence,
                     ![l].revision = Claim(j)[j].revision,
                     ![l].code = IF l \in overdue THEN "budget_exhausted" ELSE "none",
                     ![l].pc = IF l \in overdue THEN "failing" ELSE "claimed"]
           ELSE rows' = Maintained /\ Ended(l, "crashed")
        /\ UNCHANGED overdue

(* The charge for the time before the claim, outside the handlers: a stop  *)
(* here ends the process.                                                  *)
ChargeInitial(l) ==
    LET j == child[l].job
    IN  /\ child[l].pc = "claimed"
        /\ \/ /\ l \notin overdue /\ HoldsLease(l)
              /\ \/ WriteUnderLease(l, SwapCharge(j), "working")
                 \/ WriteUnderLease(l, SwapFail(j, "budget_exhausted"), "answered")
           \/ /\ l \in overdue
              /\ rows' = rows /\ Ended(l, "crashed")
           \/ /\ l \notin overdue /\ ~HoldsLease(l)
              /\ rows' = Maintained /\ Ended(l, "crashed")
        /\ UNCHANGED overdue

(* OptimizationExecutionProbe.checkpoint: out of time, renewed, or stopped *)
(* by whoever took the job over.                                           *)
Checkpoint(l) ==
    /\ child[l].pc = "working"
    /\ IF l \in overdue
       THEN rows' = rows /\ FailWith(l, "budget_exhausted")
       ELSE IF HoldsLease(l)
            THEN rows' = Heartbeat(child[l].job) /\ MoveTo(l, "writing")
            ELSE rows' = Maintained /\ AnswerCurrent(l)
    /\ UNCHANGED overdue

(* An optimization error at a write: a closed job is the answer, an open   *)
(* one is failed as invalid.                                               *)
WriteRefused(l) ==
    LET r == Maintained[child[l].job]
    IN  /\ rows' = Maintained
        /\ IF r.status \in Terminal \cup {"absent"}
           THEN AnswerCurrent(l)
           ELSE FailWith(l, "invalid_candidate")

(* _commit_same_phase and record_comparison, within budget or not.         *)
Reserve(l) ==
    LET j == child[l].job
    IN  /\ child[l].pc = "writing"
        /\ child[l].charges < MaxCharges
        /\ IF HoldsLease(l)
           THEN /\ rows' \in {SwapCharge(j), SwapFail(j, "budget_exhausted")}
                /\ child' = [child EXCEPT ![l].pc = "working", ![l].charges = @ + 1,
                                          ![l].revision = rows'[j].revision]
           ELSE WriteRefused(l)
        /\ UNCHANGED overdue

(* advance, to the next phase of the coordinator or out of budget.         *)
AdvancePhase(l) ==
    LET j == child[l].job
    IN  /\ child[l].pc = "writing"
        /\ \E next \in NextStatus(j, Maintained[j].status) \cup {"budget_exhausted"} :
              /\ next \notin {"inspecting", "awaiting_approval", "repairing"}
              /\ IF HoldsLease(l)
                 THEN WriteUnderLease(l, IF next = "budget_exhausted"
                                         THEN SwapFail(j, next) ELSE SwapAdvance(j, next),
                                      "working")
                 ELSE WriteRefused(l)
        /\ UNCHANGED overdue

(* _finish_package: a reviewable package is published with its record, any *)
(* other is classified and closes the job.                                 *)
Publish(l) ==
    LET j == child[l].job
    IN  /\ child[l].pc = "writing"
        /\ "awaiting_approval" \in NextStatus(j, Maintained[j].status) \/ ~HoldsLease(l)
        /\ IF HoldsLease(l)
           THEN \/ WriteUnderLease(l, SwapSelect(j, l), "answered")
                \/ \E code \in {"judge_failed", "budget_exhausted"} :
                      WriteUnderLease(l, SwapFail(j, code), "answered")
           ELSE WriteRefused(l)
        /\ UNCHANGED overdue

(* The coordinator gives up.                                               *)
GiveUp(l) ==
    /\ child[l].pc \in {"working", "writing"}
    /\ \E code \in WorkerCodes : FailWith(l, code)
    /\ UNCHANGED <<rows, overdue>>

(* _fail: the time since the last charge, when there is any, and then the  *)
(* failure; a lost lease leaves the current record as the answer.          *)
ChargeFailure(l) ==
    LET j == child[l].job
    IN  /\ child[l].pc = "failing"
        /\ HoldsLease(l)
        /\ \/ WriteUnderLease(l, SwapCharge(j), "charged")
           \/ WriteUnderLease(l, SwapFail(j, "budget_exhausted"), "answered")
        /\ UNCHANGED overdue

Fail(l) ==
    /\ child[l].pc \in {"failing", "charged"}
    /\ IF HoldsLease(l)
       THEN WriteUnderLease(l, SwapFail(child[l].job, child[l].code), "answered")
       ELSE rows' = Maintained /\ AnswerCurrent(l)
    /\ UNCHANGED overdue

(* The process ends without an answer: an unexpected error, a signal, or   *)
(* the guardian's watchdog after the deadline.                             *)
Crash(l) ==
    /\ Alive(l)
    /\ Ended(l, "crashed")
    /\ UNCHANGED <<rows, overdue>>

ChildStep(l) ==
    \/ ClaimJob(l) \/ ChargeInitial(l) \/ Checkpoint(l) \/ Reserve(l)
    \/ AdvancePhase(l) \/ Publish(l) \/ GiveUp(l) \/ ChargeFailure(l) \/ Fail(l)
    \/ Crash(l)

(* Time: a deadline passes while somebody may still run the launch, and a  *)
(* lease, whose end is the deadline of its holder, passes after it.        *)
LeaseLapses(j) ==
    /\ rows[j].lease = "live"
    /\ \E l \in overdue : child[l].job = j /\ child[l].fence = rows[j].fence
    /\ rows' = [rows EXCEPT ![j].lease = "lapsed"]
    /\ UNCHANGED <<child, overdue>>
===============================================================================
