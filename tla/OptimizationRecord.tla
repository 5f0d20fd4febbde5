--------------------------- MODULE OptimizationRecord ---------------------------
(***************************************************************************)
(* The lifecycle of one optimization job (src/copper_mcp/optimization/     *)
(* lifecycle.py): its statuses, the phases each schema version passes      *)
(* through, and the pure transitions.  In the code a transition returns a  *)
(* new record or raises; here it is a state function on records beside a   *)
(* predicate that says when the code does not raise.                       *)
(*                                                                         *)
(* A package stands for its digest, its judge and its metrics: the record  *)
(* has all of them or none.  Resource usage keeps only whether a charge    *)
(* exhausts it, which is the caller's choice.                              *)
(***************************************************************************)
EXTENDS Naturals

CONSTANTS
    Jobs,      \* job ids: one per request and owner
    Launches,  \* executions a server submits, in order; a package names its own
    V2,        \* the jobs whose request has schema optimization/v2
    None       \* Python's None

ASSUME OptimizationAssumption ==
    /\ V2 \subseteq Jobs
    /\ Launches \subseteq Nat
    /\ None \notin Launches \cup Jobs

Working == {"inspecting", "placing", "routing", "judging", "repairing", "evaluating"}
Terminal ==
    {"completed", "cancelled", "stale_revision", "budget_exhausted",
     "unsupported_geometry", "backend_failure", "failed"}
Selected == {"awaiting_approval", "approved", "completed"}
Status == {"queued"} \cup Working \cup Selected \cup Terminal

FailureCode ==
    (Terminal \ {"completed", "failed"}) \cup
    {"judge_failed", "required_domain_inconclusive", "invalid_candidate", "interrupted"}

(***************************************************************************)
(* A row of the two tables under one job id: the record, the retention and *)
(* lease columns, and the row of the package table.  A lease column is     *)
(* NULL, a time to come or a time that has passed; `old' says that         *)
(* expires_at_ms has passed.  NoRow is the absent row.                     *)
(***************************************************************************)
NoRow ==
    [status |-> "absent", revision |-> 0, failure_code |-> "none",
     package_digest |-> None, receipt |-> FALSE,
     fence |-> 0, lease |-> "none", old |-> FALSE, package |-> None]

Row ==
    [status : Status \cup {"absent"}, revision : Nat,
     failure_code : FailureCode \cup {"none"},
     package_digest : Launches \cup {None}, receipt : BOOLEAN,
     fence : Nat, lease : {"none", "live", "lapsed"}, old : BOOLEAN,
     package : Launches \cup {None}]

(* _TRANSITIONS and the edges that version 2 replaces.                     *)
NextStatus(j, status) ==
    CASE status = "queued" -> {"inspecting"}
      [] status = "inspecting" -> {"placing"}
      [] status = "placing" -> IF j \in V2 THEN {"evaluating"} ELSE {"routing"}
      [] status = "routing" -> {"judging"}
      [] status = "judging" -> {"repairing", "awaiting_approval"}
      [] status = "repairing" -> {"routing"}
      [] status = "evaluating" -> {"awaiting_approval"}
      [] status = "approved" -> {"completed"}
      [] OTHER -> {}

(* record_invariants: what each status requires of the other fields.       *)
ShapeOK(r) ==
    /\ (r.failure_code # "none") <=> (r.status \in Terminal \ {"completed"})
    /\ r.status \in Terminal \ {"completed", "failed"} => r.failure_code = r.status
    /\ (r.package_digest # None) <=> (r.status \in Selected)
    /\ r.receipt <=> (r.status \in {"approved", "completed"})

(* create_job *)
CreateRecord == [NoRow EXCEPT !.status = "queued"]

(* Mutant of FailRecord: the selection of a stopped job stays.             *)
FailSelected(r, code) ==
    [r EXCEPT !.revision = @ + 1,
              !.status = IF code \in Terminal THEN code ELSE "failed",
              !.failure_code = code]

(* fail_job refuses a terminal record; _failed drops the selection.        *)
MayFail(r) == r.status \notin Terminal \cup {"absent"}
FailRecord(r, code) ==
    [r EXCEPT !.revision = @ + 1,
              !.status = IF code \in Terminal THEN code ELSE "failed",
              !.failure_code = code, !.package_digest = None, !.receipt = FALSE]

(* A charge within the same phase, or no change but the comparison.        *)
ChargeRecord(r) == [r EXCEPT !.revision = @ + 1]

(* advance_job on an unchanged board with budget left.                     *)
MayAdvance(j, r, next) == next \in NextStatus(j, r.status)
AdvanceRecord(r, next) == [r EXCEPT !.revision = @ + 1, !.status = next]
SelectRecord(r, l) ==
    [r EXCEPT !.revision = @ + 1, !.status = "awaiting_approval", !.package_digest = l]

(* approve_job, which persists consent, and the completing advance_job.    *)
MayApprove(r, l) == r.status = "awaiting_approval" /\ r.package_digest = l
ApproveRecord(r) == [r EXCEPT !.revision = @ + 1, !.status = "approved", !.receipt = TRUE]
===============================================================================
