--------------------------- MODULE RoutingJobRecord ---------------------------
(***************************************************************************)
(* The revision-safe record of one durable routing job                     *)
(* (src/copper_mcp/routing/jobs.py, class RoutingJobRecord): the statuses  *)
(* it passes through, the shape each status demands, and the transition    *)
(* functions.  A record is immutable in the code; a transition returns a   *)
(* new record whose revision is one higher, or raises.  Here a transition  *)
(* is a state function on records together with a predicate that says      *)
(* when the code does not raise.                                           *)
(*                                                                         *)
(* Digests, pad ids and messages are abstracted: a job id, a candidate and *)
(* a failure code are members of sets, and the free-text fields keep only  *)
(* whether they are present.                                               *)
(***************************************************************************)
EXTENDS Naturals

CONSTANTS
    Jobs,        \* job ids: content addresses of immutable specifications
    Candidates,  \* candidate ids: content addresses of routed geometry
    Valid,       \* the <<candidate, job>> pairs validate_candidate_for_job accepts
    None         \* Python's None

ASSUME RecordAssumption ==
    /\ Valid \subseteq Candidates \X Jobs
    /\ None \notin Candidates

Status == {"queued", "running", "cancel_requested", "completed", "failed", "cancelled"}
Terminal == {"completed", "failed", "cancelled"}

FailureCode ==
    {"invalid_request", "stale_revision", "unsupported", "no_path",
     "search_budget_exceeded", "obstacle_budget_exceeded",
     "obstacle_check_budget_exceeded", "worker_error", "cancelled"}

(* The absent row of the ledger: no record is stored under the job id.     *)
NoRecord ==
    [status |-> "absent", revision |-> 0, attempt |-> 0,
     created_at |-> 0, updated_at |-> 0, expires_at |-> 0,
     candidate_id |-> None, diagnostic_code |-> "none", cancel_reason |-> FALSE]

Record ==
    [status : Status \cup {"absent"}, revision : Nat, attempt : Nat,
     created_at : Nat, updated_at : Nat, expires_at : Nat,
     candidate_id : Candidates \cup {None},
     diagnostic_code : FailureCode \cup {"none"},
     cancel_reason : BOOLEAN]

(***************************************************************************)
(* _validate_state_shape: what each status requires of the other fields.   *)
(* max_attempts is 1 for every job the service creates.                    *)
(***************************************************************************)
HasOutcome(r) == r.candidate_id # None \/ r.diagnostic_code # "none"

ShapeOK(r) ==
    /\ r.updated_at >= r.created_at
    /\ r.attempt <= 1
    /\ r.status = "queued" => r.revision = 0 /\ r.attempt = 0
    /\ r.status = "cancelled" => r.revision >= 1
    /\ r.status \in {"running", "cancel_requested", "completed", "failed"}
          => r.revision >= 1 /\ r.attempt >= 1
    /\ r.status = "completed"
          => r.candidate_id # None /\ r.diagnostic_code = "none" /\ ~r.cancel_reason
    /\ r.status = "failed"
          => r.candidate_id = None /\ r.diagnostic_code # "none" /\ ~r.cancel_reason
    /\ r.status = "cancelled"
          => r.candidate_id = None /\ r.diagnostic_code = "cancelled" /\ r.cancel_reason
    /\ r.status \in {"queued", "running", "cancel_requested"} => ~HasOutcome(r)
    /\ r.status \in {"queued", "running"} => ~r.cancel_reason
    /\ r.status = "cancel_requested" => r.cancel_reason

(***************************************************************************)
(* RoutingJobRecord._transition: the caller's revision must be current and *)
(* time must not run backwards; the new record is validated.               *)
(***************************************************************************)
Transition(r, t) == [r EXCEPT !.revision = @ + 1, !.updated_at = t]

MayTransition(r, expected, t) == r.revision = expected /\ t >= r.updated_at

CreateRecord(t, ttl) ==
    [NoRecord EXCEPT !.status = "queued", !.created_at = t, !.updated_at = t,
                     !.expires_at = t + ttl]

MayStart(r) == r.status = "queued"
StartRecord(r, t) ==
    [Transition(r, t) EXCEPT !.status = "running", !.attempt = @ + 1]

MayRequestCancel(r) == r.status \in {"queued", "running"}
(* Mutant of RequestCancelRecord: a queued job waits for a worker too.     *)
RequestCancelWaits(r, t) ==
    [Transition(r, t) EXCEPT !.status = "cancel_requested", !.cancel_reason = TRUE]

RequestCancelRecord(r, t) ==
    IF r.status = "queued"
    THEN [Transition(r, t) EXCEPT !.status = "cancelled",
                                  !.diagnostic_code = "cancelled",
                                  !.cancel_reason = TRUE]
    ELSE [Transition(r, t) EXCEPT !.status = "cancel_requested",
                                  !.cancel_reason = TRUE]

MayAcknowledgeCancel(r) == r.status = "cancel_requested"
AcknowledgeCancelRecord(r, t) ==
    [Transition(r, t) EXCEPT !.status = "cancelled",
                             !.diagnostic_code = "cancelled"]

ValidateCandidate(c, j) == <<c, j>> \in Valid

MayComplete(r) == r.status = "running"
CompleteRecord(r, c, t) ==
    [Transition(r, t) EXCEPT !.status = "completed", !.candidate_id = c,
                             !.diagnostic_code = "none", !.cancel_reason = FALSE]

(* Mutant of MayFail: one more code has no public diagnostic.              *)
MayFailDocumented(r, code) ==
    r.status = "running" /\ code \in FailureCode \ {"cancelled", "invalid_request"}

MayFail(r, code) == r.status = "running" /\ code \in FailureCode \ {"cancelled"}
FailRecord(r, code, t) ==
    [Transition(r, t) EXCEPT !.status = "failed", !.candidate_id = None,
                             !.diagnostic_code = code, !.cancel_reason = FALSE]
===============================================================================
