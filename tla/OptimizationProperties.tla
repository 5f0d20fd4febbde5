------------------------ MODULE OptimizationProperties ------------------------
(***************************************************************************)
(* What makes the optimization service correct, over the crash of the      *)
(* server, orphaned workers, deadlines and retention.                      *)
(***************************************************************************)
EXTENDS OptimizationService

(* Types, and the shape record_invariants demands of every stored record.  *)
TypeOK ==
    /\ rows \in [Jobs -> Row]
    /\ \A j \in Jobs : rows[j] = NoRow \/ ShapeOK(rows[j])
    /\ child \in [Launches -> Child]
    /\ overdue \subseteq Launches
    /\ private \in [Jobs -> Private]
    /\ runner \in [Launches -> Runner]
    /\ starting \in [Callers -> Jobs \cup {None}]
    /\ crashes \in 0..MaxCrashes

(* The package table follows the record through every path that closes,    *)
(* recovers, publishes or forgets a job (repository.py:361, 752, 829, 885):*)
(* a package is stored exactly for a job that shows one, and is the one it *)
(* shows.                                                                  *)
PackageFollowsRecord == \A j \in Jobs : rows[j].package = rows[j].package_digest

(* The candidate's bytes are kept only for a job under review or completed,*)
(* and only those its stored package names: a cancellation that races the  *)
(* callback of the finished future leaves none behind (service.py:190-220, *)
(* 239-251).  An entry past its retention is dropped by the next request.  *)
CandidateKeptForReview ==
    \A j \in Jobs :
        private[j].source # None /\ ~private[j].expired
        => /\ rows[j].status \in {"awaiting_approval", "completed"}
           /\ rows[j].package = private[j].source

(* The bounds of start and retain hold through every interleaving of two   *)
(* callers, the callback and cancellations: what is kept is reserved, and  *)
(* at most two jobs are prepared or run (service.py:98-118, 152-167).      *)
RetentionBounded ==
    /\ Reserved(private) <= MaxPrivateBytes
    /\ Cardinality(Active) + Cardinality(Preparing) <= 2
    /\ \A j \in Jobs : private[j].source # None => private[j].reserved > 0

(* The rows implement the promise of OptimizationLifecycle: a stop is      *)
(* final, whoever still works on the job (repository.py:662-1060).         *)
Phase(r) ==
    CASE r.status \in Working -> "working"
      [] r.status = "awaiting_approval" -> "review"
      [] r.status \in Terminal \ {"completed"} -> "stopped"
      [] OTHER -> r.status

Lifecycle ==
    INSTANCE OptimizationLifecycle WITH
        Candidates <- Launches,
        job <- [j \in Jobs |-> [phase |-> Phase(rows[j]),
                                candidate |-> rows[j].package,
                                old |-> rows[j].old]]

ImplementsLifecycle == Lifecycle!Spec

(* While the server lives, a submitted job ends or its candidate is        *)
(* delivered for review without anybody's help: also when its worker       *)
(* hangs, dies before or after it published, or loses the job to a         *)
(* cancellation (isolated.py:199-269).                                     *)
Settled(j) ==
    \/ rows[j].status \in Terminal
    \/ private[j].source # None /\ rows[j].package = private[j].source

SubmissionSettles ==
    \A j \in Jobs : (j \in Active /\ crashes = 0) ~> (Settled(j) \/ crashes > 0)

(* lifecycle.py:3-4, "Losing ephemeral inputs on restart terminates a job  *)
(* as interrupted": here of a job that awaits approval, under servers that *)
(* answer requests.                                                        *)
LostInputsTerminate ==
    \A j \in Jobs :
        (rows[j].status = "awaiting_approval" /\ j \notin Kept)
        ~> rows[j].status \in Terminal

ServingSpec == FairSpec /\ WF_vars(Get)
===============================================================================
