------------------------- MODULE RoutingJobProperties -------------------------
(***************************************************************************)
(* What must be true of the routing-job ledger and its workers.            *)
(***************************************************************************)
EXTENDS RoutingJobWorker

(* The job a worker holds a lease on, as long as the ledger still shows    *)
(* the record the worker claimed and not a later one under the same id.    *)
Holds(w, j) == lease[w].job = j
SameRecord(w) == jobs[lease[w].job].created_at = lease[w].born
Executes(w) == pc[w] \in Executing
Shows(j, status) == j \in Stored(Purge(now)) /\ jobs[j].status = status
ReturnsOrRaises(w) == Executes(w) /\ pc'[w] = "idle"

(* Every variable keeps its type; a worker that executes holds a lease and *)
(* one that claims has a job in hand.                                      *)
TypeOK ==
    /\ StoreTypeOK
    /\ pc \in [Workers -> PC]
    /\ seen \in [Workers -> SeenRecord]
    /\ lease \in [Workers -> LeaseRecord]
    /\ result \in [Workers -> ResultRecord]
    /\ cancel \in [Callers -> CancelRecord]
    /\ \A w \in Workers :
          /\ Executes(w) => Active(w)
          /\ pc[w] \in Claiming => seen[w].job \in Jobs

(* Whatever the interleaving of transitions, a stored record has the shape *)
(* _validate_state_shape demands of a record read back from the ledger: a  *)
(* row that did not would make every later lookup of the job raise.        *)
RecordsWellShaped == \A j \in Stored(jobs) : ShapeOK(jobs[j])

(* A record is executed at most once, ever: no two workers hold a lease on *)
(* the same record, even long after the first of them timed out.           *)
ExecutedOnce ==
    \A v, w \in Workers :
        /\ Active(v) /\ Active(w)
        /\ lease[v].job = lease[w].job
        /\ lease[v].born = lease[w].born
        => v = w

(* Creations, expiries and re-creations by any number of callers never     *)
(* take the ledger past max_records.                                       *)
LedgerBounded == Cardinality(Stored(jobs)) <= MaxRecords

(* No worker executes a lease on a former record of this id.               *)
NoStraggler(j) == \A v \in Workers : Executes(v) /\ Holds(v, j) => SameRecord(v)

LeaseRespected(w) ==
    LET j == lease[w].job IN
    /\ Executes(w) /\ now < lease[w].until
    /\ NoStraggler(j) /\ jobs[j].status = "running"
    /\ pc'[w] = pc[w]
    => jobs'[j].status \in {"running", "cancel_requested", "absent", "queued"}

(* While a lease lives, its job leaves running only by its holder's hand,  *)
(* by a caller's cancellation or by expiry of the record: neither another  *)
(* worker's claim nor its recovery closes a job under a live worker.  (A   *)
(* straggler whose own record expired can: see OnlyOwnRecordMoves.)        *)
LiveLeaseRespected == [][\A w \in Workers : LeaseRespected(w)]_vars

ReleaseCloses(w) ==
    ReturnsOrRaises(w) /\ lease'[w] = NoLease /\ SameRecord(w)
    => jobs'[lease[w].job].status # "running" \/ jobs[lease[w].job].expires_at <= now

(* An execution that gives its lease up, by returning or by raising, never *)
(* leaves its own job running: every path out of execute that clears       *)
(* _active has closed the record, or someone else has (job_worker.py:362), *)
(* or the record has expired and no lookup shows it any more.              *)
ReleasedLeaseClosesJob == [][\A w \in Workers : ReleaseCloses(w)]_vars

(* The watcher's view of the ledger is the one RoutingJobLifecycle allows. *)
Watched(j) ==
    [status |-> jobs[j].status, created |-> jobs[j].created_at,
     candidate |-> jobs[j].candidate_id]

Lifecycle ==
    INSTANCE RoutingJobLifecycle WITH clock <- now, row <- [j \in Jobs |-> Watched(j)]

(* The ledger and its workers implement the promised life of a job.        *)
ImplementsLifecycle == Lifecycle!Spec

-----------------------------------------------------------------------------
(* What the code or its documents say, and the code does not do.           *)

(* "Expiry must not strand a cancellation request in a non-terminal state" *)
(* (job_worker.py:403), "no non-terminal cancellation can strand a worker" *)
(* (docs/adr/0046-...:83): a call of execute that ends has acknowledged a  *)
(* cancellation of its job.                                                *)
NoExecutionStrandsCancellation ==
    [][\A w \in Workers :
          ReturnsOrRaises(w) /\ SameRecord(w)
          => \/ jobs'[lease[w].job].status # "cancel_requested"
             \/ jobs[lease[w].job].expires_at <= now
      ]_vars

(* "Every mutation ... updates by job_id and revision.  A caller holding   *)
(* an old record therefore cannot overwrite a worker's newer transition."  *)
(* (jobs.py:813): a worker only ever moves the record it claimed.          *)
OnlyOwnRecordMoves ==
    [][\A w \in Workers :
          Executes(w) /\ pc'[w] # pc[w] /\ ~SameRecord(w)
          => jobs'[lease[w].job].status = jobs[lease[w].job].status
             \/ jobs'[lease[w].job].status = "absent"
      ]_vars
===============================================================================
