-------------------------- MODULE OptimizationService --------------------------
(***************************************************************************)
(* The optimization service of the server (optimization/service.py) with   *)
(* the supervisor that runs one launch at a time on its executor thread    *)
(* (optimization/isolated.py, run_isolated_job), over the repository and   *)
(* the isolated workers.  What the service keeps beside the repository is  *)
(* in memory: the private inputs of each job, what they reserve, and the   *)
(* candidate's bytes once they are delivered.  A crash of the server loses *)
(* all of it, and leaves the repository and the running worker behind.     *)
(*                                                                         *)
(* Service methods hold one lock; the supervisor and the worker take it    *)
(* only to retain a result and in the callback of a finished future.       *)
(***************************************************************************)
EXTENDS OptimizationWorker, FiniteSetsExt

CONSTANTS
    Callers,          \* threads that call start
    MaxPrivate,       \* jobs with private inputs
    MaxPrivateBytes,  \* bytes reserved for inputs and results, one each
    MaxCrashes        \* bound on crashes of the server, for TLC

ASSUME ServiceAssumption ==
    /\ MaxPrivate \in Nat \ {0}
    /\ MaxPrivateBytes \in Nat \ {0}
    /\ MaxCrashes \in Nat

VARIABLES
    private,   \* [Jobs -> _PrivateJob]
    runner,    \* [Launches -> the supervisor's progress, the future's result]
    starting,  \* [Callers -> the job a start call prepares, or None]
    crashes

vars == <<rows, child, overdue, private, runner, starting, crashes>>

NoPrivate == [launch |-> None, source |-> None, reserved |-> 0, expired |-> FALSE]
Private ==
    [launch : Launches \cup {None}, source : Launches \cup {None},
     reserved : Nat, expired : BOOLEAN]

NoRunner == [pc |-> "unused", job |-> None, held |-> FALSE, result |-> NoAnswer]
Over == [NoRunner EXCEPT !.pc = "over"]
Runner ==
    [pc : {"unused", "pending", "exchange", "received", "fetched", "delivered",
           "stopping", "closing", "done", "over"},
     job : Jobs \cup {None}, held : BOOLEAN,
     result : [status : Status \cup {"absent"}, revision : Nat]]

Running == {"exchange", "received", "fetched", "delivered", "stopping", "closing"}

Init ==
    /\ rows = [j \in Jobs |-> NoRow]
    /\ child = [l \in Launches |-> NoChild]
    /\ overdue = {}
    /\ private = [j \in Jobs |-> NoPrivate]
    /\ runner = [l \in Launches |-> NoRunner]
    /\ starting = [c \in Callers |-> None]
    /\ crashes = 0

Kept == {j \in Jobs : private[j].launch # None}
FutureDone(j) == runner[private[j].launch].pc \in {"done", "over"}
Active == {j \in Kept : ~FutureDone(j)}
Preparing == {c \in Callers : starting[c] # None}

(* The sum of what the entries reserve, one member for each unit.          *)
ReservedUnits(entries) == UNION {{j} \X (1..entries[j].reserved) : j \in Jobs}
Reserved(entries) == Cardinality(ReservedUnits(entries))

(***************************************************************************)
(* _purge, at the start of every request: entries past their retention are *)
(* dropped with the approval they wait for.  It raises, and the request    *)
(* with it, at an entry whose row is gone from the repository.             *)
(***************************************************************************)
Expirable == {j \in Kept : private[j].expired /\ FutureDone(j)}
Gone == {j \in Expirable : Maintained[j].status = "absent"}
RowsPurged(S) ==
    [j \in Jobs |-> IF j \in S THEN RecoverInterrupted(Maintained, j)[j] ELSE Maintained[j]]
PrivatePurged(S) == [j \in Jobs |-> IF j \in S THEN NoPrivate ELSE private[j]]

(* What a request finds when the purge at its start has succeeded.         *)
Table == RowsPurged(Expirable)
Entries == PrivatePurged(Expirable)
InUse(j) == Gone = {} /\ j \in Kept \ Expirable

RequestFails ==
    /\ \E j \in Gone, S \in SUBSET (Expirable \ Gone) :
          /\ rows' = RowsPurged(S)
          /\ private' = PrivatePurged(S \cup {j})
    /\ \/ UNCHANGED starting
       \/ \E c \in Preparing : starting' = [starting EXCEPT ![c] = None]
    /\ UNCHANGED <<child, overdue, runner, crashes>>

(* Mutant of MayPrepare: starts that are still preparing are not counted.  *)
MayPrepareUncounted == Cardinality(Active) < 2

(* start, under the lock: two jobs may be prepared or run at a time.       *)
MayPrepare == Cardinality(Active) + Cardinality(Preparing) < 2

BeginStart(c, j) ==
    /\ starting[c] = None
    /\ Gone = {}
    /\ MayPrepare
    /\ starting' = [starting EXCEPT ![c] = j]
    /\ rows' = IF Expirable = {} THEN rows ELSE Table
    /\ private' = Entries
    /\ UNCHANGED <<child, overdue, runner, crashes>>

(* prepare_optimization, outside the lock, refuses the request.            *)
PreparationFails(c) ==
    /\ starting[c] # None
    /\ starting' = [starting EXCEPT ![c] = None]
    /\ UNCHANGED <<rows, child, overdue, private, runner, crashes>>

(* The second half of start: the private inputs must fit.                  *)
MayRetain(entries) ==
    /\ Cardinality({j \in Jobs : entries[j].launch # None}) < MaxPrivate
    /\ Reserved(entries) + 1 <= MaxPrivateBytes

Unused == {l \in Launches : runner[l].pc = "unused"}

(* A job is submitted when its row is queued and no private inputs exist.  *)
Submit(c) ==
    LET j == starting[c]
        l == Min(Unused)
    IN  /\ j # None
        /\ Gone = {} /\ MayRetain(Entries) /\ ~CreateFull(Table, j)
        /\ Entries[j] = NoPrivate /\ Create(Table, j)[j].status = "queued"
        /\ Unused # {}
        /\ rows' = Create(Table, j)
        /\ private' = [Entries EXCEPT ![j] = [NoPrivate EXCEPT !.launch = l, !.reserved = 1]]
        /\ runner' = [runner EXCEPT ![l] = [NoRunner EXCEPT !.pc = "pending", !.job = j]]
        /\ starting' = [starting EXCEPT ![c] = None]
        /\ UNCHANGED <<child, overdue, crashes>>

(* Otherwise start refuses, or returns the record there is.                *)
StartWithout(c) ==
    LET j == starting[c]
    IN  /\ j # None
        /\ Gone = {}
        /\ \/ ~MayRetain(Entries) /\ rows' = IF Expirable = {} THEN rows ELSE Table
           \/ MayRetain(Entries) /\ CreateFull(Table, j) /\ rows' = Table
           \/ /\ MayRetain(Entries) /\ ~CreateFull(Table, j)
              /\ Entries[j] # NoPrivate \/ Create(Table, j)[j].status # "queued"
              /\ rows' = Create(Table, j)
        /\ private' = Entries
        /\ starting' = [starting EXCEPT ![c] = None]
        /\ UNCHANGED <<child, overdue, runner, crashes>>

(* get and the other requests that change nothing of their own.            *)
Get ==
    /\ Gone = {}
    /\ rows' = Table
    /\ private' = Entries
    /\ UNCHANGED <<child, overdue, runner, starting, crashes>>

(* cancel: the record first, then the candidate's bytes.  A future that    *)
(* has not started is cancelled, and its callback runs inside the request. *)
CancelJob(j) ==
    LET l == private[j].launch
        pending == runner[l].pc = "pending"
    IN  /\ InUse(j)
        /\ MayCancel(Table, j, Table[j].revision)
        /\ rows' = Cancel(Table, j, "cancelled")
        /\ private' =
             [Entries EXCEPT
                ![j].source = None,
                ![j].reserved = IF pending \/ FutureDone(j) THEN 0 ELSE @,
                ![j].expired = ~pending /\ @]
        /\ runner' = IF pending THEN [runner EXCEPT ![l] = Over] ELSE runner
        /\ UNCHANGED <<child, overdue, starting, crashes>>

(* ensure_review_ready: only what the supervisor has delivered.            *)
ReviewReady(j) ==
    /\ FutureDone(j)
    /\ private[j].source # None
    /\ Table[j].package = private[j].source

(* approve_from_host, after the host's confirmation and with the board and *)
(* its rules as they were: consent and completion in one write.            *)
ApproveJob(j) ==
    /\ InUse(j)
    /\ ReviewReady(j)
    /\ MayApproveRow(Table, j, private[j].source)
    /\ rows' = Approve(Table, j)
    /\ private' = Entries
    /\ UNCHANGED <<child, overdue, runner, starting, crashes>>

(***************************************************************************)
(* run_isolated_job on the executor's only thread.                         *)
(***************************************************************************)
RunTo(l, pc) == runner' = [runner EXCEPT ![l].pc = pc]

(* The supervisor's checkpoint: out of time, cancelled, or gone.           *)
Stopped(l) ==
    \/ l \in overdue
    \/ Unavailable(runner[l].job)
    \/ CancellationRequested(runner[l].job)

Begin(l) ==
    /\ runner[l].pc = "pending"
    /\ \A k \in Launches : /\ runner[k].pc = "pending" => l <= k
                           /\ runner[k].pc \notin Running \cup {"done"}
    /\ IF Stopped(l)
       THEN RunTo(l, "stopping") /\ UNCHANGED child
       ELSE /\ RunTo(l, "exchange")
            /\ child' = [child EXCEPT ![l].pc = "claiming", ![l].job = runner[l].job]
    /\ UNCHANGED <<rows, overdue, private, starting, crashes>>

(* _exchange raises: the process group is killed, whatever it was doing.   *)
ExchangeStops(l) ==
    /\ runner[l].pc = "exchange"
    /\ Stopped(l) \/ child[l].pc = "crashed"
    /\ RunTo(l, "stopping")
    /\ Kill(l)
    /\ UNCHANGED <<rows, overdue, private, starting, crashes>>

(* The answer must be the record the repository holds, and final.          *)
Receive(l) ==
    LET current == Maintained[runner[l].job]
        answer == child[l].answer
    IN  /\ runner[l].pc = "exchange"
        /\ child[l].pc = "answered"
        /\ ~Stopped(l)
        /\ Kill(l)
        /\ rows' = Maintained
        /\ runner' = [runner EXCEPT
             ![l].result = answer,
             ![l].pc = IF answer # Answer(current) THEN "stopping"
                       ELSE IF answer.status \in Terminal THEN "delivered"
                       ELSE IF answer.status = "awaiting_approval" THEN "received"
                       ELSE "stopping"]
        /\ UNCHANGED <<overdue, private, starting, crashes>>

(* The bytes must be those the stored package names.                       *)
Fetch(l) ==
    /\ runner[l].pc = "received"
    /\ rows' = Maintained
    /\ RunTo(l, IF Stopped(l) \/ Maintained[runner[l].job].package # l
                THEN "stopping" ELSE "fetched")
    /\ UNCHANGED <<child, overdue, private, starting, crashes>>

(* retain, under the service's lock: the result's bytes must fit as well.  *)
Retain(l) ==
    LET j == runner[l].job
    IN  /\ runner[l].pc = "fetched"
        /\ IF Stopped(l) \/ Reserved(private) + 1 > MaxPrivateBytes
           THEN RunTo(l, "stopping") /\ UNCHANGED private
           ELSE /\ runner' = [runner EXCEPT ![l].pc = "delivered", ![l].held = TRUE]
                /\ private' = [private EXCEPT ![j].reserved = @ + 1]
        /\ UNCHANGED <<rows, child, overdue, starting, crashes>>

Return(l) ==
    /\ runner[l].pc = "delivered"
    /\ RunTo(l, IF Stopped(l) THEN "stopping" ELSE "done")
    /\ UNCHANGED <<rows, child, overdue, private, starting, crashes>>

(* A refused delivery: a job that is still open is closed, in two          *)
(* transactions.                                                           *)
Inspect(l) ==
    LET current == Maintained[runner[l].job]
    IN  /\ runner[l].pc = "stopping"
        /\ rows' = Maintained
        /\ runner' = [runner EXCEPT
             ![l].result = Answer(current),
             ![l].pc = IF current.status \in Terminal \cup {"absent"}
                       THEN "done" ELSE "closing"]
        /\ UNCHANGED <<child, overdue, private, starting, crashes>>

(* Mutant of MayClose: a job that awaits approval is left to its reviewer. *)
MayCloseUnpublished(l) ==
    /\ MayCancel(Maintained, runner[l].job, runner[l].result.revision)
    /\ Maintained[runner[l].job].status # "awaiting_approval"

MayClose(l) == MayCancel(Maintained, runner[l].job, runner[l].result.revision)

Close(l) ==
    LET j == runner[l].job
        code == IF l \in overdue THEN "budget_exhausted" ELSE "interrupted"
        closed == IF MayClose(l) THEN Cancel(Maintained, j, code) ELSE Maintained
    IN  /\ runner[l].pc = "closing"
        /\ rows' = closed
        /\ runner' = [runner EXCEPT
             ![l].pc = "done",
             ![l].result = IF MayClose(l) THEN Answer(closed[j]) ELSE NoAnswer]
        /\ UNCHANGED <<child, overdue, private, starting, crashes>>

(* Mutant of Delivered: the callback trusts the future's result.           *)
DeliveredUnchecked(l) ==
    runner[l].held /\ runner[l].result.status = "awaiting_approval"

(* What the callback of a finished future keeps: bytes that are held, of a *)
(* job that is still as its launch left it.                                *)
Delivered(l) ==
    /\ runner[l].held
    /\ runner[l].result.status = "awaiting_approval"
    /\ runner[l].result = Answer(Maintained[runner[l].job])

Callback(l) ==
    LET j == runner[l].job
    IN  /\ runner[l].pc = "done"
        /\ rows' = IF runner[l].result = NoAnswer THEN rows ELSE Maintained
        /\ runner' = [runner EXCEPT ![l] = Over]
        /\ private' =
             IF private[j].launch # l THEN private
             ELSE [private EXCEPT
                     ![j] = [launch |-> l, expired |-> FALSE,
                             source |-> IF Delivered(l) THEN l ELSE None,
                             reserved |-> IF Delivered(l) THEN 1 ELSE 0]]
        /\ UNCHANGED <<child, overdue, starting, crashes>>

(***************************************************************************)
(* The server dies and starts again with an empty memory.                  *)
(***************************************************************************)
CrashServer ==
    /\ crashes < MaxCrashes
    /\ crashes' = crashes + 1
    /\ private' = [j \in Jobs |-> NoPrivate]
    /\ runner' = [l \in Launches |->
          IF runner[l].pc = "unused" THEN NoRunner ELSE Over]
    /\ starting' = [c \in Callers |-> None]
    /\ UNCHANGED <<rows, child, overdue>>

(***************************************************************************)
(* Time.  Repository rows are kept for a day, private inputs for a quarter *)
(* of an hour after their launch, and no process outlives its deadline by  *)
(* more than the guardian's grace.                                         *)
(***************************************************************************)
DeadlinePasses(l) ==
    /\ l \notin overdue
    /\ runner[l].pc \in Running \cup {"pending"} \/ Alive(l)
    /\ overdue' = overdue \cup {l}
    /\ UNCHANGED <<rows, child, private, runner, starting, crashes>>

PrivateExpires(j) ==
    /\ j \in Kept \ Active
    /\ private' = [private EXCEPT ![j].expired = TRUE]
    /\ UNCHANGED <<rows, child, overdue, runner, starting, crashes>>

RowAges(j) ==
    /\ j \in Stored(rows)
    /\ j \in Kept => j \in Expirable
    /\ \A l \in Launches : /\ runner[l].job # j
                           /\ child[l].job = j => ~Alive(l)
    /\ rows' = [rows EXCEPT ![j].old = TRUE]
    /\ UNCHANGED <<child, overdue, private, runner, starting, crashes>>

RunnerStep(l) ==
    \/ Begin(l) \/ ExchangeStops(l) \/ Receive(l) \/ Fetch(l) \/ Retain(l)
    \/ Return(l) \/ Inspect(l) \/ Close(l) \/ Callback(l)

Request ==
    \/ RequestFails \/ Get
    \/ \E c \in Callers, j \in Jobs : BeginStart(c, j)
    \/ \E c \in Callers : PreparationFails(c) \/ Submit(c) \/ StartWithout(c)
    \/ \E j \in Jobs : CancelJob(j) \/ ApproveJob(j)

Time ==
    \/ \E l \in Launches : DeadlinePasses(l)
    \/ \E j \in Jobs : PrivateExpires(j) \/ RowAges(j)
    \/ \E j \in Jobs : LeaseLapses(j) /\ UNCHANGED <<private, runner, starting, crashes>>

Next ==
    \/ Request \/ CrashServer \/ Time
    \/ \E l \in Launches :
          RunnerStep(l) \/ (ChildStep(l) /\ UNCHANGED <<private, runner, starting, crashes>>)

Spec == Init /\ [][Next]_vars

(* The executor's thread runs, and time passes; a worker may hang.         *)
Fairness == \A l \in Launches : WF_vars(RunnerStep(l)) /\ WF_vars(DeadlinePasses(l))

FairSpec == Spec /\ Fairness
===============================================================================
