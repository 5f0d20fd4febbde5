# A verification project for CopperMCP

CopperMCP is a Python MCP server that proposes, checks and applies changes to
KiCad boards.  Most of its 92,000 lines are pure: parsers, canonical encodings,
grid searches, geometric checks.  Its risk is in the few parts that keep state
between calls, or change something outside the process: the ledger of routing
jobs with its workers, the tools that replace a board file, the optimization
jobs with their child processes and their human review, and the search loops whose
budgets and tie-breaks decide what is published.  This directory holds TLA+
models of those parts, TLC configurations that check them on small instances,
and TLAPS proofs of what matters most for every size of the instance.

Paths below are relative to `src/copper_mcp/` in the repository.

## The system

| Component | State it keeps | Operations | What makes it hard |
|---|---|---|---|
| Routing-job ledger (`routing/jobs.py`) | one SQLite table of records with status, revision, times | create, get, start, request_cancel, acknowledge_cancel, complete, fail, purge | shared by every server process of a workspace; compare-and-swap by revision; records expire and their ids are used again |
| Routing-job worker (`routing/job_worker.py`) | `_active`, the lease of one worker object | claim, recover_expired, execute with its cancellation probe | claims, cancellations, expiry, recoveries and crashes between any two transactions |
| Routing-job service (`routing_job_service.py`) | none | start, get, cancel, export, execute_routing_job | reads a revision in one transaction and writes with it in another |
| Routing-job repository, candidate store (`routing/job_repository.py`, `routing/candidate_store.py`) | request, export and manifest tables | create, get, publish_candidate, execute | two tables written one after the other, with a rollback by hand |
| Routing scheduler (`mcp_server.py`) | futures by job id | _schedule_routing_job | deduplicates by a future that may outlive its job |
| Routing task handles (`routing/task_bridge.py`) | bounded map of handles | mint, resolve, cancel | expiry, capacity, a clock that steps back |
| Board apply (`apply/service.py`) | pre-apply copies | apply_candidate, apply_placement_candidate | check, compare, rename and verify while editors, people and other calls write the same file; failure after the point of no return |
| Workspace files (`security.py`) | the board file, its `flock` | replace_workspace_file, create_workspace_file, reads | a lock belongs to an inode and a rename replaces the inode |
| Apply tokens (`apply/tokens.py`) | key, consumed nonces | issue, verify, consume | verified early, consumed late; nonces forgotten on expiry |
| Live apply (`live_apply.py`) | none | verifies its preconditions, then refuses | changes nothing yet |
| Optimization jobs (`optimization/repository.py`, `lifecycle.py`, `worker.py`, `coordinator.py`) | SQLite tables of records and packages, with lease fences | create, claim, heartbeat, compare_and_swap, cancel, recover_interrupted, approve | fenced leases, heartbeats, recovery before each operation |
| Optimization service and approval (`optimization/service.py`, `approval.py`) | private inputs in memory beside the durable records; confirmations | start, get, cancel, export, approve | durable and ephemeral state that must agree across restarts and callbacks |
| Isolated process (`optimization/isolated.py`, `_process_guard.py`) | three pipes, a process group | exchange, deliver, clean up | deadline and cancellation against a late answer; orphans |
| Container runner (`optimization/container_runner.py`, `confined_container.py`) | a container, its client, two pipes | probe, launch, exchange, clean up | who ends first: container, client or deadline |
| Human review (`optimization/_host_consent.py`, `mcp.py`) | pending challenges | review, confirm, disclose, revoke | one challenge shared by several reviews; a job that moves meanwhile |
| Artifact stores (`artifact_store.py` and its users) | bounded LRU map | store, read | expiry, eviction, byte accounting |
| Congestion negotiation (`routing/congestion.py`) | a ledger of present use, the kept set, the best set, a budget | passes over all nets or the ripped-up ones | incremental counters; refused sets; what is published when a budget ends |
| Route searches (`routing/astar.py`, `routing/layered_astar.py`), spatial indexes (`routing/spatial_index.py`) | none between calls | one search; insert, remove, query | stale heap entries, dominance under a cap on vias, cells at negative coordinates |
| Validation, placement, IR, adapters, engineering, KiCad CLI and IPC, previews | none between calls | pure functions, bounded child processes | budgets |

A start tool creates a job in the ledger through the repository and schedules
its execution in this process; any process may execute it.  A worker claims the
job, routes, publishes the candidate's artifacts and completes the record, and
polls the ledger for a cancellation meanwhile.  A preview tool that finds a
route or a placement may issue a token for exactly that candidate and exactly
the board bytes it read; an apply tool verifies the token, reads the board,
writes a pre-apply copy, and replaces the board under a lock.

What correctness means for each:

* **Ledger and workers**: a record is executed at most once; a live lease is not
  taken away; a job that runs reaches a terminal state, is cancelled or expires;
  a stored record always has the shape its status demands; the store stays
  bounded; nobody moves a record he did not claim.
* **Apply**: a refused call changed nothing; a token is good for one write; no
  call overwrites bytes it has not compared; the pre-apply copy exists while it
  may be needed; every call ends.
* **Repository and server**: the request of a live job is not taken away; geometry
  is handed out only for a completed job and to its caller; a submitted job ends.
* **Optimization**: only the holder of the current fence writes; a package exists
  exactly for the record that names it; private bytes are bounded and released; a
  submitted job ends or awaits its review.
* **Child processes**: an answer is delivered whole or not at all, nothing waits
  for a deadline when everything has ended, no process group outlives its alarm.
* **Bounded stores, handles, consent**: bytes are accounted for, what goes was
  used least recently, a handle expires, a challenge is decided once.
* **Searches**: a published set of routes is legal and within budget; a found
  path is a shortest one; an index misses no neighbour.

`PROJECT.json` lists every component with its status and every hazard with its
line and the properties that cover it.

## Routing jobs

### Modules

* `RoutingJobRecord` — one record and its transitions, as pure operators:
  `RoutingJobRecord` of `jobs.py` with its shape rules.
* `RoutingJobStore` — the ledger.  `jobs` maps a job id to its row and `now` is
  the wall clock.  Each public method of the store is a single
  `BEGIN IMMEDIATE` transaction, so one operator; a method that raises rolls
  back, its purge included, except `get`.
* `RoutingJobWorker` — workers and callers.  `pc[w]` names the transaction a
  worker runs next; `lease[w]` is `_active`; `seen[w]` is the record it read and
  the clock it captured; `cancel[c]` is a caller between its lookup and its CAS.
  `CallClaim`, `ClaimRead`, `CloseOrphan` and `Start` are `claim` and
  `recover_expired`; the rest is `execute` with `_cancel_or_expire`,
  `_fail_or_cancel` and `_resolve_publish_race`.
* `RoutingJobLifecycle` — the abstract specification: what somebody who watches
  one job may see.
* `RoutingJobRepository` — the request, export and manifest tables beside the
  ledger.  Each is a function from its key to a row; each method is written as
  the table it leaves, purge first.
* `RoutingServer` — the tools of one server process and its executor's thread.
  `creating[s]` is a start between the request's insert and the schedule
  (`PutRequest`, `CreateJob`, `RollBack`, `Schedule`), `queue[s]` the futures,
  `thread[s]` how far the thread is with the head of the queue.  A worker `w` of
  `RoutingJobWorker` stands for the worker objects of one server, one after the
  other, and the server's steps are its steps conjoined with the tables'.
* `RoutingJobProperties`, `RoutingServerProperties`, `MCRoutingJobs`,
  `MCRoutingServer`; `RoutingJobProofs`, and `RoutingServerProofs`, which extends it.

### Abstractions

The clock read and the transaction that uses it are one step, except in `claim`
and `recover_expired`, which read the clock once and use that value in all their
transactions: there the captured value is state.  The clock only advances.
SQLite's busy and I/O errors are left out.  The probe's look at its own deadline
and its read of the ledger are one step.  The service checks a cancellation
before it claims, which only narrows when a claim is made.  A lease lasts
`Lease[j]`, the minimum of thirty seconds and the job's own limit, fixed per
job.  Candidates are valid for some jobs and not for others (`Valid`).  An
expired row stays in the table until something purges it; the properties that
speak of stored records exempt rows that are past their expiry, since no lookup
shows them.  `born` in a lease is a ghost, the creation time of the claimed
record: it tells a record from a later one of the same id.

In the server, the repository's lock is held for less than a tick of the clock, a
server runs one start at a time and a caller has one answer outstanding, and a
cancellation in flight belongs to a caller that survives a crash.  `get` reads
the request in one transaction and the record in another, both with the time at
which it started: `lookup[p]` is a `get` between the two (`ReadRequest`,
`ReadRecord`), for the tools' callers and for the executor's thread, and the
table it reads second is judged and purged by that earlier time.  What the search
returns is a choice among a valid candidate, an invalid one and the
failure codes.

### Runs

| Run | Question | Bounds |
|---|---|---|
| `routing_leases` | leases, cancellation and recovery in any order, expiry and ids that are used again; refinement of `RoutingJobLifecycle` | 2 workers that may die and restart, 1 job, 1 caller; see `RoutingJobs_leases.cfg` |
| `routing_server` | the tables and the scheduler: capacity, rollback, publication, exports, progress; the server's workers are workers of `RoutingJobWorker` | 1 server, 1 crash, 2 jobs for 1 place in each table, 2 contexts, 1 caller, retention 2, 4 clock values; exports of one candidate, other lookups of the first job by the first context |
| `routing_unmapped_code`, `routing_cancel_race`, `routing_stale_lease` | three findings | the smallest instance that shows each |

Two workers are enough to have a holder and a claimant, or a late worker and its
successor; one job is enough for them because no operation of a worker reads
another job's row.  Capacity, the queue and the tables need the second job, which
`routing_server` has.  The clock bound leaves room for a lease to be granted, to
end and to be recovered, and for a record to expire and be created again while a
lease on the old one is held.  `MCRoutingServer` narrows the server's instance:
only the first job has a valid route, the second context only creates that job
anew, on a server that has not crashed and does not crash afterwards, nobody
starts a job or dies in the last tick, callers ask to export one of the two
candidates, and only the first context looks the first job up without exporting
(`MCCall`).  The models stop when the clock does;
every configuration allows one process to go on without it, so deadlock is
checked throughout.

`routing_server` assumes that a start that holds the repository's lock goes on and
that the executor's thread runs (weak fairness of `StartStep` and `ThreadStep`),
and that the thread gets the lock which starts keep taking and releasing (strong
fairness of `PublishExport`).  The code justifies it because every search is
budgeted and the thread is joined by nothing else.  Nothing is assumed of callers
or of the clock.  A job whose process died is promised nothing: `recover_expired`
has no caller in the repository, so its record may stay running until it expires.
A job that is created anew while the future of its former record is at work is
not submitted (`mcp_server.py:268`), and `StartedJobSettles` leaves it out.

### Findings

* `routing_unmapped_code`: the failure code for an exhausted obstacle-check
  budget has no message in `_failure_message`, so `execute` raises `KeyError`
  before it closes the job.  The record stays running, and starting the job
  again does not close it either, although its lease is over:
  `execute_routing_job` returns a record that is not queued as it finds it.
* `routing_cancel_race`: `_fail_or_cancel` probes, then fails with its lease's
  revision; a cancellation between the two is never acknowledged by the worker.
* `routing_stale_lease`: revisions start at 0 again when an expired record is
  re-created, so a late worker's CAS fits a record it never claimed.

### Proofs

`RoutingJobProofs` proves, for any number of jobs, workers, callers and ticks:
`TypeCorrectness` (`Spec => []TypeOK`), `RecordsStayWellShaped`,
`RecordsExecuteOnce` and `LedgerImplementsLifecycle` (the refinement).

`ExecutedOnce` is not inductive.  That two workers do not hold leases on one
record follows from what a lease says about the row: either the row still is the
leased record, past its start and therefore never claimed again, or the record's
retention is over and whatever has its id now was created later (`LeaseOK`).
Keeping that needs the rows to be well shaped and to expire `Ttl` after their
creation (`LedgerOK`) and captured clocks to lie in the past (`SeenOK`).
`IInv == TypeOK /\ LedgerOK /\ SeenOK /\ LeaseOK /\ ExecutedOnce`.  The proof has
two halves: every step does one of three things to the ledger (keeps rows,
drops expired ones, or makes one row take one lawful move: `LedgerStep`), and
the invariant is preserved by a ledger step together with what the step does to
the worker.  The refinement follows from the same classification.

The second half of `RoutingJobProofs` goes on from `IInv`.  `LedgerStaysBounded` needs the ledger
step only: a row appears in `StoreCreate` and nowhere else, after the purge and
the count.  `LiveLeaseIsRespected` and `ReleasedLeaseClosesItsJob` are about what
a worker knows at each point of its program, which `LInv` states: a lease shows
the revision of its running record and the time it is over (`LeaseTimes`); a
record about to be closed is one whose lease is over, unless it was written after
the clock value the closing worker captured, in which case the store refuses the
older timestamp (`CloseOK`); what `_cancel_or_expire` has read of a running record
is still true (`StopOK`), a publication race means that the record runs no longer
(`RaceOK`), and a failure has a code the store accepts (`ResultOK`).  All of them
rest on `RunningStands`: a record that still runs under its lease has not changed
since it was started, because `IInv` excludes that it was queued again.

`RoutingServerProofs` proves that every step of a server is a step of
`RoutingJobWorker` or a stutter (`ServersImplementWorkers`), so the invariants
above hold of the servers' ledger and are used there without being proved again.
`RequestIsKeptForJob` needs that a rollback finds the ledger still full of other
rows (`RollbackOK`: the creating server holds the lock and stops the clock), so
that the request it deletes has no row; `GeometryGoesToCompletedJob` that a
completed record names a candidate valid for its job (`CompletedOK`), that an
export in progress names what its caller asked for (`ExportOK`), and what a lookup
knows between its two transactions (`ExportLookupOK`): if it found the request, the
request stored now either belongs to the caller's context or was put after the
lookup began.  The property says "neither record nor request younger than the
lookup" for two reasons.  A lookup that found the request may meet a record which
another context created under the id meanwhile; the caller then gets the artifact
it had read before, which was its own.  And a record need not be as old as the
request it is shown with: a crash between the two inserts of `create` leaves a
request alone, a later start puts nothing and creates the record beside it, and
the record outlives the request, although `job_repository.py:821` says that both
share one retention boundary.

## Board apply

### Modules

* `WorkspaceFile` — the board as POSIX keeps it and the primitive that replaces
  it.  A name refers to an inode, a descriptor keeps an inode, `flock` locks an
  inode; a rename moves the name.
* `ApplyTokens` — the token authority: expiries, consumed nonces, sweeping, and
  a key that dies with its process.
* `BoardApply` — a call of either apply tool, step by step: `pc[p]` names the
  next access to something shared.  `replace_workspace_file` is `Open`, `Lock`,
  `Compare`, `Precheck`, `Rename`, `Check`, walked once to publish and again
  with `restoring[p]` for the guarded restore.  Around the calls: previews that
  issue tokens, an editor that opens and closes the board, writers that write in
  place or rename over it, the death of a server process, the clock.
* `AtomicApply` — the abstract specification: an atomic swap from exactly the
  bytes a token was issued for.
* `BoardApplyProperties`, `MCBoardApply`, `BoardApplyProofs`.

### Abstractions

Contents stand for files and for their digests.  A call is made once; more calls
are a larger set `Calls`.  A token is only presented with its own binding to
its own issuer, since any other presentation fails on the MAC.  A call of the
command line is a call whose token was issued by its own process.  Parsing,
replaying and splicing decide whether a call goes on and may refuse at any of
their steps; an unreadable board raises instead of refusing, which for the board
is the same.  Each operation of the authority is one step.  A read of the board
is atomic.  Failure to prune a backup, permission bits and a board that is
missing altogether are left out, and so are the checks that confine a path to
the workspace.

### Runs

| Run | Question | Bounds |
|---|---|---|
| `apply_atomic` | refinement of `AtomicApply`; every call ends | 3 calls, 2 tokens for one base, a third for the first one's result; no foreign writer, no verification failure |
| `apply_writers` | types and locks, refusals, tokens, backups | 2 calls (one of each tool), a foreign writer, failures, crashes, expiry, a full backup directory |
| `apply_clobber`, `apply_second_write` | two findings | 3 calls / 2 calls and 1 token |

Two calls are enough for one to overtake the other at every step; the refinement
and the lock need a third, because one call must have replaced the inode another
waits for while a newcomer opens the new one.  A call renames at most twice, so
`Inodes` has one more than descriptors and board need and a fresh one always
exists.  `Tokens` has two for one base, which is what competes.  `OldBackups`
fills the directory, so every copy prunes.  A call may be over and nothing else
enabled, so these configurations do not check deadlock; `CallsEnd` says instead
that no call waits for ever.  Its fairness, weak fairness of each call's own
steps, is that of a running thread; previews, editors, writers and the clock
need not move.  Symmetry is used over calls and inodes in the safety runs only.

### Findings

* `apply_clobber`: a call that waited for the lock of a file that was replaced,
  and a newcomer that locked the new file, are both inside the critical section.
  When a guarded restore has put the old bytes back both compare equal, and the
  waiter renames over the newcomer's published board.
* `apply_second_write`: nothing reserves a token between `verify` and `consume`,
  so two calls with one token are both authorized; after the first one's write
  was rolled back the second one writes.

Without verification failures, and so without restores, and with candidates that
never lead back to bytes the board has held, the calls do implement `AtomicApply`:
what keeps the waiter out there is the compare, not the lock.  The last condition
is needed: with one token for each direction between two boards, a call that was
verified early publishes a second time with a token that another call has used,
which is `apply_second_write` without a restore.

### Proofs

`BoardApplyProofs` proves `TypeCorrectness`, `RefusalsChangeNothing` and
`SpentTokensStaySpent` for any number of calls, tokens, servers, inodes and
backups, with every foreign writer, failure and crash of the model.  The
inductive invariant is `IInv == TypeOK /\ CallsOK /\ RefusedOK /\ SpentOK`:

* `CallsOK` — how far the variables of a call have come at each of its steps;
* `RefusedOK` — a call that may still publish has not renamed, so that a refusal,
  which only comes from such a step, finds the board unchanged by it;
* `SpentOK` — a token that was presented has an expiry and is never issued
  again, and it is spent before a restore starts and before a call that wrote is
  over.  The property alone says nothing of the steps between `Recover` and the
  end of a call, and without the clause on expiries a preview could make a spent
  token live.

Each conjunct is preserved action by action (`StepKeepsTypes`, `StepKeepsCalls`,
`StepKeepsRefused`, `StepKeepsSpent`).

`CallsKeepTheirWayBack` proves `WayBackKept` under two hypotheses, which are what
makes it true: no more calls run than copies are kept, and the copies found in the
directory are older than the first second of the behaviour.  `CopiesInv` says that
every other copy was made by a call, one per call.  A pruned copy is then older
than `MaxBackups` others; if it belonged to a call that still needs it, these
would belong to `MaxBackups` other calls, one more than there are.

`CallsAreAtomicSwaps` proves the refinement, `ImplementsAtomicApply`, under the
hypotheses `Quiet(R)`: nobody else writes, every write can be verified, and `R` ranks
the boards so that each output ranks above the board its token was issued for.  The
instance of `apply_atomic` satisfies them.  The invariant is `AtomicInv(R)`: the board
only climbs, so a call past its open either has the board's own inode open or has
seen a board that never comes back, and after its compare only the first is left;
with the locks of `TypeOK` that makes the renaming call the only one between compare
and rename (`RenameClimbs`).  A call that published finds its own output or a later
one, so no restore begins.  Each step then maps to one of `AtomicApply` or to a
stutter (`StepIsAtomic`): a token used before would have left the board above the
bytes it was issued for.

Under `Quiet(R)` neither of the two findings can happen
(`TokensWriteOnceWithoutRestores`, `LosersRefuseWithoutRestores`): a token writes a
second time, and a call that lost its race overwrites the winner, only where a
restore brings the old bytes back, somebody else writes them, or a board comes
around to bytes it had before.  The theorems conclude what the two runs refute, from
`AtomicInv(R)`, so the hypotheses say exactly what the runs use.

`CallsEnd` is model-checked only.

## Optimization jobs

### Modules

* `OptimizationRecord` — `lifecycle.py`: statuses, phases of both schema versions,
  and each transition as a function beside the predicate that says when it does
  not raise.
* `OptimizationRepository` — `repository.py`: `rows[j]` is the record with its
  lease, its package and its retention.  Every method begins with maintenance
  (`recover_expired_leases`, deletion of rows past their retention), which stays
  when the method then refuses.
* `OptimizationWorker` — the isolated worker of a launch: `child[l]` is what it is
  about to do, under which fence, and what it has charged.  The search between two
  calls of its probe is a choice.
* `OptimizationService` — the server's half: `private[j]` (inputs, reservation and
  retained candidate), `runner[l]` (the supervisor on the executor's thread, from
  `Begin` over the exchange to the future's `Callback`), `starting[c]` (a start
  that prepares outside the lock).  A crash empties all of them and leaves `rows`
  and the running child.
* `OptimizationLifecycle` — the abstract specification of what a watcher of one job
  may see.
* `OptimizationProperties`, `MCOptimization`, `OptimizationProofs`.

### Abstractions

A checkpoint's heartbeat and its read are one step, which only the lease's holder
could tell apart; a checkpoint and the write it guards stay two.  A package stands
for its digest, judge and metrics, and a charge only for whether it exhausts the
budget.  Time is what lapses and ages: a lease lapses only after its holder's
deadline (the launch's deadline ends before the lease it renews), rows are kept a day and private entries 900
seconds, so an entry expires before its row.  The supervisor's exchange is one
step with its outcome here; `IsolatedExchange` models it pipe by pipe.

### Runs

| Run | Question | Bounds |
|---|---|---|
| `optimization_service` | types and shapes, packages, retained bytes, reservations, refinement of `OptimizationLifecycle`, progress | 2 jobs (one per schema version), 2 launches, 2 callers, 1 crash, 2 private entries |
| `optimization_lost_inputs` | a finding | 1 job, 1 restart |

Two launches are enough for an orphaned worker to meet its successor, two jobs
fill both bounds of the service, and with two callers two starts that have both
seen room prepare at once.  `MCOptimization` explores crashes, deadlines, ageing
and charges with one stored job and one start, and what jobs and starts share with
two, where the second caller, which is like the first, starts only while the first
one prepares; without this the instance does not finish.  So `SubmissionSettles`
rests on a deadline only where one job is stored and one start prepares.

`SubmissionSettles` assumes that the executor's thread runs and that a launch's
deadline passes; the worker may hang, and no caller need come back.
`LostInputsTerminate` is given more, a server that answers requests for ever
(`ServingSpec`), and fails all the same.

### Finding

* `optimization_lost_inputs`: `_purge` only meets jobs that have a private entry,
  and a restarted server has none.  A job that awaited approval when the server
  died is never closed as interrupted, although the docstring of `lifecycle.py`
  says so; it stays until its retention ends.

### Proofs

`OptimizationProofs` proves, for any number of jobs, launches, callers and
crashes, every safety property that `optimization_service` checks.

* The rows.  Every method maintains the table and then writes at most one row, so
  one lemma per transition says that the row stays well formed (`RowOK`: shape,
  package as the record shows it, a lease only on a job that is being worked on)
  and makes one move of `OptimizationLifecycle` or none.  `TableMoves` lifts this
  to tables, and `NextMoves` to steps.  `OptimizationKeepsTypes`,
  `PackagesFollowRecords` and the refinement `RowsImplementLifecycle` follow, with
  `TInv` for the processes and the memory of the server.
* The memory.  `CandidateKeptForReview` relates a private entry to a row that the
  entry's supervisor last saw several steps ago.  `KInv` closes the gap: a job
  whose supervisor is at work has the entry of that launch (`EntryOfRunner`);
  kept bytes are those of the entry's own launch, whose supervisor is over
  (`BytesOfLaunch`); the row of a supervisor's job is there and does not age
  (`RowOfRunner`); and what the supervisor has fetched is the stored package, or the
  job has been stopped (`BytesOfPackage`).  The last is kept because a row that does
  not age only goes on towards its end (`Stays`).
* The limits.  `RetentionIsBounded`: a request looks at the bounds before it
  reserves, the callback and `retain` do not.  They stay within them because what
  they leave was reserved before, and stays reserved until the job is stopped
  (`ResultReserved`).  The bytes are the cardinality of `ReservedUnits`, one element
  per reserved unit, so that the bound is about sets and needs no induction.

## Components without shared state

Ten modules model parts that share nothing with each other.  `MCParts` runs them
side by side in one run: `part`, chosen initially, names the one that moves, and
the others stay as they start.  Each behaviour is therefore a behaviour of one
component, and nothing is shown about interleavings of two of them, which could
only interleave, never interact.

* `ArtifactStore` — `artifact_store.py`: `artifacts` in order of use, a byte count kept
  apart from them, as the code keeps it.  `BytesAccounted` ties the two together
  through store, expiry, eviction and a failed verification; `LeastRecentGoes`
  says what an eviction may take.
* `TaskHandles` — `task_bridge.py`: handles, the last reading accepted and a clock
  that may step back.  `HandleLifetimeBounded`.
* `ReviewConsent` — `_host_consent.py` and both flows of `mcp.py`: `Reviews` pass
  through elicitation, and share a pending challenge when they are about one
  package; the job moves and the clock runs under them.
  `OneDecisionPerChallenge`.
* `IsolatedExchange` — `isolated.py` and `_process_guard.py` beneath the step that
  `OptimizationService` takes: the supervisor's selector loop, three pipes with
  finite room, the guardian with its alarm, the worker and a descendant that may
  hold a pipe open; the server may die.  `DeliveredWhole`,
  `AnswerNeedsNoDeadline`, `GroupEnds`.
* `ConfinedContainer` — `confined_container.py`: probes, launch, exchange, cleanup
  and verdict, over a container, its client and a daemon.  `RunEndsClean`.
* `CongestionLedger`, `NegotiatedRouting` — `congestion.py` with the rip-up rules of
  `negotiation_plan.py`: `pass` is one iteration, `ledger` its counters, `kept` what
  the next one may keep, `best` the best set so far, `spent` the charged work.
  `PublishedSetIsLegal`, `LedgerMatchesAllocation`, `BudgetRespected`,
  `KeptSetIsSound`.
* `RouteSearch` — one leg of `astar.py`'s search over a lattice with blocked
  edges, marked cells and bends: the heap with its stale entries, the best score
  per state, the heuristic.  The constants `Sources` and `Targets` hold the node
  sets either component may cover.  `SearchIsShortest` compares the result with
  every simple walk.
* `LayeredSearch` — `layered_astar.py` with and without a cap on vias, where a
  state is dominated by one with no more cost and no more vias; `Start` and `Goals`
  are its ends.  `LayeredSearchIsShortest`, against every walk of at most as many
  steps as there are nodes that respects the cap.
* `SpatialIndex` — both indexes of `spatial_index.py`.  `IndexesMissNothing`
  compares them with a rebuild from the stored boxes, at negative coordinates and
  at the limits of cells and entries.

The congestion policy prices a step by its edge and the node it enters; in
`RouteSearch` the price is on the node alone, and one amount.  A rectangle of
`SpatialIndex` is never reversed: the code refuses one, although the docstring at
`spatial_index.py:380` says that it selects nothing.

The router of `NegotiatedRouting` is pluggable in the code, so its outcome and the
order of nets in a pass are choices; entries of equal key leave a heap in either
order.  The reference definitions enumerate simple walks only, since costs are
positive.  On Linux `killpg` always reaches the group of a guardian that is not
reaped yet, and a daemon creates a container only while its client runs.

### Run

| Run | Bounds |
|---|---|
| `parts` | 3 capabilities of 2 sizes for 2 places and 3 bytes, 4 calls; 3 handles, 2 jobs, 2 callers, a clock of 4 values; 3 reviews for 1 place and 2 challenges; a request of 2 chunks and an answer of 3 through pipes of 2; 4 nets over 4 cells, 1 or 2 of them connected by the board, 2 passes, all 5 rules, a budget of 7 searches; lattices of 4x2 and 5x2 cells with 2 layers; 3 keys with boxes of 18 shapes, at most 2 stored |

The bounds are chosen so that every limit is met: the stores fill, the
pipes block, a budget ends in the second pass, a replayed search meets an odd
remainder, a refused pass with a net that found no way goes on because of a connected
one (which takes four nets: two for the refused pair), a wall makes the cheaper way to a node the one that has used up the
vias the rest needs, and a box covers too many cells.  A component may have
nothing left to do, so deadlock is not checked there; the liveness properties say
instead what must be reached.

Fairness (`ExchangeFairness`): the supervisor's loop runs, and the guardian is
scheduled: it reports, or its alarm ends the group.  The worker, what it starts and
the callers owe nothing.  That the alarm's hour comes is
assumed only in the premise of `GroupEnds`, so `AnswerNeedsNoDeadline` shows
an end without it.

Three things the code does and these models keep, without calling them wrong:
the cleanup removes a container by name before it kills the client, so that
a client which had not asked yet may create one afterwards (`late`); a net that was
connected before a search whose budget ends is listed as connected and as
unrouted (`PublishedSetIsLegal` allows this overlap then, and no other); and a run without a plan drops its best set when a later pass runs out
of budget with nothing, where the equivalent plan publishes it.

### Proofs

`PartsProofs` has one section per component.  The first proves
`HandlesExpireInTime`: `TaskSpec => []HandleLifetimeBounded`
for any number of handles, jobs and callers.  `Unexpired` measures against the
clock and the property against the last accepted reading; the invariant
`HandlesInv` adds the types and the map's finiteness and capacity, and
`PurgedMapFits` shows that an accepted operation, which makes its reading the
last one, leaves a map that fits it, also when the clock had stepped back in
between.

`NegotiationProofs` proves the four safety properties of `NegotiatedRouting` for
any nets, cells, rules and budgets.  The invariant `NInv` follows the passes: the
counters of the ledger are those of the routes it holds (`Counts`), through every
route added, removed or retained; between two passes the ledger still holds what
the next one keeps (`BetweenInv`), in a pass it holds the pass's routes and none of
a net still to visit (`SearchInv`); and the best set is legal and accounts for every
net (`BestInv`), in one list only unless the budget is used up, which it then stays
(`Accounted`, `ResultsStay`).  That the rules which rip up every conflicted net leave disjoint
routes is `SharedCellScores`: two holders of one cell give each a positive score.

The other sections of `PartsProofs`:

* `AnswerIsDeliveredWhole`.  `ExchangeInv` counts chunks: what was sent was read or
  is in the pipe, and so for the answer.  A good frame speaks of a worker that wrote
  everything, and an answer that has been drained to the end is all there is.
* `ConfinedRunEndsClean`.  `ContainerInv`: only the exchange reads the router's
  output, and a client is reaped only when nothing runs that could use its pipes or
  create a container; `client.code = "zero"` carries the fact that the router's
  whole output was written from the client's end to the verdict.
* `ReviewKeepsTypes`, `ChallengeCarriesOneDecision`.  `ConsentInv`: a challenge is
  drawn once and for one purpose, and one that had an effect is pending nowhere, so
  no second review can consume it.
* `QueriesMissNothing`: exact answers of the incremental index and of the
  conservative one with a grid, a superset of them without a grid; the order of an
  answer and the count of cells examined are not in the model.  `IndexInv` says that
  the grid is the one a rebuild gives; the rest is arithmetic: rectangles that meet share a cell (`MeetingRectanglesShareCell`),
  because rounding down keeps the order (`CellsFollowOrder`), also below zero.
* `BytesStayAccounted`, `WhatWasUsedLastStays`.  `ArtifactInv` orders the entries by
  their last use, which makes capabilities distinct and what an eviction takes the
  least recent.  `PickedKeepsStore` says what taking entries out of the map does to
  bytes, order and capabilities; purge, eviction and removal are instances of it.

`SearchProofs` proves that both searches are best-first searches that work:
`SearchFindsShortest` and `LayeredSearchFindsShortest`, for every lattice, every set
of obstacles, every choice of ends and of the nodes that are priced.

* The one-leg search.  `RouteInv` says that a state with a score is either queued
  with it or settled, which means that every legal step out of it leads to a state
  with a score no worse (`Settled`), and that a state's score is no better than its
  parent's raised by one step, since the parent may have improved later.  Before the
  leg ends, each legal walk from a source to a target therefore meets a queued state
  whose score is no worse than the walk's so far (`SearchIsAhead`); the estimate never falls by more than a step costs
  (`HeuristicChanges`), so the cheapest entry at a target is no worse than any walk
  (`NoWalkIsLess`), and an empty heap means that there is none (`DryMeansNoWalk`).
  That the published route is such a walk with that score is the other half: the
  chain of parents ends in a source because the first component of the score falls
  (`WayHome`), all before its end is settled, and it is simple although a node may
  be reached in five directions: coming back to one saves at most a bend and costs
  at least two steps (`ChainIsSimple`).
* The layered search.  In `LayeredInv` every label is awaited in the queue or done,
  a label that was dropped has one that is no dearer in its place, and each label
  came from one of its origin's node.  `WalksAreSeen` is the argument along walks,
  with a label's cost and vias in the place of the score; labels that still lead to
  the popped goal have a chain of live origins (`CameFromKept`, `LiveStep`), whose
  costs and vias add up (`LabelsAddUp`).
* Recursive functions.  The modules enumerate walks, and follow parents back, by
  functions on `0..n`.  That such a function exists, and that a fact holds of all its
  values, is shown by a least counterexample (`LeastNatural`; `GrowsByOne`,
  `BackwardsExists`, `WalkerExists`), since the library's induction theorems take an
  operator as a parameter.

`MCPartsProofs` proves `PartsKeepTypes`, the type invariant of the run as a whole.
`RunningInv` is the inductive invariant of the component that runs, beside the
initial state of the others; a step of the run is one of that component
(`PartsStep`), and each invariant gives its component's types.

## Assumptions of the proofs

The named assumptions of the modules constrain constants only: positive lifetimes
and limits, `None` outside the sets it marks, candidates that change the board,
finite sets of nets and cells, sizes that are natural numbers, ends of a search that
are nonempty and lie in the lattice, a finite set of layers numbered by integers.
TLC evaluates them
in every run that extends their modules.  `CallsKeepTheirWayBack` states two more
in its ASSUME, which bound the instance and not the behaviour; those of
`CallsAreAtomicSwaps` are the circumstances in which the promise holds at all.  `ServerAssumption`
says that every server may crash.

Two ways of writing things down make the proofs possible.  A total (the bytes of
an artifact store, the reserved bytes, the overflow of a ledger) is the cardinality
of a set with one element per unit, because a sum over a set is a fold and what a
fold computes can only be proved by induction.  A filtered sequence is the image
of the positions kept (`Picked`), which is what removing entries of an ordered
map one by one leaves, and whose order and bytes can be read off a bijection.
Where finite sets do need induction, as for the extremes of a set of coordinates
(`ExtremeExists`), the proof takes a minimal counterexample, by the library's
well-foundedness of strict subsets; where numbers do, as for walks, a least one.

Every invariant and action property of the passing runs is stated by a theorem.
What stays with TLC is liveness (`CallsEnd`, `StartedJobSettles`,
`SubmissionSettles`, `AnswerNeedsNoDeadline`, `GroupEnds`): the provers have no rules
for fairness here.

## What is left

Models: `layered_tree_router.py` (a tree grown leg by leg over `LayeredSearch`), the
order in which `steiner_ordering.py` visits the legs, the second reading by which
`kicad_ipc.py` detects a board that changed while it was read, and the restart
protocol of `policy_worker.py`.

Theorems: none of the safety properties is left.  That the searches end, and the
other liveness properties, would need fairness rules.

## Not modelled

Parsers, encoders and patches of board and circuit files, geometric validation,
placement, engineering projections and the wrappers of the KiCad command line are
pure functions or bounded child processes: they keep no state between calls, and
their inputs are far beyond a model checker.  They are most of the repository's
lines, as are its benchmarks and scripts, so the share of all lines that the
models map is small; it is large in the files named above.  The models use these
parts as functions (`Output`, `Valid`) or as choices (a step that may refuse).
Live apply never reaches its mutation.  Docker, the external router and KiCad are
outside the repository; of what drives them, the container's run is modelled and
the validation of what comes back is not.  The threads on which the MCP library
runs tools are not part of the repository either, and the models do not depend on
them.
