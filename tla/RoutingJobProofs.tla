--------------------------- MODULE RoutingJobProofs ---------------------------
(***************************************************************************)
(* Proofs about the routing-job ledger, its capacity, its workers and      *)
(* their leases, for any number of jobs, workers, callers and ticks.       *)
(*                                                                         *)
(* The argument has two halves.  First, every step of the system, whoever  *)
(* takes it, does to the ledger one of three things: it keeps a row, drops *)
(* an expired one, or makes a single row take one lawful move              *)
(* (LedgerStep).  Then the inductive invariant IInv is preserved by a      *)
(* ledger step together with what the step does to the worker.             *)
(*                                                                         *)
(* The invariant says that a leased record is never queued again.  So a    *)
(* record that is running under its lease has not changed since it was     *)
(* started: what a worker has learned about it stays true while it runs    *)
(* (RunningStands), and the facts about leases, each about one point of a  *)
(* worker's program, are kept by every other step.                         *)
(***************************************************************************)
EXTENDS RoutingJobProperties, FiniteSetTheorems, TLAPS

-----------------------------------------------------------------------------
(* The inductive invariant.                                                *)

(* A row is empty or a well-shaped record that expires Ttl after creation. *)
RowOK(r) ==
    \/ r = NoRecord
    \/ /\ r.status \in Status
       /\ ShapeOK(r)
       /\ r.created_at <= now
       /\ r.expires_at = r.created_at + Ttl

LedgerOK == \A j \in Jobs : RowOK(jobs[j])

(* A captured clock value lies in the past.                                *)
SeenOK == \A w \in Workers : seen[w].at <= now

(* A leased record is never queued again: either the ledger still shows it *)
(* past its start, or its retention is over and any record now under the   *)
(* same id was created after it.                                           *)
LeaseOK ==
    \A w \in Workers : Active(w) =>
        LET r == jobs[lease[w].job]
            born == lease[w].born
        IN  /\ born <= now
            /\ \/ r.status \notin {"absent", "queued"} /\ r.created_at = born
               \/ /\ now >= born + Ttl
                  /\ r.status # "absent" => r.created_at >= born + Ttl

IInv == TypeOK /\ LedgerOK /\ SeenOK /\ LeaseOK /\ ExecutedOnce

-----------------------------------------------------------------------------
(* What a step may do to the ledger.                                       *)

(* The moves of a single record that the store can commit at time t.       *)
Moves(j, t, r, s) ==
    /\ r.status # "absent" /\ r.expires_at > t /\ t >= r.updated_at
    /\ \/ MayStart(r) /\ s = StartRecord(r, t)
       \/ MayRequestCancel(r) /\ s = RequestCancelRecord(r, t)
       \/ MayAcknowledgeCancel(r) /\ s = AcknowledgeCancelRecord(r, t)
       \/ \E code \in FailureCode : MayFail(r, code) /\ s = FailRecord(r, code, t)
       \/ \E c \in Candidates :
             MayComplete(r) /\ ValidateCandidate(c, j) /\ s = CompleteRecord(r, c, t)

Kept(j) == jobs'[j] = jobs[j] \/ (jobs[j].expires_at <= now /\ jobs'[j] = NoRecord)

Created(j) ==
    /\ jobs[j].status = "absent" \/ jobs[j].expires_at <= now
    /\ jobs'[j] = CreateRecord(now, Ttl)

Moved(j) == \E t \in 0..now : Moves(j, t, jobs[j], jobs'[j])

LedgerStep ==
    /\ now' = now
    /\ jobs' \in [Jobs -> Record]
    /\ \/ \A k \in Jobs : Kept(k)
       \/ \E j \in Jobs :
             /\ Created(j) \/ Moved(j)
             /\ \A k \in Jobs \ {j} : Kept(k)

(* Transition functions return records.                                    *)
LEMMA StampedRecord ==
    ASSUME NEW r \in Record, NEW t \in Nat
    PROVE  Transition(r, t) \in Record
<1> DEFINE n == r.revision + 1
<1>1. n \in Nat
  BY DEF Record
<1> HIDE DEF n
<1>2. [r EXCEPT !.revision = n, !.updated_at = t] \in Record
  BY <1>1 DEF Record
<1> QED BY <1>2 DEF Transition, n

LEMMA RecordMoves ==
    ASSUME NEW r \in Record, NEW t \in Nat, NEW j \in Jobs, NEW s, Moves(j, t, r, s)
    PROVE  s \in Record
<1> DEFINE q == Transition(r, t)
<1>1. q \in Record
  BY StampedRecord
<1>2. {"running", "cancel_requested", "completed", "failed", "cancelled"} \subseteq Status
  BY DEF Status
<1>3. "cancelled" \in FailureCode
  BY DEF FailureCode
<1> HIDE DEF q
<1>4. CASE s = [q EXCEPT !.status = "running", !.attempt = @ + 1]
  <2> DEFINE n == q.attempt + 1
  <2>1. n \in Nat
    BY <1>1 DEF Record
  <2> HIDE DEF n
  <2>2. [q EXCEPT !.status = "running", !.attempt = n] \in Record
    BY <1>1, <1>2, <2>1 DEF Record
  <2> QED BY <1>4, <2>2 DEF n
<1>5. CASE s = [q EXCEPT !.status = "cancelled", !.diagnostic_code = "cancelled",
                         !.cancel_reason = TRUE]
  BY <1>1, <1>2, <1>3, <1>5 DEF Record
<1>6. CASE s = [q EXCEPT !.status = "cancel_requested", !.cancel_reason = TRUE]
  BY <1>1, <1>2, <1>6 DEF Record
<1>7. CASE s = [q EXCEPT !.status = "cancelled", !.diagnostic_code = "cancelled"]
  BY <1>1, <1>2, <1>3, <1>7 DEF Record
<1>8. ASSUME NEW code \in FailureCode,
             s = [q EXCEPT !.status = "failed", !.candidate_id = None,
                           !.diagnostic_code = code, !.cancel_reason = FALSE]
      PROVE  s \in Record
  BY <1>1, <1>2, <1>8 DEF Record
<1>9. ASSUME NEW c \in Candidates,
             s = [q EXCEPT !.status = "completed", !.candidate_id = c,
                           !.diagnostic_code = "none", !.cancel_reason = FALSE]
      PROVE  s \in Record
  BY <1>1, <1>2, <1>9 DEF Record
<1>10. s = StartRecord(r, t) => s \in Record
  BY <1>4, Zenon DEF q, StartRecord
<1>11. s = RequestCancelRecord(r, t) => s \in Record
  BY <1>5, <1>6, Zenon DEF q, RequestCancelRecord
<1>12. s = AcknowledgeCancelRecord(r, t) => s \in Record
  BY <1>7, Zenon DEF q, AcknowledgeCancelRecord
<1>13. \A code \in FailureCode : s = FailRecord(r, code, t) => s \in Record
  BY <1>8, Zenon DEF q, FailRecord
<1>14. \A c \in Candidates : s = CompleteRecord(r, c, t) => s \in Record
  BY <1>9, Zenon DEF q, CompleteRecord
<1> QED BY <1>10, <1>11, <1>12, <1>13, <1>14, Zenon DEF Moves

LEMMA NewRecord ==
    ASSUME NEW t \in Nat
    PROVE  CreateRecord(t, Ttl) \in Record /\ NoRecord \in Record
<1>1. NoRecord \in Record
  BY DEF NoRecord, Record
<1> DEFINE e == t + Ttl
<1>2. e \in Nat
  BY StoreAssumption
<1>3. "queued" \in Status
  BY DEF Status
<1> HIDE DEF e
<1>4. [NoRecord EXCEPT !.status = "queued", !.created_at = t, !.updated_at = t,
                       !.expires_at = e] \in Record
  BY <1>1, <1>2, <1>3 DEF Record
<1> QED BY <1>1, <1>4 DEF CreateRecord, e

(* Purging keeps what has not expired and nothing else.                    *)
LEMMA PurgeFacts ==
    ASSUME StoreTypeOK, NEW t \in Nat
    PROVE  /\ Purge(t) \in [Jobs -> Record]
           /\ \A k \in Jobs :
                 /\ \/ Purge(t)[k] = jobs[k]
                    \/ jobs[k].expires_at <= t /\ Purge(t)[k] = NoRecord
                 /\ k \in Stored(Purge(t)) =>
                       /\ Purge(t)[k] = jobs[k]
                       /\ jobs[k].status # "absent"
                       /\ jobs[k].expires_at > t
                 /\ k \notin Stored(Purge(t)) =>
                       jobs[k].status = "absent" \/ jobs[k].expires_at <= t
<1>1. NoRecord \in Record
  BY NewRecord
<1>2. \A k \in Jobs : jobs[k].expires_at \in Nat
  BY DEF StoreTypeOK, Record
<1> QED BY <1>1, <1>2 DEF StoreTypeOK, Purge, Stored, NoRecord

(* Each store operation, run at a time that has come, is a ledger step.    *)
LEMMA GetIsLedgerStep ==
    ASSUME StoreTypeOK, NEW t \in 0..now, now' = now, StoreGet(t)
    PROVE  LedgerStep
<1>1. t \in Nat /\ t <= now /\ now \in Nat
  BY DEF StoreTypeOK
<1>2. \A k \in Jobs : jobs[k].expires_at \in Nat
  BY DEF StoreTypeOK, Record
<1> QED BY <1>1, <1>2, PurgeFacts DEF StoreGet, LedgerStep, Kept

LEMMA CreateIsLedgerStep ==
    ASSUME StoreTypeOK, NEW j \in Jobs, now' = now, StoreCreate(j, now)
    PROVE  LedgerStep
<1>1. now \in Nat /\ jobs \in [Jobs -> Record]
  BY DEF StoreTypeOK
<1>2. CreateRecord(now, Ttl) \in Record
  BY <1>1, NewRecord
<1>3. CASE UNCHANGED jobs
  BY <1>1, <1>3 DEF LedgerStep, Kept
<1>4. CASE jobs' = Purge(now)
  BY <1>1, <1>4, PurgeFacts DEF LedgerStep, Kept
<1>5. CASE /\ j \notin Stored(Purge(now))
           /\ jobs' = [Purge(now) EXCEPT ![j] = CreateRecord(now, Ttl)]
  BY <1>1, <1>2, <1>5, PurgeFacts DEF LedgerStep, Kept, Created
<1> QED BY <1>3, <1>4, <1>5 DEF StoreCreate

LEMMA WriteIsLedgerStep ==
    ASSUME StoreTypeOK, NEW j \in Jobs, NEW t \in 0..now, NEW s, now' = now,
           Moves(j, t, jobs[j], s), Write(j, t, s)
    PROVE  LedgerStep
<1>1. t \in Nat /\ t <= now /\ now \in Nat /\ jobs \in [Jobs -> Record]
  BY DEF StoreTypeOK
<1>2. \A k \in Jobs : jobs[k].expires_at \in Nat
  BY <1>1 DEF Record
<1>3. s \in Record
  BY <1>1, RecordMoves
<1>4. jobs' \in [Jobs -> Record] /\ jobs'[j] = s
  BY <1>1, <1>3, PurgeFacts DEF Write
<1>5. \A k \in Jobs \ {j} : Kept(k)
  BY <1>1, <1>2, PurgeFacts DEF Write, Kept
<1>6. Moved(j)
  BY <1>4 DEF Moved
<1> QED BY <1>4, <1>5, <1>6 DEF LedgerStep

(* Each compare-and-swap that succeeds is a lawful move of one record.     *)
LEMMA CasIsLedgerStep ==
    ASSUME StoreTypeOK, NEW j \in Jobs, NEW t \in 0..now, NEW e, now' = now
    PROVE  /\ StartOK(j, e, t) /\ StoreStart(j, t) => LedgerStep
           /\ \A code : FailOK(j, code, e, t) /\ StoreFail(j, code, t) => LedgerStep
           /\ AcknowledgeOK(j, e, t) /\ StoreAcknowledge(j, t) => LedgerStep
           /\ RequestCancelOK(j, e, t) /\ StoreRequestCancel(j, t) => LedgerStep
           /\ \A c : CompleteOK(j, c, e, t) /\ StoreComplete(j, c, t) => LedgerStep
<1> USE DEF Moves
<1>1. t \in Nat
  BY DEF StoreTypeOK
<1>2. Current(j, e, t) =>
         /\ jobs[j].status # "absent" /\ jobs[j].expires_at > t
         /\ t >= jobs[j].updated_at
  BY <1>1, PurgeFacts DEF Current, MayTransition
<1>3. StartOK(j, e, t) /\ StoreStart(j, t) => LedgerStep
  BY <1>2, WriteIsLedgerStep DEF StartOK, StoreStart
<1>4. ASSUME NEW code, FailOK(j, code, e, t), StoreFail(j, code, t)
      PROVE  LedgerStep
  <2>1. code \in FailureCode
    BY <1>4 DEF FailOK, MayFail
  <2> QED BY <1>2, <1>4, <2>1, WriteIsLedgerStep DEF FailOK, StoreFail
<1>5. AcknowledgeOK(j, e, t) /\ StoreAcknowledge(j, t) => LedgerStep
  BY <1>2, WriteIsLedgerStep DEF AcknowledgeOK, StoreAcknowledge
<1>6. RequestCancelOK(j, e, t) /\ StoreRequestCancel(j, t) => LedgerStep
  BY <1>2, WriteIsLedgerStep DEF RequestCancelOK, StoreRequestCancel
<1>7. ASSUME NEW c, CompleteOK(j, c, e, t), StoreComplete(j, c, t)
      PROVE  LedgerStep
  <2>1. c \in Candidates
    BY <1>7, RecordAssumption DEF CompleteOK, ValidateCandidate
  <2> QED BY <1>2, <1>7, <2>1, WriteIsLedgerStep DEF CompleteOK, StoreComplete
<1> QED BY <1>3, <1>4, <1>5, <1>6, <1>7

(* A lawful move keeps a record well shaped and never queues it again.     *)
LEMMA MoveKeepsRowOK ==
    ASSUME now \in Nat, NEW r \in Record, RowOK(r), NEW j \in Jobs, NEW t \in 0..now,
           NEW s, Moves(j, t, r, s)
    PROVE  RowOK(s) /\ s.created_at = r.created_at /\ s.status \notin {"absent", "queued"}
<1> USE DEF Transition
<1>1. r.status \in Status /\ ShapeOK(r) /\ r.created_at <= now
      /\ r.expires_at = r.created_at + Ttl /\ t >= r.updated_at
  BY DEF Moves, RowOK, NoRecord
<1>2. /\ r.revision \in Nat /\ r.attempt \in Nat /\ r.created_at \in Nat
      /\ r.updated_at \in Nat /\ r.expires_at \in Nat /\ t \in Nat
  BY DEF Record
<1>3. None \notin Candidates /\ "none" \notin FailureCode
  BY RecordAssumption DEF FailureCode
<1> USE <1>1, <1>2, <1>3 DEF RowOK, ShapeOK, HasOutcome, Status, Record
<1>4. CASE MayStart(r) /\ s = StartRecord(r, t)
  BY <1>4 DEF MayStart, StartRecord
<1>5. CASE MayRequestCancel(r) /\ s = RequestCancelRecord(r, t)
  BY <1>5 DEF MayRequestCancel, RequestCancelRecord
<1>6. CASE MayAcknowledgeCancel(r) /\ s = AcknowledgeCancelRecord(r, t)
  BY <1>6 DEF MayAcknowledgeCancel, AcknowledgeCancelRecord
<1>7. CASE \E code \in FailureCode : MayFail(r, code) /\ s = FailRecord(r, code, t)
  BY <1>7 DEF MayFail, FailRecord
<1>8. CASE \E c \in Candidates : MayComplete(r) /\ s = CompleteRecord(r, c, t)
  BY <1>8 DEF MayComplete, CompleteRecord
<1> QED BY <1>4, <1>5, <1>6, <1>7, <1>8 DEF Moves

(* A ledger step keeps every row in order.                                 *)
LEMMA LedgerStepKeepsLedgerOK ==
    ASSUME StoreTypeOK, LedgerOK, LedgerStep
    PROVE  LedgerOK'
<1> SUFFICES ASSUME NEW k \in Jobs PROVE RowOK(jobs[k])'
  BY DEF LedgerOK
<1>1. now' = now /\ now \in Nat /\ jobs[k] \in Record /\ RowOK(jobs[k])
  BY DEF LedgerStep, StoreTypeOK, LedgerOK
<1>2. CASE Kept(k)
  BY <1>1, <1>2 DEF Kept, RowOK
<1>3. CASE Created(k)
  BY <1>1, <1>3, StoreAssumption
  DEF Created, CreateRecord, RowOK, ShapeOK, HasOutcome, NoRecord, Status
<1>4. CASE Moved(k)
  <2>1. RowOK(jobs'[k])
    BY <1>1, <1>4, MoveKeepsRowOK DEF Moved
  <2> QED BY <1>1, <2>1 DEF RowOK
<1> QED BY <1>2, <1>3, <1>4 DEF LedgerStep

-----------------------------------------------------------------------------
(* The leases under a ledger step, or a tick.                              *)

(* What a leased record may look like afterwards.                          *)
LeaseRowOK(r, born, t) ==
    /\ born <= t
    /\ \/ r.status \notin {"absent", "queued"} /\ r.created_at = born
       \/ /\ t >= born + Ttl
          /\ r.status # "absent" => r.created_at >= born + Ttl

LEMMA LedgerStepKeepsLeaseRow ==
    ASSUME StoreTypeOK, LedgerOK, LedgerStep, NEW k \in Jobs, NEW born \in Nat,
           LeaseRowOK(jobs[k], born, now)
    PROVE  LeaseRowOK(jobs'[k], born, now)
<1> USE DEF LeaseRowOK
<1>1. now' = now /\ now \in Nat /\ jobs[k] \in Record /\ RowOK(jobs[k])
  BY DEF LedgerStep, StoreTypeOK, LedgerOK
<1>2. Ttl \in Nat /\ Ttl > 0
  BY StoreAssumption
<1>3. CASE Kept(k)
  BY <1>1, <1>2, <1>3 DEF Kept, RowOK, NoRecord
<1>4. CASE Created(k)
  BY <1>1, <1>2, <1>4 DEF Created, CreateRecord, RowOK, NoRecord
<1>5. CASE Moved(k)
  <2>1. /\ jobs'[k].created_at = jobs[k].created_at
        /\ jobs'[k].status \notin {"absent", "queued"}
    BY <1>1, <1>5, MoveKeepsRowOK DEF Moved
  <2>2. jobs[k].status # "absent"
    BY <1>5 DEF Moved, Moves
  <2> QED BY <2>1, <2>2
<1> QED BY <1>3, <1>4, <1>5 DEF LedgerStep

LEMMA LeaseOKRows ==
    LeaseOK <=> \A w \in Workers :
                   Active(w) => LeaseRowOK(jobs[lease[w].job], lease[w].born, now)
BY DEF LeaseOK, LeaseRowOK

(* Leases are only given up: what was true of every lease stays true.      *)
LeasesKept == lease' = lease \/ \E w \in Workers : lease' = [lease EXCEPT ![w] = NoLease]

LEMMA KeptLeasesStayOK ==
    ASSUME IInv, LeasesKept,
           LedgerStep \/ (jobs' = jobs /\ now' = now + 1)
    PROVE  LeaseOK' /\ ExecutedOnce'
<1>1. now \in Nat /\ LedgerOK /\ StoreTypeOK
  BY DEF IInv, TypeOK, StoreTypeOK
<1>2. ASSUME NEW v \in Workers, Active(v)'
      PROVE  /\ lease'[v] = lease[v] /\ Active(v)
             /\ lease[v].job \in Jobs /\ lease[v].born \in Nat
  <2>1. lease \in [Workers -> LeaseRecord]
    BY DEF IInv, TypeOK
  <2>2. lease'[v] = lease[v]
    BY <1>2, <2>1 DEF LeasesKept, Active, NoLease
  <2> QED BY <1>2, <2>1, <2>2 DEF Active, LeaseRecord
<1>3. ASSUME NEW v \in Workers, Active(v)'
      PROVE  LeaseRowOK(jobs'[lease'[v].job], lease'[v].born, now')
  <2>1. LeaseRowOK(jobs[lease[v].job], lease[v].born, now)
    BY <1>2, <1>3, LeaseOKRows DEF IInv
  <2>2. CASE LedgerStep
    BY <1>1, <1>2, <1>3, <2>1, <2>2, LedgerStepKeepsLeaseRow DEF LedgerStep
  <2>3. CASE jobs' = jobs /\ now' = now + 1
    BY <1>1, <1>2, <1>3, <2>1, <2>3, StoreAssumption DEF LeaseRowOK
  <2> QED BY <2>2, <2>3
<1>4. LeaseOK'
  BY <1>3 DEF LeaseOK, LeaseRowOK
<1>5. ExecutedOnce'
  BY <1>2 DEF IInv, ExecutedOnce
<1> QED BY <1>4, <1>5

(* The one step that takes a lease takes it on a queued record, which no   *)
(* other worker can have leased.                                           *)
LEMMA StartKeepsLeases ==
    ASSUME IInv, LedgerStep, NEW w \in Workers, NEW j \in Jobs, NEW l \in LeaseRecord,
           l.job = j, l.born = jobs[j].created_at, jobs[j].status = "queued",
           jobs'[j].status \notin {"absent", "queued"},
           jobs'[j].created_at = jobs[j].created_at,
           lease' = [lease EXCEPT ![w] = l]
    PROVE  LeaseOK' /\ ExecutedOnce'
<1>1. /\ now \in Nat /\ now' = now /\ LedgerOK /\ StoreTypeOK
      /\ lease \in [Workers -> LeaseRecord]
  BY DEF IInv, TypeOK, StoreTypeOK, LedgerStep
<1>2. RowOK(jobs[j]) /\ jobs[j] \in Record
  BY <1>1 DEF LedgerOK, StoreTypeOK
<1>3. l.born \in Nat /\ l.born <= now
  BY <1>2 DEF RowOK, NoRecord, Record
<1>4. lease'[w] = l /\ LeaseRowOK(jobs'[j], l.born, now)
  BY <1>1, <1>3 DEF LeaseRowOK
<1>5. ASSUME NEW v \in Workers \ {w}, Active(v)'
      PROVE  /\ lease'[v] = lease[v] /\ Active(v)
             /\ LeaseRowOK(jobs'[lease'[v].job], lease'[v].born, now)
             /\ lease[v].job = j => lease[v].born # l.born
  <2>1. /\ lease'[v] = lease[v] /\ Active(v)
        /\ lease[v].job \in Jobs /\ lease[v].born \in Nat
    BY <1>1, <1>5 DEF Active, LeaseRecord
  <2>2. LeaseRowOK(jobs[lease[v].job], lease[v].born, now)
    BY <2>1, LeaseOKRows DEF IInv
  <2>3. LeaseRowOK(jobs'[lease[v].job], lease[v].born, now)
    BY <1>1, <2>1, <2>2, LedgerStepKeepsLeaseRow
  <2>4. lease[v].job = j => lease[v].born # l.born
    BY <1>3, <2>1, <2>2, StoreAssumption DEF LeaseRowOK
  <2> QED BY <2>1, <2>3, <2>4
<1>6. LeaseOK'
  BY <1>1, <1>4, <1>5 DEF LeaseOK, LeaseRowOK
<1>7. ExecutedOnce'
  BY <1>1, <1>4, <1>5 DEF IInv, ExecutedOnce
<1> QED BY <1>6, <1>7

-----------------------------------------------------------------------------
(* The locals of the workers and callers.                                  *)

LocalsOK ==
    /\ pc \in [Workers -> PC]
    /\ seen \in [Workers -> SeenRecord]
    /\ lease \in [Workers -> LeaseRecord]
    /\ result \in [Workers -> ResultRecord]
    /\ cancel \in [Callers -> CancelRecord]
    /\ \A w \in Workers :
          /\ Executes(w) => Active(w)
          /\ pc[w] \in Claiming => seen[w].job \in Jobs
    /\ SeenOK

LEMMA IInvParts ==
    IInv <=> StoreTypeOK /\ LocalsOK /\ LedgerOK /\ LeaseOK /\ ExecutedOnce
BY DEF IInv, TypeOK, LocalsOK, SeenOK

(* A step that changes at most the locals of worker w.                     *)
LEMMA LocalStep ==
    ASSUME LocalsOK, now' = now, cancel' = cancel, NEW w \in Workers,
           NEW p \in PC, pc' = [pc EXCEPT ![w] = p],
           NEW s \in SeenRecord, s.at <= now, seen' = seen \/ seen' = [seen EXCEPT ![w] = s],
           seen' = seen => s = seen[w],
           NEW l \in LeaseRecord, lease' = lease \/ lease' = [lease EXCEPT ![w] = l],
           lease' = lease => l = lease[w],
           NEW r \in ResultRecord, result' = result \/ result' = [result EXCEPT ![w] = r],
           p \in Executing => l.job # None,
           p \in Claiming => s.job \in Jobs
    PROVE  LocalsOK'
BY DEF LocalsOK, SeenOK, Executes, Active

(* The blank values, and a record that has been read, have their types.    *)
LEMMA Blanks ==
    /\ NoLease \in LeaseRecord /\ NoLease.job = None
    /\ NotSeen \in SeenRecord /\ NotSeen.at = 0
    /\ NoResult \in ResultRecord
    /\ NoCancel \in CancelRecord
BY DEF NoLease, LeaseRecord, NotSeen, SeenRecord, NoResult, ResultRecord, NoCancel, CancelRecord

(* The call ends: w goes idle and forgets, with or without its lease.      *)
LEMMA FinishKeepsLocals ==
    ASSUME LocalsOK, StoreTypeOK, now' = now, cancel' = cancel, NEW w \in Workers,
           \/ Finish(w) /\ lease' = lease
           \/ Release(w)
    PROVE  LocalsOK' /\ LeasesKept
<1>1. "idle" \in PC /\ "idle" \notin Executing \cup Claiming
  BY DEF PC, Executing, Claiming
<1>2. lease[w] \in LeaseRecord
  BY DEF LocalsOK
<1>3. NotSeen.at <= now
  BY Blanks DEF StoreTypeOK
<1>4. Finish(w)
  BY DEF Release
<1>5. seen' = seen => NotSeen = seen[w]
  BY <1>4 DEF Finish, LocalsOK
<1>6. CASE lease' = lease
  BY <1>1, <1>2, <1>3, <1>4, <1>5, <1>6, Blanks, LocalStep DEF Finish, Go, LeasesKept
<1>7. CASE Release(w)
  <2>1. lease' = lease => NoLease = lease[w]
    BY <1>7 DEF Release, LocalsOK
  <2> QED
    BY <1>1, <1>3, <1>4, <1>5, <1>7, <2>1, Blanks, LocalStep
    DEF Release, Finish, Go, LeasesKept
<1> QED BY <1>6, <1>7

(* An executing worker moves on, with its lease.                           *)
LEMMA GoKeepsLocals ==
    ASSUME LocalsOK, now' = now, cancel' = cancel, NEW w \in Workers, Executes(w),
           NEW p \in Executing, Go(w, p), lease' = lease,
           NEW s \in SeenRecord, s.at <= now, seen' = seen \/ seen' = [seen EXCEPT ![w] = s],
           seen' = seen => s = seen[w],
           NEW r \in ResultRecord, result' = result \/ result' = [result EXCEPT ![w] = r]
    PROVE  LocalsOK' /\ LeasesKept
<1>1. p \in PC /\ p \notin Claiming
  BY DEF PC, Executing, Claiming
<1>2. lease[w] \in LeaseRecord /\ lease[w].job # None
  BY DEF LocalsOK, Active
<1> QED BY <1>1, <1>2, LocalStep DEF Go, LeasesKept

LEMMA SeenRead ==
    ASSUME StoreTypeOK, LocalsOK, NEW w \in Workers, NEW j \in Jobs, NEW t \in 0..now,
           See(w, j, t)
    PROVE  \E s \in SeenRecord : s.job = j /\ s.at <= now /\ seen' = [seen EXCEPT ![w] = s]
<1> DEFINE s == [job |-> j, at |-> t, status |-> jobs[j].status, revision |-> jobs[j].revision]
<1>1. jobs[j] \in Record /\ t \in Nat /\ t <= now
  BY DEF StoreTypeOK
<1>2. s \in SeenRecord /\ s.job = j /\ s.at <= now
  BY <1>1 DEF SeenRecord, Record
<1> QED BY <1>2 DEF See

-----------------------------------------------------------------------------
(* The invariant, step by step.                                            *)

LEMMA StillLedger ==
    ASSUME StoreTypeOK, jobs' = jobs, now' = now
    PROVE  LedgerStep
BY DEF StoreTypeOK, LedgerStep, Kept

LEMMA KeptLeasesKeepIInv ==
    ASSUME IInv, LedgerStep, LocalsOK', LeasesKept
    PROVE  LedgerStep /\ IInv'
<1>1. StoreTypeOK /\ LedgerOK /\ StoreTypeOK'
  BY IInvParts DEF LedgerStep, StoreTypeOK
<1>2. LedgerOK'
  BY <1>1, LedgerStepKeepsLedgerOK
<1>3. LeaseOK' /\ ExecutedOnce'
  BY KeptLeasesStayOK
<1> QED BY <1>1, <1>2, <1>3, IInvParts DEF IInv, TypeOK, LocalsOK, SeenOK

LEMMA CallersKeepIInv ==
    ASSUME IInv, CallerStep
    PROVE  LedgerStep /\ IInv'
<1>1. StoreTypeOK /\ LocalsOK /\ now \in 0..now
  BY IInvParts DEF StoreTypeOK
<1>2. LedgerStep
  <2>1. CASE \E j \in Jobs : Submit(j)
    BY <1>1, <2>1, CreateIsLedgerStep DEF Submit
  <2>2. CASE \E t \in 0..now : Observe(t)
    BY <1>1, <2>2, GetIsLedgerStep DEF Observe
  <2>3. CASE \E c \in Callers, j \in Jobs, t \in 0..now : CancelLookup(c, j, t)
    BY <1>1, <2>3, GetIsLedgerStep DEF CancelLookup
  <2>4. ASSUME NEW c \in Callers, CancelCas(c)
        PROVE  LedgerStep
    <3>1. cancel[c].job \in Jobs
      BY <1>1, <2>4 DEF CancelCas, LocalsOK, CancelRecord
    <3> QED BY <1>1, <2>4, <3>1, CasIsLedgerStep, StillLedger DEF CancelCas
  <2> QED BY <2>1, <2>2, <2>3, <2>4 DEF CallerStep
<1>3. cancel' \in [Callers -> CancelRecord]
  <2>1. ASSUME NEW c \in Callers, NEW j \in Jobs, NEW t \in 0..now, CancelLookup(c, j, t)
        PROVE  cancel' \in [Callers -> CancelRecord]
    <3>1. [job |-> j, revision |-> jobs[j].revision] \in CancelRecord
      BY <1>1 DEF StoreTypeOK, Record, CancelRecord
    <3> QED BY <1>1, <2>1, <3>1 DEF CancelLookup, LocalsOK
  <2>2. ASSUME NEW c \in Callers, CancelCas(c)
        PROVE  cancel' \in [Callers -> CancelRecord]
    BY <1>1, <2>2, Blanks DEF CancelCas, LocalsOK
  <2>3. CASE cancel' = cancel
    BY <1>1, <2>3 DEF LocalsOK
  <2> QED BY <2>1, <2>2, <2>3 DEF CallerStep, Submit, Observe
<1>4. UNCHANGED <<now, pc, seen, lease, result>>
  BY DEF CallerStep, Submit, Observe, CancelLookup, CancelCas
<1>5. LocalsOK' /\ LeasesKept
  BY <1>1, <1>3, <1>4 DEF LocalsOK, SeenOK, Executes, Active, LeasesKept
<1> QED BY <1>2, <1>5, KeptLeasesKeepIInv

LEMMA ClaimsKeepIInv ==
    ASSUME IInv, NEW w \in Workers,
           \/ \E j \in Jobs, label \in {"claim", "recover"} : CallClaim(w, j, label)
           \/ ClaimRead(w)
           \/ CloseOrphan(w)
    PROVE  LedgerStep /\ IInv'
<1>1. StoreTypeOK /\ LocalsOK
  BY IInvParts
<1>2. seen[w] \in SeenRecord /\ seen[w].at \in 0..now /\ lease[w] \in LeaseRecord
      /\ result[w] \in ResultRecord
  BY <1>1 DEF LocalsOK, SeenOK, SeenRecord, StoreTypeOK
<1>3. {"claim", "recover", "start", "close"} \subseteq PC /\ Claiming \cap Executing = {}
  BY DEF PC, Claiming, Executing
<1>4. ASSUME NEW j \in Jobs, NEW label \in {"claim", "recover"}, CallClaim(w, j, label)
      PROVE  LedgerStep /\ LocalsOK' /\ LeasesKept
  <2> DEFINE s == [job |-> j, at |-> now, status |-> "absent", revision |-> 0]
  <2>1. s \in SeenRecord /\ s.job = j /\ s.at <= now
    BY <1>1 DEF SeenRecord, StoreTypeOK
  <2>2. /\ pc' = [pc EXCEPT ![w] = label] /\ seen' = [seen EXCEPT ![w] = s]
        /\ UNCHANGED <<jobs, now, lease, result, cancel>>
    BY <1>4 DEF CallClaim, Go
  <2>3. seen' = seen => s = seen[w]
    BY <1>1, <2>2 DEF LocalsOK
  <2>4. label \in PC /\ label \notin Executing
    BY DEF PC, Claiming, Executing
  <2> HIDE DEF s
  <2>5. LocalsOK'
    BY <1>1, <1>2, <2>1, <2>2, <2>3, <2>4, LocalStep
  <2> QED BY <1>1, <2>2, <2>5, StillLedger DEF LeasesKept
<1>5. CASE ClaimRead(w)
  <2> DEFINE j == seen[w].job
             t == seen[w].at
  <2>1. LedgerStep
    BY <1>1, <1>2, <1>5, GetIsLedgerStep DEF ClaimRead
  <2>2. pc[w] \in Claiming /\ j \in Jobs
    BY <1>1, <1>5 DEF ClaimRead, Claiming, LocalsOK
  <2>3. now' = now /\ lease' = lease /\ cancel' = cancel
    BY <1>5 DEF ClaimRead
  <2>4. CASE Finish(w)
    BY <1>1, <2>1, <2>3, <2>4, FinishKeepsLocals, KeptLeasesKeepIInv
  <2>5. ASSUME NEW p \in {"start", "close"}, Go(w, p), See(w, j, t), UNCHANGED result
        PROVE  LocalsOK' /\ LeasesKept
    <3>1. PICK s \in SeenRecord : s.job = j /\ s.at <= now /\ seen' = [seen EXCEPT ![w] = s]
      BY <1>1, <1>2, <2>2, <2>5, SeenRead
    <3>2. seen' = seen => s = seen[w]
      BY <1>1, <3>1 DEF LocalsOK
    <3>3. p \in PC /\ p \notin Executing
      BY DEF PC, Claiming, Executing
    <3> QED BY <1>1, <1>2, <2>2, <2>3, <2>5, <3>1, <3>2, <3>3, LocalStep DEF Go, LeasesKept
  <2>6. Finish(w) \/ \E p \in {"start", "close"} : Go(w, p) /\ See(w, j, t) /\ UNCHANGED result
    BY <1>5, Zenon DEF ClaimRead
  <2> QED BY <2>1, <2>4, <2>5, <2>6, KeptLeasesKeepIInv
<1>6. CASE CloseOrphan(w)
  <2>1. seen[w].job \in Jobs
    BY <1>1, <1>6 DEF CloseOrphan, Claiming, LocalsOK
  <2>2. UNCHANGED <<now, lease, cancel>> /\ Finish(w)
    BY <1>6 DEF CloseOrphan
  <2>3. LedgerStep
    BY <1>1, <1>2, <1>6, <2>1, <2>2, CasIsLedgerStep, StillLedger DEF CloseOrphan
  <2> QED BY <1>1, <2>2, <2>3, FinishKeepsLocals, KeptLeasesKeepIInv
<1> QED BY <1>4, <1>5, <1>6, KeptLeasesKeepIInv

LEMMA StartKeepsIInv ==
    ASSUME IInv, NEW w \in Workers, Start(w)
    PROVE  LedgerStep /\ IInv'
<1> DEFINE j == seen[w].job
           t == seen[w].at
           l == [job |-> j, revision |-> seen[w].revision + 1,
                 until |-> t + Lease[j], born |-> jobs[j].created_at]
<1>1. StoreTypeOK /\ LocalsOK /\ LedgerOK
  BY IInvParts
<1>2. /\ seen[w] \in SeenRecord /\ t \in 0..now /\ lease[w] \in LeaseRecord
      /\ result[w] \in ResultRecord /\ now \in Nat
  BY <1>1 DEF LocalsOK, SeenOK, SeenRecord, StoreTypeOK
<1>3. j \in Jobs
  BY <1>1 DEF Start, Claiming, LocalsOK
<1>4. jobs[j] \in Record /\ t \in Nat
  BY <1>1, <1>2, <1>3 DEF StoreTypeOK
<1>5. CASE ~StartOK(j, seen[w].revision, t)
  <2>1. /\ Finish(w) /\ jobs' = jobs /\ lease' = lease /\ now' = now /\ cancel' = cancel
    BY <1>5 DEF Start
  <2> QED BY <1>1, <2>1, FinishKeepsLocals, StillLedger, KeptLeasesKeepIInv
<1>6. CASE StartOK(j, seen[w].revision, t)
  <2>1. /\ StoreStart(j, t) /\ lease' = [lease EXCEPT ![w] = l] /\ Go(w, "executing")
        /\ seen' = [seen EXCEPT ![w] = NotSeen] /\ result' = result
        /\ now' = now /\ cancel' = cancel
    BY <1>6 DEF Start
  <2>2. LedgerStep
    BY <1>1, <1>2, <1>3, <1>6, <2>1, CasIsLedgerStep
  <2>3. jobs[j].status = "queued" /\ jobs'[j] = StartRecord(jobs[j], t)
    BY <1>1, <1>3, <1>4, <1>6, <2>1, PurgeFacts DEF StartOK, MayStart, StoreStart, Write
  <2>4. jobs'[j].status = "running" /\ jobs'[j].created_at = jobs[j].created_at
    BY <1>4, <2>3 DEF StartRecord, Transition, Record
  <2>5. l \in LeaseRecord
    <3>1. Lease[j] \in Nat
      BY <1>3, WorkerAssumption
    <3>2. t + Lease[j] \in Nat /\ seen[w].revision + 1 \in Nat /\ jobs[j].created_at \in Nat
      BY <1>2, <1>4, <3>1 DEF SeenRecord, Record
    <3> QED BY <1>3, <3>2 DEF LeaseRecord
  <2>6. l.job = j /\ l.born = jobs[j].created_at
    OBVIOUS
  <2> HIDE DEF l
  <2>7. LeaseOK' /\ ExecutedOnce'
    BY <1>3, <2>1, <2>2, <2>3, <2>4, <2>5, <2>6, StartKeepsLeases
  <2>8. LocalsOK'
    <3>1. "executing" \in PC /\ "executing" \notin Claiming
      BY DEF PC, Executing, Claiming
    <3>2. l.job # None
      BY <1>3, <2>6, WorkerAssumption
    <3>3. NotSeen.at <= now
      BY <1>2, Blanks
    <3>4. (seen' = seen => NotSeen = seen[w]) /\ (lease' = lease => l = lease[w])
      BY <1>1, <2>1 DEF LocalsOK
    <3> QED BY <1>1, <1>2, <2>1, <2>5, <3>1, <3>2, <3>3, <3>4, Blanks, LocalStep DEF Go
  <2>9. LedgerOK' /\ StoreTypeOK'
    BY <1>1, <1>2, <2>2, LedgerStepKeepsLedgerOK DEF LedgerStep, StoreTypeOK
  <2>10. IInv'
    BY <2>7, <2>8, <2>9 DEF IInv, TypeOK, LocalsOK, SeenOK
  <2> QED BY <2>2, <2>10
<1> QED BY <1>5, <1>6

(* What every executing worker has at hand.                                *)
LEMMA ExecutingFacts ==
    ASSUME IInv, NEW w \in Workers, Executes(w)
    PROVE  /\ StoreTypeOK /\ LocalsOK
           /\ lease[w].job \in Jobs /\ now \in 0..now
           /\ seen[w] \in SeenRecord /\ seen[w].at <= now
           /\ result[w] \in ResultRecord
<1>1. StoreTypeOK /\ LocalsOK
  BY IInvParts
<1>2. now \in Nat /\ lease[w] \in LeaseRecord /\ lease[w].job # None
  BY <1>1 DEF LocalsOK, StoreTypeOK, Active
<1> QED BY <1>1, <1>2 DEF LeaseRecord, LocalsOK, SeenOK

(* A worker that moves on without touching its other locals.               *)
LEMMA MovesOnKeepsIInv ==
    ASSUME IInv, NEW w \in Workers, Executes(w), NEW p \in Executing, Go(w, p),
           LedgerStep, seen' = seen, lease' = lease, cancel' = cancel,
           \/ result' = result
           \/ \E code \in FailureCode : result' = [result EXCEPT ![w].code = code]
           \/ \E c \in Candidates : result' = [result EXCEPT ![w].candidate = c]
    PROVE  LedgerStep /\ IInv'
<1>1. /\ LocalsOK /\ seen[w] \in SeenRecord /\ seen[w].at <= now
      /\ result[w] \in ResultRecord /\ now' = now
  BY ExecutingFacts DEF LedgerStep
<1>2. \E r \in ResultRecord : result' = result \/ result' = [result EXCEPT ![w] = r]
  <2>1. ASSUME NEW code \in FailureCode
        PROVE  [result[w] EXCEPT !.code = code] \in ResultRecord
    BY <1>1 DEF ResultRecord
  <2>2. ASSUME NEW c \in Candidates
        PROVE  [result[w] EXCEPT !.candidate = c] \in ResultRecord
    BY <1>1 DEF ResultRecord
  <2>3. ASSUME NEW code \in FailureCode, result' = [result EXCEPT ![w].code = code]
        PROVE  result' = [result EXCEPT ![w] = [result[w] EXCEPT !.code = code]]
    BY <2>3
  <2>4. ASSUME NEW c \in Candidates, result' = [result EXCEPT ![w].candidate = c]
        PROVE  result' = [result EXCEPT ![w] = [result[w] EXCEPT !.candidate = c]]
    BY <2>4
  <2> QED BY <1>1, <2>1, <2>2, <2>3, <2>4
<1>3. LocalsOK' /\ LeasesKept
  BY <1>1, <1>2, GoKeepsLocals
<1> QED BY <1>3, KeptLeasesKeepIInv

LEMMA ReadsOnKeepsIInv ==
    ASSUME IInv, NEW w \in Workers, Executes(w), NEW p \in Executing, Go(w, p),
           LedgerStep, See(w, lease[w].job, now), lease' = lease, result' = result,
           cancel' = cancel
    PROVE  LedgerStep /\ IInv'
<1>1. /\ StoreTypeOK /\ LocalsOK /\ lease[w].job \in Jobs /\ now \in 0..now
      /\ result[w] \in ResultRecord /\ now' = now
  BY ExecutingFacts DEF LedgerStep
<1>2. PICK s \in SeenRecord : s.at <= now /\ seen' = [seen EXCEPT ![w] = s]
  BY <1>1, SeenRead
<1>3. seen' = seen => s = seen[w]
  BY <1>1, <1>2 DEF LocalsOK
<1>4. LocalsOK' /\ LeasesKept
  BY <1>1, <1>2, <1>3, GoKeepsLocals
<1> QED BY <1>4, KeptLeasesKeepIInv

LEMMA EndsKeepsIInv ==
    ASSUME IInv, NEW w \in Workers, LedgerStep, cancel' = cancel,
           Release(w) \/ (Finish(w) /\ lease' = lease)
    PROVE  LedgerStep /\ IInv'
<1>1. StoreTypeOK /\ LocalsOK /\ now' = now
  BY IInvParts DEF LedgerStep
<1>2. LocalsOK' /\ LeasesKept
  BY <1>1, FinishKeepsLocals
<1> QED BY <1>2, KeptLeasesKeepIInv

LEMMA ExecutorKeepsIInv ==
    ASSUME IInv, NEW w \in Workers, ExecutorStep(w)
    PROVE  LedgerStep /\ IInv'
<1>1. Executes(w) /\ StoreTypeOK
  BY IInvParts
  DEF ExecutorStep, ExecutorReturns, ExecutorRaises, ExecutorBreaks, ExecutorStops,
      Executes, Executing
<1>2. jobs' = jobs /\ now' = now /\ lease' = lease /\ cancel' = cancel
  BY DEF ExecutorStep, ExecutorReturns, ExecutorRaises, ExecutorBreaks, ExecutorStops
<1>3. LedgerStep
  BY <1>1, <1>2, StillLedger
<1>4. {"done_probe", "fail_probe", "stop_read"} \subseteq Executing
  BY DEF Executing
<1>5. CASE \E c \in Candidates : ExecutorReturns(w, c)
  BY <1>1, <1>2, <1>3, <1>4, <1>5, MovesOnKeepsIInv DEF ExecutorReturns
<1>6. ASSUME NEW code \in ExecutorCodes, ExecutorRaises(w, code)
      PROVE  LedgerStep /\ IInv'
  <2>1. code \in FailureCode
    BY WorkerAssumption
  <2>2. CASE code \in MessageCodes
    BY <1>1, <1>2, <1>3, <1>4, <1>6, <2>1, <2>2, MovesOnKeepsIInv DEF ExecutorRaises
  <2>3. CASE code \notin MessageCodes
    BY <1>2, <1>3, <1>6, <2>3, EndsKeepsIInv DEF ExecutorRaises
  <2> QED BY <2>2, <2>3
<1>7. ASSUME NEW code \in {"search_budget_exceeded", "worker_error"}, ExecutorBreaks(w, code)
      PROVE  LedgerStep /\ IInv'
  <2>1. code \in FailureCode
    BY DEF FailureCode
  <2> QED BY <1>1, <1>2, <1>3, <1>4, <1>7, <2>1, MovesOnKeepsIInv DEF ExecutorBreaks
<1>8. CASE ExecutorStops(w)
  BY <1>1, <1>2, <1>3, <1>4, <1>8, MovesOnKeepsIInv DEF ExecutorStops
<1> QED BY <1>5, <1>6, <1>7, <1>8 DEF ExecutorStep

LEMMA ProbesKeepIInv ==
    ASSUME IInv, NEW w \in Workers, FailProbe(w) \/ DoneProbe(w) \/ FinalProbe(w)
    PROVE  LedgerStep /\ IInv'
<1>1. Executes(w)
  BY DEF FailProbe, DoneProbe, FinalProbe, Executes, Executing
<1>2. StoreTypeOK /\ now \in 0..now
  BY <1>1, ExecutingFacts
<1>3. PICK label \in {"fail_cas", "check", "complete"} : ProbeThen(w, label)
  BY DEF FailProbe, DoneProbe, FinalProbe
<1>4. /\ now' = now /\ seen' = seen /\ lease' = lease /\ result' = result
      /\ cancel' = cancel /\ Probe(w)
  BY <1>3 DEF ProbeThen
<1>5. LedgerStep
  BY <1>2, <1>4, GetIsLedgerStep, StillLedger DEF Probe
<1>6. \E p \in Executing : Go(w, p)
  BY <1>3 DEF ProbeThen, Executing
<1> QED BY <1>1, <1>4, <1>5, <1>6, MovesOnKeepsIInv

(* Paths that read the ledger and go on, or find the job gone.             *)
LEMMA ReadsKeepIInv ==
    ASSUME IInv, NEW w \in Workers, StopRead(w) \/ Check(w) \/ RaceRead(w)
    PROVE  LedgerStep /\ IInv'
<1> DEFINE j == lease[w].job
<1>1. Executes(w)
  BY DEF StopRead, Check, RaceRead, Executes, Executing
<1>2. StoreTypeOK /\ now \in 0..now
  BY <1>1, ExecutingFacts
<1>3. now' = now /\ cancel' = cancel /\ StoreGet(now)
  BY DEF StopRead, Check, RaceRead
<1>4. LedgerStep
  BY <1>2, <1>3, GetIsLedgerStep
<1>5. {"stop_write", "race_ack", "publish", "race_read"} \subseteq Executing
  BY DEF Executing
<1>6. CASE Release(w)
  BY <1>3, <1>4, <1>6, EndsKeepsIInv
<1>7. CASE \E p \in Executing : Go(w, p) /\ See(w, j, now) /\ UNCHANGED <<lease, result>>
  BY <1>1, <1>3, <1>4, <1>7, ReadsOnKeepsIInv
<1>8. CASE \E p \in Executing : Go(w, p) /\ UNCHANGED <<seen, lease, result>>
  BY <1>1, <1>3, <1>4, <1>8, MovesOnKeepsIInv
<1>9. \/ Release(w)
      \/ \E p \in Executing : Go(w, p) /\ See(w, j, now) /\ UNCHANGED <<lease, result>>
      \/ \E p \in Executing : Go(w, p) /\ UNCHANGED <<seen, lease, result>>
  BY <1>5 DEF StopRead, Check, RaceRead
<1> QED BY <1>6, <1>7, <1>8, <1>9

(* Paths that end in a compare-and-swap, won or lost.                      *)
LEMMA LastCasKeepsIInv ==
    ASSUME IInv, NEW w \in Workers, FailCas(w) \/ StopWrite(w) \/ RaceAck(w)
    PROVE  LedgerStep /\ IInv'
<1>1. Executes(w)
  BY DEF FailCas, StopWrite, RaceAck, Executes, Executing
<1>2. StoreTypeOK /\ lease[w].job \in Jobs /\ now \in 0..now
  BY <1>1, ExecutingFacts
<1>3. now' = now /\ cancel' = cancel /\ Release(w)
  BY DEF FailCas, StopWrite, RaceAck
<1>4. LedgerStep
  <2>1. CASE FailCas(w)
    BY <1>2, <1>3, <2>1, CasIsLedgerStep, StillLedger DEF FailCas
  <2>2. CASE StopWrite(w)
    BY <1>2, <1>3, <2>2, CasIsLedgerStep, StillLedger DEF StopWrite
  <2>3. CASE RaceAck(w)
    BY <1>2, <1>3, <2>3, CasIsLedgerStep, StillLedger DEF RaceAck
  <2> QED BY <2>1, <2>2, <2>3
<1> QED BY <1>3, <1>4, EndsKeepsIInv

LEMMA PublicationKeepsIInv ==
    ASSUME IInv, NEW w \in Workers,
           \/ PublishArtifacts(w)
           \/ \E code \in {"invalid_request", "worker_error"} : PublishFails(w, code)
           \/ Complete(w)
    PROVE  LedgerStep /\ IInv'
<1>1. Executes(w)
  BY DEF PublishArtifacts, PublishFails, Complete, Executes, Executing
<1>2. StoreTypeOK /\ lease[w].job \in Jobs /\ now \in 0..now
  BY <1>1, ExecutingFacts
<1>3. /\ {"final_probe", "fail_probe", "race_read"} \subseteq Executing
      /\ {"invalid_request", "worker_error"} \subseteq FailureCode
  BY DEF Executing, FailureCode
<1>4. CASE PublishArtifacts(w)
  BY <1>1, <1>2, <1>3, <1>4, StillLedger, MovesOnKeepsIInv DEF PublishArtifacts
<1>5. CASE \E code \in {"invalid_request", "worker_error"} : PublishFails(w, code)
  BY <1>1, <1>2, <1>3, <1>5, StillLedger, MovesOnKeepsIInv DEF PublishFails
<1>6. CASE Complete(w)
  <2> DEFINE j == lease[w].job
             c == result[w].candidate
             rev == lease[w].revision
  <2>1. now' = now /\ cancel' = cancel
    BY <1>6 DEF Complete
  <2>2. CASE CompleteOK(j, c, rev, now) /\ StoreComplete(j, c, now) /\ Release(w)
    BY <1>2, <2>1, <2>2, CasIsLedgerStep, EndsKeepsIInv
  <2>3. CASE Go(w, "race_read") /\ UNCHANGED <<jobs, seen, lease, result>>
    BY <1>1, <1>2, <1>3, <2>1, <2>3, StillLedger, MovesOnKeepsIInv
  <2>4. CASE /\ Go(w, "fail_probe") /\ UNCHANGED <<jobs, seen, lease>>
             /\ result' = [result EXCEPT ![w].code = "invalid_request"]
    BY <1>1, <1>2, <1>3, <2>1, <2>4, StillLedger, MovesOnKeepsIInv
  <2> QED BY <1>6, <2>2, <2>3, <2>4 DEF Complete
<1> QED BY <1>4, <1>5, <1>6

LEMMA ProcessesKeepIInv ==
    ASSUME IInv, NEW w \in Workers, Crash(w) \/ Restart(w)
    PROVE  LedgerStep /\ IInv'
<1>1. StoreTypeOK /\ LocalsOK /\ now \in Nat
  BY IInvParts DEF StoreTypeOK
<1>2. jobs' = jobs /\ now' = now /\ cancel' = cancel
  BY DEF Crash, Restart
<1>3. LedgerStep
  BY <1>1, <1>2, StillLedger
<1>4. {"idle", "down"} \subseteq PC /\ {"idle", "down"} \cap (Executing \cup Claiming) = {}
  BY DEF PC, Executing, Claiming
<1>5. LeasesKept
  BY DEF Crash, Restart, LeasesKept
<1>6. LocalsOK'
  <2>1. CASE Crash(w)
    <3>1. /\ pc' = [pc EXCEPT ![w] = "down"] /\ seen' = [seen EXCEPT ![w] = NotSeen]
          /\ lease' = [lease EXCEPT ![w] = NoLease] /\ result' = [result EXCEPT ![w] = NoResult]
      BY <2>1 DEF Crash, Go
    <3>2. (seen' = seen => NotSeen = seen[w]) /\ (lease' = lease => NoLease = lease[w])
      BY <1>1, <3>1 DEF LocalsOK
    <3>3. NotSeen.at <= now
      BY <1>1, Blanks
    <3> QED BY <1>1, <1>2, <1>4, <3>1, <3>2, <3>3, Blanks, LocalStep
  <2>2. CASE Restart(w)
    BY <1>1, <1>2, <1>4, <2>2 DEF Restart, Go, LocalsOK, SeenOK, Executes, Active
  <2> QED BY <2>1, <2>2
<1> QED BY <1>3, <1>5, <1>6, KeptLeasesKeepIInv

LEMMA TimeKeepsIInv ==
    ASSUME IInv, TimePasses
    PROVE  IInv'
<1>1. /\ now \in Nat /\ now' = now + 1 /\ jobs' = jobs /\ pc' = pc /\ seen' = seen
      /\ lease' = lease /\ result' = result /\ cancel' = cancel
  BY IInvParts DEF StoreTypeOK, TimePasses, Tick
<1>2. StoreTypeOK'
  BY <1>1, IInvParts DEF StoreTypeOK
<1>3. LedgerOK'
  <2> SUFFICES ASSUME NEW k \in Jobs PROVE RowOK(jobs[k])'
    BY DEF LedgerOK
  <2>1. RowOK(jobs[k]) /\ jobs[k] \in Record
    BY IInvParts DEF LedgerOK, StoreTypeOK
  <2> QED BY <1>1, <2>1 DEF RowOK, Record
<1>4. LocalsOK'
  BY <1>1, IInvParts DEF LocalsOK, SeenOK, SeenRecord, Executes, Active
<1>5. LeaseOK' /\ ExecutedOnce'
  BY <1>1, KeptLeasesStayOK DEF LeasesKept
<1> QED BY <1>2, <1>3, <1>4, <1>5, IInvParts DEF IInv, TypeOK, LocalsOK, SeenOK

-----------------------------------------------------------------------------
(* The theorems.                                                           *)

LEMMA InitIInv == Init => IInv
<1> SUFFICES ASSUME Init PROVE IInv
  OBVIOUS
<1>1. "idle" \in PC /\ "idle" \notin Executing \cup Claiming
  BY DEF PC, Executing, Claiming
<1>2. StoreTypeOK /\ LedgerOK /\ now = 0
  BY NewRecord DEF Init, StoreInit, StoreTypeOK, LedgerOK, RowOK
<1>3. LocalsOK
  BY <1>1, <1>2, Blanks DEF Init, LocalsOK, SeenOK, Executes
<1>4. LeaseOK /\ ExecutedOnce
  BY Blanks DEF Init, LeaseOK, ExecutedOnce, Active
<1> QED BY <1>2, <1>3, <1>4, IInvParts

(* Every step is a ledger step, a tick or nothing at all.                  *)
Ticks == jobs' = jobs /\ now' = now + 1

LEMMA NextKeepsIInv == IInv /\ [Next]_vars => IInv' /\ (LedgerStep \/ Ticks)
<1> SUFFICES ASSUME IInv, [Next]_vars PROVE IInv' /\ (LedgerStep \/ Ticks)
  OBVIOUS
<1>1. CASE CallerStep
  BY <1>1, CallersKeepIInv
<1>2. ASSUME NEW w \in Workers, WorkerStep(w)
      PROVE  LedgerStep /\ IInv'
  <2>1. CASE Progress(w)
    BY <2>1, ClaimsKeepIInv, StartKeepsIInv, ExecutorKeepsIInv, ProbesKeepIInv, ReadsKeepIInv,
       LastCasKeepsIInv, PublicationKeepsIInv DEF Progress
  <2> QED BY <1>2, <2>1, ClaimsKeepIInv, ProcessesKeepIInv DEF WorkerStep
<1>3. CASE TimePasses
  BY <1>3, TimeKeepsIInv DEF TimePasses, Tick, Ticks
<1>4. CASE UNCHANGED vars
  BY <1>4, StillLedger DEF vars, IInv, TypeOK, StoreTypeOK, LedgerOK, RowOK, SeenOK, LeaseOK, ExecutedOnce,
              Executes, Active
<1> QED BY <1>1, <1>2, <1>3, <1>4 DEF Next

LEMMA AlwaysIInv == Spec => []IInv
BY InitIInv, NextKeepsIInv, PTL DEF Spec

(* Type correctness of the ledger, the workers and the callers             *)
(* (jobs.py, job_worker.py), for any number of each.                       *)
THEOREM TypeCorrectness == Spec => []TypeOK
<1>1. IInv => TypeOK
  BY DEF IInv
<1> QED BY <1>1, AlwaysIInv, PTL

(* No interleaving of callers, workers, crashes and expiry stores a record *)
(* _validate_state_shape would refuse to read back (jobs.py:500).          *)
THEOREM RecordsStayWellShaped == Spec => []RecordsWellShaped
<1>1. IInv => RecordsWellShaped
  <2>1. NoRecord.status = "absent"
    BY DEF NoRecord
  <2> QED BY <2>1 DEF IInv, LedgerOK, RowOK, RecordsWellShaped, Stored
<1> QED BY <1>1, AlwaysIInv, PTL

(* A record is executed at most once, however many workers in however many *)
(* processes claim it, however late they are, and whatever crashes.        *)
THEOREM RecordsExecuteOnce == Spec => []ExecutedOnce
<1>1. IInv => ExecutedOnce
  BY DEF IInv
<1> QED BY <1>1, AlwaysIInv, PTL

-----------------------------------------------------------------------------
(* Refinement: the ledger gives every job the life RoutingJobLifecycle     *)
(* promises.                                                               *)

View == [j \in Jobs |-> Watched(j)]

(* A kept row is unchanged to the watcher, or expires.                     *)
LEMMA KeptView ==
    ASSUME IInv, now' = now, NEW k \in Jobs, Kept(k)
    PROVE  Watched(k)' = Watched(k) \/ Lifecycle!Expire(k)
<1>1. jobs[k] \in Record /\ RowOK(jobs[k])
  BY IInvParts DEF StoreTypeOK, LedgerOK
<1>2. CASE jobs'[k] = jobs[k]
  BY <1>2 DEF Watched
<1>3. CASE jobs[k] = NoRecord /\ jobs'[k] = NoRecord
  BY <1>3 DEF Watched
<1>4. CASE jobs[k] # NoRecord /\ jobs[k].expires_at <= now /\ jobs'[k] = NoRecord
  BY <1>1, <1>4
  DEF Watched, RowOK, Status, NoRecord, Lifecycle!Expire, Lifecycle!Expired, Lifecycle!Gone
<1> QED BY <1>2, <1>3, <1>4 DEF Kept

LEMMA CreatedView ==
    ASSUME IInv, now' = now, NEW j \in Jobs, Created(j)
    PROVE  Lifecycle!Create(j)
<1>1. jobs[j] \in Record /\ RowOK(jobs[j])
  BY IInvParts DEF StoreTypeOK, LedgerOK
<1>2. Watched(j)' = Lifecycle!Queued(now)
  BY DEF Created, CreateRecord, NoRecord, Watched, Lifecycle!Queued
<1>3. CASE jobs[j] = NoRecord
  BY <1>2, <1>3 DEF Watched, NoRecord, Lifecycle!Create, Lifecycle!Gone
<1>4. CASE jobs[j] # NoRecord
  BY <1>1, <1>2, <1>4
  DEF Created, RowOK, Status, Watched, Lifecycle!Create, Lifecycle!Expired
<1> QED BY <1>3, <1>4

(* The fields a watcher sees, after each move.                             *)
LEMMA MoveFields ==
    ASSUME NEW r \in Record, RowOK(r), NEW j \in Jobs, NEW t, NEW s, Moves(j, t, r, s)
    PROVE  /\ s.created_at = r.created_at
           /\ \/ /\ s.candidate_id = r.candidate_id
                 /\ \/ r.status = "queued" /\ s.status \in {"running", "cancelled"}
                    \/ r.status = "running" /\ s.status \in {"cancel_requested", "failed"}
                    \/ r.status = "cancel_requested" /\ s.status = "cancelled"
              \/ /\ r.status = "running" /\ s.status = "completed"
                 /\ s.candidate_id \in Candidates /\ <<s.candidate_id, j>> \in Valid
<1> USE DEF Transition, Record
<1>1. r.status = "running" => r.candidate_id = None
  BY DEF RowOK, ShapeOK, HasOutcome, Status, NoRecord
<1>2. CASE MayStart(r) /\ s = StartRecord(r, t)
  BY <1>2 DEF MayStart, StartRecord
<1>3. CASE MayRequestCancel(r) /\ s = RequestCancelRecord(r, t)
  BY <1>3 DEF MayRequestCancel, RequestCancelRecord
<1>4. CASE MayAcknowledgeCancel(r) /\ s = AcknowledgeCancelRecord(r, t)
  BY <1>4 DEF MayAcknowledgeCancel, AcknowledgeCancelRecord
<1>5. CASE \E code \in FailureCode : MayFail(r, code) /\ s = FailRecord(r, code, t)
  BY <1>1, <1>5 DEF MayFail, FailRecord
<1>6. CASE \E c \in Candidates :
              MayComplete(r) /\ ValidateCandidate(c, j) /\ s = CompleteRecord(r, c, t)
  BY <1>6 DEF MayComplete, ValidateCandidate, CompleteRecord
<1> QED BY <1>2, <1>3, <1>4, <1>5, <1>6 DEF Moves

LEMMA MovedView ==
    ASSUME IInv, now' = now, NEW j \in Jobs, Moved(j)
    PROVE  Lifecycle!Move(j)
<1>1. jobs[j] \in Record /\ RowOK(jobs[j])
  BY IInvParts DEF StoreTypeOK, LedgerOK
<1> DEFINE r == jobs[j]
           s == jobs'[j]
<1>2. /\ s.created_at = r.created_at
      /\ \/ /\ s.candidate_id = r.candidate_id
            /\ \/ r.status = "queued" /\ s.status \in {"running", "cancelled"}
               \/ r.status = "running" /\ s.status \in {"cancel_requested", "failed"}
               \/ r.status = "cancel_requested" /\ s.status = "cancelled"
         \/ /\ r.status = "running" /\ s.status = "completed"
            /\ s.candidate_id \in Candidates /\ <<s.candidate_id, j>> \in Valid
  BY <1>1, MoveFields DEF Moved
<1>3. /\ Watched(j) = [status |-> r.status, created |-> r.created_at, candidate |-> r.candidate_id]
      /\ Watched(j)' = [status |-> s.status, created |-> s.created_at, candidate |-> s.candidate_id]
  BY DEF Watched
<1> HIDE DEF r, s
<1>4. ASSUME NEW status, s.status = status, s.candidate_id = r.candidate_id
      PROVE  Watched(j)' = [Watched(j) EXCEPT !.status = status]
  BY <1>2, <1>3, <1>4
<1>5. CASE s.status = "completed" /\ r.status = "running"
  <2>1. s.candidate_id \in Candidates /\ <<s.candidate_id, j>> \in Valid
    BY <1>2, <1>5
  <2>2. Watched(j)' = [status |-> "completed", created |-> Watched(j).created,
                       candidate |-> s.candidate_id]
    BY <1>2, <1>3, <1>5
  <2>3. Lifecycle!Complete(j)
    BY <1>3, <1>5, <2>1, <2>2 DEF Lifecycle!Complete
  <2> QED BY <2>3 DEF Lifecycle!Move
<1> QED
  BY <1>2, <1>3, <1>4, <1>5
  DEF Lifecycle!Move, Lifecycle!Become, Lifecycle!Claim, Lifecycle!Cancel,
      Lifecycle!Acknowledge, Lifecycle!Fail

LEMMA StepView ==
    ASSUME IInv, LedgerStep
    PROVE  Lifecycle!Step \/ View' = View
<1>1. now' = now /\ DOMAIN View' = Jobs
  BY DEF LedgerStep, View
<1>2. CASE \A k \in Jobs : Kept(k)
  <2>1. \A k \in Jobs : Watched(k)' = Watched(k) \/ Lifecycle!Expire(k)
    BY <1>1, <1>2, KeptView
  <2>2. CASE \A k \in Jobs : Watched(k)' = Watched(k)
    BY <2>2 DEF View
  <2>3. CASE \E k \in Jobs : Lifecycle!Expire(k)
    BY <1>1, <2>1, <2>3 DEF View, Lifecycle!Step
  <2> QED BY <2>1, <2>2, <2>3
<1>3. ASSUME NEW j \in Jobs, Created(j) \/ Moved(j), \A k \in Jobs \ {j} : Kept(k)
      PROVE  Lifecycle!Step
  <2>1. Lifecycle!Move(j)
    BY <1>1, <1>3, CreatedView, MovedView DEF Lifecycle!Move
  <2>2. \A k \in Jobs \ {j} : Watched(k)' = Watched(k) \/ Lifecycle!Expire(k)
    BY <1>1, <1>3, KeptView
  <2> QED BY <1>1, <2>1, <2>2 DEF View, Lifecycle!Step
<1> QED BY <1>2, <1>3 DEF LedgerStep

(* What a watcher of the ledger sees is a life RoutingJobLifecycle allows: *)
(* run at most once, one final state, no completion after a cancellation,  *)
(* a valid candidate for good, nothing dropped before its retention ends.  *)
THEOREM LedgerImplementsLifecycle == Spec => ImplementsLifecycle
<1>1. Init => Lifecycle!Init
  BY DEF Init, StoreInit, NoRecord, Watched, Lifecycle!Init, Lifecycle!Gone
<1>2. IInv /\ [Next]_vars => [Lifecycle!Next]_<<now, View>>
  BY NextKeepsIInv, StepView DEF Ticks, View, Watched, LedgerStep, Lifecycle!Next, Lifecycle!Wait
<1> QED BY <1>1, <1>2, AlwaysIInv, PTL DEF Spec, ImplementsLifecycle, Lifecycle!Spec, View


-----------------------------------------------------------------------------
(* The capacity of the ledger.                                             *)

Bounded == IsFiniteSet(Stored(jobs)) /\ Cardinality(Stored(jobs)) <= MaxRecords

(* No row appears, and none is kept for longer.                            *)
NothingCreated ==
    \A k \in Jobs :
        jobs'[k].status # "absent"
        => jobs[k].status # "absent" /\ jobs'[k].expires_at = jobs[k].expires_at

LEMMA ShrinksBounded ==
    ASSUME Bounded, Stored(jobs') \subseteq Stored(jobs)
    PROVE  Bounded'
<1>1. IsFiniteSet(Stored(jobs')) /\ Cardinality(Stored(jobs')) <= Cardinality(Stored(jobs))
  BY FS_Subset DEF Bounded
<1>2. /\ Cardinality(Stored(jobs')) \in Nat /\ Cardinality(Stored(jobs)) \in Nat
  BY <1>1, FS_CardinalityType DEF Bounded
<1> QED BY <1>1, <1>2, StoreAssumption DEF Bounded, Stored

LEMMA PurgeShrinks ==
    ASSUME NEW t
    PROVE  Stored(Purge(t)) \subseteq Stored(jobs)
BY DEF Stored, Purge, NoRecord

LEMMA CreateKeepsBounded ==
    ASSUME Bounded, NEW j \in Jobs, StoreCreate(j, now)
    PROVE  Bounded'
<1> DEFINE S == Stored(Purge(now))
<1>1. S \subseteq Stored(jobs)
  BY PurgeShrinks
<1>2. CASE jobs' = jobs
  BY <1>2, ShrinksBounded
<1>3. CASE jobs' = Purge(now)
  BY <1>1, <1>3, ShrinksBounded
<1>4. CASE /\ ~CreateFull(j, now) /\ j \notin S
           /\ jobs' = [Purge(now) EXCEPT ![j] = CreateRecord(now, Ttl)]
  <2>1. IsFiniteSet(S)
    BY <1>1, FS_Subset DEF Bounded
  <2>2. Cardinality(S) \in Nat /\ ~(Cardinality(S) >= MaxRecords)
    BY <1>4, <2>1, FS_CardinalityType DEF CreateFull
  <2>3. Stored(jobs') \subseteq S \cup {j}
    BY <1>4 DEF Stored, Purge
  <2>4. IsFiniteSet(S \cup {j}) /\ Cardinality(S \cup {j}) = Cardinality(S) + 1
    BY <1>4, <2>1, FS_AddElement, Zenon
  <2>5. /\ IsFiniteSet(Stored(jobs'))
        /\ Cardinality(Stored(jobs')) <= Cardinality(S \cup {j})
    BY <2>3, <2>4, FS_Subset
  <2>6. Cardinality(Stored(jobs')) \in Nat
    BY <2>5, FS_CardinalityType
  <2> QED BY <2>2, <2>4, <2>5, <2>6, StoreAssumption DEF Bounded, Stored
<1> QED BY <1>2, <1>3, <1>4 DEF StoreCreate

(* A lookup only deletes, and a compare-and-swap writes a row that is      *)
(* there, with the retention it has.                                       *)
LEMMA GetCreatesNothing ==
    ASSUME NEW t, StoreGet(t)
    PROVE  NothingCreated
BY DEF StoreGet, NothingCreated, Purge, NoRecord

LEMMA WriteCreatesNothing ==
    ASSUME NEW j \in Jobs, NEW t, j \in Stored(Purge(t)), NEW s, Write(j, t, s),
           s.expires_at = jobs[j].expires_at
    PROVE  NothingCreated
BY DEF Write, Stored, NothingCreated, Purge, NoRecord

LEMMA CasCreatesNothing ==
    ASSUME StoreTypeOK, NEW j \in Jobs, NEW e, NEW t
    PROVE  /\ StartOK(j, e, t) /\ StoreStart(j, t) => NothingCreated
           /\ \A code : FailOK(j, code, e, t) /\ StoreFail(j, code, t) => NothingCreated
           /\ AcknowledgeOK(j, e, t) /\ StoreAcknowledge(j, t) => NothingCreated
           /\ RequestCancelOK(j, e, t) /\ StoreRequestCancel(j, t) => NothingCreated
           /\ \A c : CompleteOK(j, c, e, t) /\ StoreComplete(j, c, t) => NothingCreated
<1> DEFINE r == jobs[j]
<1>1. r \in Record
  BY DEF StoreTypeOK
<1> HIDE DEF r
<1>2. /\ StartRecord(r, t).expires_at = r.expires_at
      /\ RequestCancelRecord(r, t).expires_at = r.expires_at
      /\ AcknowledgeCancelRecord(r, t).expires_at = r.expires_at
      /\ \A code : FailRecord(r, code, t).expires_at = r.expires_at
      /\ \A c : CompleteRecord(r, c, t).expires_at = r.expires_at
  BY <1>1 DEF Record, Transition, StartRecord, RequestCancelRecord, AcknowledgeCancelRecord,
              FailRecord, CompleteRecord
<1> QED
  BY <1>2, WriteCreatesNothing
  DEF r, Current, StartOK, FailOK, AcknowledgeOK, RequestCancelOK, CompleteOK,
      StoreStart, StoreFail, StoreAcknowledge, StoreRequestCancel, StoreComplete

LEMMA WorkersCreateNothing ==
    ASSUME IInv, NEW w \in Workers, WorkerStep(w)
    PROVE  NothingCreated
<1>1. StoreTypeOK /\ (Executes(w) => lease[w].job \in Jobs)
  BY ExecutingFacts, IInvParts
<1>2. pc[w] \in Claiming => seen[w].job \in Jobs
  BY DEF IInv, TypeOK
<1>3. CASE jobs' = jobs
  BY <1>3 DEF NothingCreated
<1>4. CASE \/ ClaimRead(w) \/ StopRead(w) \/ Check(w) \/ RaceRead(w)
           \/ FailProbe(w) \/ DoneProbe(w) \/ FinalProbe(w)
  BY <1>3, <1>4, GetCreatesNothing
  DEF ClaimRead, StopRead, Check, RaceRead, FailProbe, DoneProbe, FinalProbe, ProbeThen, Probe
<1>5. CASE CloseOrphan(w)
  BY <1>1, <1>2, <1>3, <1>5, CasCreatesNothing DEF CloseOrphan, Claiming
<1>6. CASE Start(w)
  BY <1>1, <1>2, <1>3, <1>6, CasCreatesNothing DEF Start, Claiming
<1>7. CASE FailCas(w) \/ StopWrite(w) \/ RaceAck(w) \/ Complete(w)
  <2>1. lease[w].job \in Jobs
    BY <1>1, <1>7 DEF FailCas, StopWrite, RaceAck, Complete, Executes, Executing
  <2>2. CASE FailCas(w)
    BY <1>1, <1>3, <2>1, <2>2, CasCreatesNothing DEF FailCas
  <2>3. CASE StopWrite(w)
    BY <1>1, <1>3, <2>1, <2>3, CasCreatesNothing DEF StopWrite
  <2>4. CASE RaceAck(w)
    BY <1>1, <1>3, <2>1, <2>4, CasCreatesNothing DEF RaceAck
  <2>5. CASE Complete(w)
    BY <1>1, <1>3, <2>1, <2>5, CasCreatesNothing DEF Complete
  <2> QED BY <1>7, <2>2, <2>3, <2>4, <2>5
<1>8. \/ jobs' = jobs
      \/ ClaimRead(w) \/ StopRead(w) \/ Check(w) \/ RaceRead(w)
      \/ FailProbe(w) \/ DoneProbe(w) \/ FinalProbe(w)
      \/ CloseOrphan(w) \/ Start(w)
      \/ FailCas(w) \/ StopWrite(w) \/ RaceAck(w) \/ Complete(w)
  BY DEF WorkerStep, Progress, CallClaim, ExecutorStep, ExecutorReturns, ExecutorRaises,
         ExecutorBreaks, ExecutorStops, PublishArtifacts, PublishFails, Crash, Restart
<1> QED BY <1>3, <1>4, <1>5, <1>6, <1>7, <1>8

(* Only a creation creates.                                                *)
LEMMA OnlySubmitCreates ==
    ASSUME IInv, [Next]_vars
    PROVE  NothingCreated \/ \E j \in Jobs : Submit(j)
<1>1. jobs' = jobs => NothingCreated
  BY DEF NothingCreated
<1>2. CASE \E t \in 0..now : Observe(t) \/ \E c \in Callers, j \in Jobs : CancelLookup(c, j, t)
  BY <1>2, GetCreatesNothing DEF Observe, CancelLookup
<1>3. ASSUME NEW c \in Callers, CancelCas(c)
      PROVE  NothingCreated
  <2>1. StoreTypeOK /\ cancel[c].job \in Jobs
    BY <1>3 DEF CancelCas, IInv, TypeOK, CancelRecord
  <2> QED BY <1>1, <1>3, <2>1, CasCreatesNothing DEF CancelCas
<1> QED
  BY <1>1, <1>2, <1>3, WorkersCreateNothing DEF Next, CallerStep, TimePasses, vars

LEMMA InitBounded == Init => Bounded
<1>1. Init => Stored(jobs) = {}
  BY DEF Init, StoreInit, Stored, NoRecord
<1> QED BY <1>1, FS_EmptySet, StoreAssumption DEF Bounded

LEMMA NextKeepsBounded == IInv /\ Bounded /\ [Next]_vars => Bounded'
BY OnlySubmitCreates, CreateKeepsBounded, ShrinksBounded DEF NothingCreated, Stored, Submit

LEMMA AlwaysBounded == Spec => []Bounded
BY InitBounded, NextKeepsBounded, AlwaysIInv, PTL DEF Spec

(* Creations, repeats, expiries and re-creations in any order and from any *)
(* number of processes never take the ledger past max_records (the purge   *)
(* and the count are one transaction, jobs.py:create).                     *)
THEOREM LedgerStaysBounded == Spec => []LedgerBounded
<1>1. Bounded => LedgerBounded
  BY DEF Bounded, LedgerBounded
<1> QED BY <1>1, AlwaysBounded, PTL

-----------------------------------------------------------------------------
(* What a worker knows of its record at each point of its program.         *)

Running(j) == jobs[j].status = "running"

UpdatesPast == \A j \in Jobs : jobs[j].updated_at <= now

(* While its record runs, a lease shows its revision and when it is over.  *)
LeaseTimes(w) ==
    LET j == lease[w].job IN
    Active(w) /\ SameRecord(w) /\ Running(j)
    => /\ jobs[j].revision = lease[w].revision
       /\ lease[w].until = jobs[j].updated_at + Lease[j]

(* A record about to be closed is one whose lease is over, unless it was   *)
(* written after the clock value the closing worker captured.              *)
CloseOK(w) ==
    LET j == seen[w].job
        a == seen[w].at
    IN  pc[w] = "close" =>
           /\ jobs[j].status = "absent" => a < now
           /\ jobs[j].status # "absent" => a < jobs[j].expires_at
           /\ jobs[j].status \in {"queued", "running"}
              => a < jobs[j].updated_at \/ (Running(j) /\ LeaseOver(j, a))

(* What _cancel_or_expire has read of its running record is still true.    *)
StopOK(w) ==
    LET j == lease[w].job IN
    pc[w] = "stop_write" /\ SameRecord(w) /\ Running(j)
    => seen[w].status = "running" /\ seen[w].revision = jobs[j].revision

(* A publication race is resolved only when the record runs no longer.     *)
RaceOK(w) ==
    pc[w] \in {"race_read", "race_ack"} /\ SameRecord(w) => ~Running(lease[w].job)

(* A failure is recorded with a code the store accepts.                    *)
ResultOK(w) ==
    pc[w] \in {"fail_probe", "fail_cas"} => result[w].code \in FailureCode \ {"cancelled"}

KnowsOK(w) == LeaseTimes(w) /\ CloseOK(w) /\ StopOK(w) /\ RaceOK(w) /\ ResultOK(w)

LInv == UpdatesPast /\ \A w \in Workers : KnowsOK(w)

-----------------------------------------------------------------------------
(* The ledger's side.                                                      *)

LEMMA CreatedRow ==
    ASSUME NEW j \in Jobs, Created(j)
    PROVE  /\ jobs'[j].status = "queued" /\ jobs'[j].updated_at = now
           /\ jobs'[j].created_at = now /\ jobs'[j].expires_at = now + Ttl
BY DEF Created, CreateRecord, NoRecord

LEMMA MovedRow ==
    ASSUME IInv, NEW j \in Jobs, Moved(j)
    PROVE  /\ jobs'[j].updated_at >= jobs[j].updated_at /\ jobs'[j].updated_at <= now
           /\ jobs'[j].created_at = jobs[j].created_at
           /\ jobs'[j].expires_at = jobs[j].expires_at
           /\ jobs[j].status # "absent" /\ jobs'[j].status \notin {"absent", "queued"}
           /\ jobs'[j].status = "running" => jobs[j].status = "queued"
<1>1. now \in Nat /\ jobs[j] \in Record /\ RowOK(jobs[j])
  BY IInvParts DEF StoreTypeOK, LedgerOK
<1>2. PICK t \in 0..now : Moves(j, t, jobs[j], jobs'[j])
  BY DEF Moved
<1>3. t \in Nat /\ t <= now /\ t >= jobs[j].updated_at /\ jobs[j].status # "absent"
  BY <1>1, <1>2 DEF Moves
<1>4. /\ jobs'[j].created_at = jobs[j].created_at
      /\ jobs'[j].status \notin {"absent", "queued"}
      /\ RowOK(jobs'[j])
  BY <1>1, <1>2, MoveKeepsRowOK
<1>5. jobs'[j].expires_at = jobs[j].expires_at
  BY <1>1, <1>3, <1>4 DEF RowOK, NoRecord
<1>6. jobs'[j].status = "running" => jobs[j].status = "queued"
  BY <1>1, <1>2, MoveFields
<1>7. jobs'[j].updated_at = t
  BY <1>1, <1>2
  DEF Moves, Transition, StartRecord, RequestCancelRecord, AcknowledgeCancelRecord,
      FailRecord, CompleteRecord, Record
<1> QED BY <1>3, <1>4, <1>5, <1>6, <1>7

(* A leased record that runs after a step was there, running, before it.   *)
LEMMA RunningStands ==
    ASSUME IInv, LedgerStep \/ Ticks, NEW w \in Workers, Active(w),
           LET j == lease[w].job
           IN  jobs'[j].created_at = lease[w].born /\ jobs'[j].status = "running"
    PROVE  jobs'[lease[w].job] = jobs[lease[w].job] /\ SameRecord(w) /\ Running(lease[w].job)
<1> DEFINE j == lease[w].job
<1>1. /\ now \in Nat /\ j \in Jobs /\ lease[w].born \in Nat
      /\ LeaseRowOK(jobs[j], lease[w].born, now)
  BY LeaseOKRows DEF IInv, TypeOK, StoreTypeOK, LeaseRecord, Active
<1>2. CASE jobs'[j] = jobs[j]
  BY <1>2 DEF SameRecord, Running
<1>3. CASE Created(j)
  BY <1>1, <1>3, CreatedRow
<1>4. CASE Moved(j)
  BY <1>1, <1>4, MovedRow, StoreAssumption DEF LeaseRowOK
<1>5. CASE jobs'[j] = NoRecord
  BY <1>5 DEF NoRecord
<1> QED BY <1>1, <1>2, <1>3, <1>4, <1>5 DEF LedgerStep, Kept, Ticks

LEMMA UpdatesStayPast ==
    ASSUME IInv, UpdatesPast, LedgerStep \/ Ticks
    PROVE  UpdatesPast'
<1>1. now \in Nat /\ \A j \in Jobs : jobs[j].updated_at \in Nat
  BY DEF IInv, TypeOK, StoreTypeOK, Record
<1>2. CASE LedgerStep
  <2> SUFFICES ASSUME NEW j \in Jobs PROVE jobs'[j].updated_at <= now
    BY <1>2 DEF UpdatesPast, LedgerStep
  <2>1. CASE Kept(j)
    BY <1>1, <2>1 DEF Kept, NoRecord, UpdatesPast
  <2>2. CASE Created(j)
    BY <1>1, <2>2, CreatedRow
  <2>3. CASE Moved(j)
    BY <2>3, MovedRow
  <2> QED BY <1>2, <2>1, <2>2, <2>3 DEF LedgerStep
<1>3. CASE Ticks
  BY <1>1, <1>3 DEF Ticks, UpdatesPast
<1> QED BY <1>2, <1>3

-----------------------------------------------------------------------------
(* Each fact, under any step that leaves the worker where it was.          *)

Untouched(w) ==
    pc'[w] = pc[w] /\ seen'[w] = seen[w] /\ lease'[w] = lease[w] /\ result'[w] = result[w]

LEMMA LeaseTimesKept ==
    ASSUME IInv, LedgerStep \/ Ticks, NEW w \in Workers, LeaseTimes(w),
           lease'[w] = lease[w] \/ lease'[w] = NoLease
    PROVE  LeaseTimes(w)'
<1> SUFFICES ASSUME lease'[w] = lease[w], Active(w), SameRecord(w)', Running(lease[w].job)'
             PROVE  LeaseTimes(w)'
  BY DEF LeaseTimes, Active, NoLease, Running
<1>1. /\ jobs'[lease[w].job] = jobs[lease[w].job]
      /\ SameRecord(w) /\ Running(lease[w].job)
  BY RunningStands DEF SameRecord, Running
<1> QED BY <1>1 DEF LeaseTimes

LEMMA CloseOKKept ==
    ASSUME IInv, UpdatesPast, LedgerStep \/ Ticks, NEW w \in Workers, CloseOK(w), Untouched(w)
    PROVE  CloseOK(w)'
<1> SUFFICES ASSUME pc[w] = "close" PROVE CloseOK(w)'
  BY DEF CloseOK, Untouched
<1> DEFINE j == seen[w].job
           a == seen[w].at
<1>1. /\ now \in Nat /\ j \in Jobs /\ a \in Nat /\ a <= now /\ jobs[j] \in Record
      /\ RowOK(jobs[j]) /\ seen'[w] = seen[w] /\ pc'[w] = "close"
  BY IInvParts
  DEF StoreTypeOK, LedgerOK, LocalsOK, SeenOK, SeenRecord, Claiming, Untouched
<1>2. /\ jobs[j].updated_at \in Nat /\ jobs[j].expires_at \in Nat
      /\ Ttl \in Nat /\ Ttl > 0 /\ jobs[j].updated_at <= now
  BY <1>1, StoreAssumption DEF Record, UpdatesPast
<1>3. CASE Ticks
  BY <1>1, <1>2, <1>3 DEF Ticks, CloseOK, Running, LeaseOver
<1>4. CASE LedgerStep
  <2>1. now' = now
    BY <1>4 DEF LedgerStep
  <2>2. CASE jobs'[j] = jobs[j]
    BY <1>1, <2>1, <2>2 DEF CloseOK, Running, LeaseOver
  <2>3. CASE jobs[j].expires_at <= now /\ jobs'[j] = NoRecord
    BY <1>1, <1>2, <2>1, <2>3 DEF CloseOK, Running, LeaseOver, NoRecord
  <2>4. CASE Created(j)
    <3>1. a < now
      BY <1>1, <1>2, <2>4 DEF Created, CloseOK
    <3> QED BY <1>1, <1>2, <2>1, <2>4, <3>1, CreatedRow DEF CloseOK, Running, LeaseOver
  <2>5. CASE Moved(j)
    <3>1. jobs'[j].updated_at \in Nat
      BY <1>1, <1>4 DEF LedgerStep, Record
    <3> QED BY <1>1, <1>2, <2>1, <2>5, <3>1, MovedRow DEF CloseOK, Running, LeaseOver
  <2> QED BY <1>1, <1>4, <2>2, <2>3, <2>4, <2>5 DEF LedgerStep, Kept
<1> QED BY <1>3, <1>4

LEMMA StopAndRaceKept ==
    ASSUME IInv, LedgerStep \/ Ticks, NEW w \in Workers, Untouched(w)
    PROVE  (StopOK(w) => StopOK(w)') /\ (RaceOK(w) => RaceOK(w)')
<1> SUFFICES ASSUME pc[w] \in {"stop_write", "race_read", "race_ack"},
                    SameRecord(w)', Running(lease[w].job)'
             PROVE  (StopOK(w) => StopOK(w)') /\ (RaceOK(w) => RaceOK(w)')
  BY DEF StopOK, RaceOK, Untouched, Running
<1>1. Active(w)
  BY DEF IInv, TypeOK, Executes, Executing
<1>2. /\ jobs'[lease[w].job] = jobs[lease[w].job]
      /\ SameRecord(w) /\ Running(lease[w].job)
  BY <1>1, RunningStands DEF SameRecord, Running, Untouched
<1> QED BY <1>2 DEF StopOK, RaceOK, Untouched

LEMMA UntouchedKnows ==
    ASSUME IInv, UpdatesPast, LedgerStep \/ Ticks, NEW w \in Workers, KnowsOK(w), Untouched(w)
    PROVE  KnowsOK(w)'
<1>1. ResultOK(w)'
  BY DEF KnowsOK, ResultOK, Untouched
<1> QED BY <1>1, LeaseTimesKept, CloseOKKept, StopAndRaceKept DEF KnowsOK, Untouched

-----------------------------------------------------------------------------
(* Each fact, at the steps that establish it.                              *)

(* A step of one worker leaves the others where they were.                 *)
LEMMA OthersUntouched ==
    ASSUME IInv, NEW w \in Workers, WorkerStep(w), NEW v \in Workers, v # w
    PROVE  Untouched(v)
<1> USE DEF Untouched, Go, Finish, Release, See
<1>1. /\ pc \in [Workers -> PC] /\ seen \in [Workers -> SeenRecord]
      /\ lease \in [Workers -> LeaseRecord] /\ result \in [Workers -> ResultRecord]
  BY DEF IInv, TypeOK
<1>2. CASE \/ \E j \in Jobs, label \in {"claim", "recover"} : CallClaim(w, j, label)
           \/ ClaimRead(w) \/ CloseOrphan(w) \/ Start(w)
  BY <1>1, <1>2 DEF CallClaim, ClaimRead, CloseOrphan, Start
<1>3. CASE ExecutorStep(w)
  BY <1>1, <1>3
  DEF ExecutorStep, ExecutorReturns, ExecutorRaises, ExecutorBreaks, ExecutorStops
<1>4. CASE FailProbe(w) \/ DoneProbe(w) \/ FinalProbe(w) \/ Check(w) \/ StopRead(w) \/ RaceRead(w)
  BY <1>1, <1>4 DEF FailProbe, DoneProbe, FinalProbe, ProbeThen, Check, StopRead, RaceRead
<1>5. CASE FailCas(w) \/ StopWrite(w) \/ RaceAck(w)
  BY <1>1, <1>5 DEF FailCas, StopWrite, RaceAck
<1>6. CASE \/ PublishArtifacts(w)
           \/ \E code \in {"invalid_request", "worker_error"} : PublishFails(w, code)
           \/ Complete(w)
  BY <1>1, <1>6 DEF PublishArtifacts, PublishFails, Complete
<1>7. CASE Crash(w) \/ Restart(w)
  BY <1>1, <1>7 DEF Crash, Restart
<1> QED BY <1>2, <1>3, <1>4, <1>5, <1>6, <1>7 DEF WorkerStep, Progress

(* A worker that keeps or drops its lease owes the fact of where it goes.  *)
LEMMA ArrivesKnowing ==
    ASSUME IInv, LedgerStep, NEW w \in Workers, LeaseTimes(w),
           lease'[w] = lease[w] \/ lease'[w] = NoLease,
           pc'[w] = "close" => CloseOK(w)',
           pc'[w] = "stop_write" => StopOK(w)',
           pc'[w] \in {"race_read", "race_ack"} => RaceOK(w)',
           pc'[w] \in {"fail_probe", "fail_cas"} => ResultOK(w)'
    PROVE  KnowsOK(w)'
<1>1. LeaseTimes(w)'
  BY LeaseTimesKept
<1>2. CloseOK(w)' /\ StopOK(w)' /\ RaceOK(w)' /\ ResultOK(w)'
  BY DEF CloseOK, StopOK, RaceOK, ResultOK
<1> QED BY <1>1, <1>2 DEF KnowsOK

(* What the lemmas below need of a worker and its locals.                  *)
LEMMA Functions ==
    ASSUME IInv, NEW w \in Workers
    PROVE  /\ \A p : Go(w, p) => pc'[w] = p
           /\ Finish(w) => pc'[w] = "idle"
           /\ Release(w) => pc'[w] = "idle" /\ lease'[w] = NoLease
           /\ \A j, t : See(w, j, t) =>
                 seen'[w] = [job |-> j, at |-> t, status |-> jobs[j].status,
                             revision |-> jobs[j].revision]
           /\ lease' = lease => lease'[w] = lease[w]
           /\ \A code : result' = [result EXCEPT ![w].code = code] => result'[w].code = code
<1>1. /\ pc \in [Workers -> PC] /\ seen \in [Workers -> SeenRecord]
      /\ lease \in [Workers -> LeaseRecord] /\ result \in [Workers -> ResultRecord]
  BY DEF IInv, TypeOK
<1>2. \A code : result' = [result EXCEPT ![w].code = code] => result'[w].code = code
  <2> SUFFICES ASSUME NEW code, result' = [result EXCEPT ![w].code = code]
               PROVE  result'[w].code = code
    OBVIOUS
  <2>1. result'[w] = [result[w] EXCEPT !.code = code]
    BY <1>1
  <2> QED BY <1>1, <2>1 DEF ResultRecord
<1> QED BY <1>1, <1>2 DEF Go, Finish, Release, See

LEMMA ClaimsKnow ==
    ASSUME IInv, LInv, LedgerStep, NEW w \in Workers,
           \/ \E j \in Jobs, label \in {"claim", "recover"} : CallClaim(w, j, label)
           \/ ClaimRead(w)
           \/ CloseOrphan(w)
    PROVE  KnowsOK(w)'
<1> DEFINE j == seen[w].job
           t == seen[w].at
<1>1. LeaseTimes(w)
  BY DEF LInv, KnowsOK
<1>2. lease'[w] = lease[w]
  BY Functions DEF CallClaim, ClaimRead, CloseOrphan
<1>3. CASE \E k \in Jobs, label \in {"claim", "recover"} : CallClaim(w, k, label)
  <2>1. pc'[w] \in {"claim", "recover"}
    BY <1>3, Functions DEF CallClaim
  <2> QED BY <1>1, <1>2, <2>1, ArrivesKnowing
<1>4. CASE CloseOrphan(w)
  <2>1. pc'[w] = "idle"
    BY <1>4, Functions DEF CloseOrphan
  <2> QED BY <1>1, <1>2, <2>1, ArrivesKnowing
<1>5. CASE ClaimRead(w)
  <2>1. CASE pc'[w] \in {"idle", "start"}
    BY <1>1, <1>2, <2>1, ArrivesKnowing
  <2>2. CASE pc'[w] = "close"
    <3>1. ~Finish(w)
      BY <2>2, Functions
    <3>2. /\ j \in Stored(Purge(t)) /\ StoreGet(t) /\ See(w, j, t)
          /\ \/ Go(w, "start")
             \/ jobs[j].status \in {"running", "cancel_requested"} /\ LeaseOver(j, t)
      BY <1>5, <3>1, Zenon DEF ClaimRead
    <3>3. /\ jobs[j].status \in {"running", "cancel_requested"} /\ LeaseOver(j, t)
          /\ seen'[w].job = j /\ seen'[w].at = t
      <4>1. ~Go(w, "start")
        BY <2>2, Functions
      <4>2. seen'[w].job = j /\ seen'[w].at = t
        BY <3>2, IInvParts DEF LocalsOK, See
      <4> QED BY <3>2, <4>1, <4>2
    <3>4. pc[w] \in Claiming
      BY <1>5 DEF ClaimRead, Claiming
    <3>5. StoreTypeOK /\ j \in Jobs /\ t \in Nat
      BY <3>4, IInvParts DEF LocalsOK, SeenRecord
    <3>6. jobs'[j] = jobs[j] /\ jobs[j].expires_at > t
      BY <3>2, <3>5, PurgeFacts DEF StoreGet
    <3>7. CloseOK(w)'
      BY <2>2, <3>3, <3>5, <3>6 DEF CloseOK, Running, LeaseOver, StoreTypeOK, Record
    <3> QED BY <1>1, <1>2, <2>2, <3>7, ArrivesKnowing
  <2>3. pc'[w] \in {"idle", "start", "close"}
    BY <1>5, Functions DEF ClaimRead
  <2> QED BY <2>1, <2>2, <2>3
<1> QED BY <1>3, <1>4, <1>5

LEMMA StartKnows ==
    ASSUME IInv, LInv, LedgerStep, NEW w \in Workers, Start(w)
    PROVE  KnowsOK(w)'
<1> DEFINE j == seen[w].job
           t == seen[w].at
           l == [job |-> j, revision |-> seen[w].revision + 1,
                 until |-> t + Lease[j], born |-> jobs[j].created_at]
<1>1. LeaseTimes(w)
  BY DEF LInv, KnowsOK
<1>2. CASE ~StartOK(j, seen[w].revision, t)
  <2>1. pc'[w] = "idle" /\ lease'[w] = lease[w]
    BY <1>2, Functions DEF Start
  <2> QED BY <1>1, <2>1, ArrivesKnowing
<1>3. CASE StartOK(j, seen[w].revision, t)
  <2>1. StoreTypeOK /\ j \in Jobs /\ t \in Nat /\ lease \in [Workers -> LeaseRecord]
    BY IInvParts DEF Start, Claiming, LocalsOK, SeenRecord
  <2>2. pc'[w] = "executing" /\ lease'[w] = l /\ StoreStart(j, t)
    BY <1>3, <2>1, Functions DEF Start
  <2>3. jobs[j].revision = seen[w].revision /\ jobs'[j] = StartRecord(jobs[j], t)
    BY <1>3, <2>1, <2>2, PurgeFacts DEF StartOK, Current, MayTransition, StoreStart, Write
  <2>4. jobs[j] \in Record
    BY <2>1 DEF StoreTypeOK
  <2>5. jobs'[j].revision = jobs[j].revision + 1 /\ jobs'[j].updated_at = t
    BY <2>3, <2>4 DEF StartRecord, Transition, Record
  <2>6. l.job = j /\ l.revision = seen[w].revision + 1 /\ l.until = t + Lease[j]
    OBVIOUS
  <2> HIDE DEF l
  <2>7. LeaseTimes(w)'
    BY <2>2, <2>3, <2>5, <2>6 DEF LeaseTimes
  <2> QED BY <2>2, <2>7 DEF KnowsOK, CloseOK, StopOK, RaceOK, ResultOK
<1> QED BY <1>2, <1>3

LEMMA ExecutorKnows ==
    ASSUME IInv, LInv, LedgerStep, NEW w \in Workers, ExecutorStep(w)
    PROVE  KnowsOK(w)'
<1>1. LeaseTimes(w)
  BY DEF LInv, KnowsOK
<1>2. lease'[w] = lease[w]
  BY DEF ExecutorStep, ExecutorReturns, ExecutorRaises, ExecutorBreaks, ExecutorStops
<1>3. CASE pc'[w] \in {"done_probe", "stop_read", "idle"}
  BY <1>1, <1>2, <1>3, ArrivesKnowing
<1>4. CASE pc'[w] = "fail_probe" /\ \E code \in FailureCode \ {"cancelled"} : result'[w].code = code
  BY <1>1, <1>2, <1>4, ArrivesKnowing DEF ResultOK
<1>5. ASSUME NEW code \in ExecutorCodes, ExecutorRaises(w, code)
      PROVE  \/ pc'[w] = "idle"
             \/ pc'[w] = "fail_probe" /\ result'[w].code = code
  BY <1>5, Functions DEF ExecutorRaises
<1>6. ASSUME NEW code \in {"search_budget_exceeded", "worker_error"}, ExecutorBreaks(w, code)
      PROVE  pc'[w] = "fail_probe" /\ result'[w].code = code
  BY <1>6, Functions DEF ExecutorBreaks
<1>7. /\ \A c : ExecutorReturns(w, c) => pc'[w] = "done_probe"
      /\ ExecutorStops(w) => pc'[w] = "stop_read"
  BY Functions DEF ExecutorReturns, ExecutorStops
<1>8. /\ ExecutorCodes \subseteq FailureCode \ {"cancelled"}
      /\ {"search_budget_exceeded", "worker_error"} \subseteq FailureCode \ {"cancelled"}
  BY WorkerAssumption DEF FailureCode
<1> QED BY <1>3, <1>4, <1>5, <1>6, <1>7, <1>8 DEF ExecutorStep

LEMMA ProbesKnow ==
    ASSUME IInv, LInv, LedgerStep, NEW w \in Workers, FailProbe(w) \/ DoneProbe(w) \/ FinalProbe(w)
    PROVE  KnowsOK(w)'
<1>1. LeaseTimes(w) /\ ResultOK(w)
  BY DEF LInv, KnowsOK
<1>2. lease'[w] = lease[w] /\ result'[w] = result[w]
  BY DEF FailProbe, DoneProbe, FinalProbe, ProbeThen
<1>3. \/ pc'[w] \in {"stop_read", "check", "complete"}
      \/ pc[w] = "fail_probe" /\ pc'[w] = "fail_cas"
  BY Functions DEF FailProbe, DoneProbe, FinalProbe, ProbeThen
<1> QED BY <1>1, <1>2, <1>3, ArrivesKnowing DEF ResultOK

(* A record that has been read shows what it showed.                       *)
LEMMA ReadRow ==
    ASSUME IInv, NEW j \in Jobs, StoreGet(now), j \in Stored(Purge(now))
    PROVE  jobs'[j] = jobs[j]
BY PurgeFacts, IInvParts DEF StoreGet, StoreTypeOK

LEMMA ReadsKnow ==
    ASSUME IInv, LInv, LedgerStep, NEW w \in Workers, StopRead(w) \/ Check(w) \/ RaceRead(w)
    PROVE  KnowsOK(w)'
<1> DEFINE j == lease[w].job
<1>1. LeaseTimes(w)
  BY DEF LInv, KnowsOK
<1>2. Executes(w) /\ Active(w) /\ j \in Jobs
  BY ExecutingFacts DEF StopRead, Check, RaceRead, Executes, Executing, IInv, TypeOK
<1>3. CASE Release(w)
  BY <1>1, <1>3, Functions, ArrivesKnowing
<1>4. CASE ~Release(w)
  <2>1. /\ StoreGet(now) /\ j \in Stored(Purge(now)) /\ lease'[w] = lease[w]
    BY <1>4 DEF StopRead, Check, RaceRead
  <2>2. jobs'[j] = jobs[j]
    BY <1>2, <2>1, ReadRow
  <2>3. CASE StopRead(w)
    <3>1. pc'[w] = "stop_write" /\ See(w, j, now)
      BY <1>4, <2>3, Functions DEF StopRead
    <3>2. seen'[w].status = jobs[j].status /\ seen'[w].revision = jobs[j].revision
      BY <3>1, IInvParts DEF See, LocalsOK
    <3>3. StopOK(w)'
      BY <2>1, <2>2, <3>2 DEF StopOK, Running
    <3> QED BY <1>1, <2>1, <3>1, <3>3, ArrivesKnowing
  <2>4. CASE Check(w)
    <3>1. \/ pc'[w] = "publish"
          \/ /\ pc'[w] = "race_read"
             /\ ~(jobs[j].status = "running" /\ jobs[j].revision = lease[w].revision)
      BY <1>4, <2>4, Functions DEF Check
    <3>2. pc'[w] = "race_read" => RaceOK(w)'
      BY <1>1, <1>2, <2>1, <2>2, <3>1 DEF RaceOK, LeaseTimes, SameRecord, Running
    <3> QED BY <1>1, <2>1, <3>1, <3>2, ArrivesKnowing
  <2>5. CASE RaceRead(w)
    <3>1. pc'[w] = "race_ack" /\ jobs[j].status = "cancel_requested"
      BY <1>4, <2>5, Functions DEF RaceRead
    <3>2. RaceOK(w)'
      BY <2>1, <2>2, <3>1 DEF RaceOK, Running
    <3> QED BY <1>1, <2>1, <3>1, <3>2, ArrivesKnowing
  <2> QED BY <2>3, <2>4, <2>5
<1> QED BY <1>3, <1>4

LEMMA EndsKnow ==
    ASSUME IInv, LInv, LedgerStep, NEW w \in Workers,
           \/ FailCas(w) \/ StopWrite(w) \/ RaceAck(w)
           \/ PublishArtifacts(w)
           \/ \E code \in {"invalid_request", "worker_error"} : PublishFails(w, code)
           \/ Crash(w) \/ Restart(w)
    PROVE  KnowsOK(w)'
<1>1. LeaseTimes(w)
  BY DEF LInv, KnowsOK
<1>2. lease \in [Workers -> LeaseRecord]
  BY DEF IInv, TypeOK
<1>3. CASE FailCas(w) \/ StopWrite(w) \/ RaceAck(w)
  <2>1. Release(w)
    BY <1>3 DEF FailCas, StopWrite, RaceAck
  <2> QED BY <1>1, <2>1, Functions, ArrivesKnowing
<1>4. CASE PublishArtifacts(w)
  <2>1. pc'[w] = "final_probe" /\ lease'[w] = lease[w]
    BY <1>4, Functions DEF PublishArtifacts
  <2> QED BY <1>1, <2>1, ArrivesKnowing
<1>5. ASSUME NEW code \in {"invalid_request", "worker_error"}, PublishFails(w, code)
      PROVE  KnowsOK(w)'
  <2>1. pc'[w] = "fail_probe" /\ lease'[w] = lease[w] /\ result'[w].code = code
    BY <1>5, Functions DEF PublishFails
  <2>2. code \in FailureCode \ {"cancelled"}
    BY DEF FailureCode
  <2> QED BY <1>1, <2>1, <2>2, ArrivesKnowing DEF ResultOK
<1>6. CASE Crash(w) \/ Restart(w)
  <2>1. pc'[w] \in {"idle", "down"} /\ (lease'[w] = lease[w] \/ lease'[w] = NoLease)
    BY <1>2, <1>6, Functions DEF Crash, Restart
  <2> QED BY <1>1, <2>1, ArrivesKnowing
<1> QED BY <1>3, <1>4, <1>5, <1>6

LEMMA CompleteKnows ==
    ASSUME IInv, LInv, LedgerStep, NEW w \in Workers, Complete(w)
    PROVE  KnowsOK(w)'
<1> DEFINE j == lease[w].job
           raced == /\ j \in Stored(Purge(now))
                    /\ jobs[j].status # "running" \/ jobs[j].revision # lease[w].revision
<1>1. LeaseTimes(w) /\ Active(w)
  BY DEF LInv, KnowsOK, Complete, Executes, Executing, IInv, TypeOK
<1>2. CASE Release(w)
  BY <1>1, <1>2, Functions, ArrivesKnowing
<1>3. CASE raced /\ Go(w, "race_read") /\ UNCHANGED <<jobs, seen, lease, result>>
  <2>1. pc'[w] = "race_read" /\ lease'[w] = lease[w] /\ jobs' = jobs
    BY <1>3, Functions
  <2>2. RaceOK(w)'
    BY <1>1, <1>3, <2>1 DEF RaceOK, LeaseTimes, SameRecord, Running
  <2> QED BY <1>1, <2>1, <2>2, ArrivesKnowing
<1>4. CASE Go(w, "fail_probe") /\ result' = [result EXCEPT ![w].code = "invalid_request"]
           /\ UNCHANGED <<jobs, seen, lease>>
  <2>1. pc'[w] = "fail_probe" /\ lease'[w] = lease[w] /\ result'[w].code = "invalid_request"
    BY <1>4, Functions
  <2> QED BY <1>1, <2>1, ArrivesKnowing DEF ResultOK, FailureCode
<1> QED BY <1>2, <1>3, <1>4 DEF Complete

LEMMA AlwaysLInv == Spec => [](IInv /\ LInv)
<1>1. Init => LInv
  <2> SUFFICES ASSUME Init PROVE LInv
    OBVIOUS
  <2>1. UpdatesPast
    <3>1. now = 0 /\ \A j \in Jobs : jobs[j] = NoRecord
      BY DEF Init, StoreInit
    <3>2. NoRecord.updated_at = 0
      BY DEF NoRecord
    <3>3. NoRecord.updated_at <= now
      BY <3>1, <3>2
    <3> QED BY <3>1, <3>3, Zenon DEF UpdatesPast
  <2>2. ASSUME NEW w \in Workers
        PROVE  KnowsOK(w)
    <3>1. pc[w] = "idle" /\ lease[w] = NoLease
      BY DEF Init
    <3> QED BY <3>1, Blanks DEF KnowsOK, LeaseTimes, CloseOK, StopOK, RaceOK, ResultOK, Active
  <2> QED BY <2>1, <2>2 DEF LInv
<1>2. IInv /\ LInv /\ [Next]_vars => LInv'
  <2> SUFFICES ASSUME IInv, LInv, [Next]_vars PROVE LInv'
    OBVIOUS
  <2>1. LedgerStep \/ Ticks
    BY NextKeepsIInv
  <2>2. UpdatesPast' /\ UpdatesPast
    BY <2>1, UpdatesStayPast DEF LInv
  <2>3. ASSUME NEW v \in Workers, Untouched(v)
        PROVE  KnowsOK(v)'
    BY <2>1, <2>2, <2>3, UntouchedKnows DEF LInv
  <2>4. CASE UNCHANGED <<pc, seen, lease, result>>
    BY <2>2, <2>3, <2>4 DEF LInv, Untouched
  <2>5. ASSUME NEW w \in Workers, WorkerStep(w)
        PROVE  LInv'
    <3>1. LedgerStep
      <4>1. now' # now + 1
        BY <2>5, IInvParts
        DEF WorkerStep, Progress, CallClaim, ClaimRead, CloseOrphan, Start, ExecutorStep,
            ExecutorReturns, ExecutorRaises, ExecutorBreaks, ExecutorStops, FailProbe,
            DoneProbe, FinalProbe, ProbeThen, FailCas, StopRead, StopWrite, Check,
            PublishArtifacts, PublishFails, Complete, RaceRead, RaceAck, Crash, Restart,
            StoreTypeOK
      <4> QED BY <2>1, <4>1 DEF Ticks
    <3>2. KnowsOK(w)'
      BY <2>5, <3>1, ClaimsKnow, StartKnows, ExecutorKnows, ProbesKnow, ReadsKnow, EndsKnow,
         CompleteKnows DEF WorkerStep, Progress
    <3> QED BY <2>2, <2>3, <2>5, <3>2, OthersUntouched DEF LInv
  <2> QED
    BY <2>4, <2>5
    DEF Next, CallerStep, Submit, Observe, CancelLookup, CancelCas, TimePasses, vars
<1> QED BY <1>1, <1>2, InitIInv, NextKeepsIInv, PTL DEF Spec

-----------------------------------------------------------------------------
(* Who closes a running record.                                            *)

LEMMA WrittenRows ==
    ASSUME IInv, NEW k \in Jobs, NEW t \in Nat, NEW s, Write(k, t, s), NEW j \in Jobs
    PROVE  IF j = k THEN jobs'[j] = s ELSE jobs'[j].status \in {jobs[j].status, "absent"}
<1>1. Purge(t) \in [Jobs -> Record] /\ jobs'[k] = s /\ (j # k => jobs'[j] = Purge(t)[j])
  BY PurgeFacts, IInvParts DEF Write
<1>2. Purge(t)[j] = jobs[j] \/ Purge(t)[j].status = "absent"
  BY PurgeFacts, IInvParts DEF NoRecord
<1> QED BY <1>1, <1>2

LEMMA ReadRows ==
    ASSUME IInv, NEW t \in Nat, StoreGet(t), NEW j \in Jobs
    PROVE  jobs'[j].status \in {jobs[j].status, "absent"}
BY PurgeFacts, IInvParts DEF StoreGet, NoRecord

(* The statuses the transitions of a record lead to.                       *)
LEMMA NewStatus ==
    ASSUME NEW r \in Record, NEW t
    PROVE  /\ StartRecord(r, t).status = "running"
           /\ r.status = "running" => RequestCancelRecord(r, t).status = "cancel_requested"
           /\ AcknowledgeCancelRecord(r, t).status = "cancelled"
           /\ \A code : FailRecord(r, code, t).status = "failed"
           /\ \A c : CompleteRecord(r, c, t).status = "completed"
BY DEF Record, Transition, StartRecord, RequestCancelRecord, AcknowledgeCancelRecord,
       FailRecord, CompleteRecord

Closed == {"completed", "failed", "cancelled"}

(* A caller's request does not close a running record.                     *)
LEMMA CallersCloseNothing ==
    ASSUME IInv, CallerStep, NEW j \in Jobs, Running(j)
    PROVE  jobs'[j].status \notin Closed
<1>1. now \in Nat /\ StoreTypeOK /\ jobs[j] \in Record
  BY IInvParts DEF StoreTypeOK
<1>2. CASE \E k \in Jobs : Submit(k)
  <2>1. PICK k \in Jobs : StoreCreate(k, now)
    BY <1>2 DEF Submit
  <2>2. CreateRecord(now, Ttl).status = "queued"
    BY DEF CreateRecord, NoRecord
  <2>3. Purge(now) \in [Jobs -> Record] /\ Purge(now)[j].status \in {"running", "absent"}
    BY <1>1, PurgeFacts DEF Running, NoRecord
  <2> QED BY <2>1, <2>2, <2>3 DEF StoreCreate, Running, Closed
<1>3. CASE \E t \in 0..now : Observe(t) \/ \E c \in Callers, k \in Jobs : CancelLookup(c, k, t)
  BY <1>1, <1>3, ReadRows DEF Observe, CancelLookup, Running, Closed
<1>4. ASSUME NEW c \in Callers, CancelCas(c)
      PROVE  jobs'[j].status \notin Closed
  <2> DEFINE k == cancel[c].job
  <2>1. k \in Jobs
    BY <1>4 DEF CancelCas, IInv, TypeOK, CancelRecord
  <2>2. CASE jobs' = jobs
    BY <2>2 DEF Running, Closed
  <2>3. CASE StoreRequestCancel(k, now)
    BY <1>1, <2>1, <2>3, WrittenRows, NewStatus DEF StoreRequestCancel, Running, Closed
  <2> QED BY <1>4, <2>2, <2>3 DEF CancelCas
<1> QED BY <1>2, <1>3, <1>4 DEF CallerStep

(* A running record is closed by the worker that holds it, or by one that  *)
(* found its lease over.                                                   *)
LEMMA WhoCloses ==
    ASSUME IInv, NEW v \in Workers, WorkerStep(v), NEW j \in Jobs, Running(j),
           jobs'[j].status \in Closed
    PROVE  \/ /\ pc[v] = "close" /\ seen[v].job = j
              /\ FailOK(j, "worker_error", seen[v].revision, seen[v].at)
           \/ Executes(v) /\ Holds(v, j) /\ pc'[v] # pc[v]
<1>1. /\ now \in Nat /\ StoreTypeOK /\ jobs \in [Jobs -> Record] /\ jobs[j] \in Record
      /\ seen[v].at \in Nat
  BY IInvParts DEF StoreTypeOK, LocalsOK, SeenRecord
<1>2. jobs' # jobs /\ ~(\E t \in Nat : StoreGet(t))
  BY ReadRows DEF Running, Closed
<1>3. CASE CloseOrphan(v)
  <2> DEFINE k == seen[v].job
  <2>1. k \in Jobs /\ pc[v] = "close"
    BY <1>3 DEF CloseOrphan, IInv, TypeOK, Claiming
  <2>2. ~StoreAcknowledge(k, seen[v].at) \/ ~AcknowledgeOK(k, seen[v].revision, seen[v].at)
    <3> SUFFICES ASSUME StoreAcknowledge(k, seen[v].at), MayAcknowledgeCancel(jobs[k])
                 PROVE  FALSE
      BY DEF AcknowledgeOK
    <3> QED BY <1>1, <2>1, WrittenRows
            DEF StoreAcknowledge, MayAcknowledgeCancel, Running, Closed
  <2>3. /\ FailOK(k, "worker_error", seen[v].revision, seen[v].at)
        /\ StoreFail(k, "worker_error", seen[v].at)
    BY <1>2, <1>3, <2>2 DEF CloseOrphan
  <2>4. k = j
    BY <1>1, <2>1, <2>3, WrittenRows DEF StoreFail, Running, Closed
  <2> QED BY <2>1, <2>3, <2>4
<1>4. CASE Start(v)
  <2> DEFINE k == seen[v].job
  <2>1. k \in Jobs
    BY <1>4 DEF Start, IInv, TypeOK, Claiming
  <2>2. StoreStart(k, seen[v].at)
    BY <1>2, <1>4 DEF Start
  <2> QED BY <1>1, <2>1, <2>2, WrittenRows, NewStatus DEF StoreStart, Running, Closed
<1>5. CASE FailCas(v) \/ StopWrite(v) \/ RaceAck(v) \/ Complete(v)
  <2> DEFINE k == lease[v].job
  <2>1. Executes(v) /\ k \in Jobs
    BY <1>5, ExecutingFacts DEF FailCas, StopWrite, RaceAck, Complete, Executes, Executing
  <2>2. pc'[v] = "idle"
    BY <1>2, <1>5, Functions DEF FailCas, StopWrite, RaceAck, Complete
  <2>3. \E s : Write(k, now, s)
    BY <1>2, <1>5
    DEF FailCas, StopWrite, RaceAck, Complete, StoreFail, StoreAcknowledge, StoreComplete
  <2>4. k = j
    BY <1>1, <2>1, <2>3, WrittenRows DEF Running, Closed
  <2> QED BY <2>1, <2>2, <2>4 DEF Holds, Executes, Executing
<1>6. \/ jobs' = jobs
      \/ \E t \in Nat : StoreGet(t)
      \/ CloseOrphan(v) \/ Start(v)
      \/ FailCas(v) \/ StopWrite(v) \/ RaceAck(v) \/ Complete(v)
  BY <1>1
  DEF WorkerStep, Progress, CallClaim, ClaimRead, ExecutorStep, ExecutorReturns,
      ExecutorRaises, ExecutorBreaks, ExecutorStops, FailProbe, DoneProbe, FinalProbe,
      ProbeThen, Probe, StopRead, Check, PublishArtifacts, PublishFails, RaceRead,
      Crash, Restart
<1> QED BY <1>2, <1>3, <1>4, <1>5, <1>6

LEMMA StepRespectsLease ==
    ASSUME IInv, LInv, [Next]_vars, NEW w \in Workers
    PROVE  LeaseRespected(w)
<1> DEFINE j == lease[w].job
<1> SUFFICES ASSUME Executes(w), now < lease[w].until, NoStraggler(j), Running(j),
                    pc'[w] = pc[w]
             PROVE  jobs'[j].status \in {"running", "cancel_requested", "absent", "queued"}
  BY DEF LeaseRespected, Running
<1>1. j \in Jobs /\ now \in Nat /\ jobs[j] \in Record /\ Lease[j] \in Nat
  BY ExecutingFacts, WorkerAssumption DEF StoreTypeOK
<1>2. SameRecord(w) /\ Active(w)
  BY ExecutingFacts, WorkerAssumption DEF NoStraggler, Holds, Active
<1>3. lease[w].until = jobs[j].updated_at + Lease[j]
  BY <1>2 DEF LInv, KnowsOK, LeaseTimes
<1>4. jobs'[j].status \notin Closed
  <2>1. CASE CallerStep
    BY <1>1, <2>1, CallersCloseNothing
  <2>2. CASE jobs' = jobs
    BY <2>2 DEF Running, Closed
  <2>3. ASSUME NEW v \in Workers, WorkerStep(v), jobs'[j].status \in Closed
        PROVE  FALSE
    <3>1. CASE /\ pc[v] = "close" /\ seen[v].job = j
               /\ FailOK(j, "worker_error", seen[v].revision, seen[v].at)
      <4>1. CloseOK(v)
        BY DEF LInv, KnowsOK
      <4>2. seen[v].at \in Nat /\ seen[v].at <= now /\ seen[v].at >= jobs[j].updated_at
        BY <1>1, <3>1, PurgeFacts, IInvParts
        DEF FailOK, Current, MayTransition, LocalsOK, SeenOK, SeenRecord
      <4>3. jobs[j].updated_at \in Nat /\ jobs[j].status = "running"
        BY <1>1 DEF Record, Running
      <4> QED BY <1>1, <1>3, <3>1, <4>1, <4>2, <4>3 DEF CloseOK, LeaseOver
    <3>2. CASE Executes(v) /\ Holds(v, j) /\ pc'[v] # pc[v]
      <4>1. Active(v) /\ lease[v].job = j /\ lease[v].born = lease[w].born
        BY <1>2, <3>2, ExecutingFacts, WorkerAssumption
        DEF NoStraggler, Holds, SameRecord, Active
      <4>2. v = w
        BY <1>2, <4>1 DEF IInv, ExecutedOnce
      <4> QED BY <3>2, <4>2
    <3> QED BY <1>1, <2>3, <3>1, <3>2, WhoCloses
  <2> QED BY <2>1, <2>2, <2>3 DEF Next, TimePasses, vars
<1>5. jobs'[j] \in Record
  BY <1>1, NextKeepsIInv DEF LedgerStep, Ticks, StoreTypeOK
<1> QED BY <1>4, <1>5 DEF Closed, Record, Status

(* While a lease lives, its job leaves running only by its holder's hand,  *)
(* a caller's cancellation or expiry of the record: no claim or recovery   *)
(* by another worker closes it (job_worker.py:claim, recover_expired).     *)
THEOREM LiveLeaseIsRespected == Spec => LiveLeaseRespected
<1>1. IInv /\ LInv /\ [Next]_vars => [\A w \in Workers : LeaseRespected(w)]_vars
  BY StepRespectsLease
<1> QED BY <1>1, AlwaysLInv, PTL DEF Spec, LiveLeaseRespected

-----------------------------------------------------------------------------
(* What a returning execution leaves behind.                               *)

(* A compare-and-swap on a running record whose revision is known succeeds. *)
LEMMA RunningCanMove ==
    ASSUME IInv, UpdatesPast, NEW j \in Jobs, Running(j), j \in Stored(Purge(now)),
           NEW code \in FailureCode \ {"cancelled"}
    PROVE  FailOK(j, code, jobs[j].revision, now)
<1>1. now \in Nat /\ Purge(now)[j] = jobs[j] /\ jobs[j].updated_at <= now /\ jobs[j] \in Record
  BY PurgeFacts, IInvParts DEF UpdatesPast, StoreTypeOK
<1>2. now >= jobs[j].updated_at
  BY <1>1 DEF Record
<1> QED BY <1>1, <1>2 DEF FailOK, Current, MayTransition, MayFail, Running

LEMMA StepClosesReleased ==
    ASSUME IInv, LInv, [Next]_vars, NEW w \in Workers
    PROVE  ReleaseCloses(w)
<1> DEFINE j == lease[w].job
<1> SUFFICES ASSUME Executes(w), pc'[w] = "idle", lease'[w] = NoLease, SameRecord(w),
                    jobs'[j].status = "running", ~(jobs[j].expires_at <= now)
             PROVE  FALSE
  BY DEF ReleaseCloses, ReturnsOrRaises
<1>1. /\ j \in Jobs /\ now \in Nat /\ Active(w) /\ StoreTypeOK
      /\ jobs[j] \in Record /\ RowOK(jobs[j])
  BY ExecutingFacts, IInvParts, WorkerAssumption DEF Active, StoreTypeOK, LedgerOK
<1>2. WorkerStep(w)
  <2>1. pc'[w] # pc[w]
    BY DEF Executes, Executing
  <2>2. ~UNCHANGED vars /\ ~CallerStep /\ ~TimePasses
    BY <2>1 DEF vars, CallerStep, Submit, Observe, CancelLookup, CancelCas, TimePasses
  <2>3. \A v \in Workers : WorkerStep(v) => v = w
    BY <2>1, OthersUntouched DEF Untouched
  <2> QED BY <2>2, <2>3 DEF Next
<1>3. LedgerStep \/ Ticks
  BY NextKeepsIInv
<1>4. jobs'[j].created_at = lease[w].born
  <2>1. CASE jobs'[j] = jobs[j]
    BY <2>1 DEF SameRecord
  <2>2. CASE Created(j)
    BY <1>1, <2>2, CreatedRow
  <2>3. CASE Moved(j)
    BY <1>1, <2>3, MovedRow DEF SameRecord
  <2>4. CASE jobs'[j] = NoRecord
    BY <2>4 DEF NoRecord
  <2> QED BY <1>1, <1>3, <2>1, <2>2, <2>3, <2>4 DEF LedgerStep, Kept, Ticks
<1>5. jobs'[j] = jobs[j] /\ Running(j)
  BY <1>1, <1>3, <1>4, RunningStands
<1>6. j \in Stored(Purge(now))
  BY <1>1, <1>5, PurgeFacts DEF Running
<1>7. jobs[j].revision = lease[w].revision /\ KnowsOK(w) /\ UpdatesPast
  BY <1>1, <1>5 DEF LInv, KnowsOK, LeaseTimes
<1>8. ASSUME NEW code, StoreFail(j, code, now)
      PROVE  FALSE
  BY <1>1, <1>5, <1>8, WrittenRows, NewStatus DEF StoreFail, Running
<1>9. CASE FailCas(w)
  <2>1. result[w].code \in FailureCode \ {"cancelled"}
    BY <1>7, <1>9 DEF FailCas, KnowsOK, ResultOK
  <2>2. FailOK(j, result[w].code, lease[w].revision, now)
    BY <1>1, <1>5, <1>6, <1>7, <2>1, RunningCanMove
  <2> QED BY <1>8, <1>9, <2>2 DEF FailCas
<1>10. CASE StopWrite(w)
  <2>1. seen[w].status = "running" /\ seen[w].revision = jobs[j].revision
    BY <1>5, <1>7, <1>10 DEF StopWrite, KnowsOK, StopOK
  <2>2. "worker_error" \in FailureCode \ {"cancelled"}
    BY DEF FailureCode
  <2>3. FailOK(j, "worker_error", seen[w].revision, now)
    BY <1>1, <1>5, <1>6, <1>7, <2>1, <2>2, RunningCanMove
  <2> QED BY <1>8, <1>10, <2>1, <2>3 DEF StopWrite
<1>11. CASE Complete(w)
  <2>1. StoreComplete(j, result[w].candidate, now)
    BY <1>11, Functions DEF Complete
  <2> QED BY <1>1, <1>5, <2>1, WrittenRows, NewStatus DEF StoreComplete, Running
<1>12. ~RaceRead(w) /\ ~RaceAck(w)
  BY <1>5, <1>7 DEF RaceRead, RaceAck, KnowsOK, RaceOK
<1>13. CASE StopRead(w) \/ Check(w)
  BY <1>6, <1>13, Functions DEF StopRead, Check
<1>14. ~ExecutorStep(w)
  <2>1. lease'[w] # lease[w]
    BY <1>1 DEF Active, NoLease
  <2> QED BY <2>1 DEF ExecutorStep, ExecutorReturns, ExecutorRaises, ExecutorBreaks, ExecutorStops
<1>15. ~FailProbe(w) /\ ~DoneProbe(w) /\ ~FinalProbe(w) /\ ~PublishArtifacts(w)
       /\ \A code : ~PublishFails(w, code)
  BY Functions DEF FailProbe, DoneProbe, FinalProbe, ProbeThen, PublishArtifacts, PublishFails
<1>16. ~Crash(w)
  BY Functions DEF Crash
<1> QED
  BY <1>2, <1>9, <1>10, <1>11, <1>12, <1>13, <1>14, <1>15, <1>16
  DEF WorkerStep, Progress, CallClaim, ClaimRead, CloseOrphan, Start, Restart, Executes, Executing

(* An execution that gives its lease up, by returning or by raising, never *)
(* leaves its own job running: every path out of execute that clears       *)
(* _active has closed the record, or someone else has (job_worker.py:362), *)
(* or the record has expired.                                              *)
THEOREM ReleasedLeaseClosesItsJob == Spec => ReleasedLeaseClosesJob
<1>1. IInv /\ LInv /\ [Next]_vars => [\A w \in Workers : ReleaseCloses(w)]_vars
  BY StepClosesReleased
<1> QED BY <1>1, AlwaysLInv, PTL DEF Spec, ReleasedLeaseClosesJob
===============================================================================
