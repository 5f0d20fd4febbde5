--------------------------- MODULE OptimizationProofs ---------------------------
(***************************************************************************)
(* Proofs about the optimization service, for any number of jobs, launches,*)
(* callers and crashes of the server.                                      *)
(*                                                                         *)
(* Every method of the repository first maintains the table and then       *)
(* writes at most one row, so the argument is about one row: whatever      *)
(* table a step leaves, each of its rows is well formed and has made one   *)
(* move of OptimizationLifecycle (TableMoves).  What the service keeps in  *)
(* memory is then related to those moves.                                  *)
(***************************************************************************)
EXTENDS OptimizationProperties, FiniteSetTheorems, WellFoundedInduction, TLAPS

-----------------------------------------------------------------------------
(* One row.                                                                *)

(* A row is absent or well shaped; its package is the one its record shows,*)
(* only a job that is being worked on has a lease, and consent completes a *)
(* job in the same write.                                                  *)
RowOK(r) ==
    /\ r \in Row
    /\ r = NoRow \/ (r.status \in Status /\ ShapeOK(r))
    /\ r.package = r.package_digest
    /\ r.lease # "none" => r.status \in Working
    /\ r.status # "approved"

(* What maintenance makes of a row.                                        *)
Maintain(r) ==
    IF r.lease = "lapsed" THEN Recover(r)
    ELSE IF r.old /\ r.lease = "none" THEN NoRow
    ELSE r

(* The row as OptimizationLifecycle sees it, and its moves but for ageing. *)
Abs(r) == [phase |-> Phase(r), candidate |-> r.package, old |-> r.old]

Served(p, q) ==
    \/ q = p
    \/ Lifecycle!Create(p, q) \/ Lifecycle!Claim(p, q) \/ Lifecycle!Publish(p, q)
    \/ Lifecycle!Approve(p, q) \/ Lifecycle!Stop(p, q) \/ Lifecycle!Renew(p, q)
    \/ Lifecycle!Forget(p, q)

RowMove(r, q) == RowOK(q) /\ Served(Abs(r), Abs(q))

(* What a row becomes when a method writes w in its place.                 *)
Written(w) == [w EXCEPT !.old = FALSE]

LEMMA PhaseOf ==
    ASSUME NEW r
    PROVE  /\ r.status \in Working => Phase(r) = "working"
           /\ r.status = "awaiting_approval" => Phase(r) = "review"
           /\ r.status \in Terminal \ {"completed"} => Phase(r) = "stopped"
           /\ r.status \in {"absent", "queued", "approved", "completed"} => Phase(r) = r.status
<1>1. r.status \in Working => Phase(r) = "working"
  BY DEF Phase, Working, Terminal
<1>2. r.status = "awaiting_approval" => Phase(r) = "review"
  BY DEF Phase, Working, Terminal
<1>3. r.status \in Terminal \ {"completed"} => Phase(r) = "stopped"
  BY DEF Phase, Working, Terminal
<1>4. r.status \in {"absent", "queued", "approved", "completed"} => Phase(r) = r.status
  BY DEF Phase, Working, Terminal
<1> QED  BY <1>1, <1>2, <1>3, <1>4

LEMMA NoRowIsOK == RowOK(NoRow)
BY OptimizationAssumption DEF RowOK, NoRow, Row, Working, Status

LEMMA AbsNoRow == Abs(NoRow) = Lifecycle!Absent
<1>1. NoRow.status = "absent" /\ NoRow.package = None /\ NoRow.old = FALSE
  BY DEF NoRow
<1>2. Phase(NoRow) = "absent"
  BY <1>1, PhaseOf
<1> QED  BY <1>1, <1>2 DEF Abs, Lifecycle!Absent

(* A transition that stops a job, under a lease or without.                *)
LEMMA StopMoves ==
    ASSUME NEW r, RowOK(r), MayFail(r), NEW code \in FailureCode
    PROVE  /\ RowMove(r, Stop(r, code))
           /\ Stop(r, code).status \in Terminal \ {"completed"}
           /\ Stop(r, code).lease = "none" /\ Stop(r, code).old = FALSE
<1> DEFINE s == Stop(r, code)
           t == IF code \in Terminal THEN code ELSE "failed"
<1>1. r \in Row /\ r.status \in {"queued", "awaiting_approval"} \cup Working
  BY DEF RowOK, Row, MayFail, Status, Selected, Terminal
<1>2. t \in Terminal \ {"completed"} /\ (t # "failed" => t = code)
  BY DEF Terminal, FailureCode
<1>3. /\ s.package = None /\ s.old = FALSE /\ s.status = t /\ s.lease = "none"
      /\ s.package_digest = None /\ s.failure_code = code /\ s.receipt = FALSE
  BY <1>1 DEF Stop, FailRecord, Row
<1>4. t \in Status \cup {"absent"}
  BY <1>2 DEF Status
<1>5. s \in Row
  <2>1. FailRecord(r, code) \in Row
    <3>1. r.revision + 1 \in Nat /\ code \in FailureCode \cup {"none"}
      BY <1>1 DEF Row
    <3> HIDE DEF t
    <3>2. FailRecord(r, code) = [r EXCEPT !.revision = r.revision + 1, !.status = t,
             !.failure_code = code, !.package_digest = None, !.receipt = FALSE]
      BY <1>1 DEF FailRecord, t
    <3> QED  BY <1>1, <1>4, <3>1, <3>2 DEF Row
  <2> QED  BY <2>1 DEF Stop, Row
<1> HIDE DEF t, s
<1>7. RowOK(s)
  BY <1>2, <1>3, <1>5 DEF RowOK, ShapeOK, Status, Terminal, Selected, FailureCode
<1>8. Phase(s) = "stopped"
  BY <1>2, <1>3, PhaseOf
<1>9. Served(Abs(r), Abs(s))
  BY <1>1, <1>3, <1>8, PhaseOf DEF Served, Lifecycle!Stop, Lifecycle!Open, Lifecycle!In, Abs
<1>10. s = Stop(r, code)
  BY DEF s
<1> QED  BY <1>2, <1>3, <1>7, <1>9, <1>10 DEF RowMove

(* Maintenance is a move of every row, and leaves no lease that is over and*)
(* no row that is old; what it leaves open it has not touched.             *)
LEMMA MaintainMoves ==
    ASSUME NEW r, RowOK(r)
    PROVE  /\ RowMove(r, Maintain(r))
           /\ Maintain(r).lease # "lapsed"
           /\ Maintain(r).old => Maintain(r).lease = "live"
           /\ Maintain(r).status \notin Terminal \cup {"absent"} => Maintain(r) = r
           /\ Maintain(r).status = "absent" => r = NoRow \/ r.old
<1>1. r \in Row /\ r.status \in Status \cup {"absent"}
  BY DEF RowOK, Row
<1>2. CASE r.lease = "lapsed"
  <2>1. r.status \in Working /\ r # NoRow
    BY <1>2 DEF RowOK, NoRow
  <2>2. MayFail(r) /\ "interrupted" \in FailureCode /\ r.status \notin Terminal
    BY <2>1 DEF MayFail, FailureCode, Working, Terminal
  <2>3. Maintain(r) = Stop(r, "interrupted")
    BY <1>2, <2>2 DEF Maintain, Recover
  <2> QED  BY <2>2, <2>3, StopMoves DEF Terminal
<1>3. CASE r.lease # "lapsed" /\ r.old /\ r.lease = "none"
  <2>1. Maintain(r) = NoRow
    BY <1>3 DEF Maintain
  <2>2. Lifecycle!Forget(Abs(r), Abs(NoRow))
    BY <1>3, AbsNoRow DEF Lifecycle!Forget, Abs
  <2>3. Served(Abs(r), Abs(NoRow))
    BY <2>2 DEF Served
  <2> QED  BY <1>3, <2>1, <2>3, NoRowIsOK DEF RowMove, NoRow
<1>4. CASE r.lease # "lapsed" /\ ~(r.old /\ r.lease = "none")
  <2>1. Maintain(r) = r
    BY <1>4 DEF Maintain
  <2>2. r.lease \in {"none", "live"} /\ r.old \in BOOLEAN
    BY <1>1, <1>4 DEF Row
  <2>3. r.status = "absent" => r = NoRow
    BY DEF RowOK, Status, Working, Selected, Terminal
  <2> QED  BY <1>4, <2>1, <2>2, <2>3 DEF RowMove, Served
<1> QED  BY <1>2, <1>3, <1>4

LEMMA WrittenFields ==
    ASSUME NEW s \in Row
    PROVE  /\ Written(s) \in Row /\ Written(s).old = FALSE
           /\ Written(s).status = s.status /\ Written(s).failure_code = s.failure_code
           /\ Written(s).package = s.package /\ Written(s).package_digest = s.package_digest
           /\ Written(s).receipt = s.receipt /\ Written(s).lease = s.lease
           /\ Written(s).revision = s.revision /\ Written(s).fence = s.fence
BY DEF Written, Row

LEMMA WrittenIsOK ==
    ASSUME NEW s, s \in Row, s.status \in Status, ShapeOK(s), s.package = s.package_digest,
           s.lease # "none" => s.status \in Working, s.status # "approved"
    PROVE  RowOK(Written(s)) /\ Phase(Written(s)) = Phase(s)
<1>1. RowOK(Written(s))
  <2> DEFINE q == Written(s)
  <2>1. /\ q \in Row /\ q.status = s.status /\ q.failure_code = s.failure_code
        /\ q.package = s.package /\ q.package_digest = s.package_digest
        /\ q.receipt = s.receipt /\ q.lease = s.lease
    BY WrittenFields
  <2> HIDE DEF q
  <2>2. RowOK(q)
    BY <2>1 DEF RowOK, ShapeOK
  <2> QED  BY <2>2 DEF q
<1>2. Phase(Written(s)) = Phase(s)
  BY WrittenFields DEF Phase
<1> QED  BY <1>1, <1>2

LEMMA StopWritten ==
    ASSUME NEW r, RowOK(r), MayFail(r), NEW code \in FailureCode
    PROVE  RowMove(r, Written(Stop(r, code)))
<1> DEFINE s == Stop(r, code)
<1>1. RowMove(r, s) /\ s.old = FALSE /\ s.status \in Status /\ s.status # "absent"
  BY StopMoves DEF Terminal, Status
<1>2. s \in Row /\ ShapeOK(s) /\ s.package = s.package_digest /\ s.status # "approved"
      /\ (s.lease # "none" => s.status \in Working)
  <2>1. s # NoRow
    BY <1>1 DEF NoRow
  <2> HIDE DEF s
  <2> QED  BY <1>1, <2>1 DEF RowMove, RowOK
<1> HIDE DEF s
<1>3. RowOK(Written(s)) /\ Abs(Written(s)) = Abs(s)
  BY <1>1, <1>2, WrittenIsOK, WrittenFields DEF Abs
<1>4. s = Stop(r, code)
  BY DEF s
<1> QED  BY <1>1, <1>3, <1>4 DEF RowMove

LEMMA SetOld ==
    ASSUME NEW a, NEW b, NEW c, NEW v
    PROVE  [[phase |-> a, candidate |-> b, old |-> c] EXCEPT !.old = v]
             = [phase |-> a, candidate |-> b, old |-> v]
<1> DEFINE p == [phase |-> a, candidate |-> b, old |-> c]
<1>1. p \in [phase : {a}, candidate : {b}, old : {c}] /\ p.phase = a /\ p.candidate = b
  OBVIOUS
<1> HIDE DEF p
<1>2. [p EXCEPT !.old = v] = [phase |-> p.phase, candidate |-> p.candidate, old |-> v]
  BY <1>1
<1> QED  BY <1>1, <1>2 DEF p

LEMMA SetOldFalse ==
    ASSUME NEW a, NEW b, NEW c
    PROVE  [[phase |-> a, candidate |-> b, old |-> c] EXCEPT !.old = FALSE]
             = [phase |-> a, candidate |-> b, old |-> FALSE]
<1>1. \A v : [[phase |-> a, candidate |-> b, old |-> c] EXCEPT !.old = v]
               = [phase |-> a, candidate |-> b, old |-> v]
  BY SetOld
<1> QED  BY <1>1, Zenon

LEMMA SetOldTrue ==
    ASSUME NEW a, NEW b, NEW c
    PROVE  [[phase |-> a, candidate |-> b, old |-> c] EXCEPT !.old = TRUE]
             = [phase |-> a, candidate |-> b, old |-> TRUE]
<1>1. \A v : [[phase |-> a, candidate |-> b, old |-> c] EXCEPT !.old = v]
               = [phase |-> a, candidate |-> b, old |-> v]
  BY SetOld
<1> QED  BY <1>1, Zenon

LEMMA RenewedAs ==
    ASSUME NEW p, NEW q, NEW a, NEW c, NEW o, a = "working",
           p = [phase |-> a, candidate |-> c, old |-> o],
           q = [phase |-> a, candidate |-> c, old |-> FALSE]
    PROVE  Lifecycle!Renew(p, q)
<1>1. q = [p EXCEPT !.old = FALSE]
  BY SetOldFalse, Zenon
<1>2. p.phase \in Lifecycle!Open
  BY DEF Lifecycle!Open
<1> QED  BY <1>1, <1>2 DEF Lifecycle!Renew

(* A heartbeat and a charge, under a live lease.                           *)
LEMMA RenewMoves ==
    ASSUME NEW r, RowOK(r), r.lease = "live"
    PROVE  /\ RowMove(r, Written(r))
           /\ RowMove(r, Written(ChargeRecord(r)))
<1>1. /\ r \in Row /\ r.status \in Working /\ r.status \in Status /\ ShapeOK(r)
      /\ r.package = r.package_digest
  BY DEF RowOK, NoRow, Status
<1>2. Phase(r) = "working"
  BY <1>1, PhaseOf
<1>3. ASSUME NEW s \in Row, s.status = r.status, s.failure_code = r.failure_code,
             s.package = r.package, s.package_digest = r.package_digest,
             s.receipt = r.receipt, s.lease = r.lease
      PROVE  RowMove(r, Written(s))
  <2>1. ShapeOK(s) /\ s.status # "approved"
    BY <1>1, <1>3 DEF ShapeOK, Working
  <2>2. RowOK(Written(s)) /\ Phase(Written(s)) = "working"
    BY <1>1, <1>3, <2>1, WrittenIsOK, PhaseOf
  <2>3. Written(s).old = FALSE /\ Written(s).package = r.package
    BY <1>3, WrittenFields
  <2>4. Lifecycle!Renew(Abs(r), Abs(Written(s)))
    <3>1. Abs(r) = [phase |-> "working", candidate |-> r.package, old |-> r.old]
      BY <1>2 DEF Abs
    <3>2. Abs(Written(s)) = [phase |-> "working", candidate |-> r.package, old |-> FALSE]
      BY <2>2, <2>3 DEF Abs
    <3> QED  BY <3>1, <3>2, RenewedAs
  <2> QED  BY <2>2, <2>4 DEF RowMove, Served
<1>4. RowMove(r, Written(r))
  BY <1>1, <1>3
<1>5. ChargeRecord(r) \in Row
  <2>1. r.revision + 1 \in Nat
    BY <1>1 DEF Row
  <2> QED  BY <1>1, <2>1 DEF ChargeRecord, Row
<1>6. RowMove(r, Written(ChargeRecord(r)))
  <2>1. LET s == ChargeRecord(r)
        IN  /\ s.status = r.status /\ s.failure_code = r.failure_code
            /\ s.package = r.package /\ s.package_digest = r.package_digest
            /\ s.receipt = r.receipt /\ s.lease = r.lease
    BY <1>1 DEF ChargeRecord, Row
  <2> QED  BY <1>3, <1>5, <2>1
<1> QED  BY <1>4, <1>6

(* The next phase of a job under a live lease.                             *)
LEMMA AdvanceMoves ==
    ASSUME NEW r, RowOK(r), r.lease = "live", NEW j, NEW next \in NextStatus(j, r.status),
           next \notin {"inspecting", "awaiting_approval", "repairing"}
    PROVE  RowMove(r, Written(AdvanceRecord(r, next)))
<1> DEFINE s == AdvanceRecord(r, next)
<1>1. /\ r \in Row /\ r.status \in Working /\ ShapeOK(r) /\ r.package = r.package_digest
  BY DEF RowOK, NoRow
<1>2. next \in Working
  BY <1>1 DEF NextStatus, Working
<1>3. Phase(r) = "working"
  BY <1>1, PhaseOf
<1>4. /\ s.status = next /\ s.failure_code = r.failure_code
      /\ s.package = r.package /\ s.package_digest = r.package_digest
      /\ s.receipt = r.receipt /\ s.lease = r.lease
  BY <1>1 DEF AdvanceRecord, Row
<1>5. s \in Row
  <2>1. r.revision + 1 \in Nat /\ next \in Status
    BY <1>1, <1>2 DEF Row, Status
  <2> QED  BY <1>1, <2>1 DEF AdvanceRecord, Row
<1>6. ShapeOK(s) /\ s.status # "approved"
  BY <1>1, <1>2, <1>4 DEF ShapeOK, Working, Terminal, Selected
<1>7. s.status \in Status /\ (s.lease # "none" => s.status \in Working)
  BY <1>2, <1>4 DEF Status
<1> HIDE DEF s
<1>8. RowOK(Written(s)) /\ Phase(Written(s)) = "working"
  BY <1>1, <1>2, <1>4, <1>5, <1>6, <1>7, WrittenIsOK, PhaseOf
<1>9. Written(s).old = FALSE /\ Written(s).package = r.package
  BY <1>4, <1>5, WrittenFields
<1>10. Abs(r) = [phase |-> "working", candidate |-> r.package, old |-> r.old]
  BY <1>3 DEF Abs
<1>11. Abs(Written(s)) = [phase |-> "working", candidate |-> r.package, old |-> FALSE]
  BY <1>8, <1>9 DEF Abs
<1>12. Lifecycle!Renew(Abs(r), Abs(Written(s)))
  BY <1>10, <1>11, RenewedAs
<1>13. s = AdvanceRecord(r, next)
  BY DEF s
<1> QED  BY <1>8, <1>12, <1>13 DEF RowMove, Served

(* The claim of a queued job.                                              *)
ClaimedRow(r) ==
    [AdvanceRecord(r, "inspecting") EXCEPT !.fence = @ + 1, !.lease = "live"]

LEMMA ClaimMoves ==
    ASSUME NEW r, RowOK(r), r.status = "queued"
    PROVE  RowMove(r, Written(ClaimedRow(r)))
<1> DEFINE a == AdvanceRecord(r, "inspecting")
           s == ClaimedRow(r)
<1>1. /\ r \in Row /\ ShapeOK(r) /\ r.package = r.package_digest
  BY DEF RowOK, NoRow
<1>2. r.package = None /\ r.failure_code = "none" /\ r.receipt = FALSE
  BY <1>1 DEF ShapeOK, Terminal, Selected, Row
<1>3. /\ a.status = "inspecting" /\ a.failure_code = r.failure_code
      /\ a.package = r.package /\ a.package_digest = r.package_digest
      /\ a.receipt = r.receipt
  BY <1>1 DEF AdvanceRecord, Row
<1>4. a \in Row
  <2>1. r.revision + 1 \in Nat /\ "inspecting" \in Status
    BY <1>1 DEF Row, Status, Working
  <2> QED  BY <1>1, <2>1 DEF AdvanceRecord, Row
<1>5. s = [a EXCEPT !.fence = a.fence + 1, !.lease = "live"]
  BY DEF ClaimedRow
<1> HIDE DEF a, s
<1>6. /\ s.status = "inspecting" /\ s.failure_code = a.failure_code
      /\ s.package = a.package /\ s.package_digest = a.package_digest
      /\ s.receipt = a.receipt /\ s.lease = "live"
  BY <1>3, <1>4, <1>5 DEF Row
<1>7. s \in Row
  <2>1. a.fence + 1 \in Nat
    BY <1>4 DEF Row
  <2> QED  BY <1>4, <1>5, <2>1 DEF Row
<1>8. ShapeOK(s) /\ s.status # "approved" /\ s.status \in Working /\ s.status \in Status
  BY <1>1, <1>2, <1>3, <1>6 DEF ShapeOK, Working, Terminal, Selected, Status
<1>9. RowOK(Written(s)) /\ Phase(Written(s)) = "working"
  BY <1>1, <1>3, <1>6, <1>7, <1>8, WrittenIsOK, PhaseOf
<1>10. Written(s).old = FALSE /\ Written(s).package = None
  BY <1>2, <1>3, <1>6, <1>7, WrittenFields
<1>11. Lifecycle!Claim(Abs(r), Abs(Written(s)))
  <2>1. Phase(r) = "queued"
    BY PhaseOf
  <2> QED  BY <1>9, <1>10, <2>1 DEF Lifecycle!Claim, Lifecycle!In, Abs
<1>12. s = ClaimedRow(r)
  BY DEF s
<1> QED  BY <1>9, <1>11, <1>12 DEF RowMove, Served

(* The publication of a package.                                           *)
PublishedRow(r, l) ==
    [SelectRecord(r, l) EXCEPT !.lease = "none", !.package = IF @ = None THEN l ELSE @]

LEMMA SelectMoves ==
    ASSUME NEW r, RowOK(r), r.lease = "live", NEW l \in Launches
    PROVE  RowMove(r, Written(PublishedRow(r, l)))
<1> DEFINE a == SelectRecord(r, l)
           s == PublishedRow(r, l)
<1>1. /\ r \in Row /\ ShapeOK(r) /\ r.package = r.package_digest /\ r.status \in Working
  BY DEF RowOK, NoRow
<1>2. r.package = None /\ r.failure_code = "none" /\ r.receipt = FALSE /\ l # None
  BY <1>1, OptimizationAssumption DEF ShapeOK, Terminal, Selected, Row, Working
<1>3. /\ a.status = "awaiting_approval" /\ a.failure_code = "none"
      /\ a.package = None /\ a.package_digest = l /\ a.receipt = FALSE
  BY <1>1, <1>2 DEF SelectRecord, Row
<1>4. a \in Row
  <2>1. r.revision + 1 \in Nat /\ "awaiting_approval" \in Status
    BY <1>1 DEF Row, Status, Selected
  <2> QED  BY <1>1, <2>1 DEF SelectRecord, Row
<1>5. s = [a EXCEPT !.lease = "none", !.package = l]
  BY <1>3 DEF PublishedRow
<1> HIDE DEF a, s
<1>6. /\ s.status = "awaiting_approval" /\ s.failure_code = "none"
      /\ s.package = l /\ s.package_digest = l /\ s.receipt = FALSE /\ s.lease = "none"
  BY <1>3, <1>4, <1>5 DEF Row
<1>7. s \in Row
  BY <1>4, <1>5 DEF Row
<1>8. ShapeOK(s) /\ s.status # "approved" /\ s.status \in Status
  BY <1>2, <1>6 DEF ShapeOK, Terminal, Selected, Status
<1>9. RowOK(Written(s)) /\ Phase(Written(s)) = "review"
  BY <1>6, <1>7, <1>8, WrittenIsOK, PhaseOf
<1>10. Written(s).old = FALSE /\ Written(s).package = l
  BY <1>6, <1>7, WrittenFields
<1>11. Lifecycle!Publish(Abs(r), Abs(Written(s)))
  <2>1. Phase(r) = "working"
    BY <1>1, PhaseOf
  <2> QED  BY <1>9, <1>10, <2>1 DEF Lifecycle!Publish, Lifecycle!In, Abs
<1>12. s = PublishedRow(r, l)
  BY DEF s
<1> QED  BY <1>9, <1>11, <1>12 DEF RowMove, Served

(* Approval, which completes the job in the same write.                    *)
LEMMA ApproveMoves ==
    ASSUME NEW r, RowOK(r), r.status = "awaiting_approval"
    PROVE  RowMove(r, Written(AdvanceRecord(ApproveRecord(r), "completed")))
<1> DEFINE a == ApproveRecord(r)
           s == AdvanceRecord(a, "completed")
<1>1. /\ r \in Row /\ ShapeOK(r) /\ r.package = r.package_digest /\ r.lease = "none"
  BY DEF RowOK, NoRow, Working
<1>2. r.package # None /\ r.failure_code = "none"
  BY <1>1 DEF ShapeOK, Terminal, Selected, Row
<1>3. /\ a.failure_code = "none" /\ a.package = r.package /\ a.package_digest = r.package
      /\ a.receipt = TRUE /\ a.lease = "none"
  BY <1>1, <1>2 DEF ApproveRecord, Row
<1>4. a \in Row
  <2>1. r.revision + 1 \in Nat /\ "approved" \in Status
    BY <1>1 DEF Row, Status, Selected
  <2> QED  BY <1>1, <2>1 DEF ApproveRecord, Row
<1> HIDE DEF a
<1>5. /\ s.status = "completed" /\ s.failure_code = "none" /\ s.lease = "none"
      /\ s.package = r.package /\ s.package_digest = r.package /\ s.receipt = TRUE
  BY <1>3, <1>4 DEF AdvanceRecord, Row
<1>6. s \in Row
  <2>1. a.revision + 1 \in Nat /\ "completed" \in Status
    BY <1>4 DEF Row, Status, Terminal
  <2> QED  BY <1>4, <2>1 DEF AdvanceRecord, Row
<1> HIDE DEF s
<1>7. ShapeOK(s) /\ s.status # "approved" /\ s.status \in Status
  BY <1>2, <1>5 DEF ShapeOK, Terminal, Selected, Status
<1>8. RowOK(Written(s)) /\ Phase(Written(s)) = "completed"
  BY <1>5, <1>6, <1>7, WrittenIsOK, PhaseOf
<1>9. Written(s).old = FALSE /\ Written(s).package = r.package
  BY <1>5, <1>6, WrittenFields
<1>10. Lifecycle!Approve(Abs(r), Abs(Written(s)))
  <2>1. Phase(r) = "review"
    BY <1>1, PhaseOf
  <2> QED  BY <1>8, <1>9, <2>1 DEF Lifecycle!Approve, Lifecycle!In, Abs
<1>11. s = AdvanceRecord(ApproveRecord(r), "completed")
  BY DEF s, a
<1> QED  BY <1>8, <1>10, <1>11 DEF RowMove, Served

(* A row is created where there is none, or where one was due to go.       *)
LEMMA CreateMoves ==
    ASSUME NEW r, r = NoRow \/ r.old
    PROVE  RowMove(r, Written(CreateRecord))
<1>1. CreateRecord \in Row
  BY NoRowIsOK DEF CreateRecord, RowOK, Row, Status
<1>2. /\ CreateRecord.status = "queued" /\ CreateRecord.failure_code = "none"
      /\ CreateRecord.package = None /\ CreateRecord.package_digest = None
      /\ CreateRecord.receipt = FALSE /\ CreateRecord.lease = "none"
  BY DEF CreateRecord, NoRow
<1>3. ShapeOK(CreateRecord) /\ "queued" \in Status
  BY <1>2 DEF ShapeOK, Terminal, Selected, Status
<1>4. RowOK(Written(CreateRecord)) /\ Phase(Written(CreateRecord)) = "queued"
  BY <1>1, <1>2, <1>3, WrittenIsOK, PhaseOf
<1>5. Written(CreateRecord).old = FALSE /\ Written(CreateRecord).package = None
  BY <1>1, <1>2, WrittenFields
<1>6. Abs(r).phase = "absent" \/ Abs(r).old
  <2>1. CASE r = NoRow
    BY <2>1, AbsNoRow DEF Lifecycle!Absent
  <2>2. CASE r.old
    BY <2>2 DEF Abs
  <2> QED  BY <2>1, <2>2
<1>7. Lifecycle!Create(Abs(r), Abs(Written(CreateRecord)))
  <2>1. Abs(Written(CreateRecord)) = Lifecycle!In("queued", None)
    BY <1>4, <1>5 DEF Lifecycle!In, Abs
  <2> QED  BY <1>6, <2>1 DEF Lifecycle!Create
<1> QED  BY <1>4, <1>7 DEF RowMove, Served

-----------------------------------------------------------------------------
(* The table.                                                              *)

RowsOK ==
    /\ rows \in [Jobs -> Row]
    /\ \A j \in Jobs : RowOK(rows[j])

(* The tables that a method of the repository may leave.                   *)
TableMoves(table) ==
    /\ table \in [Jobs -> Row]
    /\ \A j \in Jobs : RowMove(rows[j], table[j])

LEMMA MaintainedIs ==
    ASSUME NEW j \in Jobs
    PROVE  Maintained[j] = Maintain(rows[j])
BY DEF Maintained, Maintain

LEMMA MaintainedMoves == RowsOK => TableMoves(Maintained)
<1> SUFFICES ASSUME RowsOK PROVE TableMoves(Maintained)
  OBVIOUS
<1>1. ASSUME NEW j \in Jobs PROVE RowMove(rows[j], Maintained[j])
  BY MaintainMoves, MaintainedIs DEF RowsOK
<1>2. ASSUME NEW j \in Jobs PROVE Maintained[j] \in Row
  BY <1>1 DEF RowMove, RowOK
<1>3. Maintained \in [Jobs -> Row]
  <2>1. Maintained = [j \in Jobs |-> Maintained[j]]
    BY DEF Maintained
  <2> QED  BY <1>2, <2>1
<1> QED  BY <1>1, <1>3 DEF TableMoves

(* A row that maintenance leaves open is as it was.                        *)
LEMMA OpenUntouched ==
    ASSUME RowsOK, NEW j \in Jobs, Maintained[j].status \notin Terminal \cup {"absent"}
    PROVE  Maintained[j] = rows[j] /\ RowOK(rows[j])
BY MaintainMoves, MaintainedIs DEF RowsOK

LEMMA OneWrite ==
    ASSUME RowsOK, NEW table, TableMoves(table), NEW j \in Jobs, NEW w,
           RowMove(rows[j], Written(w))
    PROVE  /\ TableMoves(Put(table, j, w))
           /\ Put(table, j, w)[j] = Written(w)
<1>1. Put(table, j, w) = [table EXCEPT ![j] = Written(w)]
  BY DEF Put, Written
<1>2. Written(w) \in Row
  BY DEF RowMove, RowOK
<1> QED  BY <1>1, <1>2 DEF TableMoves

(* The writes under a lease that is held.                                  *)
LEMMA LeaseMoves ==
    ASSUME RowsOK, NEW j \in Jobs, Maintained[j].lease = "live"
    PROVE  /\ TableMoves(Heartbeat(j)) /\ TableMoves(SwapCharge(j))
           /\ \A code \in FailureCode : TableMoves(SwapFail(j, code))
           /\ \A next \in NextStatus(j, Maintained[j].status) :
                 next \notin {"inspecting", "awaiting_approval", "repairing"}
                 => TableMoves(SwapAdvance(j, next))
           /\ \A l \in Launches : TableMoves(SwapSelect(j, l))
<1> DEFINE r == Maintained[j]
<1>1. r.status \in Working
  BY MaintainedMoves DEF TableMoves, RowMove, RowOK
<1>2. r = rows[j] /\ RowOK(r)
  BY <1>1, OpenUntouched DEF Working, Terminal
<1>3. TableMoves(Maintained)
  BY MaintainedMoves
<1>4. TableMoves(Heartbeat(j)) /\ TableMoves(SwapCharge(j))
  BY <1>2, <1>3, RenewMoves, OneWrite DEF Heartbeat, SwapCharge
<1>5. ASSUME NEW code \in FailureCode PROVE TableMoves(SwapFail(j, code))
  <2>1. MayFail(r)
    BY <1>1 DEF MayFail, Working, Terminal
  <2> QED  BY <1>2, <1>3, <2>1, StopWritten, OneWrite DEF SwapFail
<1>6. ASSUME NEW next \in NextStatus(j, r.status),
             next \notin {"inspecting", "awaiting_approval", "repairing"}
      PROVE  TableMoves(SwapAdvance(j, next))
  BY <1>2, <1>3, <1>6, AdvanceMoves, OneWrite DEF SwapAdvance
<1>7. ASSUME NEW l \in Launches PROVE TableMoves(SwapSelect(j, l))
  <2>1. SwapSelect(j, l) = Put(Maintained, j, PublishedRow(r, l))
    BY DEF SwapSelect, PublishedRow
  <2> QED  BY <1>2, <1>3, <2>1, SelectMoves, OneWrite
<1> QED  BY <1>4, <1>5, <1>6, <1>7

LEMMA ClaimTable ==
    ASSUME RowsOK, NEW j \in Jobs, MayClaim(j)
    PROVE  TableMoves(Claim(j))
<1>1. Maintained[j] = rows[j] /\ RowOK(rows[j]) /\ rows[j].status = "queued"
  BY OpenUntouched DEF MayClaim, Terminal
<1>2. Claim(j) = Put(Maintained, j, ClaimedRow(Maintained[j]))
  BY DEF Claim, ClaimedRow
<1> QED  BY <1>1, <1>2, ClaimMoves, MaintainedMoves, OneWrite

(* The purge at the start of a request.                                    *)
LEMMA PurgedIs ==
    ASSUME RowsOK, NEW S, NEW j \in Jobs
    PROVE  /\ RowMove(rows[j], RowsPurged(S)[j])
           /\ j \notin S => RowsPurged(S)[j] = Maintained[j]
           /\ RowsPurged(S)[j].status \notin Terminal => RowsPurged(S)[j] = Maintained[j]
<1> DEFINE r == Maintained[j]
<1>1. RowMove(rows[j], r)
  BY MaintainedMoves DEF TableMoves
<1>2. RowsPurged(S)[j] = IF j \in S THEN RecoverInterrupted(Maintained, j)[j] ELSE r
  BY DEF RowsPurged
<1>3. CASE j \in S /\ r.status = "awaiting_approval" /\ r.lease # "live"
  <2>1. r = rows[j] /\ RowOK(r) /\ MayFail(r)
    BY <1>3, OpenUntouched DEF Terminal, MayFail
  <2>2. RowMove(rows[j], Written(Stop(r, "interrupted")))
    BY <2>1, StopWritten DEF FailureCode
  <2>3. RowsPurged(S)[j] = Written(Stop(r, "interrupted"))
    BY <1>2, <1>3, <2>2, MaintainedMoves, OneWrite DEF RecoverInterrupted
  <2>4. Written(Stop(r, "interrupted")).status \in Terminal
    <3> DEFINE s == Stop(r, "interrupted")
    <3>1. s \in Row /\ s.status \in Terminal
      BY <2>1, StopMoves DEF FailureCode, RowMove, RowOK
    <3> HIDE DEF s
    <3>2. Written(s).status \in Terminal
      BY <3>1, WrittenFields
    <3> QED  BY <3>2 DEF s
  <2> QED  BY <1>3, <2>2, <2>3, <2>4
<1>4. CASE ~(j \in S /\ r.status = "awaiting_approval" /\ r.lease # "live")
  BY <1>1, <1>2, <1>4 DEF RecoverInterrupted
<1> QED  BY <1>3, <1>4

LEMMA PurgedMoves ==
    ASSUME RowsOK, NEW S
    PROVE  TableMoves(RowsPurged(S))
<1>1. \A j \in Jobs : RowMove(rows[j], RowsPurged(S)[j])
  BY PurgedIs
<1>2. RowsPurged(S) = [j \in Jobs |-> RowsPurged(S)[j]]
  BY DEF RowsPurged
<1>3. RowsPurged(S) \in [Jobs -> Row]
  BY <1>1, <1>2 DEF RowMove, RowOK
<1> QED  BY <1>1, <1>3 DEF TableMoves

(* The writes after a purge; cancel also stands alone.                     *)
LEMMA CancelTable ==
    ASSUME RowsOK, NEW table, TableMoves(table), NEW j \in Jobs, table[j] = Maintained[j],
           MayFail(table[j]), NEW code \in FailureCode
    PROVE  TableMoves(Cancel(table, j, code))
<1>1. table[j] = rows[j] /\ RowOK(rows[j])
  BY OpenUntouched DEF MayFail
<1> QED  BY <1>1, StopWritten, OneWrite DEF Cancel

LEMMA ApproveTable ==
    ASSUME RowsOK, NEW j \in Jobs, Table[j].status = "awaiting_approval"
    PROVE  TableMoves(Approve(Table, j))
<1>1. Table[j] = rows[j] /\ RowOK(rows[j])
  BY PurgedIs, OpenUntouched DEF Table, Terminal
<1>2. TableMoves(Table)
  BY PurgedMoves DEF Table
<1> QED  BY <1>1, <1>2, ApproveMoves, OneWrite DEF Approve

LEMMA CreateTable ==
    ASSUME RowsOK, NEW j \in Jobs
    PROVE  TableMoves(Create(Table, j))
<1>1. TableMoves(Table)
  BY PurgedMoves DEF Table
<1>2. CASE j \in Stored(Table)
  BY <1>1, <1>2 DEF Create
<1>3. CASE j \notin Stored(Table)
  <2>a. Table[j].status = "absent"
    BY <1>3 DEF Stored
  <2>1. Maintained[j].status = "absent"
    BY <2>a, PurgedIs DEF Table, Terminal
  <2>2. rows[j] = NoRow \/ rows[j].old
    BY <2>1, MaintainMoves, MaintainedIs DEF RowsOK
  <2> QED  BY <1>1, <1>3, <2>2, CreateMoves, OneWrite DEF Create
<1> QED  BY <1>2, <1>3

-----------------------------------------------------------------------------
(* The processes and the memory of the server.                             *)

(* A process that may still act has a job, and fails with a failure code.  *)
ChildInv ==
    /\ child \in [Launches -> Child]
    /\ \A l \in Launches :
          /\ Alive(l) => child[l].job \in Jobs
          /\ child[l].pc \in {"failing", "charged"} => child[l].code \in FailureCode
    /\ overdue \subseteq Launches

(* So does a supervisor between its submission and its callback.           *)
RunnerInv ==
    /\ runner \in [Launches -> Runner]
    /\ \A l \in Launches : runner[l].pc \notin {"unused", "over"} => runner[l].job \in Jobs

MemoryInv ==
    /\ private \in [Jobs -> Private]
    /\ starting \in [Callers -> Jobs \cup {None}]
    /\ crashes \in 0..MaxCrashes

TInv == RowsOK /\ ChildInv /\ RunnerInv /\ MemoryInv

LEMMA ChildFields ==
    ASSUME NEW f \in [Launches -> Child], NEW l \in Launches
    PROVE  /\ \A v \in {"claiming", "claimed", "working", "writing", "failing", "charged",
                       "answered"} : [f EXCEPT ![l].pc = v] \in [Launches -> Child]
           /\ \A v \in Jobs : [f EXCEPT ![l].job = v] \in [Launches -> Child]
           /\ \A v \in Nat : /\ [f EXCEPT ![l].fence = v] \in [Launches -> Child]
                            /\ [f EXCEPT ![l].revision = v] \in [Launches -> Child]
                            /\ [f EXCEPT ![l].charges = v] \in [Launches -> Child]
           /\ \A v \in FailureCode \cup {"none"} :
                 [f EXCEPT ![l].code = v] \in [Launches -> Child]
           /\ \A v \in [status : Status \cup {"absent"}, revision : Nat] :
                 [f EXCEPT ![l].answer = v] \in [Launches -> Child]
BY DEF Child

(* Process l has gone from f to g, and now has this pc and this code.      *)
ChildSet(f, g, l, pc, code) ==
    /\ g[l].job = f[l].job /\ g[l].pc = pc /\ g[l].code = code
    /\ \A k \in Launches \ {l} : g[k] = f[k]

LEMMA ChildKeeps ==
    ASSUME NEW f \in [Launches -> Child], NEW l \in Launches
    PROVE  \A v : /\ ChildSet(f, [f EXCEPT ![l].pc = v], l, v, f[l].code)
                 /\ ChildSet(f, [f EXCEPT ![l].fence = v], l, f[l].pc, f[l].code)
                 /\ ChildSet(f, [f EXCEPT ![l].revision = v], l, f[l].pc, f[l].code)
                 /\ ChildSet(f, [f EXCEPT ![l].charges = v], l, f[l].pc, f[l].code)
                 /\ ChildSet(f, [f EXCEPT ![l].code = v], l, f[l].pc, v)
                 /\ ChildSet(f, [f EXCEPT ![l].answer = v], l, f[l].pc, f[l].code)
BY DEF Child, ChildSet

LEMMA ChildEnds ==
    ASSUME ChildInv, NEW l \in Launches, NEW pc \in {"crashed", "dead"}, Ended(l, pc),
           overdue' \subseteq Launches
    PROVE  ChildInv'
<1> DEFINE q == [NoChild EXCEPT !.pc = pc, !.job = child[l].job, !.fence = child[l].fence]
<1>1. child[l] \in Child
  BY DEF ChildInv
<1>2. q \in Child /\ q.pc = pc
  BY <1>1 DEF Child, NoChild, NoAnswer
<1>3. child' = [child EXCEPT ![l] = q]
  BY DEF Ended
<1> HIDE DEF q
<1>4. child' \in [Launches -> Child]
  BY <1>2, <1>3 DEF ChildInv
<1>5. ASSUME NEW k \in Launches
      PROVE  /\ Alive(k)' => child'[k].job \in Jobs
             /\ child'[k].pc \in {"failing", "charged"} => child'[k].code \in FailureCode
  BY <1>2, <1>3 DEF ChildInv, Alive
<1> QED  BY <1>4, <1>5 DEF ChildInv

LEMMA ChildAnswers ==
    ASSUME ChildInv, RowsOK, NEW l \in Launches, child[l].job \in Jobs, AnswerCurrent(l),
           overdue' = overdue
    PROVE  ChildInv'
<1> DEFINE r == Maintained[child[l].job]
<1>1. CASE r.status = "absent"
  BY <1>1, ChildEnds DEF AnswerCurrent, ChildInv
<1>2. CASE r.status # "absent"
  <2>1. r \in Row
    BY MaintainedMoves DEF TableMoves
  <2>2. Answer(r) \in [status : Status \cup {"absent"}, revision : Nat]
    BY <2>1 DEF Answer, Row
  <2>3. child' = [child EXCEPT ![l].pc = "answered", ![l].answer = Answer(r),
                               ![l].code = "none"]
    BY <1>2 DEF AnswerCurrent
  <2> HIDE DEF r
  <2>4. child' \in [Launches -> Child]
    <3> DEFINE f1 == [child EXCEPT ![l].pc = "answered"]
               f2 == [f1 EXCEPT ![l].answer = Answer(r)]
               f3 == [f2 EXCEPT ![l].code = "none"]
    <3>1. child' = f3
      BY <2>3
    <3>2. f1 \in [Launches -> Child]
      BY ChildFields DEF ChildInv
    <3> HIDE DEF f1
    <3>3. f2 \in [Launches -> Child]
      BY <2>2, <3>2, ChildFields
    <3> HIDE DEF f2
    <3>4. f3 \in [Launches -> Child]
      BY <3>3, ChildFields
    <3> QED  BY <3>1, <3>4
  <2>5. child'[l].job = child[l].job /\ child'[l].pc = "answered"
    BY <2>3 DEF ChildInv, Child
  <2>6. \A k \in Launches \ {l} : child'[k] = child[k]
    BY <2>3 DEF ChildInv
  <2> QED  BY <2>4, <2>5, <2>6 DEF ChildInv, Alive
<1> QED  BY <1>1, <1>2

LEMMA ChildWrites ==
    ASSUME ChildInv, RowsOK, NEW l \in Launches, child[l].job \in Jobs, NEW table,
           TableMoves(table), NEW pc \in {"working", "answered", "charged"},
           pc = "charged" => child[l].code \in FailureCode,
           WriteUnderLease(l, table, pc), overdue' = overdue
    PROVE  TableMoves(rows') /\ ChildInv'
<1> DEFINE v == table[child[l].job].revision
           a == IF pc = "answered" THEN Answer(table[child[l].job]) ELSE NoAnswer
           f1 == [child EXCEPT ![l].pc = pc]
           f2 == [f1 EXCEPT ![l].revision = v]
           f3 == [f2 EXCEPT ![l].answer = a]
<1>1. rows' = table /\ child' = f3
  BY DEF WriteUnderLease
<1>2. v \in Nat /\ a \in [status : Status \cup {"absent"}, revision : Nat]
  <2>1. table[child[l].job] \in Row
    BY DEF TableMoves
  <2> QED  BY <2>1 DEF Row, Answer, NoAnswer
<1> HIDE DEF v, a
<1>3. f1 \in [Launches -> Child] /\ ChildSet(child, f1, l, pc, child[l].code)
  BY ChildFields, ChildKeeps DEF ChildInv
<1> HIDE DEF f1
<1>4. f2 \in [Launches -> Child] /\ ChildSet(f1, f2, l, f1[l].pc, f1[l].code)
  BY <1>2, <1>3, ChildFields, ChildKeeps
<1> HIDE DEF f2
<1>5. f3 \in [Launches -> Child] /\ ChildSet(f2, f3, l, f2[l].pc, f2[l].code)
  BY <1>2, <1>4, ChildFields, ChildKeeps
<1> HIDE DEF f3
<1> QED  BY <1>1, <1>3, <1>4, <1>5 DEF ChildInv, Alive, ChildSet

LEMMA ChildFails ==
    ASSUME ChildInv, NEW l \in Launches, child[l].job \in Jobs, NEW code \in FailureCode,
           FailWith(l, code), overdue' = overdue
    PROVE  ChildInv'
<1> DEFINE f1 == [child EXCEPT ![l].pc = "failing"]
           f2 == [f1 EXCEPT ![l].code = code]
<1>1. child' = f2
  BY DEF FailWith
<1>2. f1 \in [Launches -> Child] /\ ChildSet(child, f1, l, "failing", child[l].code)
  BY ChildFields, ChildKeeps DEF ChildInv
<1> HIDE DEF f1
<1>3. f2 \in [Launches -> Child] /\ ChildSet(f1, f2, l, f1[l].pc, code)
  BY <1>2, ChildFields, ChildKeeps
<1> HIDE DEF f2
<1> QED  BY <1>1, <1>2, <1>3 DEF ChildInv, Alive, ChildSet

LEMMA ChildRefused ==
    ASSUME ChildInv, RowsOK, NEW l \in Launches, child[l].job \in Jobs,
           WriteRefused(l), overdue' = overdue
    PROVE  TableMoves(rows') /\ ChildInv'
<1>1. TableMoves(rows')
  BY MaintainedMoves DEF WriteRefused
<1>2. AnswerCurrent(l) \/ FailWith(l, "invalid_candidate")
  BY DEF WriteRefused
<1> QED  BY <1>1, <1>2, ChildAnswers, ChildFails DEF FailureCode

LEMMA NothingMoves == RowsOK => TableMoves(rows)
BY DEF RowsOK, TableMoves, RowMove, Served

(* Each step of a worker leaves a table of lawful moves.                   *)
LEMMA ChildStepMoves ==
    ASSUME RowsOK, ChildInv, NEW l \in Launches, ChildStep(l)
    PROVE  TableMoves(rows') /\ ChildInv'
<1> DEFINE j == child[l].job
<1>1. child[l] \in Child /\ (Alive(l) => j \in Jobs)
  BY DEF ChildInv
<1>2. TableMoves(Maintained) /\ TableMoves(rows)
  BY MaintainedMoves, NothingMoves
<1>3. HoldsLease(l) => Maintained[j].lease = "live"
  BY DEF HoldsLease, LeaseHeld
<1>4. ASSUME Alive(l), HoldsLease(l)
      PROVE  /\ TableMoves(Heartbeat(j)) /\ TableMoves(SwapCharge(j))
             /\ \A code \in FailureCode : TableMoves(SwapFail(j, code))
             /\ \A next \in NextStatus(j, Maintained[j].status) :
                   next \notin {"inspecting", "awaiting_approval", "repairing"}
                   => TableMoves(SwapAdvance(j, next))
             /\ TableMoves(SwapSelect(j, l))
  BY <1>1, <1>3, <1>4, LeaseMoves
<1>5. "budget_exhausted" \in FailureCode /\ "judge_failed" \in FailureCode
  BY DEF FailureCode, Terminal
<1>6. CASE ClaimJob(l)
  <2>1. Alive(l) /\ overdue' = overdue
    BY <1>6 DEF ClaimJob, Alive
  <2>2. CASE ~MayClaim(j)
    <3>1. rows' = Maintained /\ Ended(l, "crashed")
      BY <1>6, <2>2 DEF ClaimJob
    <3> QED  BY <1>2, <2>1, <3>1, ChildEnds DEF ChildInv
  <2>3. CASE MayClaim(j)
    <3> DEFINE v == Claim(j)[j].revision
               f == Claim(j)[j].fence
               d == IF l \in overdue THEN "budget_exhausted" ELSE "none"
               p == IF l \in overdue THEN "failing" ELSE "claimed"
               f1 == [child EXCEPT ![l].fence = f]
               f2 == [f1 EXCEPT ![l].revision = v]
               f3 == [f2 EXCEPT ![l].code = d]
               f4 == [f3 EXCEPT ![l].pc = p]
    <3>1. rows' = Claim(j) /\ child' = f4
      BY <1>6, <2>3 DEF ClaimJob
    <3>2. TableMoves(Claim(j))
      BY <1>1, <2>1, <2>3, ClaimTable
    <3>3. v \in Nat /\ f \in Nat
      BY <1>1, <2>1, <3>2 DEF TableMoves, Row
    <3>4. d \in FailureCode \cup {"none"} /\ p \in {"failing", "claimed"}
          /\ (p = "failing" => d \in FailureCode)
      BY <1>5
    <3> HIDE DEF v, f, d, p
    <3>5. f1 \in [Launches -> Child] /\ ChildSet(child, f1, l, child[l].pc, child[l].code)
      BY <3>3, ChildFields, ChildKeeps DEF ChildInv
    <3> HIDE DEF f1
    <3>6. f2 \in [Launches -> Child] /\ ChildSet(f1, f2, l, f1[l].pc, f1[l].code)
      BY <3>3, <3>5, ChildFields, ChildKeeps
    <3> HIDE DEF f2
    <3>7. f3 \in [Launches -> Child] /\ ChildSet(f2, f3, l, f2[l].pc, d)
      BY <3>4, <3>6, ChildFields, ChildKeeps
    <3> HIDE DEF f3
    <3>8. f4 \in [Launches -> Child] /\ ChildSet(f3, f4, l, p, f3[l].code)
      BY <3>4, <3>7, ChildFields, ChildKeeps
    <3> HIDE DEF f4
    <3>9. ChildInv'
      BY <1>1, <2>1, <3>1, <3>4, <3>5, <3>6, <3>7, <3>8 DEF ChildInv, Alive, ChildSet
    <3> QED  BY <3>1, <3>2, <3>9
  <2> QED  BY <2>2, <2>3
<1>7. CASE ChargeInitial(l)
  <2>1. Alive(l) /\ overdue' = overdue
    BY <1>7 DEF ChargeInitial, Alive
  <2>2. CASE HoldsLease(l) /\ WriteUnderLease(l, SwapCharge(j), "working")
    BY <1>1, <1>4, <2>1, <2>2, ChildWrites
  <2>3. CASE HoldsLease(l) /\ WriteUnderLease(l, SwapFail(j, "budget_exhausted"), "answered")
    BY <1>1, <1>4, <1>5, <2>1, <2>3, ChildWrites
  <2>4. CASE rows' \in {rows, Maintained} /\ Ended(l, "crashed")
    BY <1>2, <2>1, <2>4, ChildEnds DEF ChildInv
  <2> QED  BY <1>7, <2>2, <2>3, <2>4 DEF ChargeInitial
<1>8. CASE Checkpoint(l)
  <2>1. Alive(l) /\ overdue' = overdue
    BY <1>8 DEF Checkpoint, Alive
  <2>2. CASE rows' = rows /\ FailWith(l, "budget_exhausted")
    BY <1>1, <1>2, <1>5, <2>1, <2>2, ChildFails
  <2>3. CASE HoldsLease(l) /\ rows' = Heartbeat(j) /\ MoveTo(l, "writing")
    <3>1. child' = [child EXCEPT ![l].pc = "writing"]
      BY <2>3 DEF MoveTo
    <3>2. child' \in [Launches -> Child] /\ ChildSet(child, child', l, "writing", child[l].code)
      BY <3>1, ChildFields, ChildKeeps DEF ChildInv
    <3>3. ChildInv'
      BY <1>1, <2>1, <3>2 DEF ChildInv, Alive, ChildSet
    <3> QED  BY <1>4, <2>1, <2>3, <3>3
  <2>4. CASE rows' = Maintained /\ AnswerCurrent(l)
    BY <1>1, <1>2, <2>1, <2>4, ChildAnswers
  <2> QED  BY <1>8, <2>2, <2>3, <2>4 DEF Checkpoint
<1>9. CASE Reserve(l)
  <2>1. Alive(l) /\ overdue' = overdue
    BY <1>9 DEF Reserve, Alive
  <2>2. CASE ~HoldsLease(l)
    BY <1>1, <1>9, <2>1, <2>2, ChildRefused DEF Reserve
  <2>3. CASE HoldsLease(l)
    <3> DEFINE v == rows'[j].revision
               f1 == [child EXCEPT ![l].pc = "working"]
               f2 == [f1 EXCEPT ![l].charges = child[l].charges + 1]
               f3 == [f2 EXCEPT ![l].revision = v]
    <3>1. rows' \in {SwapCharge(j), SwapFail(j, "budget_exhausted")}
      BY <1>9, <2>3 DEF Reserve
    <3>2. TableMoves(rows')
      BY <1>4, <1>5, <2>1, <2>3, <3>1
    <3>3. v \in Nat /\ child[l].charges + 1 \in Nat
      BY <1>1, <2>1, <3>2 DEF TableMoves, Row, Child
    <3>4. child' = f3
      BY <1>9, <2>3 DEF Reserve, ChildInv, Child
    <3> HIDE DEF v
    <3>5. f1 \in [Launches -> Child] /\ ChildSet(child, f1, l, "working", child[l].code)
      BY ChildFields, ChildKeeps DEF ChildInv
    <3> HIDE DEF f1
    <3>6. f2 \in [Launches -> Child] /\ ChildSet(f1, f2, l, f1[l].pc, f1[l].code)
      BY <3>3, <3>5, ChildFields, ChildKeeps
    <3> HIDE DEF f2
    <3>7. f3 \in [Launches -> Child] /\ ChildSet(f2, f3, l, f2[l].pc, f2[l].code)
      BY <3>3, <3>6, ChildFields, ChildKeeps
    <3> HIDE DEF f3
    <3>8. ChildInv'
      BY <1>1, <2>1, <3>4, <3>5, <3>6, <3>7 DEF ChildInv, Alive, ChildSet
    <3> QED  BY <3>2, <3>8
  <2> QED  BY <2>2, <2>3
<1>10. CASE AdvancePhase(l)
  <2>1. Alive(l) /\ overdue' = overdue
    BY <1>10 DEF AdvancePhase, Alive
  <2>2. PICK next \in NextStatus(j, Maintained[j].status) \cup {"budget_exhausted"} :
          /\ next \notin {"inspecting", "awaiting_approval", "repairing"}
          /\ IF HoldsLease(l)
             THEN WriteUnderLease(l, IF next = "budget_exhausted"
                                     THEN SwapFail(j, next) ELSE SwapAdvance(j, next),
                                  "working")
             ELSE WriteRefused(l)
    BY <1>10 DEF AdvancePhase
  <2>3. CASE HoldsLease(l) /\ next = "budget_exhausted"
    BY <1>1, <1>4, <1>5, <2>1, <2>2, <2>3, ChildWrites
  <2>4. CASE HoldsLease(l) /\ next # "budget_exhausted"
    BY <1>1, <1>4, <2>1, <2>2, <2>4, ChildWrites
  <2>5. CASE ~HoldsLease(l)
    BY <1>1, <2>1, <2>2, <2>5, ChildRefused
  <2> QED  BY <2>3, <2>4, <2>5
<1>11. CASE Publish(l)
  <2>1. Alive(l) /\ overdue' = overdue
    BY <1>11 DEF Publish, Alive
  <2>2. CASE HoldsLease(l) /\ WriteUnderLease(l, SwapSelect(j, l), "answered")
    BY <1>1, <1>4, <2>1, <2>2, ChildWrites
  <2>3. ASSUME HoldsLease(l), NEW code \in {"judge_failed", "budget_exhausted"},
               WriteUnderLease(l, SwapFail(j, code), "answered")
        PROVE  TableMoves(rows') /\ ChildInv'
    BY <1>1, <1>4, <1>5, <2>1, <2>3, ChildWrites
  <2>4. CASE WriteRefused(l)
    BY <1>1, <2>1, <2>4, ChildRefused
  <2> QED  BY <1>11, <2>2, <2>3, <2>4 DEF Publish
<1>12. CASE GiveUp(l)
  <2>1. Alive(l) /\ rows' = rows /\ overdue' = overdue
    BY <1>12 DEF GiveUp, Alive
  <2>2. PICK code \in WorkerCodes : FailWith(l, code)
    BY <1>12 DEF GiveUp
  <2> QED  BY <1>1, <1>2, <2>1, <2>2, ChildFails, WorkerAssumption
<1>13. CASE ChargeFailure(l)
  <2>1. Alive(l) /\ overdue' = overdue /\ HoldsLease(l) /\ child[l].code \in FailureCode
    BY <1>13 DEF ChargeFailure, Alive, ChildInv
  <2>2. CASE WriteUnderLease(l, SwapCharge(j), "charged")
    BY <1>1, <1>4, <2>1, <2>2, ChildWrites
  <2>3. CASE WriteUnderLease(l, SwapFail(j, "budget_exhausted"), "answered")
    BY <1>1, <1>4, <1>5, <2>1, <2>3, ChildWrites
  <2> QED  BY <1>13, <2>2, <2>3 DEF ChargeFailure
<1>14. CASE Fail(l)
  <2>1. Alive(l) /\ overdue' = overdue /\ child[l].code \in FailureCode
    BY <1>14 DEF Fail, Alive, ChildInv
  <2>2. CASE HoldsLease(l)
    BY <1>1, <1>4, <1>14, <2>1, <2>2, ChildWrites DEF Fail
  <2>3. CASE ~HoldsLease(l)
    BY <1>1, <1>2, <1>14, <2>1, <2>3, ChildAnswers DEF Fail
  <2> QED  BY <2>2, <2>3
<1>15. CASE Crash(l)
  BY <1>2, <1>15, ChildEnds DEF Crash, ChildInv
<1> QED  BY <1>6, <1>7, <1>8, <1>9, <1>10, <1>11, <1>12, <1>13, <1>14, <1>15 DEF ChildStep

(* The same for the supervisors.                                           *)
RunnerSet(f, g, l, pc) ==
    /\ g[l].job = f[l].job /\ g[l].pc = pc
    /\ \A k \in Launches \ {l} : g[k] = f[k]

LEMMA RunnerFields ==
    ASSUME NEW f \in [Launches -> Runner], NEW l \in Launches
    PROVE  /\ \A v \in Running \cup {"done"} : [f EXCEPT ![l].pc = v] \in [Launches -> Runner]
           /\ [f EXCEPT ![l].held = TRUE] \in [Launches -> Runner]
           /\ \A v \in [status : Status \cup {"absent"}, revision : Nat] :
                 [f EXCEPT ![l].result = v] \in [Launches -> Runner]
<1>1. ASSUME NEW v \in Running \cup {"done"} PROVE [f EXCEPT ![l].pc = v] \in [Launches -> Runner]
  <2>1. v \in {"unused", "pending", "exchange", "received", "fetched", "delivered",
               "stopping", "closing", "done", "over"}
    BY DEF Running
  <2>2. [f[l] EXCEPT !.pc = v] \in Runner
    BY <2>1 DEF Runner
  <2> QED  BY <2>2
<1>2. [f EXCEPT ![l].held = TRUE] \in [Launches -> Runner]
  <2>1. [f[l] EXCEPT !.held = TRUE] \in Runner
    BY DEF Runner
  <2> QED  BY <2>1
<1>3. ASSUME NEW v \in [status : Status \cup {"absent"}, revision : Nat]
      PROVE  [f EXCEPT ![l].result = v] \in [Launches -> Runner]
  <2>1. [f[l] EXCEPT !.result = v] \in Runner
    BY DEF Runner
  <2> QED  BY <2>1
<1> QED  BY <1>1, <1>2, <1>3

LEMMA RunnerKeeps ==
    ASSUME NEW f \in [Launches -> Runner], NEW l \in Launches
    PROVE  /\ \A v : /\ RunnerSet(f, [f EXCEPT ![l].pc = v], l, v)
                     /\ RunnerSet(f, [f EXCEPT ![l].result = v], l, f[l].pc)
           /\ RunnerSet(f, [f EXCEPT ![l].held = TRUE], l, f[l].pc)
BY DEF Runner, RunnerSet

LEMMA RunnerGoes ==
    ASSUME RunnerInv, NEW l \in Launches, runner[l].job \in Jobs,
           NEW pc \in Running \cup {"done"}, RunTo(l, pc)
    PROVE  RunnerInv'
<1>1. runner' = [runner EXCEPT ![l].pc = pc]
  BY DEF RunTo
<1>2. runner' \in [Launches -> Runner] /\ RunnerSet(runner, runner', l, pc)
  BY <1>1, RunnerFields, RunnerKeeps DEF RunnerInv
<1> QED  BY <1>2 DEF RunnerInv, RunnerSet

LEMMA RunnerConcludes ==
    ASSUME RunnerInv, NEW l \in Launches, runner[l].job \in Jobs,
           NEW pc \in Running \cup {"done"},
           NEW v \in [status : Status \cup {"absent"}, revision : Nat],
           runner' = [runner EXCEPT ![l].result = v, ![l].pc = pc]
    PROVE  RunnerInv'
<1> DEFINE f1 == [runner EXCEPT ![l].result = v]
           f2 == [f1 EXCEPT ![l].pc = pc]
<1>1. runner' = f2
  OBVIOUS
<1>2. f1 \in [Launches -> Runner] /\ RunnerSet(runner, f1, l, runner[l].pc)
  BY RunnerFields, RunnerKeeps DEF RunnerInv
<1> HIDE DEF f1
<1>3. f2 \in [Launches -> Runner] /\ RunnerSet(f1, f2, l, pc)
  BY <1>2, RunnerFields, RunnerKeeps
<1> HIDE DEF f2
<1> QED  BY <1>1, <1>2, <1>3 DEF RunnerInv, RunnerSet

LEMMA RunnerReplaced ==
    ASSUME RunnerInv, NEW l \in Launches, NEW q \in Runner,
           q.pc \notin {"unused", "over"} => q.job \in Jobs,
           runner' = [runner EXCEPT ![l] = q]
    PROVE  RunnerInv'
BY DEF RunnerInv

LEMMA NoRunnerType == NoRunner \in Runner /\ Over \in Runner /\ Over.pc = "over"
BY DEF NoRunner, Over, Runner, NoAnswer

LEMMA LeastUnused == Unused # {} => Min(Unused) \in Unused
<1> SUFFICES ASSUME Unused # {} PROVE Min(Unused) \in Unused
  OBVIOUS
<1>1. Unused \subseteq Nat
  BY OptimizationAssumption DEF Unused
<1>2. \E x \in Unused : \A y \in Unused : ~ (<<y, x>> \in OpToRel(<, Nat))
  BY <1>1, NatLessThanWellFounded, WFMin
<1>3. \E x \in Unused : \A y \in Unused : x =< y
  <2>1. PICK x \in Unused : \A y \in Unused : ~ (<<y, x>> \in OpToRel(<, Nat))
    BY <1>2
  <2>2. ASSUME NEW y \in Unused PROVE x =< y
    <3>1. x \in Nat /\ y \in Nat
      BY <1>1
    <3>2. <<y, x>> \in Nat \X Nat /\ <<y, x>>[1] = y /\ <<y, x>>[2] = x
      BY <3>1
    <3>3. ~ (y < x)
      BY <2>1, <3>2, Zenon DEF OpToRel
    <3> QED  BY <3>1, <3>3
  <2> QED  BY <2>2
<1> QED  BY <1>3, Zenon DEF Min

LEMMA MovesKeepRows == ASSUME TableMoves(rows') PROVE RowsOK'
BY DEF TableMoves, RowMove, RowsOK

LEMMA AnswerType ==
    ASSUME NEW table \in [Jobs -> Row], NEW j \in Jobs
    PROVE  Answer(table[j]) \in [status : Status \cup {"absent"}, revision : Nat]
BY DEF Answer, Row

LEMMA NoPrivateType == NoPrivate \in Private
BY DEF NoPrivate, Private

LEMMA PurgedType ==
    ASSUME private \in [Jobs -> Private], NEW S
    PROVE  PrivatePurged(S) \in [Jobs -> Private]
BY NoPrivateType DEF PrivatePurged

(* Each step of a supervisor.                                              *)
LEMMA RunnerStepMoves ==
    ASSUME TInv, NEW l \in Launches, RunnerStep(l)
    PROVE  TableMoves(rows') /\ TInv'
<1> DEFINE j == runner[l].job
<1>1. /\ RowsOK /\ ChildInv /\ RunnerInv /\ MemoryInv
      /\ TableMoves(Maintained) /\ TableMoves(rows)
  BY MaintainedMoves, NothingMoves DEF TInv
<1>2. runner[l].pc \notin {"unused", "over"} => j \in Jobs
  BY <1>1 DEF RunnerInv
<1>3. SUFFICES TableMoves(rows') /\ ChildInv' /\ RunnerInv' /\ MemoryInv'
  BY MovesKeepRows DEF TInv
<1>4. child' = child /\ overdue' = overdue => ChildInv'
  BY <1>1 DEF ChildInv, Alive
<1>5. private' = private /\ starting' = starting /\ crashes' = crashes => MemoryInv'
  BY <1>1 DEF MemoryInv
<1>6. Maintained \in [Jobs -> Row]
  BY <1>1 DEF TableMoves
<1>7. CASE Begin(l)
  <2>1. /\ rows' = rows /\ overdue' = overdue /\ j \in Jobs
        /\ private' = private /\ starting' = starting /\ crashes' = crashes
    BY <1>2, <1>7 DEF Begin
  <2>2. RunnerInv'
    BY <1>1, <1>7, <2>1, RunnerGoes DEF Begin, Running
  <2>3. CASE child' = child
    BY <1>1, <1>4, <1>5, <2>1, <2>2, <2>3
  <2>4. CASE child' = [child EXCEPT ![l].pc = "claiming", ![l].job = runner[l].job]
    <3> DEFINE f1 == [child EXCEPT ![l].pc = "claiming"]
    <3>1. f1 \in [Launches -> Child] /\ ChildSet(child, f1, l, "claiming", child[l].code)
      BY <1>1, ChildFields, ChildKeeps DEF ChildInv
    <3>2. child' = [f1 EXCEPT ![l].job = j]
      BY <2>4
    <3> HIDE DEF f1
    <3>3. child' \in [Launches -> Child]
      BY <2>1, <3>1, <3>2, ChildFields
    <3>4. child'[l].job = j /\ child'[l].pc = f1[l].pc
          /\ \A k \in Launches \ {l} : child'[k] = f1[k]
      BY <3>1, <3>2 DEF Child
    <3>5. ChildInv'
      BY <1>1, <2>1, <3>1, <3>3, <3>4 DEF ChildInv, ChildSet, Alive
    <3> QED  BY <1>1, <1>5, <2>1, <2>2, <3>5
  <2> QED  BY <1>7, <2>3, <2>4 DEF Begin
<1>8. CASE ExchangeStops(l)
  <2>1. /\ rows' = rows /\ overdue' = overdue /\ j \in Jobs
        /\ private' = private /\ starting' = starting /\ crashes' = crashes
    BY <1>2, <1>8 DEF ExchangeStops
  <2>2. RunnerInv'
    BY <1>1, <1>8, <2>1, RunnerGoes DEF ExchangeStops, Running
  <2>3. ChildInv'
    BY <1>1, <1>8, <2>1, ChildEnds DEF ExchangeStops, Kill, ChildInv
  <2> QED  BY <1>1, <1>5, <2>1, <2>2, <2>3
<1>9. CASE Receive(l)
  <2>1. /\ rows' = Maintained /\ overdue' = overdue /\ j \in Jobs
        /\ private' = private /\ starting' = starting /\ crashes' = crashes
    BY <1>2, <1>9 DEF Receive
  <2>2. RunnerInv'
    <3> DEFINE v == child[l].answer
               p == IF v # Answer(Maintained[j]) THEN "stopping"
                    ELSE IF v.status \in Terminal THEN "delivered"
                    ELSE IF v.status = "awaiting_approval" THEN "received"
                    ELSE "stopping"
    <3>1. runner' = [runner EXCEPT ![l].result = v, ![l].pc = p]
      BY <1>9 DEF Receive
    <3>2. v \in [status : Status \cup {"absent"}, revision : Nat]
      BY <1>1 DEF ChildInv, Child
    <3>3. p \in Running \cup {"done"}
      BY DEF Running
    <3> HIDE DEF v, p
    <3> QED  BY <1>1, <2>1, <3>1, <3>2, <3>3, RunnerConcludes
  <2>3. ChildInv'
    BY <1>1, <1>9, <2>1, ChildEnds DEF Receive, Kill, ChildInv
  <2> QED  BY <1>1, <1>5, <2>1, <2>2, <2>3
<1>10. CASE Fetch(l)
  <2>1. /\ rows' = Maintained /\ child' = child /\ overdue' = overdue /\ j \in Jobs
        /\ private' = private /\ starting' = starting /\ crashes' = crashes
    BY <1>2, <1>10 DEF Fetch
  <2>2. RunTo(l, "stopping") \/ RunTo(l, "fetched")
    BY <1>10 DEF Fetch
  <2>3. RunnerInv'
    BY <1>1, <2>1, <2>2, RunnerGoes DEF Running
  <2> QED  BY <1>1, <1>4, <1>5, <2>1, <2>3
<1>11. CASE Retain(l)
  <2>1. /\ rows' = rows /\ child' = child /\ overdue' = overdue /\ j \in Jobs
        /\ starting' = starting /\ crashes' = crashes
    BY <1>2, <1>11 DEF Retain
  <2>2. CASE RunTo(l, "stopping") /\ private' = private
    <3>1. RunnerInv'
      BY <1>1, <2>1, <2>2, RunnerGoes DEF Running
    <3> QED  BY <1>1, <1>4, <1>5, <2>1, <2>2, <3>1
  <2>3. CASE /\ runner' = [runner EXCEPT ![l].pc = "delivered", ![l].held = TRUE]
             /\ private' = [private EXCEPT ![j].reserved = @ + 1]
    <3> DEFINE f1 == [runner EXCEPT ![l].pc = "delivered"]
    <3>1. f1 \in [Launches -> Runner] /\ RunnerSet(runner, f1, l, "delivered")
      BY <1>1, RunnerFields, RunnerKeeps DEF RunnerInv, Running
    <3>2. runner' = [f1 EXCEPT ![l].held = TRUE]
      BY <2>3
    <3> HIDE DEF f1
    <3>3. runner' \in [Launches -> Runner] /\ RunnerSet(f1, runner', l, f1[l].pc)
      BY <3>1, <3>2, RunnerFields, RunnerKeeps
    <3>4. RunnerInv'
      BY <1>1, <2>1, <3>1, <3>3 DEF RunnerInv, RunnerSet
    <3>5. private' \in [Jobs -> Private]
      <4>1. private[j].reserved + 1 \in Nat
        BY <1>1, <2>1 DEF MemoryInv, Private
      <4>2. private' = [private EXCEPT ![j].reserved = private[j].reserved + 1]
        BY <2>3
      <4> QED  BY <1>1, <4>1, <4>2 DEF MemoryInv, Private
    <3>6. MemoryInv'
      BY <1>1, <2>1, <3>5 DEF MemoryInv
    <3> QED  BY <1>1, <1>4, <2>1, <3>4, <3>6
  <2> QED  BY <1>11, <2>2, <2>3 DEF Retain
<1>12. CASE Return(l)
  <2>1. /\ rows' = rows /\ child' = child /\ overdue' = overdue /\ j \in Jobs
        /\ private' = private /\ starting' = starting /\ crashes' = crashes
    BY <1>2, <1>12 DEF Return
  <2>2. RunTo(l, "stopping") \/ RunTo(l, "done")
    BY <1>12 DEF Return
  <2>3. RunnerInv'
    BY <1>1, <2>1, <2>2, RunnerGoes DEF Running
  <2> QED  BY <1>1, <1>4, <1>5, <2>1, <2>3
<1>13. CASE Inspect(l)
  <2>1. /\ rows' = Maintained /\ child' = child /\ overdue' = overdue /\ j \in Jobs
        /\ private' = private /\ starting' = starting /\ crashes' = crashes
    BY <1>2, <1>13 DEF Inspect
  <2>2. RunnerInv'
    <3> DEFINE v == Answer(Maintained[j])
               p == IF Maintained[j].status \in Terminal \cup {"absent"} THEN "done"
                    ELSE "closing"
    <3>1. runner' = [runner EXCEPT ![l].result = v, ![l].pc = p]
      BY <1>13 DEF Inspect
    <3>2. v \in [status : Status \cup {"absent"}, revision : Nat]
      BY <1>6, <2>1, AnswerType
    <3>3. p \in Running \cup {"done"}
      BY DEF Running
    <3> HIDE DEF v, p
    <3> QED  BY <1>1, <2>1, <3>1, <3>2, <3>3, RunnerConcludes
  <2> QED  BY <1>1, <1>4, <1>5, <2>1, <2>2
<1>14. CASE Close(l)
  <2>1. /\ child' = child /\ overdue' = overdue /\ j \in Jobs
        /\ private' = private /\ starting' = starting /\ crashes' = crashes
    BY <1>2, <1>14 DEF Close
  <2>2. TableMoves(rows')
    <3> DEFINE code == IF l \in overdue THEN "budget_exhausted" ELSE "interrupted"
    <3>1. code \in FailureCode
      BY DEF FailureCode, Terminal
    <3>2. rows' = IF MayClose(l) THEN Cancel(Maintained, j, code) ELSE Maintained
      BY <1>14 DEF Close
    <3> HIDE DEF code
    <3>3. MayClose(l) => MayFail(Maintained[j])
      BY DEF MayClose, MayCancel
    <3> QED  BY <1>1, <2>1, <3>1, <3>2, <3>3, CancelTable
  <2>3. RunnerInv'
    <3> DEFINE v == IF MayClose(l) THEN Answer(rows'[j]) ELSE NoAnswer
    <3>1. runner' = [runner EXCEPT ![l].pc = "done", ![l].result = v]
      BY <1>14 DEF Close
    <3>2. v \in [status : Status \cup {"absent"}, revision : Nat]
      BY <2>1, <2>2, AnswerType DEF NoAnswer, TableMoves
    <3> HIDE DEF v
    <3> DEFINE f1 == [runner EXCEPT ![l].pc = "done"]
    <3>3. f1 \in [Launches -> Runner] /\ RunnerSet(runner, f1, l, "done")
      BY <1>1, RunnerFields, RunnerKeeps DEF RunnerInv
    <3>4. runner' = [f1 EXCEPT ![l].result = v]
      BY <3>1
    <3> HIDE DEF f1
    <3>5. runner' \in [Launches -> Runner] /\ RunnerSet(f1, runner', l, f1[l].pc)
      BY <3>2, <3>3, <3>4, RunnerFields, RunnerKeeps
    <3> QED  BY <1>1, <2>1, <3>3, <3>5 DEF RunnerInv, RunnerSet
  <2> QED  BY <1>1, <1>4, <1>5, <2>1, <2>2, <2>3
<1>15. CASE Callback(l)
  <2>1. /\ rows' \in {rows, Maintained} /\ child' = child /\ overdue' = overdue /\ j \in Jobs
        /\ starting' = starting /\ crashes' = crashes
        /\ runner' = [runner EXCEPT ![l] = Over]
    BY <1>2, <1>15 DEF Callback
  <2>2. RunnerInv'
    BY <1>1, <2>1, NoRunnerType, RunnerReplaced
  <2>3. private' \in [Jobs -> Private]
    <3> DEFINE q == [launch |-> l, expired |-> FALSE,
                     source |-> IF Delivered(l) THEN l ELSE None,
                     reserved |-> IF Delivered(l) THEN 1 ELSE 0]
    <3>1. private' = IF private[j].launch # l THEN private ELSE [private EXCEPT ![j] = q]
      BY <1>15 DEF Callback
    <3>2. q \in Private
      BY DEF Private
    <3> HIDE DEF q
    <3> QED  BY <1>1, <3>1, <3>2 DEF MemoryInv
  <2>4. MemoryInv'
    BY <1>1, <2>1, <2>3 DEF MemoryInv
  <2> QED  BY <1>1, <1>4, <2>1, <2>2, <2>4
<1> QED  BY <1>7, <1>8, <1>9, <1>10, <1>11, <1>12, <1>13, <1>14, <1>15 DEF RunnerStep

(* Each request.                                                           *)
LEMMA RequestMoves ==
    ASSUME TInv, Request
    PROVE  TableMoves(rows') /\ TInv'
<1>1. /\ RowsOK /\ ChildInv /\ RunnerInv /\ MemoryInv
      /\ TableMoves(rows) /\ TableMoves(Table)
  BY NothingMoves, PurgedMoves DEF TInv, Table
<1>2. SUFFICES TableMoves(rows') /\ ChildInv' /\ RunnerInv' /\ MemoryInv'
  BY MovesKeepRows DEF TInv
<1>3. child' = child /\ overdue' = overdue => ChildInv'
  BY <1>1 DEF ChildInv, Alive
<1>4. runner' = runner => RunnerInv'
  BY <1>1 DEF RunnerInv
<1>5. Entries \in [Jobs -> Private] /\ private \in [Jobs -> Private]
  BY <1>1, PurgedType DEF Entries, MemoryInv
<1>6. ASSUME private' \in [Jobs -> Private], starting' \in [Callers -> Jobs \cup {None}],
             crashes' = crashes
      PROVE  MemoryInv'
  BY <1>1, <1>6 DEF MemoryInv
<1>7. /\ starting \in [Callers -> Jobs \cup {None}]
      /\ \A c \in Callers :
            [starting EXCEPT ![c] = None] \in [Callers -> Jobs \cup {None}]
  BY <1>1 DEF MemoryInv
<1>8. CASE RequestFails
  <2>1. PICK S, T : rows' = RowsPurged(S) /\ private' = PrivatePurged(T)
    BY <1>8 DEF RequestFails
  <2>2. TableMoves(rows')
    BY <1>1, <2>1, PurgedMoves
  <2>3. private' \in [Jobs -> Private]
    BY <1>5, <2>1, PurgedType
  <2>4. starting' \in [Callers -> Jobs \cup {None}]
    BY <1>7, <1>8 DEF RequestFails, Preparing
  <2>5. child' = child /\ overdue' = overdue /\ runner' = runner /\ crashes' = crashes
    BY <1>8 DEF RequestFails
  <2> QED  BY <1>3, <1>4, <1>6, <2>2, <2>3, <2>4, <2>5
<1>9. CASE Get
  <2>1. /\ rows' = Table /\ private' = Entries /\ child' = child /\ overdue' = overdue
        /\ runner' = runner /\ starting' = starting /\ crashes' = crashes
    BY <1>9 DEF Get
  <2> QED  BY <1>1, <1>3, <1>4, <1>5, <1>6, <1>7, <2>1
<1>10. ASSUME NEW c \in Callers, NEW j \in Jobs, BeginStart(c, j)
       PROVE  TableMoves(rows') /\ ChildInv' /\ RunnerInv' /\ MemoryInv'
  <2>1. /\ rows' \in {rows, Table} /\ private' = Entries /\ child' = child
        /\ overdue' = overdue /\ runner' = runner /\ crashes' = crashes
        /\ starting' = [starting EXCEPT ![c] = j]
    BY <1>10 DEF BeginStart
  <2>2. starting' \in [Callers -> Jobs \cup {None}]
    BY <1>7, <2>1
  <2> QED  BY <1>1, <1>3, <1>4, <1>5, <1>6, <2>1, <2>2
<1>11. ASSUME NEW c \in Callers, PreparationFails(c)
       PROVE  TableMoves(rows') /\ ChildInv' /\ RunnerInv' /\ MemoryInv'
  <2>1. /\ rows' = rows /\ private' = private /\ child' = child
        /\ overdue' = overdue /\ runner' = runner /\ crashes' = crashes
        /\ starting' = [starting EXCEPT ![c] = None]
    BY <1>11 DEF PreparationFails
  <2> QED  BY <1>1, <1>3, <1>4, <1>5, <1>6, <1>7, <2>1
<1>12. ASSUME NEW c \in Callers, Submit(c)
       PROVE  TableMoves(rows') /\ ChildInv' /\ RunnerInv' /\ MemoryInv'
  <2> DEFINE j == starting[c]
             l == Min(Unused)
             q == [NoPrivate EXCEPT !.launch = l, !.reserved = 1]
             r == [NoRunner EXCEPT !.pc = "pending", !.job = j]
  <2>1. /\ j # None /\ Unused # {} /\ rows' = Create(Table, j)
        /\ private' = [Entries EXCEPT ![j] = q] /\ runner' = [runner EXCEPT ![l] = r]
        /\ starting' = [starting EXCEPT ![c] = None]
        /\ child' = child /\ overdue' = overdue /\ crashes' = crashes
    BY <1>12 DEF Submit
  <2>2. j \in Jobs /\ l \in Launches
    BY <1>7, <2>1, LeastUnused DEF Unused
  <2>3. TableMoves(rows')
    BY <1>1, <2>1, <2>2, CreateTable
  <2>4. r \in Runner /\ r.job = j
    BY <2>2 DEF Runner, NoRunner, NoAnswer
  <2>5. q \in Private
    BY <2>2 DEF Private, NoPrivate
  <2> HIDE DEF j, l, q, r
  <2>6. private' \in [Jobs -> Private]
    BY <1>5, <2>1, <2>5
  <2>7. RunnerInv'
    BY <1>1, <2>1, <2>2, <2>4, RunnerReplaced
  <2> QED  BY <1>3, <1>6, <1>7, <2>1, <2>3, <2>6, <2>7
<1>13. ASSUME NEW c \in Callers, StartWithout(c)
       PROVE  TableMoves(rows') /\ ChildInv' /\ RunnerInv' /\ MemoryInv'
  <2>1. /\ starting[c] # None /\ rows' \in {rows, Table, Create(Table, starting[c])}
        /\ private' = Entries /\ starting' = [starting EXCEPT ![c] = None]
        /\ child' = child /\ overdue' = overdue /\ runner' = runner /\ crashes' = crashes
    BY <1>13 DEF StartWithout
  <2>2. TableMoves(Create(Table, starting[c]))
    BY <1>1, <1>7, <2>1, CreateTable
  <2> QED  BY <1>1, <1>3, <1>4, <1>5, <1>6, <1>7, <2>1, <2>2
<1>14. ASSUME NEW j \in Jobs, CancelJob(j)
       PROVE  TableMoves(rows') /\ ChildInv' /\ RunnerInv' /\ MemoryInv'
  <2> DEFINE l == private[j].launch
             pending == runner[l].pc = "pending"
  <2>1. /\ j \in Kept \ Expirable /\ MayCancel(Table, j, Table[j].revision)
        /\ rows' = Cancel(Table, j, "cancelled")
        /\ private' = [Entries EXCEPT
             ![j].source = None,
             ![j].reserved = IF pending \/ FutureDone(j) THEN 0 ELSE @,
             ![j].expired = ~pending /\ @]
        /\ runner' = IF pending THEN [runner EXCEPT ![l] = Over] ELSE runner
        /\ child' = child /\ overdue' = overdue /\ starting' = starting /\ crashes' = crashes
    BY <1>14 DEF CancelJob, InUse
  <2>2. Table[j] = Maintained[j]
    BY <1>1, <2>1, PurgedIs DEF Table
  <2>3. TableMoves(rows')
    <3>1. MayFail(Table[j]) /\ "cancelled" \in FailureCode
      BY <2>1 DEF MayCancel, FailureCode, Terminal
    <3> QED  BY <1>1, <2>1, <2>2, <3>1, CancelTable
  <2>4. l \in Launches
    BY <1>5, <2>1 DEF Kept, Private
  <2>5. RunnerInv'
    BY <1>1, <1>4, <2>1, <2>4, NoRunnerType, RunnerReplaced
  <2>6. private' \in [Jobs -> Private]
    <3> DEFINE v == IF pending \/ FutureDone(j) THEN 0 ELSE Entries[j].reserved
               x == ~pending /\ Entries[j].expired
               f1 == [Entries EXCEPT ![j].source = None]
               f2 == [f1 EXCEPT ![j].reserved = v]
               f3 == [f2 EXCEPT ![j].expired = x]
    <3>1. f1 \in [Jobs -> Private] /\ f1[j].reserved = Entries[j].reserved
          /\ f1[j].expired = Entries[j].expired
      BY <1>5 DEF Private
    <3>2. v \in Nat /\ x \in BOOLEAN
      BY <1>5 DEF Private
    <3>3. private' = f3
      BY <1>5, <2>1 DEF Private
    <3> HIDE DEF v, x, f1, pending
    <3>4. f2 \in [Jobs -> Private]
      BY <3>1, <3>2 DEF Private
    <3> HIDE DEF f2
    <3>5. f3 \in [Jobs -> Private]
      BY <3>2, <3>4 DEF Private
    <3> QED  BY <3>3, <3>5
  <2> QED  BY <1>3, <1>6, <1>7, <2>1, <2>3, <2>5, <2>6
<1>15. ASSUME NEW j \in Jobs, ApproveJob(j)
       PROVE  TableMoves(rows') /\ ChildInv' /\ RunnerInv' /\ MemoryInv'
  <2>1. /\ Table[j].status = "awaiting_approval" /\ rows' = Approve(Table, j)
        /\ private' = Entries /\ child' = child /\ overdue' = overdue
        /\ runner' = runner /\ starting' = starting /\ crashes' = crashes
    BY <1>15 DEF ApproveJob, MayApproveRow, MayApprove
  <2>2. TableMoves(rows')
    BY <1>1, <2>1, ApproveTable
  <2> QED  BY <1>3, <1>4, <1>5, <1>6, <1>7, <2>1, <2>2
<1> QED  BY <1>8, <1>9, <1>10, <1>11, <1>12, <1>13, <1>14, <1>15 DEF Request

LEMMA CrashMoves ==
    ASSUME TInv, CrashServer
    PROVE  TableMoves(rows') /\ TInv'
<1>1. /\ RowsOK /\ ChildInv /\ RunnerInv /\ MemoryInv /\ TableMoves(rows)
  BY NothingMoves DEF TInv
<1>2. /\ rows' = rows /\ child' = child /\ overdue' = overdue
      /\ crashes < MaxCrashes /\ crashes' = crashes + 1
      /\ private' = [j \in Jobs |-> NoPrivate] /\ starting' = [c \in Callers |-> None]
      /\ runner' = [l \in Launches |-> IF runner[l].pc = "unused" THEN NoRunner ELSE Over]
  BY <1>1 DEF CrashServer
<1>3. RunnerInv'
  <2>1. NoRunner.pc = "unused"
    BY DEF NoRunner
  <2> QED  BY <1>2, <2>1, NoRunnerType DEF RunnerInv
<1>4. MemoryInv'
  <2>1. crashes' \in 0..MaxCrashes
    BY <1>1, <1>2, ServiceAssumption DEF MemoryInv
  <2> QED  BY <1>2, <2>1, NoPrivateType DEF MemoryInv
<1>5. ChildInv'
  BY <1>1, <1>2 DEF ChildInv, Alive
<1> QED  BY <1>1, <1>2, <1>3, <1>4, <1>5, MovesKeepRows DEF TInv

(* A row without a live lease may grow old; that is its only other move.   *)
LEMMA AgeingMoves ==
    ASSUME RowsOK, NEW j \in Jobs, RowAges(j)
    PROVE  /\ RowsOK'
           /\ Lifecycle!Age(Abs(rows[j]), Abs(rows[j])')
           /\ \A i \in Jobs \ {j} : rows'[i] = rows[i]
<1>1. /\ rows' = [rows EXCEPT ![j].old = TRUE] /\ rows[j].status # "absent"
  BY DEF RowAges, Stored
<1>2. rows[j] \in Row /\ RowOK(rows[j]) /\ rows[j] # NoRow
  BY <1>1 DEF RowsOK, NoRow
<1>3. rows' \in [Jobs -> Row]
  <2>1. [rows[j] EXCEPT !.old = TRUE] \in Row
    BY <1>2 DEF Row
  <2> QED
    BY <1>1, <2>1 DEF RowsOK
<1>4. /\ rows'[j].status = rows[j].status /\ rows'[j].failure_code = rows[j].failure_code
      /\ rows'[j].package = rows[j].package /\ rows'[j].receipt = rows[j].receipt
      /\ rows'[j].package_digest = rows[j].package_digest
      /\ rows'[j].lease = rows[j].lease /\ rows'[j].old = TRUE
  BY <1>1 DEF RowsOK, Row
<1>5. \A i \in Jobs \ {j} : rows'[i] = rows[i]
  BY <1>1 DEF RowsOK
<1>6. RowOK(rows'[j])
  BY <1>2, <1>3, <1>4 DEF RowOK, ShapeOK
<1>7. RowsOK'
  BY <1>3, <1>5, <1>6 DEF RowsOK
<1>8. Lifecycle!Age(Abs(rows[j]), Abs(rows[j])')
  <2> DEFINE a == Phase(rows[j])
             c == rows[j].package
  <2>1. Phase(rows'[j]) = a
    BY <1>4 DEF Phase
  <2>2. a # "absent"
    BY <1>1, <1>2, PhaseOf DEF RowOK, Status, Terminal, Selected, Working
  <2>3. Abs(rows[j]) = [phase |-> a, candidate |-> c, old |-> rows[j].old]
    BY DEF Abs
  <2>4. Abs(rows[j])' = [phase |-> a, candidate |-> c, old |-> TRUE]
    BY <1>4, <2>1 DEF Abs
  <2> HIDE DEF a, c
  <2>5. [[phase |-> a, candidate |-> c, old |-> rows[j].old] EXCEPT !.old = TRUE]
          = [phase |-> a, candidate |-> c, old |-> TRUE]
    BY SetOldTrue
  <2> QED  BY <2>2, <2>3, <2>4, <2>5 DEF Lifecycle!Age
<1> QED  BY <1>5, <1>7, <1>8

LEMMA LapseMoves ==
    ASSUME RowsOK, NEW j \in Jobs, LeaseLapses(j)
    PROVE  TableMoves(rows')
<1>1. rows' = [rows EXCEPT ![j].lease = "lapsed"] /\ rows[j].lease = "live"
  BY DEF LeaseLapses
<1>2. rows[j] \in Row /\ RowOK(rows[j]) /\ rows[j] # NoRow
  BY <1>1 DEF RowsOK, NoRow
<1>3. rows' \in [Jobs -> Row]
  BY <1>1 DEF RowsOK, Row
<1>4. /\ rows'[j].status = rows[j].status /\ rows'[j].failure_code = rows[j].failure_code
      /\ rows'[j].package = rows[j].package /\ rows'[j].receipt = rows[j].receipt
      /\ rows'[j].package_digest = rows[j].package_digest
      /\ rows'[j].old = rows[j].old
  BY <1>1 DEF RowsOK, Row
<1>5. \A i \in Jobs \ {j} : rows'[i] = rows[i]
  BY <1>1 DEF RowsOK
<1>6. RowOK(rows'[j])
  BY <1>1, <1>2, <1>3, <1>4 DEF RowOK, ShapeOK
<1>7. Abs(rows'[j]) = Abs(rows[j])
  BY <1>4 DEF Abs, Phase
<1>8. \A i \in Jobs : RowMove(rows[i], rows'[i])
  BY <1>5, <1>6, <1>7 DEF RowsOK, RowMove, Served
<1> QED  BY <1>3, <1>8 DEF TableMoves

LEMMA TimeMoves ==
    ASSUME TInv, Time
    PROVE  TInv' /\ (TableMoves(rows') \/ \E j \in Jobs : RowAges(j))
<1>1. RowsOK /\ ChildInv /\ RunnerInv /\ MemoryInv /\ TableMoves(rows)
  BY NothingMoves DEF TInv
<1>2. ASSUME NEW l \in Launches, DeadlinePasses(l)
      PROVE  TInv' /\ TableMoves(rows')
  <2>1. /\ rows' = rows /\ child' = child /\ private' = private /\ runner' = runner
        /\ starting' = starting /\ crashes' = crashes /\ overdue' = overdue \cup {l}
    BY <1>2 DEF DeadlinePasses
  <2>2. ChildInv' /\ RunnerInv' /\ MemoryInv'
    BY <1>1, <2>1 DEF ChildInv, RunnerInv, MemoryInv, Alive
  <2> QED  BY <1>1, <2>1, <2>2, MovesKeepRows DEF TInv
<1>3. ASSUME NEW j \in Jobs, PrivateExpires(j)
      PROVE  TInv' /\ TableMoves(rows')
  <2>1. /\ rows' = rows /\ child' = child /\ overdue' = overdue /\ runner' = runner
        /\ starting' = starting /\ crashes' = crashes
        /\ private' = [private EXCEPT ![j].expired = TRUE]
    BY <1>3 DEF PrivateExpires
  <2>2. private' \in [Jobs -> Private]
    BY <1>1, <2>1 DEF MemoryInv, Private
  <2>3. ChildInv' /\ RunnerInv' /\ MemoryInv'
    BY <1>1, <2>1, <2>2 DEF ChildInv, RunnerInv, MemoryInv, Alive
  <2> QED  BY <1>1, <2>1, <2>3, MovesKeepRows DEF TInv
<1>4. ASSUME NEW j \in Jobs, RowAges(j)
      PROVE  TInv'
  <2>1. /\ child' = child /\ overdue' = overdue /\ runner' = runner
        /\ starting' = starting /\ crashes' = crashes /\ private' = private
    BY <1>4 DEF RowAges
  <2>2. ChildInv' /\ RunnerInv' /\ MemoryInv'
    BY <1>1, <2>1 DEF ChildInv, RunnerInv, MemoryInv, Alive
  <2> QED  BY <1>1, <1>4, <2>2, AgeingMoves DEF TInv
<1>5. ASSUME NEW j \in Jobs, LeaseLapses(j), UNCHANGED <<private, runner, starting, crashes>>
      PROVE  TInv' /\ TableMoves(rows')
  <2>1. child' = child /\ overdue' = overdue
    BY <1>5 DEF LeaseLapses
  <2>2. ChildInv' /\ RunnerInv' /\ MemoryInv'
    BY <1>1, <1>5, <2>1 DEF ChildInv, RunnerInv, MemoryInv, Alive
  <2> QED  BY <1>1, <1>5, <2>2, LapseMoves, MovesKeepRows DEF TInv
<1> QED  BY <1>2, <1>3, <1>4, <1>5 DEF Time

(* Whatever step is taken, the table moves row by row, or one row ages.    *)
LEMMA NextMoves ==
    ASSUME TInv, [Next]_vars
    PROVE  TInv' /\ (TableMoves(rows') \/ \E j \in Jobs : RowAges(j))
<1>1. RowsOK /\ ChildInv /\ RunnerInv /\ MemoryInv /\ TableMoves(rows)
  BY NothingMoves DEF TInv
<1>2. ASSUME NEW l \in Launches, ChildStep(l), UNCHANGED <<private, runner, starting, crashes>>
      PROVE  TInv' /\ TableMoves(rows')
  <2>1. RunnerInv' /\ MemoryInv'
    BY <1>1, <1>2 DEF RunnerInv, MemoryInv
  <2> QED  BY <1>1, <1>2, <2>1, ChildStepMoves, MovesKeepRows DEF TInv
<1>3. CASE UNCHANGED vars
  <2>1. /\ rows' = rows /\ child' = child /\ overdue' = overdue /\ private' = private
        /\ runner' = runner /\ starting' = starting /\ crashes' = crashes
    BY <1>3 DEF vars
  <2>2. ChildInv' /\ RunnerInv' /\ MemoryInv'
    BY <1>1, <2>1 DEF ChildInv, RunnerInv, MemoryInv, Alive
  <2> QED  BY <1>1, <2>1, <2>2, MovesKeepRows DEF TInv
<1> QED  BY <1>2, <1>3, RequestMoves, CrashMoves, TimeMoves, RunnerStepMoves DEF Next

LEMMA InitTypes == Init => TInv
<1> SUFFICES ASSUME Init PROVE TInv
  OBVIOUS
<1>1. RowsOK
  BY NoRowIsOK DEF Init, RowsOK, RowOK
<1>2. ChildInv
  <2>1. NoChild \in Child /\ NoChild.pc = "unborn"
    BY DEF NoChild, Child, NoAnswer
  <2> QED  BY <2>1 DEF Init, ChildInv, Alive
<1>3. RunnerInv
  <2>1. NoRunner.pc = "unused"
    BY DEF NoRunner
  <2> QED  BY <2>1, NoRunnerType DEF Init, RunnerInv
<1>4. MemoryInv
  BY NoPrivateType, ServiceAssumption DEF Init, MemoryInv
<1> QED  BY <1>1, <1>2, <1>3, <1>4 DEF TInv

LEMMA TypesAlways == Spec => []TInv
BY InitTypes, NextMoves, PTL DEF Spec

(* Every stored record has the shape record_invariants demands, and every  *)
(* process, supervisor and private entry keeps its type, in every state    *)
(* any number of crashes, orphaned workers and late requests can reach.    *)
THEOREM OptimizationKeepsTypes == Spec => []TypeOK
<1>1. TInv => TypeOK
  BY DEF TInv, RowsOK, RowOK, ChildInv, RunnerInv, MemoryInv, TypeOK
<1> QED  BY <1>1, TypesAlways, PTL

(* The package table and the records agree on every path that publishes,   *)
(* approves, closes, recovers or forgets a job.                            *)
THEOREM PackagesFollowRecords == Spec => []PackageFollowsRecord
<1>1. TInv => PackageFollowsRecord
  BY DEF TInv, RowsOK, RowOK, PackageFollowsRecord
<1> QED  BY <1>1, TypesAlways, PTL

-----------------------------------------------------------------------------
(* The rows implement OptimizationLifecycle.                               *)

LEMMA ServedIsNext ==
    ASSUME TInv, [Next]_vars
    PROVE  [Lifecycle!Next]_([j \in Jobs |-> [phase |-> Phase(rows[j]),
                                             candidate |-> rows[j].package,
                                             old |-> rows[j].old]])
<1>1. CASE TableMoves(rows')
  <2>1. \A j \in Jobs : Served(Abs(rows[j]), Abs(rows'[j]))
    BY <1>1 DEF TableMoves, RowMove
  <2> QED  BY <2>1 DEF Lifecycle!Next, Served, Abs
<1>2. CASE \E j \in Jobs : RowAges(j)
  <2>1. PICK j \in Jobs : RowAges(j)
    BY <1>2
  <2>2. /\ Lifecycle!Age(Abs(rows[j]), Abs(rows'[j]))
        /\ \A i \in Jobs \ {j} : Abs(rows'[i]) = Abs(rows[i])
    BY <2>1, AgeingMoves DEF TInv, Abs
  <2> QED  BY <2>2 DEF Lifecycle!Next, Abs
<1> QED  BY <1>1, <1>2, NextMoves

(* Whatever processes run a job: it works once, at most one candidate is   *)
(* published for review, a stop is final, and only a job whose retention   *)
(* has passed is forgotten.                                                *)
THEOREM RowsImplementLifecycle == Spec => ImplementsLifecycle
<1>1. Init => Lifecycle!Init
  <2> SUFFICES ASSUME Init PROVE Lifecycle!Init
    OBVIOUS
  <2>1. rows = [j \in Jobs |-> NoRow]
    BY DEF Init
  <2>2. \A j \in Jobs : Abs(rows[j]) = Lifecycle!Absent
    BY <2>1, AbsNoRow
  <2> QED  BY <2>2 DEF Lifecycle!Init, Abs
<1> QED  BY <1>1, ServedIsNext, TypesAlways, PTL DEF Spec, ImplementsLifecycle, Lifecycle!Spec

-----------------------------------------------------------------------------
(* What the service keeps in memory.  The row of a job that a supervisor   *)
(* still has cannot age, and a row that does not age only goes on towards  *)
(* its end; so what a supervisor has fetched stays the stored package, or  *)
(* the job has been stopped.                                               *)

StoppedStatus == Terminal \ {"completed"}

ActiveRunner(l) == runner[l].pc \in {"pending"} \cup Running
OnJob(l) == runner[l].pc \notin {"unused", "over"}
HasBytes(l) == runner[l].pc = "fetched" \/ runner[l].held

(* A job whose supervisor is at work has a private entry of that launch.   *)
EntryOfRunner ==
    \A l \in Launches : ActiveRunner(l) => private[runner[l].job].launch = l

(* Bytes are kept for the launch of the entry, whose supervisor is over.   *)
BytesOfLaunch ==
    \A j \in Jobs :
        private[j].source # None
        => /\ private[j].source = private[j].launch
           /\ runner[private[j].launch].pc = "over"
           /\ private[j].reserved > 0

(* The row of a supervisor's job is there, and its retention is not over.  *)
RowOfRunner ==
    \A l \in Launches :
        OnJob(l) => ~rows[runner[l].job].old /\ rows[runner[l].job].status # "absent"

(* What a supervisor has fetched is the package of its job, or the job has *)
(* been stopped.                                                           *)
BytesOfPackage ==
    \A l \in Launches :
        OnJob(l) /\ HasBytes(l)
        => rows[runner[l].job].status \in StoppedStatus \/ rows[runner[l].job].package = l

(* Bytes that are kept are those of a job under review or completed.       *)
BytesUnderReview ==
    \A j \in Jobs :
        private[j].source # None /\ ~private[j].expired
        => /\ ~rows[j].old
           /\ rows[j].status \in {"awaiting_approval", "completed"}
           /\ rows[j].package = private[j].source

KInv == EntryOfRunner /\ BytesOfLaunch /\ RowOfRunner /\ BytesOfPackage

(* A row that is there and not old stays so, short of ageing.              *)
Stays(r, q) ==
    /\ ~q.old /\ q.status # "absent"
    /\ r.status \in StoppedStatus => q.status \in StoppedStatus
    /\ r.package # None => q.status \in StoppedStatus \/ q.package = r.package

LEMMA MoveStays ==
    ASSUME NEW r, NEW q, RowOK(r), RowMove(r, q), ~r.old, r.status # "absent"
    PROVE  Stays(r, q)
<1> DEFINE p == Abs(r)
           x == Abs(q)
<1>1. /\ p.phase = Phase(r) /\ p.candidate = r.package /\ p.old = r.old
      /\ x.phase = Phase(q) /\ x.candidate = q.package /\ x.old = q.old
  BY DEF Abs
<1>2. Served(p, x) /\ RowOK(q) /\ q \in Row /\ r \in Row
  BY DEF RowMove, RowOK
<1>3. \A s : RowOK(s) =>
         /\ s.status \in StoppedStatus <=> Phase(s) = "stopped"
         /\ s.status = "absent" <=> Phase(s) = "absent"
         /\ s.package # None <=> Phase(s) \in {"review", "completed"}
  <2> SUFFICES ASSUME NEW s, RowOK(s)
               PROVE  /\ s.status \in StoppedStatus <=> Phase(s) = "stopped"
                      /\ s.status = "absent" <=> Phase(s) = "absent"
                      /\ s.package # None <=> Phase(s) \in {"review", "completed"}
    OBVIOUS
  <2>1. CASE s.status \in Working
    BY <2>1, PhaseOf DEF RowOK, NoRow, ShapeOK, StoppedStatus, Working, Terminal, Selected
  <2>2. CASE s.status \in StoppedStatus
    BY <2>2, PhaseOf DEF RowOK, NoRow, ShapeOK, StoppedStatus, Working, Terminal, Selected
  <2>3. CASE s.status \in {"awaiting_approval", "completed", "queued"}
    BY <2>3, PhaseOf DEF RowOK, NoRow, ShapeOK, StoppedStatus, Working, Terminal, Selected
  <2>4. CASE s.status = "absent"
    BY <2>4, PhaseOf DEF RowOK, NoRow, ShapeOK, StoppedStatus, Working, Terminal, Selected, Status
  <2> QED  BY <2>1, <2>2, <2>3, <2>4 DEF RowOK, NoRow, Status, StoppedStatus, Selected
<1>4. p.phase # "absent" /\ ~p.old /\ p.old \in BOOLEAN /\ x.old \in BOOLEAN
  BY <1>1, <1>2, <1>3 DEF Row
<1> HIDE DEF p, x
<1>5. CASE x = p
  BY <1>1, <1>2, <1>3, <1>4, <1>5 DEF Stays
<1>6. CASE Lifecycle!Create(p, x) \/ Lifecycle!Forget(p, x)
  BY <1>4, <1>6 DEF Lifecycle!Create, Lifecycle!Forget
<1>7. CASE Lifecycle!Claim(p, x)
  <2>1. x.phase = "working" /\ ~x.old /\ p.phase = "queued"
    BY <1>7 DEF Lifecycle!Claim, Lifecycle!In
  <2> QED  BY <1>1, <1>2, <1>3, <2>1 DEF Stays
<1>8. CASE Lifecycle!Publish(p, x)
  <2>1. x.phase = "review" /\ ~x.old /\ p.phase = "working"
    BY <1>8 DEF Lifecycle!Publish, Lifecycle!In
  <2> QED  BY <1>1, <1>2, <1>3, <2>1 DEF Stays
<1>9. CASE Lifecycle!Approve(p, x)
  <2>1. x.phase = "completed" /\ ~x.old /\ p.phase = "review" /\ x.candidate = p.candidate
    BY <1>9 DEF Lifecycle!Approve, Lifecycle!In
  <2> QED  BY <1>1, <1>2, <1>3, <2>1 DEF Stays
<1>10. CASE Lifecycle!Stop(p, x)
  <2>1. x.phase = "stopped" /\ ~x.old
    BY <1>10 DEF Lifecycle!Stop, Lifecycle!In
  <2> QED  BY <1>1, <1>2, <1>3, <2>1 DEF Stays
<1>11. CASE Lifecycle!Renew(p, x)
  <2>1. x = [p EXCEPT !.old = FALSE] /\ p = [phase |-> Phase(r), candidate |-> r.package,
                                             old |-> r.old]
    BY <1>11 DEF Lifecycle!Renew, p, Abs
  <2>2. x = [phase |-> Phase(r), candidate |-> r.package, old |-> FALSE]
    BY <2>1, SetOldFalse, Zenon
  <2>3. x.phase = p.phase /\ x.candidate = p.candidate /\ ~x.old
    BY <1>1, <2>2
  <2> QED  BY <1>1, <1>2, <1>3, <1>4, <2>3 DEF Stays
<1> QED  BY <1>2, <1>5, <1>6, <1>7, <1>8, <1>9, <1>10, <1>11 DEF Served

(* In every step, unless the row ages.                                     *)
LEMMA RowStays ==
    ASSUME TInv, [Next]_vars, NEW j \in Jobs, ~rows[j].old, rows[j].status # "absent",
           ~RowAges(j)
    PROVE  Stays(rows[j], rows'[j])
<1>1. RowOK(rows[j])
  BY DEF TInv, RowsOK
<1>2. CASE TableMoves(rows')
  BY <1>1, <1>2, MoveStays DEF TableMoves
<1>3. CASE \E i \in Jobs : RowAges(i)
  <2>1. rows'[j] = rows[j]
    BY <1>3, AgeingMoves DEF TInv
  <2> QED  BY <1>1, <2>1 DEF Stays
<1> QED  BY <1>2, <1>3, NextMoves

LEMMA RunnersRowsStay ==
    ASSUME TInv, KInv, [Next]_vars, NEW l \in Launches, OnJob(l)
    PROVE  /\ runner[l].job \in Jobs
           /\ Stays(rows[runner[l].job], rows'[runner[l].job])
<1>1. runner[l].job \in Jobs
  BY DEF TInv, RunnerInv, OnJob
<1>2. ~RowAges(runner[l].job)
  BY DEF RowAges
<1>3. ~rows[runner[l].job].old /\ rows[runner[l].job].status # "absent"
  BY DEF KInv, RowOfRunner
<1> QED  BY <1>1, <1>2, <1>3, RowStays

(* How a supervisor may have come to where it is after a step.             *)
WentOn(k) ==
    /\ OnJob(k) /\ runner'[k].job = runner[k].job
    /\ ActiveRunner(k)' => ActiveRunner(k)
    /\ HasBytes(k)' => \/ HasBytes(k)
                       \/ /\ rows' = Maintained
                          /\ Maintained[runner[k].job].package = k

WasSubmitted(k) ==
    LET j == runner'[k].job
    IN  /\ j \in Jobs /\ ~HasBytes(k)'
        /\ rows'[j].status = "queued" /\ ~rows'[j].old
        /\ private'[j].launch = k
        /\ ~\E l \in Launches : ActiveRunner(l) /\ private[j].launch = l
        /\ \A i \in Jobs \ {j} : private'[i] = Entries[i]
        /\ private'[j].source = None
        /\ runner[k].pc = "unused"

RunnersChange ==
    /\ \A k \in Launches : OnJob(k)' => WentOn(k) \/ WasSubmitted(k)
    /\ \A k \in Launches : runner[k].pc = "over" => runner'[k].pc = "over"

LEMMA RunnerToChange ==
    ASSUME runner \in [Launches -> Runner], NEW l \in Launches, OnJob(l),
           NEW pc \in Running \cup {"done"}, RunTo(l, pc), pc \in Running => ActiveRunner(l),
           pc = "fetched" => /\ rows' = Maintained
                             /\ Maintained[runner[l].job].package = l
    PROVE  RunnersChange
<1>1. /\ runner'[l].pc = pc /\ runner'[l].job = runner[l].job /\ runner'[l].held = runner[l].held
      /\ \A k \in Launches \ {l} : runner'[k] = runner[k]
  BY DEF RunTo, Runner
<1>2. ASSUME NEW k \in Launches, OnJob(k)' PROVE WentOn(k)
  <2>1. CASE k = l
    <3>1. ActiveRunner(l)' => ActiveRunner(l)
      BY <1>1 DEF ActiveRunner, Running
    <3> QED  BY <1>1, <2>1, <3>1 DEF WentOn, HasBytes
  <2>2. CASE k # l
    BY <1>1, <1>2, <2>2 DEF WentOn, OnJob, ActiveRunner, HasBytes
  <2> QED  BY <2>1, <2>2
<1>3. ASSUME NEW k \in Launches, runner[k].pc = "over" PROVE runner'[k].pc = "over"
  BY <1>1, <1>3 DEF OnJob
<1> QED  BY <1>2, <1>3 DEF RunnersChange

LEMMA RunnerSettles ==
    ASSUME runner \in [Launches -> Runner], NEW l \in Launches, OnJob(l), ActiveRunner(l),
           NEW v, NEW pc \in (Running \ {"fetched"}) \cup {"done"},
           runner' = [runner EXCEPT ![l].result = v, ![l].pc = pc]
    PROVE  RunnersChange
<1>1. /\ runner'[l].pc = pc /\ runner'[l].job = runner[l].job /\ runner'[l].held = runner[l].held
      /\ \A k \in Launches \ {l} : runner'[k] = runner[k]
  BY DEF Runner
<1>2. pc # "fetched"
  BY DEF Running
<1> QED  BY <1>1, <1>2 DEF RunnersChange, WentOn, OnJob, ActiveRunner, HasBytes

LEMMA RunnerUntouched ==
    ASSUME runner' = runner
    PROVE  RunnersChange
BY DEF RunnersChange, WentOn, OnJob, ActiveRunner, HasBytes

(* Each step of a supervisor, and what becomes of the private entries: the *)
(* callback is the only step that keeps bytes.                             *)
EntriesGoOn ==
    \A j \in Jobs :
        /\ private'[j].launch = private[j].launch
        /\ private'[j].source = private[j].source
        /\ private'[j].expired = private[j].expired
        /\ private'[j].reserved >= private[j].reserved

BytesArrive(l) ==
    LET j == runner[l].job
    IN  /\ \A i \in Jobs \ {j} : private'[i] = private[i]
        /\ private[j].launch = l
        /\ private'[j].launch = l /\ ~private'[j].expired
        /\ private'[j].source = IF Delivered(l) THEN l ELSE None
        /\ private'[j].reserved = IF Delivered(l) THEN 1 ELSE 0
        /\ Delivered(l) => rows' = Maintained
        /\ runner[l].pc = "done" /\ runner'[l].pc = "over"

LEMMA CallbackArrives ==
    ASSUME TInv, NEW l \in Launches, Callback(l), private[runner[l].job].launch = l
    PROVE  BytesArrive(l)
<1> DEFINE j == runner[l].job
           q == [launch |-> l, expired |-> FALSE,
                 source |-> IF Delivered(l) THEN l ELSE None,
                 reserved |-> IF Delivered(l) THEN 1 ELSE 0]
<1>1. /\ runner \in [Launches -> Runner] /\ private \in [Jobs -> Private]
      /\ runner' = [runner EXCEPT ![l] = Over] /\ runner[l].pc = "done"
      /\ private' = [private EXCEPT ![j] = q]
  BY DEF TInv, RunnerInv, MemoryInv, Callback
<1>2. runner'[l].pc = "over"
  BY <1>1, NoRunnerType
<1>3. /\ q.launch = l /\ ~q.expired /\ q.source = (IF Delivered(l) THEN l ELSE None)
      /\ q.reserved = (IF Delivered(l) THEN 1 ELSE 0)
  OBVIOUS
<1>4. j \in Jobs
  BY <1>1 DEF TInv, RunnerInv, OnJob
<1>5. Delivered(l) => rows' = Maintained
  <2>1. Delivered(l) => runner[l].result # NoAnswer
    BY DEF Delivered, NoAnswer
  <2> QED  BY <2>1 DEF Callback
<1> HIDE DEF q
<1> QED  BY <1>1, <1>2, <1>3, <1>4, <1>5 DEF BytesArrive

LEMMA RunnerStepChange ==
    ASSUME TInv, NEW l \in Launches, RunnerStep(l)
    PROVE  /\ RunnersChange
           /\ EntriesGoOn \/ BytesArrive(l)
<1> DEFINE j == runner[l].job
<1>1. /\ runner \in [Launches -> Runner] /\ private \in [Jobs -> Private]
      /\ \A i \in Jobs : private[i].reserved \in Nat
  BY DEF TInv, RunnerInv, MemoryInv, Private
<1>2. private' = private => EntriesGoOn
  BY <1>1 DEF EntriesGoOn
<1>3. OnJob(l) => j \in Jobs
  BY DEF TInv, RunnerInv, OnJob
<1>4. /\ {"pending", "exchange", "received", "fetched", "delivered", "stopping", "closing"}
           = {"pending"} \cup Running
      /\ "fetched" \in Running /\ "done" \notin Running
  BY DEF Running
<1>5. CASE Begin(l)
  <2>1. private' = private /\ runner[l].pc = "pending"
        /\ (RunTo(l, "stopping") \/ RunTo(l, "exchange"))
    BY <1>5 DEF Begin
  <2> QED  BY <1>1, <1>2, <1>4, <2>1, RunnerToChange DEF OnJob, ActiveRunner
<1>6. CASE ExchangeStops(l)
  <2>1. private' = private /\ runner[l].pc = "exchange" /\ RunTo(l, "stopping")
    BY <1>6 DEF ExchangeStops
  <2> QED  BY <1>1, <1>2, <1>4, <2>1, RunnerToChange DEF OnJob, ActiveRunner
<1>7. CASE Receive(l)
  <2> DEFINE v == child[l].answer
             p == IF v # Answer(Maintained[j]) THEN "stopping"
                  ELSE IF v.status \in Terminal THEN "delivered"
                  ELSE IF v.status = "awaiting_approval" THEN "received"
                  ELSE "stopping"
  <2>1. /\ private' = private /\ runner[l].pc = "exchange"
        /\ runner' = [runner EXCEPT ![l].result = v, ![l].pc = p]
    BY <1>7 DEF Receive
  <2>2. p \in {"stopping", "delivered", "received"}
    OBVIOUS
  <2> HIDE DEF v, p
  <2> QED  BY <1>1, <1>2, <1>4, <2>1, <2>2, RunnerSettles DEF OnJob, ActiveRunner
<1>8. CASE Fetch(l)
  <2> DEFINE p == IF Stopped(l) \/ Maintained[runner[l].job].package # l
                  THEN "stopping" ELSE "fetched"
  <2>1. private' = private /\ runner[l].pc = "received" /\ RunTo(l, p) /\ rows' = Maintained
    BY <1>8 DEF Fetch
  <2>2. p = "fetched" => Maintained[j].package = l
    OBVIOUS
  <2>3. p \in {"stopping", "fetched"}
    OBVIOUS
  <2> HIDE DEF p
  <2> QED  BY <1>1, <1>2, <1>4, <2>1, <2>2, <2>3, RunnerToChange DEF OnJob, ActiveRunner
<1>9. CASE Retain(l)
  <2>1. runner[l].pc = "fetched"
    BY <1>9 DEF Retain
  <2>2. CASE RunTo(l, "stopping") /\ private' = private
    BY <1>1, <1>2, <1>4, <2>1, <2>2, RunnerToChange DEF OnJob, ActiveRunner
  <2>3. CASE /\ runner' = [runner EXCEPT ![l].pc = "delivered", ![l].held = TRUE]
             /\ private' = [private EXCEPT ![j].reserved = @ + 1]
    <3>1. /\ runner'[l].pc = "delivered" /\ runner'[l].job = j
          /\ \A k \in Launches \ {l} : runner'[k] = runner[k]
      BY <1>1, <2>3 DEF Runner
    <3>2. OnJob(l) /\ HasBytes(l) /\ ActiveRunner(l)
      BY <1>4, <2>1 DEF OnJob, HasBytes, ActiveRunner
    <3>3. RunnersChange
      BY <2>1, <3>1, <3>2 DEF RunnersChange, WentOn, OnJob, ActiveRunner, HasBytes
    <3>4. private' = [private EXCEPT ![j].reserved = private[j].reserved + 1]
      BY <2>3
    <3>5. EntriesGoOn
      BY <1>1, <1>3, <3>2, <3>4 DEF EntriesGoOn, Private
    <3> QED  BY <3>3, <3>5
  <2> QED  BY <1>9, <2>2, <2>3 DEF Retain
<1>10. CASE Return(l)
  <2>1. private' = private /\ runner[l].pc = "delivered"
        /\ (RunTo(l, "stopping") \/ RunTo(l, "done"))
    BY <1>10 DEF Return
  <2> QED  BY <1>1, <1>2, <1>4, <2>1, RunnerToChange DEF OnJob, ActiveRunner
<1>11. CASE Inspect(l)
  <2> DEFINE v == Answer(Maintained[j])
             p == IF Maintained[j].status \in Terminal \cup {"absent"} THEN "done" ELSE "closing"
  <2>1. /\ private' = private /\ runner[l].pc = "stopping"
        /\ runner' = [runner EXCEPT ![l].result = v, ![l].pc = p]
    BY <1>11 DEF Inspect
  <2>2. p \in {"done", "closing"}
    OBVIOUS
  <2> HIDE DEF v, p
  <2> QED  BY <1>1, <1>2, <1>4, <2>1, <2>2, RunnerSettles DEF OnJob, ActiveRunner
<1>12. CASE Close(l)
  <2> DEFINE v == IF MayClose(l) THEN Answer(rows'[j]) ELSE NoAnswer
  <2>1. /\ private' = private /\ runner[l].pc = "closing"
        /\ runner' = [runner EXCEPT ![l].pc = "done", ![l].result = v]
    BY <1>12 DEF Close
  <2> HIDE DEF v
  <2>2. /\ runner'[l].pc = "done" /\ runner'[l].job = runner[l].job
        /\ runner'[l].held = runner[l].held
        /\ \A k \in Launches \ {l} : runner'[k] = runner[k]
    BY <1>1, <2>1 DEF Runner
  <2>3. RunnersChange
    BY <1>4, <2>1, <2>2 DEF RunnersChange, WentOn, OnJob, ActiveRunner, HasBytes
  <2> QED  BY <1>2, <2>1, <2>3
<1>13. CASE Callback(l)
  <2>1. runner' = [runner EXCEPT ![l] = Over] /\ runner[l].pc = "done"
    BY <1>13 DEF Callback
  <2>2. runner'[l].pc = "over" /\ \A k \in Launches \ {l} : runner'[k] = runner[k]
    BY <1>1, <2>1, NoRunnerType
  <2>3. RunnersChange
    BY <2>2 DEF RunnersChange, WentOn, OnJob, ActiveRunner, HasBytes
  <2>4. CASE private[j].launch # l
    <3>1. private' = private
      BY <1>13, <2>4 DEF Callback
    <3> QED  BY <1>2, <2>3, <3>1
  <2>5. CASE private[j].launch = l
    BY <1>13, <2>3, <2>5, CallbackArrives
  <2> QED  BY <2>4, <2>5
<1> QED  BY <1>5, <1>6, <1>7, <1>8, <1>9, <1>10, <1>11, <1>12, <1>13 DEF RunnerStep

(* What becomes of one private entry: only the entry of a launch that is   *)
(* over is dropped or replaced, and bytes are kept, dropped, or arrive.    *)
NoActiveLaunch(j) == \A l \in Launches : ActiveRunner(l) => private[j].launch # l

EntryChange(j) ==
    /\ private'[j].launch = private[j].launch \/ NoActiveLaunch(j)
    /\ private'[j].source # None
       => \/ /\ private'[j].source = private[j].source
             /\ private'[j].launch = private[j].launch
             /\ private'[j].reserved >= private[j].reserved
             /\ ~private'[j].expired => ~private[j].expired
          \/ \E l \in Launches : runner[l].job = j /\ Delivered(l) /\ BytesArrive(l)

LEMMA EntryStays ==
    ASSUME TInv, NEW j \in Jobs, private'[j] = private[j]
    PROVE  EntryChange(j)
<1>1. private[j].reserved \in Nat
  BY DEF TInv, MemoryInv, Private
<1> QED  BY <1>1 DEF EntryChange

LEMMA EntryPurged ==
    ASSUME TInv, NEW S, S \subseteq Expirable, NEW j \in Jobs, NEW e, e = PrivatePurged(S)[j]
    PROVE  e = private[j] \/ (e = NoPrivate /\ NoActiveLaunch(j))
<1>1. e = IF j \in S THEN NoPrivate ELSE private[j]
  BY DEF PrivatePurged
<1>2. j \in S => NoActiveLaunch(j)
  BY DEF Expirable, FutureDone, NoActiveLaunch, ActiveRunner, Running
<1> QED  BY <1>1, <1>2

LEMMA PurgedChange ==
    ASSUME TInv, NEW S, S \subseteq Expirable, NEW j \in Jobs,
           private'[j] = PrivatePurged(S)[j]
    PROVE  EntryChange(j)
<1>1. CASE private'[j] = private[j]
  BY <1>1, EntryStays
<1>2. CASE private'[j] = NoPrivate /\ NoActiveLaunch(j)
  BY <1>2 DEF EntryChange, NoPrivate
<1> QED  BY <1>1, <1>2, EntryPurged

LEMMA RequestChange ==
    ASSUME TInv, Request
    PROVE  RunnersChange /\ \A j \in Jobs : EntryChange(j)
<1>1. /\ runner \in [Launches -> Runner] /\ private \in [Jobs -> Private]
      /\ starting \in [Callers -> Jobs \cup {None}] /\ RowsOK
      /\ Expirable \subseteq Expirable
  BY DEF TInv, RunnerInv, MemoryInv
<1>2. runner' = runner => RunnersChange
  BY RunnerUntouched
<1>3. private' = private => \A j \in Jobs : EntryChange(j)
  BY EntryStays
<1>4. private' = Entries => \A j \in Jobs : EntryChange(j)
  BY <1>1, PurgedChange DEF Entries
<1>5. CASE RequestFails
  <2>1. PICK i \in Gone, S \in SUBSET (Expirable \ Gone) :
           private' = PrivatePurged(S \cup {i})
    BY <1>5 DEF RequestFails
  <2>2. S \cup {i} \subseteq Expirable
    BY <2>1 DEF Gone
  <2>3. runner' = runner
    BY <1>5 DEF RequestFails
  <2> QED  BY <1>2, <2>1, <2>2, <2>3, PurgedChange
<1>6. CASE Get
  BY <1>2, <1>4, <1>6 DEF Get
<1>7. ASSUME NEW c \in Callers, NEW i \in Jobs, BeginStart(c, i)
      PROVE  RunnersChange /\ \A j \in Jobs : EntryChange(j)
  BY <1>2, <1>4, <1>7 DEF BeginStart
<1>8. ASSUME NEW c \in Callers, PreparationFails(c)
      PROVE  RunnersChange /\ \A j \in Jobs : EntryChange(j)
  BY <1>2, <1>3, <1>8 DEF PreparationFails
<1>9. ASSUME NEW c \in Callers, StartWithout(c)
      PROVE  RunnersChange /\ \A j \in Jobs : EntryChange(j)
  BY <1>2, <1>4, <1>9 DEF StartWithout
<1>10. ASSUME NEW i \in Jobs, ApproveJob(i)
       PROVE  RunnersChange /\ \A j \in Jobs : EntryChange(j)
  BY <1>2, <1>4, <1>10 DEF ApproveJob
<1>11. ASSUME NEW i \in Jobs, CancelJob(i)
       PROVE  RunnersChange /\ \A j \in Jobs : EntryChange(j)
  <2> DEFINE l == private[i].launch
             pending == runner[l].pc = "pending"
             v == IF pending \/ FutureDone(i) THEN 0 ELSE Entries[i].reserved
             x == ~pending /\ Entries[i].expired
  <2>1. /\ i \in Kept \ Expirable
        /\ private' = [Entries EXCEPT
             ![i].source = None,
             ![i].reserved = IF pending \/ FutureDone(i) THEN 0 ELSE @,
             ![i].expired = ~pending /\ @]
        /\ runner' = IF pending THEN [runner EXCEPT ![l] = Over] ELSE runner
    BY <1>11 DEF CancelJob, InUse
  <2>2. l \in Launches
    BY <1>1, <2>1 DEF Kept, Private
  <2>3. Entries \in [Jobs -> Private] /\ Entries[i] = private[i]
    BY <1>1, <2>1, PurgedType DEF Entries, PrivatePurged
  <2>4. /\ private'[i].source = None /\ private'[i].launch = private[i].launch
        /\ \A j \in Jobs \ {i} : private'[j] = Entries[j]
    <3>1. private' = [Entries EXCEPT ![i].source = None, ![i].reserved = v, ![i].expired = x]
      BY <2>1, <2>3 DEF Private
    <3> HIDE DEF v, x
    <3> QED  BY <2>3, <3>1 DEF Private
  <2>5. ASSUME NEW j \in Jobs PROVE EntryChange(j)
    <3>1. CASE j = i
      BY <2>4, <3>1 DEF EntryChange
    <3>2. CASE j # i
      BY <1>1, <2>4, <3>2, PurgedChange DEF Entries
    <3> QED  BY <3>1, <3>2
  <2>6. RunnersChange
    <3>1. CASE ~pending
      BY <1>2, <2>1, <3>1
    <3>2. CASE pending
      <4>1. runner'[l].pc = "over" /\ \A k \in Launches \ {l} : runner'[k] = runner[k]
        BY <1>1, <2>1, <2>2, <3>2, NoRunnerType
      <4> QED  BY <4>1 DEF RunnersChange, WentOn, OnJob, ActiveRunner, HasBytes
    <3> QED  BY <3>1, <3>2
  <2> QED  BY <2>5, <2>6
<1>12. ASSUME NEW c \in Callers, Submit(c)
       PROVE  RunnersChange /\ \A j \in Jobs : EntryChange(j)
  <2>0. PICK l : l = Min(Unused)
    OBVIOUS
  <2> DEFINE i == starting[c]
             q == [NoPrivate EXCEPT !.launch = l, !.reserved = 1]
             r == [NoRunner EXCEPT !.pc = "pending", !.job = i]
  <2>1. /\ i # None /\ Unused # {} /\ rows' = Create(Table, i)
        /\ Entries[i] = NoPrivate /\ Create(Table, i)[i].status = "queued"
        /\ private' = [Entries EXCEPT ![i] = q] /\ runner' = [runner EXCEPT ![l] = r]
    BY <1>12, <2>0 DEF Submit
  <2>2. i \in Jobs /\ l \in Launches /\ l \in Unused
    <3>1. l \in Unused
      BY <2>0, <2>1, LeastUnused
    <3> QED  BY <1>1, <2>1, <3>1 DEF Unused
  <2>3. r.pc = "pending" /\ r.job = i /\ r.held = FALSE
    BY DEF NoRunner
  <2>4. q.launch = l /\ q.source = None
    BY DEF NoPrivate
  <2>5. runner[l].pc = "unused"
    BY <2>2 DEF Unused
  <2>6. ~rows'[i].old
    <3>1. CASE i \in Stored(Table)
      <4>1. rows' = Table /\ Table[i].status = "queued"
        BY <2>1, <3>1 DEF Create
      <4>2. Table[i] = Maintained[i]
        BY <1>1, <2>2, <4>1, PurgedIs DEF Table, Terminal
      <4>3. /\ RowOK(Maintained[i])
            /\ Maintained[i].old => Maintained[i].lease = "live"
        BY <1>1, <2>2, MaintainMoves, MaintainedIs DEF RowsOK, RowMove
      <4>4. Maintained[i].lease = "none"
        BY <4>1, <4>2, <4>3 DEF RowOK, Working
      <4> QED  BY <4>1, <4>2, <4>3, <4>4
    <3>2. CASE i \notin Stored(Table)
      <4>1. rows' = Put(Table, i, CreateRecord)
        BY <2>1, <3>2 DEF Create
      <4>2. rows' = [Table EXCEPT ![i] = Written(CreateRecord)]
        BY <4>1 DEF Put, Written
      <4>3. Table \in [Jobs -> Row] /\ CreateRecord \in Row
        BY <1>1, PurgedMoves, NoRowIsOK DEF Table, TableMoves, CreateRecord, RowOK, Row, Status
      <4>4. Written(CreateRecord).old = FALSE
        BY <4>3, WrittenFields
      <4> QED  BY <2>2, <4>2, <4>3, <4>4
    <3> QED  BY <3>1, <3>2
  <2>7. Entries \in [Jobs -> Private]
    BY <1>1, PurgedType DEF Entries
  <2> HIDE DEF i, q, r
  <2>8. /\ private'[i] = q /\ \A j \in Jobs \ {i} : private'[j] = Entries[j]
        /\ runner'[l] = r /\ \A k \in Launches \ {l} : runner'[k] = runner[k]
        /\ rows'[i].status = "queued"
    BY <1>1, <2>1, <2>2, <2>7
  <2>9. NoActiveLaunch(i)
    <3>1. CASE Entries[i] = private[i]
      <4>1. private[i].launch = None
        BY <2>1, <3>1 DEF NoPrivate
      <4> QED  BY <4>1, OptimizationAssumption DEF NoActiveLaunch
    <3> QED  BY <1>1, <2>2, <3>1, EntryPurged DEF Entries
  <2>10. ASSUME NEW j \in Jobs PROVE EntryChange(j)
    <3>1. CASE j = i
      BY <2>4, <2>8, <2>9, <3>1 DEF EntryChange
    <3>2. CASE j # i
      BY <1>1, <2>8, <3>2, PurgedChange DEF Entries
    <3> QED  BY <3>1, <3>2
  <2>11. WasSubmitted(l)
    <3>1. ~HasBytes(l)' /\ runner'[l].job = i
      BY <2>3, <2>8 DEF HasBytes
    <3>2. ~\E k \in Launches : ActiveRunner(k) /\ private[i].launch = k
      BY <2>9 DEF NoActiveLaunch
    <3> QED  BY <2>2, <2>4, <2>5, <2>6, <2>8, <3>1, <3>2 DEF WasSubmitted
  <2>12. RunnersChange
    BY <2>5, <2>8, <2>11 DEF RunnersChange, WentOn, OnJob, ActiveRunner, HasBytes
  <2> QED  BY <2>10, <2>12
<1> QED  BY <1>5, <1>6, <1>7, <1>8, <1>9, <1>10, <1>11, <1>12 DEF Request

LEMMA RunnersOver ==
    ASSUME TInv, CrashServer
    PROVE  /\ \A k \in Launches : ~OnJob(k)' /\ ~ActiveRunner(k)'
           /\ \A j \in Jobs : private'[j].source = None
<1>1. /\ runner' = [l \in Launches |-> IF runner[l].pc = "unused" THEN NoRunner ELSE Over]
      /\ private' = [j \in Jobs |-> NoPrivate]
  BY DEF CrashServer
<1>2. NoRunner.pc = "unused" /\ Over.pc = "over" /\ NoPrivate.source = None
  BY NoRunnerType DEF NoRunner, NoPrivate
<1> QED  BY <1>1, <1>2 DEF OnJob, ActiveRunner, Running

LEMMA StepChange ==
    ASSUME TInv, [Next]_vars, ~CrashServer
    PROVE  RunnersChange /\ \A j \in Jobs : EntryChange(j)
<1>1. private \in [Jobs -> Private] /\ \A j \in Jobs : private[j].reserved \in Nat
  BY DEF TInv, MemoryInv, Private
<1>2. ASSUME NEW l \in Launches, RunnerStep(l)
      PROVE  RunnersChange /\ \A j \in Jobs : EntryChange(j)
  <2>1. CASE EntriesGoOn
    <3>1. \A j \in Jobs : EntryChange(j)
      BY <2>1 DEF EntriesGoOn, EntryChange
    <3> QED  BY <1>2, <3>1, RunnerStepChange
  <2>2. CASE BytesArrive(l)
    <3>1. ASSUME NEW j \in Jobs PROVE EntryChange(j)
      <4>1. CASE j # runner[l].job
        <5>1. private'[j] = private[j]
          BY <2>2, <4>1 DEF BytesArrive
        <5> QED  BY <5>1, EntryStays
      <4>2. CASE j = runner[l].job
        <5>1. /\ private'[j].launch = private[j].launch
              /\ private'[j].source = IF Delivered(l) THEN l ELSE None
          BY <2>2, <4>2 DEF BytesArrive
        <5> QED  BY <2>2, <4>2, <5>1 DEF EntryChange
      <4> QED  BY <4>1, <4>2
    <3> QED  BY <1>2, <3>1, RunnerStepChange
  <2> QED  BY <1>2, <2>1, <2>2, RunnerStepChange
<1>3. runner' = runner /\ private' = private
      => RunnersChange /\ \A j \in Jobs : EntryChange(j)
  BY RunnerUntouched, EntryStays
<1>4. CASE Time
  <2>1. runner' = runner
    BY <1>4 DEF Time, DeadlinePasses, PrivateExpires, RowAges
  <2>2. CASE private' = private
    BY <1>3, <2>1, <2>2
  <2>3. CASE \E i \in Jobs : PrivateExpires(i)
    <3>1. PICK i \in Jobs : private' = [private EXCEPT ![i].expired = TRUE]
      BY <2>3 DEF PrivateExpires
    <3>2. ASSUME NEW j \in Jobs PROVE EntryChange(j)
      <4>1. /\ private'[j].launch = private[j].launch /\ private'[j].source = private[j].source
            /\ private'[j].reserved = private[j].reserved
            /\ ~private'[j].expired => ~private[j].expired
        BY <1>1, <3>1 DEF Private
      <4> QED  BY <1>1, <4>1 DEF EntryChange
    <3> QED  BY <2>1, <3>2, RunnerUntouched
  <2>4. private' = private \/ \E i \in Jobs : PrivateExpires(i)
    BY <1>4 DEF Time, DeadlinePasses, RowAges
  <2> QED  BY <2>2, <2>3, <2>4
<1> QED  BY <1>2, <1>3, <1>4, RequestChange DEF Next, vars

LEMMA MemoryStays ==
    ASSUME TInv, KInv, [Next]_vars
    PROVE  KInv'
<1>1. CASE CrashServer
  BY <1>1, RunnersOver DEF KInv, EntryOfRunner, BytesOfLaunch, RowOfRunner, BytesOfPackage
<1>2. CASE ~CrashServer
  <2>1. RunnersChange /\ \A j \in Jobs : EntryChange(j)
    BY <1>2, StepChange
  <2>2. ASSUME NEW k \in Launches, OnJob(k)', WentOn(k)
        PROVE  /\ ActiveRunner(k)' => private'[runner'[k].job].launch = k
               /\ ~rows'[runner'[k].job].old /\ rows'[runner'[k].job].status # "absent"
               /\ HasBytes(k)' => \/ rows'[runner'[k].job].status \in StoppedStatus
                                  \/ rows'[runner'[k].job].package = k
    <3> DEFINE j == runner[k].job
    <3>1. j \in Jobs /\ Stays(rows[j], rows'[j]) /\ runner'[k].job = j
      BY <2>2, RunnersRowsStay DEF WentOn
    <3>2. ASSUME ActiveRunner(k)' PROVE private'[j].launch = k
      <4>1. ActiveRunner(k) /\ private[j].launch = k
        BY <2>2, <3>2 DEF WentOn, KInv, EntryOfRunner
      <4> QED  BY <2>1, <3>1, <4>1 DEF EntryChange, NoActiveLaunch
    <3>3. ASSUME HasBytes(k)'
          PROVE  rows'[j].status \in StoppedStatus \/ rows'[j].package = k
      <4>1. CASE HasBytes(k)
        <5>1. rows[j].status \in StoppedStatus \/ rows[j].package = k
          BY <2>2, <4>1 DEF WentOn, KInv, BytesOfPackage
        <5> QED  BY <3>1, <5>1, OptimizationAssumption DEF Stays
      <4>2. CASE rows' = Maintained /\ Maintained[j].package = k
        BY <4>2
      <4> QED  BY <2>2, <3>3, <4>1, <4>2 DEF WentOn
    <3> QED  BY <3>1, <3>2, <3>3 DEF Stays
  <2>3. ASSUME NEW k \in Launches, WasSubmitted(k)
        PROVE  /\ private'[runner'[k].job].launch = k
               /\ ~rows'[runner'[k].job].old /\ rows'[runner'[k].job].status # "absent"
               /\ ~HasBytes(k)'
    BY <2>3 DEF WasSubmitted
  <2>4. ASSUME NEW j \in Jobs, private'[j].source # None
        PROVE  /\ private'[j].source = private'[j].launch
               /\ runner'[private'[j].launch].pc = "over"
               /\ private'[j].reserved > 0
    <3>1. CASE /\ private'[j].source = private[j].source
               /\ private'[j].launch = private[j].launch
               /\ private'[j].reserved >= private[j].reserved
      <4>1. /\ private[j].source = private[j].launch
            /\ runner[private[j].launch].pc = "over" /\ private[j].reserved > 0
        BY <2>4, <3>1 DEF KInv, BytesOfLaunch
      <4>2. private[j].launch \in Launches /\ private[j].reserved \in Nat
        BY <2>4, <3>1, <4>1 DEF TInv, MemoryInv, Private
      <4>3. private'[j].reserved \in Nat
        BY NextMoves DEF TInv, MemoryInv, Private
      <4> QED  BY <2>1, <3>1, <4>1, <4>2, <4>3 DEF RunnersChange
    <3>2. ASSUME NEW l \in Launches, runner[l].job = j, Delivered(l), BytesArrive(l)
          PROVE  /\ private'[j].source = private'[j].launch
                 /\ runner'[private'[j].launch].pc = "over"
                 /\ private'[j].reserved > 0
      BY <3>2 DEF BytesArrive
    <3> QED  BY <2>1, <2>4, <3>1, <3>2 DEF EntryChange
  <2>5. EntryOfRunner'
    <3>1. \A k \in Launches : ActiveRunner(k)' => OnJob(k)'
      BY DEF ActiveRunner, OnJob, Running
    <3> QED  BY <2>1, <2>2, <2>3, <3>1 DEF RunnersChange, EntryOfRunner
  <2>6. BytesOfLaunch'
    BY <2>4 DEF BytesOfLaunch
  <2>7. RowOfRunner'
    BY <2>1, <2>2, <2>3 DEF RunnersChange, RowOfRunner
  <2>8. BytesOfPackage'
    BY <2>1, <2>2, <2>3 DEF RunnersChange, BytesOfPackage
  <2> QED  BY <2>5, <2>6, <2>7, <2>8 DEF KInv
<1> QED  BY <1>1, <1>2

(* A worker writes only a row that it holds a lease of, or claims.         *)
LEMMA WorkerWrites ==
    ASSUME TInv, NEW l \in Launches, ChildStep(l)
    PROVE  \/ rows' = rows \/ rows' = Maintained
           \/ /\ \/ Maintained[child[l].job].lease = "live"
                 \/ Maintained[child[l].job].status = "queued"
              /\ \E w : rows' = Put(Maintained, child[l].job, w)
<1> DEFINE i == child[l].job
           Goal == \/ rows' = rows \/ rows' = Maintained
                   \/ /\ Maintained[i].lease = "live" \/ Maintained[i].status = "queued"
                      /\ \E w : rows' = Put(Maintained, i, w)
<1>1. HoldsLease(l) => Maintained[i].lease = "live"
  BY DEF HoldsLease, LeaseHeld
<1>2. WriteRefused(l) => Goal
  BY DEF WriteRefused
<1>3. ASSUME HoldsLease(l), NEW next, NEW pc,
             \/ WriteUnderLease(l, SwapCharge(i), pc) \/ WriteUnderLease(l, SwapFail(i, next), pc)
             \/ WriteUnderLease(l, SwapAdvance(i, next), pc)
             \/ WriteUnderLease(l, SwapSelect(i, l), pc)
      PROVE  Goal
  BY <1>1, <1>3 DEF WriteUnderLease, SwapCharge, SwapFail, SwapAdvance, SwapSelect
<1>4. ClaimJob(l) => Goal
  BY DEF ClaimJob, MayClaim, Claim
<1>5. ChargeInitial(l) => Goal
  BY <1>3 DEF ChargeInitial
<1>6. Checkpoint(l) => Goal
  BY <1>1 DEF Checkpoint, Heartbeat
<1>7. Reserve(l) => Goal
  BY <1>1, <1>2 DEF Reserve, SwapCharge, SwapFail
<1>8. ASSUME AdvancePhase(l) PROVE Goal
  <2>1. CASE ~HoldsLease(l)
    BY <1>2, <1>8, <2>1 DEF AdvancePhase
  <2>2. CASE HoldsLease(l)
    <3>1. PICK next : WriteUnderLease(l, IF next = "budget_exhausted"
                                         THEN SwapFail(i, next) ELSE SwapAdvance(i, next),
                                      "working")
      BY <1>8, <2>2 DEF AdvancePhase
    <3> QED  BY <1>3, <2>2, <3>1
  <2> QED  BY <2>1, <2>2
<1>9. Publish(l) => Goal
  BY <1>2, <1>3 DEF Publish
<1>10. GiveUp(l) => Goal
  BY DEF GiveUp
<1>11. ChargeFailure(l) => Goal
  BY <1>3 DEF ChargeFailure
<1>12. Fail(l) => Goal
  BY <1>3 DEF Fail
<1>13. Crash(l) => Goal
  BY DEF Crash
<1> QED  BY <1>4, <1>5, <1>6, <1>7, <1>8, <1>9, <1>10, <1>11, <1>12, <1>13 DEF ChildStep

LEMMA OtherRows ==
    ASSUME NEW table, NEW i, NEW j, i # j, NEW w, DOMAIN table = Jobs, j \in Jobs
    PROVE  Put(table, i, w)[j] = table[j]
BY DEF Put

(* A row whose candidate the service keeps changes only by approval.       *)
LEMMA KeptRowStays ==
    ASSUME TInv, KInv, BytesUnderReview, [Next]_vars, NEW j \in Jobs,
           private[j].source # None, ~private[j].expired, private'[j].source # None
    PROVE  \/ rows'[j] = rows[j]
           \/ /\ rows[j].status = "awaiting_approval" /\ rows'[j].status = "completed"
              /\ ~rows'[j].old /\ rows'[j].package = rows[j].package
<1> DEFINE r == rows[j]
           Goal == \/ rows'[j] = r
                   \/ /\ r.status = "awaiting_approval" /\ rows'[j].status = "completed"
                      /\ ~rows'[j].old /\ rows'[j].package = r.package
<1>1. /\ ~r.old /\ r.status \in {"awaiting_approval", "completed"} /\ r.lease = "none"
      /\ RowOK(r) /\ RowsOK
  <2>1. ~r.old /\ r.status \in {"awaiting_approval", "completed"} /\ RowOK(r) /\ RowsOK
    BY DEF BytesUnderReview, TInv, RowsOK
  <2> QED  BY <2>1 DEF RowOK, Working
<1>2. Maintained[j] = r
  BY <1>1, MaintainedIs DEF Maintain
<1>3. j \in Kept /\ j \notin Expirable /\ private[j].launch \in Launches
      /\ runner[private[j].launch].pc = "over"
  BY DEF KInv, BytesOfLaunch, Kept, Expirable, TInv, MemoryInv, Private
<1>4. \A S : S \subseteq Expirable => RowsPurged(S)[j] = r
  BY <1>1, <1>2, <1>3, PurgedIs
<1>5. Table[j] = r /\ DOMAIN Table = Jobs /\ DOMAIN Maintained = Jobs
  <2>1. Table[j] = r
    BY <1>4 DEF Table
  <2> QED  BY <2>1 DEF Table, RowsPurged, Maintained
<1>6. rows' \in {rows, Maintained, Table} => Goal
  BY <1>2, <1>5
<1>7. ASSUME NEW i \in Jobs, rows' = Create(Table, i) PROVE Goal
  <2>1. CASE i = j
    <3>1. j \in Stored(Table)
      BY <1>1, <1>5 DEF Stored
    <3> QED  BY <1>6, <1>7, <2>1, <3>1 DEF Create
  <2>2. CASE i # j
    BY <1>5, <1>6, <1>7, <2>2, OtherRows DEF Create
  <2> QED  BY <2>1, <2>2
<1>8. ASSUME NEW l \in Launches, RunnerStep(l) PROVE Goal
  <2>1. CASE Close(l)
    <3> DEFINE i == runner[l].job
               code == IF l \in overdue THEN "budget_exhausted" ELSE "interrupted"
    <3>1. runner[l].pc = "closing" /\
          rows' = IF MayClose(l) THEN Cancel(Maintained, i, code) ELSE Maintained
      BY <2>1 DEF Close
    <3>2. i # j
      <4>1. private[i].launch = l
        BY <3>1 DEF KInv, EntryOfRunner, ActiveRunner, Running
      <4> QED  BY <1>3, <3>1, <4>1
    <3> HIDE DEF code, i
    <3>3. CASE MayClose(l)
      BY <1>2, <1>5, <3>1, <3>2, <3>3, OtherRows DEF Cancel
    <3> QED  BY <1>6, <3>1, <3>3
  <2>2. CASE ~Close(l)
    <3>1. rows' \in {rows, Maintained}
      BY <1>8, <2>2 DEF RunnerStep, Begin, ExchangeStops, Receive, Fetch, Retain, Return,
         Inspect, Callback
    <3> QED  BY <1>6, <3>1
  <2> QED  BY <2>1, <2>2
<1>9. ASSUME NEW l \in Launches, ChildStep(l) PROVE Goal
  <2>1. CASE rows' \in {rows, Maintained}
    BY <1>6, <2>1
  <2>2. ASSUME Maintained[child[l].job].lease = "live" \/ Maintained[child[l].job].status = "queued",
               NEW w, rows' = Put(Maintained, child[l].job, w)
        PROVE  Goal
    <3>1. child[l].job # j
      BY <1>1, <1>2, <2>2
    <3> QED  BY <1>2, <1>5, <2>2, <3>1, OtherRows
  <2> QED  BY <1>9, <2>1, <2>2, WorkerWrites
<1>10. ASSUME Request PROVE Goal
  <2>1. CASE RequestFails
    <3>1. PICK i \in Gone, S \in SUBSET (Expirable \ Gone) : rows' = RowsPurged(S)
      BY <2>1 DEF RequestFails
    <3> QED  BY <1>4, <3>1
  <2>2. CASE Get
    BY <1>6, <2>2 DEF Get
  <2>3. ASSUME NEW c \in Callers, NEW i \in Jobs, BeginStart(c, i) PROVE Goal
    BY <1>6, <2>3 DEF BeginStart
  <2>4. ASSUME NEW c \in Callers, PreparationFails(c) PROVE Goal
    BY <1>6, <2>4 DEF PreparationFails
  <2>5. ASSUME NEW c \in Callers, Submit(c) PROVE Goal
    <3>1. starting[c] \in Jobs /\ rows' = Create(Table, starting[c])
      BY <2>5 DEF Submit, TInv, MemoryInv
    <3> QED  BY <1>7, <3>1
  <2>6. ASSUME NEW c \in Callers, StartWithout(c) PROVE Goal
    <3>1. /\ starting[c] \in Jobs
          /\ rows' \in {rows, Table} \/ rows' = Create(Table, starting[c])
      BY <2>6 DEF StartWithout, TInv, MemoryInv
    <3> QED  BY <1>6, <1>7, <3>1
  <2>7. ASSUME NEW i \in Jobs, CancelJob(i) PROVE Goal
    <3>1. rows' = Cancel(Table, i, "cancelled")
      BY <2>7 DEF CancelJob
    <3>2. i # j
      <4>1. ASSUME i = j PROVE FALSE
        <5> DEFINE pending == runner[private[i].launch].pc = "pending"
                   v == IF pending \/ FutureDone(i) THEN 0 ELSE Entries[i].reserved
                   x == ~pending /\ Entries[i].expired
        <5>1. Entries \in [Jobs -> Private]
          BY PurgedType DEF Entries, TInv, MemoryInv
        <5>2. private' = [Entries EXCEPT ![i].source = None, ![i].reserved = v, ![i].expired = x]
          BY <2>7, <5>1 DEF CancelJob, Private
        <5> HIDE DEF v, x
        <5>3. private'[i].source = None
          BY <5>1, <5>2 DEF Private
        <5> QED  BY <4>1, <5>3
      <4> QED  BY <4>1
    <3> QED  BY <1>5, <3>1, <3>2, OtherRows DEF Cancel
  <2>8. ASSUME NEW i \in Jobs, ApproveJob(i) PROVE Goal
    <3>1. rows' = Approve(Table, i) /\ Table[i].status = "awaiting_approval"
      BY <2>8 DEF ApproveJob, MayApproveRow, MayApprove
    <3>2. CASE i # j
      BY <1>5, <3>1, <3>2, OtherRows DEF Approve
    <3>3. CASE i = j
      <4> DEFINE s == AdvanceRecord(ApproveRecord(r), "completed")
      <4>1. rows' = [Table EXCEPT ![j] = Written(s)]
        BY <1>5, <3>1, <3>3 DEF Approve, Put, Written
      <4>2. s \in Row /\ s.status = "completed" /\ s.package = r.package
        <5>1. r \in Row /\ "approved" \in Status /\ "completed" \in Status
          BY <1>1 DEF RowOK, Status, Selected
        <5> DEFINE a == ApproveRecord(r)
        <5>2. a \in Row /\ a.package = r.package
          <6>1. r.revision + 1 \in Nat
            BY <5>1 DEF Row
          <6> QED  BY <5>1, <6>1 DEF ApproveRecord, Row
        <5> HIDE DEF a
        <5>3. a.revision + 1 \in Nat
          BY <5>2 DEF Row
        <5>4. AdvanceRecord(a, "completed") \in Row
              /\ AdvanceRecord(a, "completed").status = "completed"
              /\ AdvanceRecord(a, "completed").package = a.package
          BY <5>1, <5>2, <5>3 DEF AdvanceRecord, Row
        <5> QED  BY <5>2, <5>4 DEF a
      <4> HIDE DEF s
      <4>3. rows'[j] = Written(s)
        BY <1>5, <4>1
      <4>4. Written(s).status = "completed" /\ Written(s).old = FALSE
            /\ Written(s).package = r.package
        BY <4>2, WrittenFields
      <4> QED  BY <1>5, <3>1, <3>3, <4>3, <4>4
    <3> QED  BY <3>2, <3>3
  <2> QED  BY <1>10, <2>1, <2>2, <2>3, <2>4, <2>5, <2>6, <2>7, <2>8 DEF Request
<1>11. ASSUME Time PROVE Goal
  <2>1. CASE rows' = rows
    BY <2>1
  <2>2. ASSUME NEW i \in Jobs, RowAges(i) PROVE Goal
    <3>1. i # j
      BY <1>3, <2>2 DEF RowAges
    <3>2. rows' = [rows EXCEPT ![i].old = TRUE]
      BY <2>2 DEF RowAges
    <3> QED  BY <1>1, <3>1, <3>2 DEF RowsOK
  <2>3. ASSUME NEW i \in Jobs, LeaseLapses(i) PROVE Goal
    <3>1. rows[i].lease = "live" /\ rows' = [rows EXCEPT ![i].lease = "lapsed"]
      BY <2>3 DEF LeaseLapses
    <3> QED  BY <1>1, <3>1 DEF RowsOK
  <2> QED  BY <1>11, <2>1, <2>2, <2>3 DEF Time, DeadlinePasses, PrivateExpires
<1>12. CrashServer => Goal
  BY <1>6 DEF CrashServer
<1>13. UNCHANGED vars => Goal
  BY <1>6 DEF vars
<1> QED  BY <1>8, <1>9, <1>10, <1>11, <1>12, <1>13 DEF Next

(* The callback keeps bytes only of the record its supervisor left.        *)
LEMMA ArrivedUnderReview ==
    ASSUME TInv, KInv, NEW l \in Launches, Delivered(l), BytesArrive(l)
    PROVE  LET j == runner[l].job
           IN  /\ ~rows'[j].old /\ rows'[j].status = "awaiting_approval"
               /\ rows'[j].package = private'[j].source
<1> DEFINE j == runner[l].job
           m == Maintained[j]
<1>1. j \in Jobs /\ OnJob(l) /\ HasBytes(l)
  BY DEF BytesArrive, Delivered, TInv, RunnerInv, OnJob, HasBytes
<1>2. m.status = "awaiting_approval"
  BY DEF Delivered, Answer
<1>3. m = rows[j]
  <2>1. "awaiting_approval" \notin Terminal \cup {"absent"}
    BY DEF Terminal
  <2> QED  BY <1>1, <1>2, <2>1, OpenUntouched DEF TInv
<1>4. ~rows[j].old
  BY <1>1 DEF KInv, RowOfRunner
<1>5. rows[j].package = l
  <2>1. "awaiting_approval" \notin StoppedStatus
    BY DEF StoppedStatus, Terminal
  <2> QED  BY <1>1, <1>2, <1>3, <2>1 DEF KInv, BytesOfPackage
<1> QED  BY <1>2, <1>3, <1>4, <1>5 DEF BytesArrive

LEMMA ReviewStays ==
    ASSUME TInv, KInv, BytesUnderReview, [Next]_vars
    PROVE  BytesUnderReview'
<1> SUFFICES ASSUME NEW j \in Jobs, private'[j].source # None, ~private'[j].expired
             PROVE  /\ ~rows'[j].old
                    /\ rows'[j].status \in {"awaiting_approval", "completed"}
                    /\ rows'[j].package = private'[j].source
  BY DEF BytesUnderReview
<1>1. ~CrashServer
  BY RunnersOver
<1>2. EntryChange(j)
  BY <1>1, StepChange
<1>3. CASE private'[j].source = private[j].source /\ ~private[j].expired
  BY <1>3, KeptRowStays DEF BytesUnderReview
<1>4. CASE \E l \in Launches : runner[l].job = j /\ Delivered(l) /\ BytesArrive(l)
  BY <1>4, ArrivedUnderReview
<1> QED  BY <1>2, <1>3, <1>4 DEF EntryChange

LEMMA MemoryAlways == Spec => [](TInv /\ KInv /\ BytesUnderReview)
<1>1. Init => KInv /\ BytesUnderReview
  <2> SUFFICES ASSUME Init PROVE KInv /\ BytesUnderReview
    OBVIOUS
  <2>1. /\ \A l \in Launches : runner[l].pc = "unused"
        /\ \A j \in Jobs : private[j].source = None
    BY DEF Init, NoRunner, NoPrivate
  <2> QED  BY <2>1 DEF KInv, EntryOfRunner, BytesOfLaunch, RowOfRunner, BytesOfPackage,
           BytesUnderReview, ActiveRunner, OnJob, Running
<1>2. TInv /\ KInv /\ BytesUnderReview /\ [Next]_vars => (KInv /\ BytesUnderReview)'
  BY MemoryStays, ReviewStays
<1> QED  BY <1>1, <1>2, TypesAlways, PTL DEF Spec

(* The candidate's bytes are kept only for a job under review or           *)
(* completed, and only those its stored package names, whichever way the   *)
(* callback of a finished future, a cancellation, an approval, an orphaned *)
(* worker and the purge of another request interleave.                     *)
THEOREM CandidateIsKeptForReview == Spec => []CandidateKeptForReview
<1>1. BytesUnderReview => CandidateKeptForReview
  BY DEF BytesUnderReview, CandidateKeptForReview
<1> QED  BY <1>1, MemoryAlways, PTL

-----------------------------------------------------------------------------
(* What is reserved, and how many jobs are at work.  Only the callback and *)
(* retain count without looking at the bound at the start of a request:    *)
(* the callback because what it leaves was reserved before, which is so    *)
(* until the job is stopped.                                               *)

ResultReserved ==
    \A l \in Launches :
        OnJob(l) /\ private[runner[l].job].launch = l
        => private[runner[l].job].reserved > 0 \/ rows[runner[l].job].status \in StoppedStatus

BytesBounded ==
    /\ IsFiniteSet(ReservedUnits(private))
    /\ Reserved(private) <= MaxPrivateBytes

JobsBounded ==
    /\ IsFiniteSet(Active) /\ IsFiniteSet(Preparing)
    /\ Cardinality(Active) + Cardinality(Preparing) <= 2

(* What a request does to the entries, beside a submission and a           *)
(* cancellation: it drops some.                                            *)
DropsEntries == \A j \in Jobs : private'[j] \in {private[j], NoPrivate}

LEMMA PurgeDrops ==
    ASSUME NEW S, NEW j \in Jobs
    PROVE  PrivatePurged(S)[j] \in {private[j], NoPrivate}
BY DEF PrivatePurged

LEMMA RequestReserves ==
    ASSUME Request
    PROVE  \/ DropsEntries /\ runner' = runner
           \/ \E c \in Callers : Submit(c)
           \/ \E j \in Jobs : CancelJob(j)
<1>1. private' = private \/ (\E S : private' = PrivatePurged(S)) => DropsEntries
  BY PurgeDrops DEF DropsEntries
<1> QED
  BY <1>1 DEF Request, RequestFails, Get, BeginStart, PreparationFails, StartWithout,
     ApproveJob, Entries

LEMMA CancelReserves ==
    ASSUME TInv, NEW i \in Jobs, CancelJob(i)
    PROVE  /\ \A j \in Jobs \ {i} : private'[j] \in {private[j], NoPrivate}
           /\ private'[i].launch = private[i].launch
           /\ private'[i].reserved \in {0, private[i].reserved}
           /\ rows'[i].status \in StoppedStatus
           /\ \A l \in Launches : runner'[l] \in {runner[l], Over}
<1> DEFINE l == private[i].launch
           pending == runner[l].pc = "pending"
           v == IF pending \/ FutureDone(i) THEN 0 ELSE Entries[i].reserved
           x == ~pending /\ Entries[i].expired
<1>1. /\ runner \in [Launches -> Runner] /\ private \in [Jobs -> Private] /\ RowsOK
  BY DEF TInv, RunnerInv, MemoryInv
<1>2. /\ i \in Kept \ Expirable
      /\ private' = [Entries EXCEPT
           ![i].source = None,
           ![i].reserved = IF pending \/ FutureDone(i) THEN 0 ELSE @,
           ![i].expired = ~pending /\ @]
      /\ runner' = IF pending THEN [runner EXCEPT ![l] = Over] ELSE runner
      /\ rows' = Cancel(Table, i, "cancelled") /\ MayFail(Table[i])
  BY DEF CancelJob, InUse, MayCancel
<1>3. Entries \in [Jobs -> Private] /\ Entries[i] = private[i]
  BY <1>1, <1>2, PurgedType DEF Entries, PrivatePurged
<1>4. /\ private'[i].launch = private[i].launch
      /\ private'[i].reserved \in {0, private[i].reserved}
      /\ \A j \in Jobs \ {i} : private'[j] = Entries[j]
  <2>1. private' = [Entries EXCEPT ![i].source = None, ![i].reserved = v, ![i].expired = x]
    BY <1>2, <1>3 DEF Private
  <2>2. v \in {0, private[i].reserved}
    BY <1>3
  <2> HIDE DEF v, x
  <2> QED  BY <1>3, <2>1, <2>2 DEF Private
<1>5. \A j \in Jobs \ {i} : private'[j] \in {private[j], NoPrivate}
  BY <1>4, PurgeDrops DEF Entries
<1>6. \A k \in Launches : runner'[k] \in {runner[k], Over}
  BY <1>1, <1>2
<1>7. rows'[i].status \in StoppedStatus
  <2> DEFINE s == Stop(Table[i], "cancelled")
  <2>1. rows' = [Table EXCEPT ![i] = Written(s)]
    BY <1>2 DEF Cancel, Put, Written
  <2>2. Table[i] = Maintained[i] /\ Table \in [Jobs -> Row]
    BY <1>1, <1>2, PurgedIs, PurgedMoves DEF Table, TableMoves
  <2>3. RowOK(Table[i])
    BY <1>1, <1>2, <2>2, OpenUntouched DEF MayFail
  <2>4. s \in Row /\ s.status \in StoppedStatus
    <3>1. "cancelled" \in FailureCode
      BY DEF FailureCode, Terminal
    <3> QED  BY <1>2, <2>3, <3>1, StopMoves DEF StoppedStatus, RowMove, RowOK
  <2> HIDE DEF s
  <2> QED  BY <2>1, <2>2, <2>4, WrittenFields
<1> QED  BY <1>4, <1>5, <1>6, <1>7

(* A step other than a submission and retain reserves no more, and no job  *)
(* that is done comes to work again.                                       *)
DoneStays ==
    \A l \in Launches : runner[l].pc \in {"done", "over"} => runner'[l].pc \in {"done", "over"}

Quiet ==
    /\ \A j \in Jobs : /\ private'[j].launch \in {private[j].launch, None}
                       /\ private'[j].reserved <= private[j].reserved
    /\ DoneStays

LEMMA DropsQuietly ==
    ASSUME TInv, NEW j \in Jobs, private'[j] \in {private[j], NoPrivate}
    PROVE  /\ private'[j].launch \in {private[j].launch, None}
           /\ private'[j].reserved <= private[j].reserved
<1>1. private[j].reserved \in Nat
  BY DEF TInv, MemoryInv, Private
<1> QED  BY <1>1 DEF NoPrivate

LEMMA QuietStep ==
    ASSUME TInv, KInv, ResultReserved, [Next]_vars,
           ~\E c \in Callers : Submit(c), ~\E l \in Launches : Retain(l)
    PROVE  Quiet
<1>1. /\ runner \in [Launches -> Runner] /\ private \in [Jobs -> Private]
      /\ \A j \in Jobs : private[j].reserved \in Nat
  BY DEF TInv, RunnerInv, MemoryInv, Private
<1>2. DropsEntries /\ runner' = runner => Quiet
  BY DropsQuietly DEF DropsEntries, Quiet, DoneStays
<1>3. private' = private => DropsEntries
  BY DEF DropsEntries
<1>4. private' = private /\ runner' = runner => Quiet
  BY <1>2, <1>3
<1>5. Over.pc = "over" /\ NoRunner.pc = "unused"
  BY NoRunnerType DEF NoRunner
<1>6. ASSUME NEW i \in Jobs, CancelJob(i) PROVE Quiet
  <2>1. ASSUME NEW j \in Jobs
        PROVE  /\ private'[j].launch \in {private[j].launch, None}
               /\ private'[j].reserved <= private[j].reserved
    BY <1>1, <1>6, CancelReserves, DropsQuietly
  <2>2. DoneStays
    BY <1>5, <1>6, CancelReserves DEF DoneStays
  <2> QED  BY <2>1, <2>2 DEF Quiet
<1>7. CASE Request
  BY <1>2, <1>6, <1>7, RequestReserves
<1>8. CASE CrashServer
  <2>1. /\ runner' = [l \in Launches |-> IF runner[l].pc = "unused" THEN NoRunner ELSE Over]
        /\ private' = [j \in Jobs |-> NoPrivate]
    BY <1>8 DEF CrashServer
  <2>2. DoneStays
    BY <1>5, <2>1 DEF DoneStays
  <2> QED  BY <2>1, <2>2, DropsQuietly DEF Quiet
<1>9. CASE Time
  <2>1. runner' = runner
    BY <1>9 DEF Time, DeadlinePasses, PrivateExpires, RowAges
  <2>2. CASE private' = private
    BY <1>4, <2>1, <2>2
  <2>3. CASE \E i \in Jobs : PrivateExpires(i)
    <3>1. PICK i \in Jobs : private' = [private EXCEPT ![i].expired = TRUE]
      BY <2>3 DEF PrivateExpires
    <3>2. \A j \in Jobs : /\ private'[j].launch = private[j].launch
                          /\ private'[j].reserved = private[j].reserved
      BY <1>1, <3>1 DEF Private
    <3> QED  BY <1>1, <2>1, <3>2 DEF Quiet, DoneStays
  <2> QED  BY <1>9, <2>2, <2>3 DEF Time, DeadlinePasses, RowAges
<1>10. ASSUME NEW l \in Launches, RunnerStep(l) PROVE Quiet
  <2> DEFINE j == runner[l].job
  <2>1. OnJob(l) /\ j \in Jobs
    <3>1. OnJob(l)
      BY <1>10 DEF RunnerStep, Begin, ExchangeStops, Receive, Fetch, Retain, Return, Inspect,
         Close, Callback, OnJob
    <3> QED  BY <3>1 DEF TInv, RunnerInv, OnJob
  <2>2. DoneStays
    <3>1. \A k \in Launches \ {l} : runner'[k] = runner[k]
      BY <1>1, <1>10 DEF RunnerStep, Begin, ExchangeStops, Receive, Fetch, Retain, Return,
         Inspect, Close, Callback, RunTo
    <3>2. runner[l].pc \in {"done", "over"} => Callback(l)
      BY <1>10 DEF RunnerStep, Begin, ExchangeStops, Receive, Fetch, Retain, Return, Inspect,
         Close
    <3>3. Callback(l) => runner'[l].pc = "over"
      BY <1>1, <1>5 DEF Callback
    <3> QED  BY <3>1, <3>2, <3>3 DEF DoneStays
  <2>3. CASE private' = private
    BY <1>1, <2>2, <2>3 DEF Quiet
  <2>4. CASE Callback(l) /\ private' # private
    <3>1. private[j].launch = l /\ BytesArrive(l)
      BY <2>4, CallbackArrives DEF Callback
    <3>2. /\ \A i \in Jobs \ {j} : private'[i] = private[i]
          /\ private'[j].launch = private[j].launch
          /\ private'[j].reserved = IF Delivered(l) THEN 1 ELSE 0
      BY <3>1 DEF BytesArrive
    <3>3. ASSUME Delivered(l) PROVE private[j].reserved > 0
      <4>1. Maintained[j].status = "awaiting_approval"
        BY <3>3 DEF Delivered, Answer
      <4>2. rows[j].status \notin StoppedStatus
        <5>1. "awaiting_approval" \notin Terminal \cup {"absent"}
          BY DEF Terminal
        <5>2. Maintained[j] = rows[j]
          BY <2>1, <4>1, <5>1, OpenUntouched DEF TInv
        <5> QED  BY <4>1, <5>1, <5>2 DEF StoppedStatus
      <4> QED  BY <2>1, <3>1, <4>2 DEF ResultReserved
    <3>4. private'[j].reserved <= private[j].reserved
      BY <1>1, <2>1, <3>2, <3>3
    <3> QED  BY <1>1, <2>1, <2>2, <3>2, <3>4 DEF Quiet
  <2> QED
    BY <1>10, <2>3, <2>4 DEF RunnerStep, Begin, ExchangeStops, Receive, Fetch, Retain, Return,
       Inspect, Close
<1> QED  BY <1>4, <1>7, <1>8, <1>9, <1>10 DEF Next, vars

LEMMA SubmitReserves ==
    ASSUME TInv, NEW c \in Callers, Submit(c)
    PROVE  LET i == starting[c]
               l == Min(Unused)
           IN  /\ i \in Jobs /\ l \in Launches /\ runner[l].pc = "unused"
               /\ MayRetain(Entries) /\ Entries[i] = NoPrivate
               /\ private'[i].launch = l /\ private'[i].reserved = 1
               /\ \A j \in Jobs \ {i} : private'[j] = Entries[j]
               /\ runner'[l].pc = "pending" /\ runner'[l].job = i
               /\ \A k \in Launches \ {l} : runner'[k] = runner[k]
               /\ starting' = [starting EXCEPT ![c] = None] /\ i # None
<1>0. PICK l : l = Min(Unused)
  OBVIOUS
<1> DEFINE i == starting[c]
           q == [NoPrivate EXCEPT !.launch = l, !.reserved = 1]
           r == [NoRunner EXCEPT !.pc = "pending", !.job = i]
<1>1. /\ i # None /\ Unused # {} /\ MayRetain(Entries) /\ Entries[i] = NoPrivate
      /\ private' = [Entries EXCEPT ![i] = q] /\ runner' = [runner EXCEPT ![l] = r]
      /\ starting' = [starting EXCEPT ![c] = None]
  BY <1>0 DEF Submit
<1>2. i \in Jobs /\ l \in Launches /\ runner[l].pc = "unused"
  BY <1>0, <1>1, LeastUnused DEF TInv, MemoryInv, Unused
<1>3. r.pc = "pending" /\ r.job = i /\ q.launch = l /\ q.reserved = 1
  BY DEF NoRunner, NoPrivate
<1>4. runner \in [Launches -> Runner] /\ Entries \in [Jobs -> Private]
  BY PurgedType DEF TInv, RunnerInv, MemoryInv, Entries
<1> HIDE DEF q, r, i
<1>5. /\ private'[i] = q /\ \A j \in Jobs \ {i} : private'[j] = Entries[j]
      /\ runner'[l] = r /\ \A k \in Launches \ {l} : runner'[k] = runner[k]
  BY <1>1, <1>2, <1>4
<1> QED  BY <1>0, <1>1, <1>2, <1>3, <1>5 DEF i

LEMMA RetainReserves ==
    ASSUME TInv, NEW l \in Launches, Retain(l)
    PROVE  LET j == runner[l].job
           IN  /\ j \in Jobs /\ OnJob(l)
               /\ \A k \in Launches : /\ runner'[k].job = runner[k].job
                                      /\ OnJob(k)' => OnJob(k)
               /\ \/ private' = private
                  \/ /\ ~(Reserved(private) + 1 > MaxPrivateBytes)
                     /\ private'[j].reserved = private[j].reserved + 1
                     /\ private'[j].launch = private[j].launch
                     /\ \A i \in Jobs \ {j} : private'[i] = private[i]
               /\ \A k \in Launches : runner'[k].pc \in {"done", "over"}
                                      <=> runner[k].pc \in {"done", "over"}
<1> DEFINE j == runner[l].job
<1>1. /\ runner \in [Launches -> Runner] /\ private \in [Jobs -> Private]
      /\ private[j].reserved \in Nat \/ j \notin Jobs
  BY DEF TInv, RunnerInv, MemoryInv, Private
<1>2. OnJob(l) /\ j \in Jobs /\ runner[l].pc = "fetched"
  BY DEF Retain, OnJob, TInv, RunnerInv
<1>3. \/ RunTo(l, "stopping") /\ private' = private
      \/ /\ runner' = [runner EXCEPT ![l].pc = "delivered", ![l].held = TRUE]
         /\ private' = [private EXCEPT ![j].reserved = private[j].reserved + 1]
         /\ ~(Reserved(private) + 1 > MaxPrivateBytes)
  BY DEF Retain
<1>4. \E p \in {"stopping", "delivered"} : runner'[l].pc = p /\ runner'[l].job = j
  BY <1>1, <1>3 DEF RunTo, Runner
<1>5. \A k \in Launches \ {l} : runner'[k] = runner[k]
  BY <1>1, <1>3 DEF RunTo
<1>6. \A k \in Launches : /\ runner'[k].job = runner[k].job
                          /\ OnJob(k)' => OnJob(k)
                          /\ runner'[k].pc \in {"done", "over"}
                             <=> runner[k].pc \in {"done", "over"}
  BY <1>2, <1>4, <1>5 DEF OnJob
<1>7. CASE private' = private
  BY <1>2, <1>6, <1>7
<1>8. CASE /\ private' = [private EXCEPT ![j].reserved = private[j].reserved + 1]
           /\ ~(Reserved(private) + 1 > MaxPrivateBytes)
  <2>1. /\ private'[j].reserved = private[j].reserved + 1
        /\ private'[j].launch = private[j].launch
        /\ \A i \in Jobs \ {j} : private'[i] = private[i]
    BY <1>1, <1>2, <1>8 DEF Private
  <2> QED  BY <1>2, <1>6, <1>8, <2>1
<1> QED  BY <1>3, <1>7, <1>8

LEMMA ReservedKept ==
    ASSUME TInv, KInv, [Next]_vars, ~CrashServer, ~\E c \in Callers : Submit(c),
           NEW k \in Launches, OnJob(k)', NEW j \in Jobs, j = runner'[k].job,
           private'[j].launch = k
    PROVE  /\ OnJob(k) /\ runner[k].job = j /\ private[j].launch = k
           /\ \/ private'[j].reserved >= private[j].reserved
              \/ rows'[j].status \in StoppedStatus
<1> DEFINE Goal == /\ OnJob(k) /\ runner[k].job = j /\ private[j].launch = k
                   /\ \/ private'[j].reserved >= private[j].reserved
                      \/ rows'[j].status \in StoppedStatus
<1>1. /\ runner \in [Launches -> Runner] /\ private \in [Jobs -> Private]
      /\ private[j].reserved \in Nat /\ k # None
  BY OptimizationAssumption DEF TInv, RunnerInv, MemoryInv, Private
<1>2. private'[j] \in {private[j], NoPrivate} => private'[j] = private[j]
  BY <1>1 DEF NoPrivate
<1>3. runner'[k] = runner[k] => OnJob(k) /\ runner[k].job = j
  BY DEF OnJob
<1>4. runner'[k] = runner[k] /\ private'[j] \in {private[j], NoPrivate} => Goal
  BY <1>1, <1>2, <1>3
<1>5. ASSUME NEW i \in Jobs, CancelJob(i) PROVE Goal
  <2>1. runner'[k] = runner[k]
    BY <1>5, CancelReserves, NoRunnerType DEF OnJob
  <2>2. CASE j = i
    BY <1>3, <1>5, <2>1, <2>2, CancelReserves
  <2>3. CASE j # i
    BY <1>4, <1>5, <2>1, <2>3, CancelReserves
  <2> QED  BY <2>2, <2>3
<1>6. CASE Request
  BY <1>4, <1>5, <1>6, RequestReserves DEF DropsEntries
<1>7. CASE Time
  <2>1. runner'[k] = runner[k]
    BY <1>7 DEF Time, DeadlinePasses, PrivateExpires, RowAges
  <2>2. private'[j].launch = private[j].launch /\ private'[j].reserved = private[j].reserved
    <3>1. \/ private' = private
          \/ \E i \in Jobs : private' = [private EXCEPT ![i].expired = TRUE]
      BY <1>7 DEF Time, DeadlinePasses, PrivateExpires, RowAges
    <3> QED  BY <1>1, <3>1 DEF Private
  <2>3. private'[j].reserved >= private[j].reserved
    <3>1. \A n \in Nat : n >= n
      OBVIOUS
    <3> QED  BY <1>1, <2>2, <3>1, Zenon
  <2>4. OnJob(k) /\ runner[k].job = j
    BY <1>3, <2>1
  <2> QED  BY <2>2, <2>3, <2>4
<1>8. ASSUME NEW l \in Launches, Retain(l) PROVE Goal
  <2>1. OnJob(k) /\ runner[k].job = j
    BY <1>8, RetainReserves
  <2>2. private'[j].launch = private[j].launch /\ private'[j].reserved >= private[j].reserved
    BY <1>1, <1>8, RetainReserves
  <2> QED  BY <2>1, <2>2
<1>9. ASSUME NEW l \in Launches, Callback(l) PROVE Goal
  <2>1. k # l
    BY <1>1, <1>9, NoRunnerType DEF Callback, OnJob
  <2>2. runner'[k] = runner[k]
    BY <1>1, <1>9, <2>1 DEF Callback
  <2>3. private'[j] = private[j]
    <3>1. CASE private[runner[l].job].launch = l
      <4>1. j # runner[l].job /\ BytesArrive(l)
        BY <1>9, <2>1, <3>1, CallbackArrives DEF BytesArrive
      <4> QED  BY <4>1 DEF BytesArrive
    <3>2. CASE private[runner[l].job].launch # l
      BY <1>9, <3>2 DEF Callback
    <3> QED  BY <3>1, <3>2
  <2> QED  BY <1>4, <2>2, <2>3
<1>10. ASSUME NEW l \in Launches, RunnerStep(l), ~Callback(l), ~Retain(l) PROVE Goal
  <2>1. private' = private
    BY <1>10 DEF RunnerStep, Begin, ExchangeStops, Receive, Fetch, Return, Inspect, Close
  <2>2. OnJob(k) /\ runner[k].job = j
    <3>1. /\ OnJob(l) /\ runner'[l].job = runner[l].job
          /\ \A m \in Launches \ {l} : runner'[m] = runner[m]
      BY <1>1, <1>10 DEF RunnerStep, Begin, ExchangeStops, Receive, Fetch, Return, Inspect,
         Close, RunTo, OnJob, Runner
    <3> QED  BY <1>3, <3>1
  <2> QED  BY <1>1, <2>1, <2>2
<1>11. runner' = runner /\ private' = private => Goal
  BY <1>4
<1> QED  BY <1>6, <1>7, <1>8, <1>9, <1>10, <1>11 DEF Next, vars

LEMMA ResultStaysReserved ==
    ASSUME TInv, KInv, ResultReserved, [Next]_vars
    PROVE  ResultReserved'
<1> SUFFICES ASSUME NEW k \in Launches, OnJob(k)', private'[runner'[k].job].launch = k
             PROVE  \/ private'[runner'[k].job].reserved > 0
                    \/ rows'[runner'[k].job].status \in StoppedStatus
  BY DEF ResultReserved
<1> DEFINE j == runner'[k].job
<1>1. ~CrashServer
  BY RunnersOver
<1>2. j \in Jobs /\ private'[j].reserved \in Nat /\ private \in [Jobs -> Private]
  BY NextMoves DEF TInv, RunnerInv, MemoryInv, OnJob, Private
<1>3. ASSUME OnJob(k), runner[k].job = j, private[j].launch = k,
             \/ private'[j].reserved >= private[j].reserved
             \/ rows'[j].status \in StoppedStatus
      PROVE  private'[j].reserved > 0 \/ rows'[j].status \in StoppedStatus
  <2>1. Stays(rows[j], rows'[j])
    BY <1>3, RunnersRowsStay
  <2>2. private[j].reserved > 0 \/ rows[j].status \in StoppedStatus
    BY <1>3 DEF ResultReserved
  <2>3. private[j].reserved \in Nat
    BY <1>2 DEF Private
  <2> QED  BY <1>2, <1>3, <2>1, <2>2, <2>3 DEF Stays
<1>4. ASSUME NEW c \in Callers, Submit(c)
      PROVE  private'[j].reserved > 0 \/ rows'[j].status \in StoppedStatus
  <2> DEFINE i == starting[c]
             l == Min(Unused)
  <2>1. CASE k = l
    BY <1>4, <2>1, SubmitReserves
  <2>2. CASE k # l
    <3>1. j # i /\ runner'[k] = runner[k] /\ private'[j] = Entries[j]
      BY <1>2, <1>4, <2>2, SubmitReserves
    <3>2. private'[j] = private[j]
      BY <1>2, <3>1, PurgeDrops, OptimizationAssumption DEF Entries, NoPrivate
    <3>3. OnJob(k) /\ runner[k].job = j
      BY <3>1 DEF OnJob
    <3>4. private'[j].reserved >= private[j].reserved
      BY <1>2, <3>2
    <3> QED  BY <1>3, <3>2, <3>3, <3>4
  <2> QED  BY <2>1, <2>2
<1> QED  BY <1>1, <1>2, <1>3, <1>4, ReservedKept

(* Counting what is reserved.                                              *)
LEMMA UnitsShrink ==
    ASSUME NEW e, NEW q, IsFiniteSet(ReservedUnits(e)),
           \A j \in Jobs : /\ q[j].reserved \in Nat /\ e[j].reserved \in Nat
                           /\ q[j].reserved <= e[j].reserved
    PROVE  /\ IsFiniteSet(ReservedUnits(q)) /\ Reserved(q) \in Nat
           /\ Reserved(e) \in Nat /\ Reserved(q) <= Reserved(e)
<1>1. ASSUME NEW j \in Jobs PROVE 1..q[j].reserved \subseteq 1..e[j].reserved
  <2>1. \A a, b \in Nat : a <= b => 1..a \subseteq 1..b
    OBVIOUS
  <2> QED  BY <2>1, Zenon
<1>2. ASSUME NEW x \in ReservedUnits(q) PROVE x \in ReservedUnits(e)
  <2>1. PICK j \in Jobs : x \in {j} \X (1..q[j].reserved)
    BY Zenon DEF ReservedUnits
  <2>2. x \in {j} \X (1..e[j].reserved)
    BY <1>1, <2>1
  <2> QED  BY <2>2, Zenon DEF ReservedUnits
<1>3. ReservedUnits(q) \in SUBSET ReservedUnits(e)
  BY <1>2
<1> HIDE DEF ReservedUnits
<1>4. IsFiniteSet(ReservedUnits(q)) /\ Cardinality(ReservedUnits(q)) <= Cardinality(ReservedUnits(e))
  BY <1>3, FS_Subset, Zenon
<1> QED  BY <1>4, FS_CardinalityType, Zenon DEF Reserved

LEMMA UnitsGrow ==
    ASSUME NEW e, NEW q, IsFiniteSet(ReservedUnits(e)), NEW j \in Jobs,
           \A i \in Jobs : e[i].reserved \in Nat,
           q[j].reserved = e[j].reserved + 1,
           \A i \in Jobs \ {j} : q[i].reserved = e[i].reserved
    PROVE  /\ IsFiniteSet(ReservedUnits(q)) /\ Reserved(q) \in Nat
           /\ Reserved(e) \in Nat /\ Reserved(q) <= Reserved(e) + 1
<1> DEFINE u == <<j, e[j].reserved + 1>>
           S == ReservedUnits(e)
           T == ReservedUnits(q)
<1>1. 1..q[j].reserved = (1..e[j].reserved) \cup {e[j].reserved + 1}
  OBVIOUS
<1>2. ASSUME NEW x \in T PROVE x \in S \cup {u}
  <2>1. PICK i \in Jobs : x \in {i} \X (1..q[i].reserved)
    BY Zenon DEF ReservedUnits
  <2>2. PICK n \in 1..q[i].reserved : x = <<i, n>>
    BY <2>1
  <2>3. CASE i = j
    <3>1. CASE n \in 1..e[j].reserved
      <4>1. x \in {j} \X (1..e[j].reserved)
        BY <2>2, <2>3, <3>1
      <4> QED  BY <4>1, Zenon DEF ReservedUnits
    <3>2. CASE n = e[j].reserved + 1
      BY <2>2, <2>3, <3>2
    <3> QED  BY <1>1, <2>2, <2>3, <3>1, <3>2
  <2>4. CASE i # j
    <3>1. x \in {i} \X (1..e[i].reserved)
      BY <2>1, <2>4
    <3> QED  BY <3>1, Zenon DEF ReservedUnits
  <2> QED  BY <2>3, <2>4
<1>3. T \in SUBSET (S \cup {u})
  BY <1>2
<1> HIDE DEF u
<1>4. IsFiniteSet(S) /\ IsFiniteSet(S \cup {u})
      /\ Cardinality(S \cup {u}) = IF u \in S THEN Cardinality(S) ELSE Cardinality(S) + 1
  BY FS_AddElement, Zenon
<1> HIDE DEF S, T
<1>5. IsFiniteSet(T) /\ Cardinality(T) <= Cardinality(S \cup {u})
  BY <1>3, <1>4, FS_Subset, Zenon
<1>6. Cardinality(S) \in Nat /\ Cardinality(T) \in Nat
  BY <1>4, <1>5, FS_CardinalityType, Zenon
<1>7. Cardinality(T) <= Cardinality(S) + 1
  BY <1>4, <1>5, <1>6
<1> QED  BY <1>4, <1>5, <1>6, <1>7 DEF S, T, Reserved

LEMMA BytesStayBounded ==
    ASSUME TInv, KInv, ResultReserved, BytesBounded, [Next]_vars
    PROVE  BytesBounded'
<1>1. /\ \A j \in Jobs : private[j].reserved \in Nat
      /\ \A j \in Jobs : private'[j].reserved \in Nat
      /\ MaxPrivateBytes \in Nat
  BY NextMoves, ServiceAssumption DEF TInv, MemoryInv, Private
<1>2. CASE \A j \in Jobs : private'[j].reserved <= private[j].reserved
  <2>1. /\ IsFiniteSet(ReservedUnits(private')) /\ Reserved(private') \in Nat
        /\ Reserved(private) \in Nat /\ Reserved(private') <= Reserved(private)
    BY <1>1, <1>2, UnitsShrink DEF BytesBounded
  <2> QED  BY <1>1, <2>1 DEF BytesBounded, Reserved, ReservedUnits
<1>3. ASSUME NEW e, IsFiniteSet(ReservedUnits(e)), ~(Reserved(e) + 1 > MaxPrivateBytes),
             NEW j \in Jobs, \A i \in Jobs : e[i].reserved \in Nat,
             private'[j].reserved = e[j].reserved + 1,
             \A i \in Jobs \ {j} : private'[i].reserved = e[i].reserved
      PROVE  BytesBounded'
  <2>1. /\ IsFiniteSet(ReservedUnits(private')) /\ Reserved(private') \in Nat
        /\ Reserved(e) \in Nat /\ Reserved(private') <= Reserved(e) + 1
    BY <1>3, UnitsGrow
  <2> QED  BY <1>1, <1>3, <2>1 DEF BytesBounded, Reserved, ReservedUnits
<1>4. ASSUME NEW l \in Launches, Retain(l) PROVE BytesBounded'
  <2>1. CASE private' = private
    BY <1>1, <1>2, <2>1
  <2>2. CASE private' # private
    BY <1>1, <1>3, <1>4, <2>2, RetainReserves DEF BytesBounded
  <2> QED  BY <2>1, <2>2
<1>5. ASSUME NEW c \in Callers, Submit(c) PROVE BytesBounded'
  <2>1. \A j \in Jobs : Entries[j] \in {private[j], NoPrivate}
    BY PurgeDrops DEF Entries
  <2>2. \A j \in Jobs : Entries[j].reserved \in Nat
                        /\ Entries[j].reserved <= private[j].reserved
    BY <1>1, <2>1 DEF NoPrivate
  <2>3. IsFiniteSet(ReservedUnits(Entries)) /\ Reserved(Entries) \in Nat
    BY <1>1, <2>2, UnitsShrink DEF BytesBounded
  <2> DEFINE i == starting[c]
  <2>4. /\ i \in Jobs /\ MayRetain(Entries) /\ Entries[i] = NoPrivate
        /\ private'[i].reserved = 1 /\ \A j \in Jobs \ {i} : private'[j] = Entries[j]
    BY <1>5, SubmitReserves
  <2>5. Entries[i].reserved = 0
    BY <2>4 DEF NoPrivate
  <2>6. ~(Reserved(Entries) + 1 > MaxPrivateBytes)
    BY <1>1, <2>3, <2>4 DEF MayRetain
  <2>7. private'[i].reserved = Entries[i].reserved + 1
    BY <2>4, <2>5
  <2> HIDE DEF i
  <2> QED  BY <1>3, <2>2, <2>3, <2>4, <2>6, <2>7
<1> QED  BY <1>2, <1>4, <1>5, QuietStep DEF Quiet

(* Counting the jobs that are prepared or run.                             *)
LEMMA SubsetCounts ==
    ASSUME NEW S, IsFiniteSet(S), NEW T, T \subseteq S
    PROVE  /\ IsFiniteSet(T) /\ Cardinality(T) \in Nat /\ Cardinality(S) \in Nat
           /\ Cardinality(T) <= Cardinality(S)
<1>1. T \in SUBSET S
  OBVIOUS
<1> QED  BY <1>1, FS_Subset, FS_CardinalityType, Zenon

LEMMA OneMoreCounts ==
    ASSUME NEW S, IsFiniteSet(S), NEW x, NEW T, T \subseteq S \cup {x}
    PROVE  /\ IsFiniteSet(T) /\ Cardinality(T) \in Nat /\ Cardinality(S) \in Nat
           /\ Cardinality(T) <= Cardinality(S) + 1
<1>1. IsFiniteSet(S \cup {x})
      /\ Cardinality(S \cup {x}) = IF x \in S THEN Cardinality(S) ELSE Cardinality(S) + 1
  BY FS_AddElement, Zenon
<1>2. IsFiniteSet(T) /\ Cardinality(T) \in Nat /\ Cardinality(T) <= Cardinality(S \cup {x})
  BY <1>1, SubsetCounts, Zenon
<1>3. Cardinality(S) \in Nat
  BY FS_CardinalityType, Zenon
<1> QED  BY <1>1, <1>2, <1>3

LEMMA OneLessCounts ==
    ASSUME NEW S, IsFiniteSet(S), NEW x \in S, NEW T, T \subseteq S \ {x}
    PROVE  /\ IsFiniteSet(T) /\ Cardinality(T) \in Nat /\ Cardinality(S) \in Nat
           /\ Cardinality(T) <= Cardinality(S) - 1
<1>1. IsFiniteSet(S \ {x})
      /\ Cardinality(S \ {x}) = IF x \in S THEN Cardinality(S) - 1 ELSE Cardinality(S)
  BY FS_RemoveElement, Zenon
<1>2. IsFiniteSet(T) /\ Cardinality(T) \in Nat /\ Cardinality(T) <= Cardinality(S \ {x})
  BY <1>1, SubsetCounts, Zenon
<1>3. Cardinality(S) \in Nat
  BY FS_CardinalityType, Zenon
<1> QED  BY <1>1, <1>2, <1>3

LEMMA ActiveShrinks ==
    ASSUME TInv, DoneStays, \A j \in Jobs : private'[j].launch \in {private[j].launch, None}
    PROVE  Active' \subseteq Active
<1> SUFFICES ASSUME NEW j \in Jobs, private'[j].launch # None,
                    runner'[private'[j].launch].pc \notin {"done", "over"}
             PROVE  j \in Active
  BY DEF Active, Kept, FutureDone
<1>1. private'[j].launch = private[j].launch /\ private[j].launch \in Launches
  BY DEF TInv, MemoryInv, Private
<1> QED  BY <1>1 DEF Active, Kept, FutureDone, DoneStays

LEMMA PreparingShrinks ==
    ASSUME TInv, [Next]_vars, ~\E c \in Callers, j \in Jobs : BeginStart(c, j)
    PROVE  Preparing' \subseteq Preparing
<1>1. starting \in [Callers -> Jobs \cup {None}]
  BY DEF TInv, MemoryInv
<1>2. starting' = starting => Preparing' \subseteq Preparing
  BY DEF Preparing
<1>3. (\E c \in Callers : starting' = [starting EXCEPT ![c] = None])
      => Preparing' \subseteq Preparing
  BY <1>1 DEF Preparing
<1>4. CASE Request
  BY <1>2, <1>3, <1>4 DEF Request, RequestFails, Preparing, Get, PreparationFails, Submit,
     StartWithout, CancelJob, ApproveJob
<1>5. CASE CrashServer
  BY <1>5 DEF CrashServer, Preparing
<1>6. CASE Time
  BY <1>2, <1>6 DEF Time, DeadlinePasses, PrivateExpires, RowAges
<1>7. ASSUME NEW l \in Launches, RunnerStep(l) PROVE starting' = starting
  BY <1>7 DEF RunnerStep, Begin, ExchangeStops, Receive, Fetch, Retain, Return, Inspect,
     Close, Callback
<1> QED  BY <1>2, <1>4, <1>5, <1>6, <1>7 DEF Next, vars

LEMMA JobsStayBounded ==
    ASSUME TInv, KInv, ResultReserved, JobsBounded, [Next]_vars
    PROVE  JobsBounded'
<1>1. ASSUME NEW c \in Callers, Submit(c) PROVE JobsBounded'
  <2> DEFINE i == starting[c]
  <2>1. /\ \A j \in Jobs \ {i} : private'[j] \in {private[j], NoPrivate}
        /\ \A k \in Launches : runner'[k] # runner[k] => runner[k].pc = "unused"
        /\ i # None /\ starting' = [starting EXCEPT ![c] = None]
    BY <1>1, SubmitReserves, PurgeDrops DEF Entries
  <2>2. Active' \subseteq Active \cup {i}
    <3> SUFFICES ASSUME NEW j \in Jobs, j # i, private'[j].launch # None,
                        runner'[private'[j].launch].pc \notin {"done", "over"}
                 PROVE  j \in Active
      BY DEF Active, Kept, FutureDone
    <3>1. private'[j] = private[j] /\ private[j].launch \in Launches
      BY <2>1 DEF NoPrivate, TInv, MemoryInv, Private
    <3> QED  BY <2>1, <3>1 DEF Active, Kept, FutureDone
  <2>3. c \in Preparing /\ Preparing' \subseteq Preparing \ {c}
    BY <2>1 DEF Preparing, TInv, MemoryInv
  <2>4. /\ IsFiniteSet(Active') /\ Cardinality(Active') \in Nat /\ Cardinality(Active) \in Nat
        /\ Cardinality(Active') <= Cardinality(Active) + 1
    BY <2>2, OneMoreCounts DEF JobsBounded
  <2>5. /\ IsFiniteSet(Preparing') /\ Cardinality(Preparing') \in Nat
        /\ Cardinality(Preparing) \in Nat
        /\ Cardinality(Preparing') <= Cardinality(Preparing) - 1
    BY <2>3, OneLessCounts DEF JobsBounded
  <2>6. Cardinality(Active') + Cardinality(Preparing') <= 2
    BY <2>4, <2>5 DEF JobsBounded
  <2> QED  BY <2>4, <2>5, <2>6 DEF JobsBounded
<1>2. CASE ~\E c \in Callers : Submit(c)
  <2>1. Active' \subseteq Active
    <3>1. CASE \E l \in Launches : Retain(l)
      <4>1. PICK l \in Launches : Retain(l)
        BY <3>1
      <4>2. \A j \in Jobs : private'[j].launch \in {private[j].launch, None}
        BY <4>1, RetainReserves
      <4>3. DoneStays
        BY <4>1, RetainReserves DEF DoneStays
      <4> QED  BY <4>2, <4>3, ActiveShrinks
    <3>2. CASE ~\E l \in Launches : Retain(l)
      BY <1>2, <3>2, QuietStep, ActiveShrinks DEF Quiet
    <3> QED  BY <3>1, <3>2
  <2>2. /\ IsFiniteSet(Active') /\ Cardinality(Active') \in Nat /\ Cardinality(Active) \in Nat
        /\ Cardinality(Active') <= Cardinality(Active)
    BY <2>1, SubsetCounts DEF JobsBounded
  <2>3. ASSUME NEW c \in Callers, NEW j \in Jobs, BeginStart(c, j) PROVE JobsBounded'
    <3>1. Preparing' \subseteq Preparing \cup {c}
      BY <2>3 DEF BeginStart, Preparing, TInv, MemoryInv
    <3>2. /\ IsFiniteSet(Preparing') /\ Cardinality(Preparing') \in Nat
          /\ Cardinality(Preparing) \in Nat
          /\ Cardinality(Preparing') <= Cardinality(Preparing) + 1
      BY <3>1, OneMoreCounts DEF JobsBounded
    <3>3. Cardinality(Active) + Cardinality(Preparing) < 2
      BY <2>3 DEF BeginStart, MayPrepare
    <3>4. Cardinality(Active') + Cardinality(Preparing') <= 2
      BY <2>2, <3>2, <3>3
    <3> QED  BY <2>2, <3>2, <3>4 DEF JobsBounded
  <2>4. CASE ~\E c \in Callers, j \in Jobs : BeginStart(c, j)
    <3>1. /\ IsFiniteSet(Preparing') /\ Cardinality(Preparing') \in Nat
          /\ Cardinality(Preparing) \in Nat
          /\ Cardinality(Preparing') <= Cardinality(Preparing)
      BY <2>4, PreparingShrinks, SubsetCounts DEF JobsBounded
    <3>2. Cardinality(Active') + Cardinality(Preparing') <= 2
      BY <2>2, <3>1 DEF JobsBounded
    <3> QED  BY <2>2, <3>1, <3>2 DEF JobsBounded
  <2> QED  BY <2>3, <2>4
<1> QED  BY <1>1, <1>2

(* Two jobs at most are prepared or run, what is kept is reserved, and the *)
(* reservations stay within the service's bound, through every             *)
(* interleaving of starts, results, callbacks, cancellations and purges.   *)
THEOREM RetentionIsBounded == Spec => []RetentionBounded
<1> DEFINE BInv == ResultReserved /\ BytesBounded /\ JobsBounded
<1>1. Init => BInv
  <2> SUFFICES ASSUME Init PROVE BInv
    OBVIOUS
  <2>1. ResultReserved
    BY DEF Init, NoRunner, ResultReserved, OnJob
  <2>2. ReservedUnits(private) = {}
    <3>1. \A j \in Jobs : private[j].reserved = 0
      BY DEF Init, NoPrivate
    <3>2. \A j \in Jobs : 1..private[j].reserved = {}
      <4>1. 1..0 = {}
        OBVIOUS
      <4> QED  BY <3>1, <4>1, Zenon
    <3> QED  BY <3>2 DEF ReservedUnits
  <2>3. Active = {} /\ Preparing = {}
    BY DEF Init, NoPrivate, Active, Kept, Preparing
  <2>4. IsFiniteSet({}) /\ Cardinality({}) = 0
    BY FS_EmptySet, Zenon
  <2> QED  BY <2>1, <2>2, <2>3, <2>4, ServiceAssumption DEF BytesBounded, JobsBounded, Reserved
<1>2. TInv /\ KInv /\ BInv /\ [Next]_vars => BInv'
  BY ResultStaysReserved, BytesStayBounded, JobsStayBounded
<1>3. KInv /\ BInv => RetentionBounded
  BY DEF KInv, BytesOfLaunch, BytesBounded, JobsBounded, RetentionBounded
<1> QED  BY <1>1, <1>2, <1>3, MemoryAlways, PTL DEF Spec
===============================================================================
