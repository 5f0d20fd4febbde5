---------------------------- MODULE BoardApplyProofs ----------------------------
(***************************************************************************)
(* What holds of the apply calls for any number of calls, tokens, servers, *)
(* inodes and backups, whatever other writers do, whatever fails and       *)
(* whenever a process dies.                                                *)
(*                                                                         *)
(* The first two safety properties speak of calls that are over.           *)
(* Neither is inductive: that a refused call did not rename follows from   *)
(* what each earlier step of a call still has to do (Unpublished), and     *)
(* that a token of a finished call is spent from its having been spent     *)
(* when the restore began, long before the call ended (SpentOK).           *)
(*                                                                         *)
(* The last two sections state their own hypotheses: how many copies are   *)
(* kept, and that nobody else writes the board.                            *)
(***************************************************************************)
EXTENDS BoardApplyProperties, FiniteSetTheorems, TLAPS

(* The steps before the board is opened, and those that know its bytes.    *)
Early == {"new", "read", "inspect", "backup", "prune"}
AfterRead == PC \ {"new", "read", "returned", "dead"}

(* How far a call's other variables have come at each of its steps.        *)
CallsOK ==
    \A p \in Calls :
        /\ pc[p] = "new" <=> token[p] = None
        /\ pc[p] \in AfterRead => seen[p] # None
        /\ pc[p] \in Early => ~restoring[p]
        /\ pc[p] \in {"restore", "look"} => restoring[p]
        /\ status[p] = "refused" => pc[p] = "returned"

(* The call may still publish its candidate.                               *)
Unpublished(p) ==
    \/ pc[p] \in Early
    \/ ~restoring[p] /\ pc[p] \in {"open", "lock", "compare", "precheck", "rename"}

RefusedOK ==
    \A p \in Calls :
        Unpublished(p) \/ status[p] = "refused" => ~renamed[p]

(* Nothing will ever be authorized by the token again.                     *)
Spent(t) == Expired(t) \/ t \in consumed

(* A token that was presented has an expiry, so it is never issued again;  *)
(* it is spent before a restore begins and before a writing call ends.     *)
SpentOK ==
    /\ time >= 1
    /\ \A p \in Calls :
          token[p] # None =>
             /\ expires[token[p]] # 0
             /\ restoring[p] \/ (Over(p) /\ renamed[p]) => Spent(token[p])

IInv == TypeOK /\ CallsOK /\ RefusedOK /\ SpentOK

-----------------------------------------------------------------------------
(* IInv holds initially and every step keeps each of its conjuncts.        *)

(* Before the first call nothing is open, locked, restored or spent.       *)
LEMMA InitIInv == Init => IInv
<1> SUFFICES ASSUME Init PROVE IInv
    OBVIOUS
<1> USE FileAssumption, TokenAssumption, ApplyAssumption
    DEF Init, FileInit, TokensInit
<1>1. TypeOK
    <2>1. FileTypeOK
        <3>1. PICK t \in Tokens : FileInit(Base[t])
            OBVIOUS
        <3> QED
            BY <3>1 DEF FileTypeOK
    <2>2. TokensTypeOK
        BY DEF TokensTypeOK
    <2>3. pc \in [Calls -> PC] /\ backups \subseteq [stamp : Nat, copy : Contents]
        BY DEF PC
    <2> QED
        BY <2>1, <2>2, <2>3 DEF TypeOK, Swapping
<1>2. CallsOK
    BY DEF CallsOK, AfterRead, Early
<1>3. RefusedOK
    BY DEF RefusedOK
<1>4. SpentOK
    BY DEF SpentOK
<1> QED
    BY <1>1, <1>2, <1>3, <1>4 DEF IInv

(* The rename takes an inode nobody has open, so no lock is lost by it;    *)
(* closing a descriptor and dying release exactly the locks they held.     *)
LEMMA StepKeepsTypes == IInv /\ [Next]_vars => TypeOK'
<1> SUFFICES ASSUME IInv, [Next]_vars PROVE TypeOK'
    OBVIOUS
<1> USE FileAssumption, TokenAssumption, ApplyAssumption DEF IInv,
          TypeOK, FileTypeOK, TokensTypeOK, CallsOK, AfterRead, PC, Swapping,
          file, tokens, calls
<1>1. ASSUME NEW p \in Calls, ReadBoard(p) PROVE TypeOK'
    BY <1>1 DEF ReadBoard, Board, Refuse, Returns, Goes
<1>2. ASSUME NEW p \in Calls, Inspect(p) PROVE TypeOK'
    BY <1>2 DEF Inspect, Continue, Refuse, Returns, Goes
<1>3. ASSUME NEW p \in Calls, WriteBackup(p) PROVE TypeOK'
    BY <1>3 DEF WriteBackup, Refuse, Returns, Goes
<1>4. ASSUME NEW p \in Calls, PruneBackups(p) PROVE TypeOK'
    BY <1>4 DEF PruneBackups, Continue, Goes, Newest
<1>5. ASSUME NEW p \in Calls, Open(p) PROVE TypeOK'
    BY <1>5 DEF Open, OpenTarget, Continue, Goes
<1>6. ASSUME NEW p \in Calls, Lock(p) PROVE TypeOK'
    BY <1>6 DEF Lock, TakeLock, Continue, Goes
<1>7. ASSUME NEW p \in Calls, Compare(p) PROVE TypeOK'
    BY <1>7 DEF Compare, GiveUp, Continue, Refuse, Returns, Goes, CloseTarget
<1>8. ASSUME NEW p \in Calls, Precheck(p) PROVE TypeOK'
    BY <1>8 DEF Precheck, GiveUp, Continue, Refuse, Returns, Goes, CloseTarget
<1>9. ASSUME NEW p \in Calls, Rename(p) PROVE TypeOK'
    <2>1. Replacement(p) \in Contents
        BY <1>9 DEF Rename, Replacement
    <2>2. CASE GiveUp(p) /\ CloseTarget(p) /\ UNCHANGED <<name, bytes, editor>>
        BY <1>9, <2>2 DEF Rename, GiveUp, Continue, Refuse, Returns, Goes,
              CloseTarget
    <2>3. ASSUME RenameOver(Replacement(p)), Goes(p, "check"),
                 renamed' = [renamed EXCEPT ![p] = @ \/ ~restoring[p]],
                 UNCHANGED <<token, seen, restoring, status, stamp>>
          PROVE  TypeOK'
        <3>1. FileTypeOK'
            BY <2>1, <2>3 DEF RenameOver
        <3>2. renamed' \in [Calls -> BOOLEAN]
            BY <2>3, Zenon
        <3> HIDE DEF FileTypeOK
        <3> QED
            BY <1>9, <2>3, <3>1, <3>2 DEF Rename, RenameOver, Goes
    <2> QED
        BY <1>9, <2>2, <2>3 DEF Rename
<1>10. ASSUME NEW p \in Calls, Check(p) PROVE TypeOK'
    BY <1>10 DEF Check, CloseTarget, AfterError, Continue, Goes
<1>11. ASSUME NEW p \in Calls, VerifyPublished(p) PROVE TypeOK'
    BY <1>11 DEF VerifyPublished, Continue, Goes
<1>12. ASSUME NEW p \in Calls, Observe(p) PROVE TypeOK'
    BY <1>12 DEF Observe, Goes
<1>13. ASSUME NEW p \in Calls, Finish(p) PROVE TypeOK'
    BY <1>13 DEF Finish, Spend, Consume, Swept, Goes
<1>14. ASSUME NEW p \in Calls, Recover(p) PROVE TypeOK'
    BY <1>14 DEF Recover, Consume, Swept, Goes
<1>15. ASSUME NEW p \in Calls, Restore(p) PROVE TypeOK'
    BY <1>15 DEF Restore, Continue, Goes
<1>16. ASSUME NEW p \in Calls, Look(p) PROVE TypeOK'
    BY <1>16 DEF Look, Returns, Goes
<1>17. ASSUME NEW t \in Tokens, Preview(t) PROVE TypeOK'
    BY <1>17 DEF Preview, Issue
<1>18. ASSUME NEW p \in Calls, NEW t \in Tokens, Begin(p, t) PROVE TypeOK'
    BY <1>18 DEF Begin, Verify, Swept, Returns, Goes
<1>19. ASSUME NEW content \in Outside, WriteOutside(content) PROVE TypeOK'
    BY <1>19 DEF WriteOutside, WriteInPlace, RenameOver, Fresh
<1>20. ASSUME Editor PROVE TypeOK'
    BY <1>20 DEF Editor, ToggleEditor
<1>21. ASSUME NEW s \in Servers, Die(s) PROVE TypeOK'
    BY <1>21 DEF Die, CloseAll, CallsOf, NewKey
<1>22. ASSUME SecondPasses PROVE TypeOK'
    BY <1>22 DEF SecondPasses, ClockTick
<1>23. CASE UNCHANGED vars
    BY <1>23 DEF vars
<1> QED
    BY <1>1, <1>2, <1>3, <1>4, <1>5, <1>6, <1>7, <1>8, <1>9, <1>10, <1>11,
       <1>12, <1>13, <1>14, <1>15, <1>16, <1>17, <1>18, <1>19, <1>20,
       <1>21, <1>22, <1>23
       DEF Next, CallStep, OthersStep

(* Every step of a call leaves its variables as its next step wants them.  *)
LEMMA StepKeepsCalls == IInv /\ [Next]_vars => CallsOK'
<1> SUFFICES ASSUME IInv, [Next]_vars PROVE CallsOK'
    OBVIOUS
<1> USE FileAssumption, ApplyAssumption DEF IInv,
          TypeOK, FileTypeOK, CallsOK, AfterRead, Early, PC, Swapping, file,
          tokens, calls
<1>1. ASSUME NEW p \in Calls, ReadBoard(p) PROVE CallsOK'
    BY <1>1 DEF ReadBoard, Board, Refuse, Returns, Goes
<1>2. ASSUME NEW p \in Calls, Inspect(p) PROVE CallsOK'
    BY <1>2 DEF Inspect, Continue, Refuse, Returns, Goes
<1>3. ASSUME NEW p \in Calls, WriteBackup(p) PROVE CallsOK'
    BY <1>3 DEF WriteBackup, Refuse, Returns, Goes
<1>4. ASSUME NEW p \in Calls, PruneBackups(p) PROVE CallsOK'
    BY <1>4 DEF PruneBackups, Continue, Goes, Newest
<1>5. ASSUME NEW p \in Calls, Open(p) PROVE CallsOK'
    BY <1>5 DEF Open, OpenTarget, Continue, Goes
<1>6. ASSUME NEW p \in Calls, Lock(p) PROVE CallsOK'
    BY <1>6 DEF Lock, TakeLock, Continue, Goes
<1>7. ASSUME NEW p \in Calls, Compare(p) PROVE CallsOK'
    BY <1>7 DEF Compare, GiveUp, Continue, Refuse, Returns, Goes, CloseTarget
<1>8. ASSUME NEW p \in Calls, Precheck(p) PROVE CallsOK'
    BY <1>8 DEF Precheck, GiveUp, Continue, Refuse, Returns, Goes, CloseTarget
<1>9. ASSUME NEW p \in Calls, Rename(p) PROVE CallsOK'
    BY <1>9
       DEF Rename, RenameOver, Fresh, Replacement, GiveUp, Continue, Refuse,
           Returns, Goes, CloseTarget
<1>10. ASSUME NEW p \in Calls, Check(p) PROVE CallsOK'
    BY <1>10 DEF Check, CloseTarget, AfterError, Continue, Goes
<1>11. ASSUME NEW p \in Calls, VerifyPublished(p) PROVE CallsOK'
    BY <1>11 DEF VerifyPublished, Continue, Goes
<1>12. ASSUME NEW p \in Calls, Observe(p) PROVE CallsOK'
    BY <1>12 DEF Observe, Goes
<1>13. ASSUME NEW p \in Calls, Finish(p) PROVE CallsOK'
    BY <1>13 DEF Finish, Spend, Consume, Swept, Goes
<1>14. ASSUME NEW p \in Calls, Recover(p) PROVE CallsOK'
    BY <1>14 DEF Recover, Consume, Swept, Goes
<1>15. ASSUME NEW p \in Calls, Restore(p) PROVE CallsOK'
    BY <1>15 DEF Restore, Continue, Goes
<1>16. ASSUME NEW p \in Calls, Look(p) PROVE CallsOK'
    BY <1>16 DEF Look, Returns, Goes
<1>17. ASSUME NEW t \in Tokens, Preview(t) PROVE CallsOK'
    BY <1>17 DEF Preview, Issue
<1>18. ASSUME NEW p \in Calls, NEW t \in Tokens, Begin(p, t) PROVE CallsOK'
    BY <1>18 DEF Begin, Verify, Swept, Returns, Goes
<1>19. ASSUME NEW content \in Outside, WriteOutside(content) PROVE CallsOK'
    BY <1>19 DEF WriteOutside, WriteInPlace, RenameOver, Fresh
<1>20. ASSUME Editor PROVE CallsOK'
    BY <1>20 DEF Editor, ToggleEditor
<1>21. ASSUME NEW s \in Servers, Die(s) PROVE CallsOK'
    BY <1>21 DEF Die, CloseAll, CallsOf, NewKey
<1>22. ASSUME SecondPasses PROVE CallsOK'
    BY <1>22 DEF SecondPasses, ClockTick
<1>23. CASE UNCHANGED vars
    BY <1>23 DEF vars
<1> QED
    BY <1>1, <1>2, <1>3, <1>4, <1>5, <1>6, <1>7, <1>8, <1>9, <1>10, <1>11,
       <1>12, <1>13, <1>14, <1>15, <1>16, <1>17, <1>18, <1>19, <1>20,
       <1>21, <1>22, <1>23
       DEF Next, CallStep, OthersStep

(* Refusals come from steps before the publishing rename only.             *)
LEMMA StepKeepsRefused == IInv /\ [Next]_vars => RefusedOK'
<1> SUFFICES ASSUME IInv, [Next]_vars PROVE RefusedOK'
    OBVIOUS
<1> USE ApplyAssumption DEF IInv,
          TypeOK, CallsOK, RefusedOK, Unpublished, Early, file, tokens, calls
<1>1. ASSUME NEW p \in Calls, ReadBoard(p) PROVE RefusedOK'
    BY <1>1 DEF ReadBoard, Board, Refuse, Returns, Goes
<1>2. ASSUME NEW p \in Calls, Inspect(p) PROVE RefusedOK'
    BY <1>2 DEF Inspect, Continue, Refuse, Returns, Goes
<1>3. ASSUME NEW p \in Calls, WriteBackup(p) PROVE RefusedOK'
    BY <1>3 DEF WriteBackup, Refuse, Returns, Goes
<1>4. ASSUME NEW p \in Calls, PruneBackups(p) PROVE RefusedOK'
    BY <1>4 DEF PruneBackups, Continue, Goes, Newest
<1>5. ASSUME NEW p \in Calls, Open(p) PROVE RefusedOK'
    BY <1>5 DEF Open, OpenTarget, Continue, Goes
<1>6. ASSUME NEW p \in Calls, Lock(p) PROVE RefusedOK'
    BY <1>6 DEF Lock, TakeLock, Continue, Goes
<1>7. ASSUME NEW p \in Calls, Compare(p) PROVE RefusedOK'
    BY <1>7 DEF Compare, GiveUp, Continue, Refuse, Returns, Goes, CloseTarget
<1>8. ASSUME NEW p \in Calls, Precheck(p) PROVE RefusedOK'
    BY <1>8 DEF Precheck, GiveUp, Continue, Refuse, Returns, Goes, CloseTarget
<1>9. ASSUME NEW p \in Calls, Rename(p) PROVE RefusedOK'
    BY <1>9
       DEF Rename, RenameOver, Fresh, Replacement, GiveUp, Continue, Refuse,
           Returns, Goes, CloseTarget
<1>10. ASSUME NEW p \in Calls, Check(p) PROVE RefusedOK'
    BY <1>10 DEF Check, CloseTarget, AfterError, Continue, Goes
<1>11. ASSUME NEW p \in Calls, VerifyPublished(p) PROVE RefusedOK'
    BY <1>11 DEF VerifyPublished, Continue, Goes
<1>12. ASSUME NEW p \in Calls, Observe(p) PROVE RefusedOK'
    BY <1>12 DEF Observe, Goes
<1>13. ASSUME NEW p \in Calls, Finish(p) PROVE RefusedOK'
    BY <1>13 DEF Finish, Spend, Consume, Swept, Goes
<1>14. ASSUME NEW p \in Calls, Recover(p) PROVE RefusedOK'
    BY <1>14 DEF Recover, Consume, Swept, Goes
<1>15. ASSUME NEW p \in Calls, Restore(p) PROVE RefusedOK'
    BY <1>15 DEF Restore, Continue, Goes
<1>16. ASSUME NEW p \in Calls, Look(p) PROVE RefusedOK'
    BY <1>16 DEF Look, Returns, Goes
<1>17. ASSUME NEW t \in Tokens, Preview(t) PROVE RefusedOK'
    BY <1>17 DEF Preview, Issue
<1>18. ASSUME NEW p \in Calls, NEW t \in Tokens, Begin(p, t) PROVE RefusedOK'
    BY <1>18 DEF Begin, Verify, Swept, Returns, Goes
<1>19. ASSUME NEW content \in Outside, WriteOutside(content) PROVE RefusedOK'
    BY <1>19 DEF WriteOutside, WriteInPlace, RenameOver, Fresh
<1>20. ASSUME Editor PROVE RefusedOK'
    BY <1>20 DEF Editor, ToggleEditor
<1>21. ASSUME NEW s \in Servers, Die(s) PROVE RefusedOK'
    BY <1>21 DEF Die, CloseAll, CallsOf, NewKey
<1>22. ASSUME SecondPasses PROVE RefusedOK'
    BY <1>22 DEF SecondPasses, ClockTick
<1>23. CASE UNCHANGED vars
    BY <1>23 DEF vars
<1> QED
    BY <1>1, <1>2, <1>3, <1>4, <1>5, <1>6, <1>7, <1>8, <1>9, <1>10, <1>11,
       <1>12, <1>13, <1>14, <1>15, <1>16, <1>17, <1>18, <1>19, <1>20,
       <1>21, <1>22, <1>23
       DEF Next, CallStep, OthersStep

(* A spent token stays spent: what sweeping forgets has expired, and a     *)
(* dying server expires the tokens it forgets.                             *)
LEMMA StepKeepsSpent == IInv /\ [Next]_vars => SpentOK'
<1> SUFFICES ASSUME IInv, [Next]_vars PROVE SpentOK'
    OBVIOUS
<1> USE TokenAssumption, ApplyAssumption DEF IInv,
          TypeOK, TokensTypeOK, CallsOK, RefusedOK, Unpublished, SpentOK,
          Spent, Over, Expired, Early, PC, Swapping, file, tokens, calls
<1>1. ASSUME NEW p \in Calls, ReadBoard(p) PROVE SpentOK'
    BY <1>1 DEF ReadBoard, Board, Refuse, Returns, Goes
<1>2. ASSUME NEW p \in Calls, Inspect(p) PROVE SpentOK'
    BY <1>2 DEF Inspect, Continue, Refuse, Returns, Goes
<1>3. ASSUME NEW p \in Calls, WriteBackup(p) PROVE SpentOK'
    BY <1>3 DEF WriteBackup, Refuse, Returns, Goes
<1>4. ASSUME NEW p \in Calls, PruneBackups(p) PROVE SpentOK'
    BY <1>4 DEF PruneBackups, Continue, Goes, Newest
<1>5. ASSUME NEW p \in Calls, Open(p) PROVE SpentOK'
    BY <1>5 DEF Open, OpenTarget, Continue, Goes
<1>6. ASSUME NEW p \in Calls, Lock(p) PROVE SpentOK'
    BY <1>6 DEF Lock, TakeLock, Continue, Goes
<1>7. ASSUME NEW p \in Calls, Compare(p) PROVE SpentOK'
    BY <1>7 DEF Compare, GiveUp, Continue, Refuse, Returns, Goes, CloseTarget
<1>8. ASSUME NEW p \in Calls, Precheck(p) PROVE SpentOK'
    BY <1>8 DEF Precheck, GiveUp, Continue, Refuse, Returns, Goes, CloseTarget
<1>9. ASSUME NEW p \in Calls, Rename(p) PROVE SpentOK'
    BY <1>9
       DEF Rename, RenameOver, Fresh, Replacement, GiveUp, Continue, Refuse,
           Returns, Goes, CloseTarget
<1>10. ASSUME NEW p \in Calls, Check(p) PROVE SpentOK'
    BY <1>10 DEF Check, CloseTarget, AfterError, Continue, Goes
<1>11. ASSUME NEW p \in Calls, VerifyPublished(p) PROVE SpentOK'
    BY <1>11 DEF VerifyPublished, Continue, Goes
<1>12. ASSUME NEW p \in Calls, Observe(p) PROVE SpentOK'
    BY <1>12 DEF Observe, Goes
<1>13. ASSUME NEW p \in Calls, Finish(p) PROVE SpentOK'
    BY <1>13 DEF Finish, Spend, Consume, Swept, Goes
<1>14. ASSUME NEW p \in Calls, Recover(p) PROVE SpentOK'
    BY <1>14 DEF Recover, Consume, Swept, Goes
<1>15. ASSUME NEW p \in Calls, Restore(p) PROVE SpentOK'
    BY <1>15 DEF Restore, Continue, Goes
<1>16. ASSUME NEW p \in Calls, Look(p) PROVE SpentOK'
    BY <1>16 DEF Look, Returns, Goes
<1>17. ASSUME NEW t \in Tokens, Preview(t) PROVE SpentOK'
    BY <1>17 DEF Preview, Issue
<1>18. ASSUME NEW p \in Calls, NEW t \in Tokens, Begin(p, t) PROVE SpentOK'
    BY <1>18 DEF Begin, Verify, Swept, Returns, Goes
<1>19. ASSUME NEW content \in Outside, WriteOutside(content) PROVE SpentOK'
    BY <1>19 DEF WriteOutside, WriteInPlace, RenameOver, Fresh
<1>20. ASSUME Editor PROVE SpentOK'
    BY <1>20 DEF Editor, ToggleEditor
<1>21. ASSUME NEW s \in Servers, Die(s) PROVE SpentOK'
    BY <1>21 DEF Die, CloseAll, CallsOf, NewKey
<1>22. ASSUME SecondPasses PROVE SpentOK'
    BY <1>22 DEF SecondPasses, ClockTick
<1>23. CASE UNCHANGED vars
    BY <1>23 DEF vars
<1> QED
    BY <1>1, <1>2, <1>3, <1>4, <1>5, <1>6, <1>7, <1>8, <1>9, <1>10, <1>11,
       <1>12, <1>13, <1>14, <1>15, <1>16, <1>17, <1>18, <1>19, <1>20,
       <1>21, <1>22, <1>23
       DEF Next, CallStep, OthersStep

(* The invariant of the specification.                                     *)
LEMMA Invariance == Spec => []IInv
<1>1. IInv /\ [Next]_vars => IInv'
    BY StepKeepsTypes, StepKeepsCalls, StepKeepsRefused, StepKeepsSpent
       DEF IInv
<1> QED
    BY InitIInv, <1>1, PTL DEF Spec

-----------------------------------------------------------------------------
(* Every variable keeps its type, a call has the board open exactly while  *)
(* it is replacing it, holds the lock of what it has open inside the swap, *)
(* and no lock outlives its descriptor (security.py, replace_workspace_file*)
(* and its finally).                                                       *)
THEOREM TypeCorrectness == Spec => []TypeOK
    BY Invariance, PTL DEF IInv

(* A call that reports a refusal has not changed the board (service.py:20, *)
(* the WorkspaceViolation handlers against the post-rename ones).          *)
THEOREM RefusalsChangeNothing == Spec => []RefusedLeavesBoard
<1>1. IInv => RefusedLeavesBoard
    BY DEF IInv, RefusedOK, RefusedLeavesBoard
<1> QED
    BY <1>1, Invariance, PTL

(* Once a call that wrote the board is over, its token authorizes nothing, *)
(* sweeping included (tokens.py, consume and _sweep).                      *)
THEOREM SpentTokensStaySpent == Spec => []SpentTokenStaysSpent
<1>1. IInv => SpentTokenStaysSpent
    BY DEF IInv, TypeOK, CallsOK, SpentOK, Spent, SpentTokenStaysSpent, Over,
           Swept, Expired
<1> QED
    BY <1>1, Invariance, PTL

-----------------------------------------------------------------------------
(* The pre-apply copies.                                                   *)

Copy(p) == [stamp |-> stamp[p], copy |-> seen[p]]
Before == {"new", "read", "inspect", "backup"}
Copied == PC \ (Before \cup {"returned", "dead"})

(* Every copy since the behaviour began was made by a call, which made one *)
(* only; and a call that goes on still has its own.                        *)
CopiesInv ==
    /\ \A p \in Calls :
          /\ pc[p] \in Before => stamp[p] = 0
          /\ pc[p] \in Copied => stamp[p] # 0 /\ Copy(p) \in backups
    /\ backups \subseteq OldBackups \cup {Copy(q) : q \in {r \in Calls : stamp[r] # 0}}

LEMMA NoCopyYet == Init => CopiesInv
    BY DEF Init, CopiesInv, Copied, PC, Before

(* A step that neither copies nor prunes.                                  *)
LEMMA CopiesStand ==
    ASSUME CopiesInv, UNCHANGED <<stamp, backups>>,
           \A q \in Calls :
              /\ stamp[q] # 0 => seen'[q] = seen[q]
              /\ pc'[q] \in Before => pc[q] \in Before
              /\ pc'[q] \in Copied => pc[q] \in Copied
    PROVE  CopiesInv'
<1>1. \A q \in Calls : stamp[q] # 0 =>
        [stamp |-> stamp'[q], copy |-> seen'[q]] = [stamp |-> stamp[q], copy |-> seen[q]]
    OBVIOUS
<1>2. {Copy(q) : q \in {r \in Calls : stamp[r] # 0}}' = {Copy(q) : q \in {r \in Calls : stamp[r] # 0}}
    BY <1>1 DEF Copy
<1> QED
    BY <1>1, <1>2 DEF CopiesInv, Copy

LEMMA CopyIsMade ==
    ASSUME IInv, CopiesInv, NEW p \in Calls, WriteBackup(p)
    PROVE  CopiesInv'
<1> USE DEF IInv, TypeOK, TokensTypeOK, SpentOK
<1>1. pc[p] = "backup" /\ stamp[p] = 0 /\ time \in Nat /\ time # 0
    BY DEF WriteBackup, CopiesInv, Before
<1>2. CASE Refuse(p) /\ UNCHANGED backups
    BY <1>1, <1>2, CopiesStand DEF Refuse, Returns, Goes, Before, Copied
<1>3. CASE /\ Goes(p, "prune") /\ stamp' = [stamp EXCEPT ![p] = time]
           /\ backups' = backups \cup {[stamp |-> time, copy |-> seen[p]]}
           /\ UNCHANGED seen
    <2>1. /\ stamp'[p] = time /\ Copy(p)' \in backups' /\ backups \subseteq backups'
          /\ pc'[p] = "prune"
        BY <1>3 DEF Copy, Goes
    <2>2. \A q \in Calls \ {p} :
            /\ pc'[q] = pc[q] /\ stamp'[q] = stamp[q] /\ seen'[q] = seen[q]
            /\ [stamp |-> stamp'[q], copy |-> seen'[q]] = [stamp |-> stamp[q], copy |-> seen[q]]
        BY <1>3 DEF Goes
    <2>3. \A q \in Calls : stamp[q] # 0 => q # p /\ stamp'[q] # 0
        BY <1>1, <2>2
    <2>4. backups' \subseteq OldBackups \cup {Copy(q) : q \in {r \in Calls : stamp[r] # 0}}'
        <3> SUFFICES ASSUME NEW b \in backups', b \notin OldBackups
                     PROVE  \E q \in Calls : stamp'[q] # 0 /\ b = [stamp |-> stamp'[q], copy |-> seen'[q]]
            BY DEF Copy
        <3>1. CASE b \in backups
            <4>1. PICK q \in Calls : stamp[q] # 0 /\ b = [stamp |-> stamp[q], copy |-> seen[q]]
                BY <3>1 DEF CopiesInv, Copy
            <4> QED
                BY <2>2, <2>3, <4>1
        <3>2. CASE b = [stamp |-> time, copy |-> seen[p]]
            <4>1. b = [stamp |-> stamp'[p], copy |-> seen'[p]] /\ stamp'[p] # 0
                BY <1>1, <1>3, <2>1, <3>2
            <4> QED
                BY <4>1
        <3> QED
            BY <1>3, <3>1, <3>2
    <2>5. ASSUME NEW q \in Calls
          PROVE  /\ pc'[q] \in Before => stamp'[q] = 0
                 /\ pc'[q] \in Copied => stamp'[q] # 0 /\ Copy(q)' \in backups'
        <3>1. CASE q = p
            BY <1>1, <2>1, <3>1 DEF Before
        <3>2. CASE q # p
            BY <2>1, <2>2, <3>2 DEF CopiesInv, Copy
        <3> QED
            BY <3>1, <3>2
    <2> QED
        BY <2>4, <2>5 DEF CopiesInv
<1> QED
    BY <1>2, <1>3 DEF WriteBackup

(* What is kept is as new as any copy that is dropped, so a call that lost *)
(* its own would see the copies of MaxBackups others.                      *)
LEMMA OwnCopyIsKept ==
    ASSUME IInv, CopiesInv, Cardinality(Calls) <= MaxBackups,
           \A b \in OldBackups : b.stamp < 1,
           NEW kept, Newest(kept), NEW p \in Calls, pc[p] \in Copied
    PROVE  Copy(p) \in kept
<1> SUFFICES ASSUME Copy(p) \notin kept PROVE FALSE
    OBVIOUS
<1>1. /\ stamp[p] \in Nat /\ stamp[p] # 0 /\ Copy(p) \in backups \ kept
      /\ Copy(p).stamp = stamp[p]
    BY DEF CopiesInv, IInv, TypeOK, Copy
<1> DEFINE others == Calls \ {p}
           f == [q \in others |-> Copy(q)]
           T == {Copy(q) : q \in others}
<1>2. kept \subseteq T
    <2> SUFFICES ASSUME NEW b \in kept PROVE b \in T
        OBVIOUS
    <2>1. b.stamp >= stamp[p] /\ b.stamp \in Nat
        BY <1>1 DEF Newest, IInv, TypeOK
    <2>2. b \notin OldBackups
        BY <1>1, <2>1
    <2>3. PICK q \in Calls : b = Copy(q)
        BY <2>2 DEF Newest, CopiesInv
    <2> QED
        BY <2>3
<1>3. IsFiniteSet(others) /\ Cardinality(others) = Cardinality(Calls) - 1
      /\ Cardinality(Calls) \in Nat
    BY FileAssumption, FS_RemoveElement, FS_CardinalityType
<1>4. f \in Surjection(others, T)
    BY DEF Surjection
<1> HIDE DEF f, T, others
<1>5. IsFiniteSet(T) /\ Cardinality(T) <= Cardinality(others)
    BY <1>3, <1>4, FS_Surjection
<1>6. /\ Cardinality(kept) <= Cardinality(T)
      /\ Cardinality(kept) \in Nat /\ Cardinality(T) \in Nat
    BY <1>2, <1>5, FS_Subset, FS_CardinalityType
<1>7. Cardinality(kept) = MaxBackups
    BY DEF Newest
<1> QED
    BY <1>3, <1>5, <1>6, <1>7, ApplyAssumption

LEMMA CopiesArePruned ==
    ASSUME IInv, CopiesInv, Cardinality(Calls) <= MaxBackups,
           \A b \in OldBackups : b.stamp < 1,
           NEW p \in Calls, PruneBackups(p)
    PROVE  CopiesInv'
<1>1. /\ pc[p] = "prune" /\ Goes(p, "open") /\ UNCHANGED <<stamp, seen>>
      /\ pc \in [Calls -> PC]
    BY DEF PruneBackups, Continue, IInv, TypeOK
<1>2. \A q \in Calls :
        /\ pc'[q] \in Before => pc[q] \in Before
        /\ pc'[q] \in Copied => pc[q] \in Copied
    BY <1>1 DEF Goes, Before, Copied, PC
<1>3. CASE UNCHANGED backups
    BY <1>1, <1>2, <1>3, CopiesStand
<1>4. CASE \E kept \in SUBSET backups : Newest(kept) /\ backups' = kept
    <2>1. PICK kept \in SUBSET backups : Newest(kept) /\ backups' = kept
        BY <1>4
    <2>2. \A q \in Calls : pc[q] \in Copied => Copy(q) \in kept
        BY <2>1, OwnCopyIsKept
    <2> QED
        BY <1>1, <1>2, <2>1, <2>2 DEF CopiesInv, Copy
<1> QED
    BY <1>3, <1>4 DEF PruneBackups

LEMMA StepKeepsCopies ==
    ASSUME IInv, CopiesInv, Cardinality(Calls) <= MaxBackups,
           \A b \in OldBackups : b.stamp < 1, [Next]_vars
    PROVE  CopiesInv'
<1> USE DEF Before, Copied, PC, Swapping, calls
<1>0. pc \in [Calls -> PC] /\ seen \in [Calls -> Contents \cup {None}]
    BY DEF IInv, TypeOK
<1>1. ASSUME NEW p \in Calls, ReadBoard(p) PROVE CopiesInv'
    <2>1. pc[p] = "read" /\ stamp[p] = 0
        BY <1>1 DEF ReadBoard, CopiesInv
    <2> QED
        BY <1>0, <1>1, <2>1, CopiesStand DEF ReadBoard, Refuse, Returns, Goes
<1>2. ASSUME NEW p \in Calls, Inspect(p) PROVE CopiesInv'
    BY <1>0, <1>2, CopiesStand DEF Inspect, Continue, Refuse, Returns, Goes
<1>3. ASSUME NEW p \in Calls, WriteBackup(p) PROVE CopiesInv'
    BY <1>3, CopyIsMade
<1>4. ASSUME NEW p \in Calls, PruneBackups(p) PROVE CopiesInv'
    BY <1>4, CopiesArePruned
<1>5. ASSUME NEW p \in Calls, Open(p) PROVE CopiesInv'
    BY <1>0, <1>5, CopiesStand DEF Open, Continue, Goes
<1>6. ASSUME NEW p \in Calls, Lock(p) PROVE CopiesInv'
    BY <1>0, <1>6, CopiesStand DEF Lock, Continue, Goes
<1>7. ASSUME NEW p \in Calls, Compare(p) PROVE CopiesInv'
    BY <1>0, <1>7, CopiesStand DEF Compare, GiveUp, Continue, Refuse, Returns, Goes
<1>8. ASSUME NEW p \in Calls, Precheck(p) PROVE CopiesInv'
    BY <1>0, <1>8, CopiesStand DEF Precheck, GiveUp, Continue, Refuse, Returns, Goes
<1>9. ASSUME NEW p \in Calls, Rename(p) PROVE CopiesInv'
    BY <1>0, <1>9, CopiesStand DEF Rename, GiveUp, Continue, Refuse, Returns, Goes
<1>10. ASSUME NEW p \in Calls, Check(p) PROVE CopiesInv'
    BY <1>0, <1>10, CopiesStand DEF Check, AfterError, Continue, Goes
<1>11. ASSUME NEW p \in Calls, VerifyPublished(p) PROVE CopiesInv'
    BY <1>0, <1>11, CopiesStand DEF VerifyPublished, Continue, Goes
<1>12. ASSUME NEW p \in Calls, Observe(p) PROVE CopiesInv'
    BY <1>0, <1>12, CopiesStand DEF Observe, Goes
<1>13. ASSUME NEW p \in Calls, Finish(p) PROVE CopiesInv'
    BY <1>0, <1>13, CopiesStand DEF Finish, Goes
<1>14. ASSUME NEW p \in Calls, Recover(p) PROVE CopiesInv'
    BY <1>0, <1>14, CopiesStand DEF Recover, Goes
<1>15. ASSUME NEW p \in Calls, Restore(p) PROVE CopiesInv'
    BY <1>0, <1>15, CopiesStand DEF Restore, Continue, Goes
<1>16. ASSUME NEW p \in Calls, Look(p) PROVE CopiesInv'
    BY <1>0, <1>16, CopiesStand DEF Look, Returns, Goes
<1>17. ASSUME NEW t \in Tokens, Preview(t) PROVE CopiesInv'
    BY <1>17, CopiesStand DEF Preview
<1>18. ASSUME NEW p \in Calls, NEW t \in Tokens, Begin(p, t) PROVE CopiesInv'
    BY <1>0, <1>18, CopiesStand DEF Begin, Returns, Goes
<1>19. ASSUME NEW content \in Outside, WriteOutside(content) PROVE CopiesInv'
    BY <1>19, CopiesStand DEF WriteOutside
<1>20. ASSUME Editor PROVE CopiesInv'
    BY <1>20, CopiesStand DEF Editor
<1>21. ASSUME NEW s \in Servers, Die(s) PROVE CopiesInv'
    BY <1>0, <1>21, CopiesStand DEF Die
<1>22. ASSUME SecondPasses PROVE CopiesInv'
    BY <1>22, CopiesStand DEF SecondPasses
<1>23. CASE UNCHANGED vars
    BY <1>23, CopiesStand DEF vars
<1> QED
    BY <1>1, <1>2, <1>3, <1>4, <1>5, <1>6, <1>7, <1>8, <1>9, <1>10, <1>11,
       <1>12, <1>13, <1>14, <1>15, <1>16, <1>17, <1>18, <1>19, <1>20,
       <1>21, <1>22, <1>23
       DEF Next, CallStep, OthersStep

(* A call that has renamed its output over the board still has its way     *)
(* back, whatever the calls beside it copy and prune, for any board, files *)
(* and tokens, as long as no more calls run than copies are kept, and the  *)
(* copies of earlier applies are of earlier seconds (service.py,           *)
(* _write_backup).                                                         *)
THEOREM CallsKeepTheirWayBack ==
    ASSUME Cardinality(Calls) <= MaxBackups, \A b \in OldBackups : b.stamp < 1
    PROVE  Spec => []WayBackKept
<1>1. IInv /\ CopiesInv => WayBackKept
    BY DEF IInv, TypeOK, RefusedOK, Unpublished, CopiesInv, WayBackKept, Copy, Copied,
           Before, Early, Over
<1>2. IInv /\ CopiesInv /\ [Next]_vars => CopiesInv'
    BY StepKeepsCopies
<1>3. Spec => []CopiesInv
    BY <1>2, NoCopyYet, Invariance, PTL DEF Spec
<1> QED
    BY <1>1, <1>3, Invariance, PTL

-----------------------------------------------------------------------------
(* The apply calls as atomic swaps.                                        *)

(* Nobody else writes the board, a write can be verified, and candidates   *)
(* lead somewhere: R ranks the boards so that every output ranks above the *)
(* board its token was issued for.                                         *)
Quiet(R) ==
    /\ Outside = {} /\ ~MayFail
    /\ R \in [Contents -> Nat]
    /\ \A t \in Tokens : R[Base[t]] < R[Output[t]]

Above(R, p) == R[Output[token[p]]] < R[Board]

(* The board only climbs, so a call that is past the open either has the   *)
(* board's own inode or has seen a board that is gone for good; inside the *)
(* compare-and-swap only the first is left.  A call that has published     *)
(* finds its own output or a later one, so it never restores.              *)
AtomicCall(R, p) ==
    /\ restoring[p] => pc[p] \in {"restore", "look", "returned", "dead"}
    /\ pc[p] \in {"recover", "restore"} => Above(R, p)
    /\ renamed[p] => token[p] # None /\ R[Output[token[p]]] <= R[Board]
    /\ pc[p] \in {"check", "published"} =>
          renamed[p] /\ (Board = Output[token[p]] \/ Above(R, p))
    /\ seen[p] # None => R[seen[p]] <= R[Board]
    /\ pc[p] \in {"backup", "prune", "open", "lock", "compare", "precheck", "rename"} =>
          seen[p] = Base[token[p]]
    /\ pc[p] \in {"lock", "compare", "precheck", "rename"} =>
          fd[p] = name \/ R[seen[p]] < R[Board]
    /\ pc[p] \in {"precheck", "rename"} => Board = seen[p]

AtomicInv(R) == \A p \in Calls : AtomicCall(R, p)

LEMMA NothingPublishedYet ==
    ASSUME NEW R, Init
    PROVE  AtomicInv(R)
BY DEF Init, AtomicInv, AtomicCall

(* A step of one call that leaves the board alone.                         *)
LEMMA OthersStandBy ==
    ASSUME NEW R, AtomicInv(R), UNCHANGED <<name, bytes>>, NEW p \in Calls,
           \A q \in Calls \ {p} :
              /\ pc'[q] = pc[q] /\ token'[q] = token[q] /\ seen'[q] = seen[q]
              /\ restoring'[q] = restoring[q] /\ renamed'[q] = renamed[q]
              /\ fd'[q] = fd[q],
           AtomicCall(R, p)'
    PROVE  AtomicInv(R)'
BY DEF AtomicInv, AtomicCall, Above, Board

(* The call that renames has the lock of the board's own inode, so no      *)
(* other call is between its compare and its rename.                       *)
LEMMA RenameClimbs ==
    ASSUME NEW R, Quiet(R), IInv, AtomicInv(R), NEW p \in Calls,
           pc[p] = "rename", RenameOver(Replacement(p))
    PROVE  /\ ~restoring[p] /\ ~renamed[p] /\ token[p] \in Tokens
           /\ Board = Base[token[p]] /\ Board' = Output[token[p]]
           /\ R[Board] < R[Board'] /\ R[Board] \in Nat /\ R[Board'] \in Nat
           /\ \A q \in Calls \ {p} : pc[q] \notin {"precheck", "rename"}
<1> USE ApplyAssumption
<1>1. /\ ~restoring[p] /\ Board = seen[p] /\ seen[p] = Base[token[p]]
      /\ token[p] \in Tokens
    BY DEF IInv, TypeOK, CallsOK, AtomicInv, AtomicCall
<1>2. ~renamed[p]
    BY <1>1 DEF IInv, RefusedOK, Unpublished
<1>3. Board' = Output[token[p]]
    BY <1>1 DEF RenameOver, Replacement, Board, IInv, TypeOK, FileTypeOK
<1>4. R[Board] \in Nat /\ R[Board'] \in Nat /\ R[Board] < R[Board']
    BY <1>1, <1>3 DEF Quiet
<1>5. ASSUME NEW q \in Calls, pc[q] \in {"precheck", "rename"} PROVE q = p
    <2>1. \A r \in {p, q} : Board = seen[r] /\ (fd[r] = name \/ R[seen[r]] < R[Board])
        BY <1>5 DEF AtomicInv, AtomicCall
    <2>2. fd[p] = name /\ fd[q] = name
        BY <1>4, <2>1
    <2> QED
        BY <1>5, <2>2 DEF IInv, TypeOK, Swapping
<1> QED
    BY <1>1, <1>2, <1>3, <1>4, <1>5

(* Every step of every call keeps the argument; only the rename moves the board. *)
LEMMA StepKeepsAtomic ==
    ASSUME NEW R, Quiet(R), IInv, AtomicInv(R), [Next]_vars
    PROVE  AtomicInv(R)'
<1> USE ApplyAssumption DEF calls, file, Swapping, PC
<1>0. /\ pc \in [Calls -> PC] /\ token \in [Calls -> Tokens \cup {None}]
      /\ seen \in [Calls -> Contents \cup {None}] /\ renamed \in [Calls -> BOOLEAN]
      /\ restoring \in [Calls -> BOOLEAN] /\ fd \in [Calls -> Inodes \cup {None}]
      /\ Board \in Contents /\ R[Board] \in Nat
      /\ \A p \in Calls : pc[p] = "new" <=> token[p] = None
      /\ \A p \in Calls : pc[p] \in Early => ~restoring[p]
    BY DEF IInv, TypeOK, FileTypeOK, CallsOK, Board, Quiet
<1> USE DEF Early
<1>1. ASSUME NEW p \in Calls, ReadBoard(p) PROVE AtomicInv(R)'
    BY <1>0, <1>1, OthersStandBy
       DEF ReadBoard, Refuse, Returns, Goes, AtomicInv, AtomicCall, Above, Board
<1>2. ASSUME NEW p \in Calls, Inspect(p) PROVE AtomicInv(R)'
    BY <1>0, <1>2, OthersStandBy
       DEF Inspect, Continue, Refuse, Returns, Goes, AtomicInv, AtomicCall, Above, Board
<1>3. ASSUME NEW p \in Calls, WriteBackup(p) PROVE AtomicInv(R)'
    BY <1>0, <1>3, OthersStandBy
       DEF WriteBackup, Refuse, Returns, Goes, AtomicInv, AtomicCall, Above, Board
<1>4. ASSUME NEW p \in Calls, PruneBackups(p) PROVE AtomicInv(R)'
    BY <1>0, <1>4, OthersStandBy
       DEF PruneBackups, Continue, Goes, AtomicInv, AtomicCall, Above, Board
<1>5. ASSUME NEW p \in Calls, Open(p) PROVE AtomicInv(R)'
    BY <1>0, <1>5, OthersStandBy
       DEF Open, OpenTarget, Continue, Goes, AtomicInv, AtomicCall, Above, Board
<1>6. ASSUME NEW p \in Calls, Lock(p) PROVE AtomicInv(R)'
    BY <1>0, <1>6, OthersStandBy
       DEF Lock, TakeLock, Continue, Goes, AtomicInv, AtomicCall, Above, Board
<1>7. ASSUME NEW p \in Calls, Compare(p) PROVE AtomicInv(R)'
    BY <1>0, <1>7, OthersStandBy
       DEF Compare, Matches, Expected, GiveUp, CloseTarget, Continue, Refuse, Returns,
           Goes, AtomicInv, AtomicCall, Above, Board
<1>8. ASSUME NEW p \in Calls, Precheck(p) PROVE AtomicInv(R)'
    BY <1>0, <1>8, OthersStandBy
       DEF Precheck, GiveUp, CloseTarget, Continue, Refuse, Returns, Goes, AtomicInv,
           AtomicCall, Above, Board
<1>9. ASSUME NEW p \in Calls, Rename(p) PROVE AtomicInv(R)'
    <2>1. CASE GiveUp(p) /\ CloseTarget(p) /\ UNCHANGED <<name, bytes, editor>>
        BY <1>0, <1>9, <2>1, OthersStandBy
           DEF Rename, GiveUp, CloseTarget, Continue, Refuse, Returns, Goes, AtomicInv,
               AtomicCall, Above, Board
    <2>2. CASE /\ RenameOver(Replacement(p)) /\ Goes(p, "check")
               /\ renamed' = [renamed EXCEPT ![p] = @ \/ ~restoring[p]]
               /\ UNCHANGED <<token, seen, restoring, status, stamp>>
        <3>1. /\ ~restoring[p] /\ token[p] \in Tokens /\ Board' = Output[token[p]]
              /\ R[Board] < R[Board'] /\ R[Board'] \in Nat /\ seen[p] = Board
              /\ \A q \in Calls \ {p} : pc[q] \notin {"precheck", "rename"}
            BY <1>9, <2>2, RenameClimbs DEF Rename, AtomicInv, AtomicCall
        <3>2. fd' = fd /\ renamed'[p] = TRUE /\ pc'[p] = "check"
            BY <1>0, <2>2, <3>1 DEF RenameOver, Goes
        <3>3. \A q \in Calls \ {p} : pc'[q] = pc[q] /\ renamed'[q] = renamed[q]
            BY <1>0, <2>2 DEF Goes
        <3>4. ASSUME NEW q \in Calls \ {p} PROVE AtomicCall(R, q)'
            <4>1. token[q] # None => R[Output[token[q]]] \in Nat
                BY <1>0 DEF Quiet
            <4>2. seen[q] # None => R[seen[q]] \in Nat
                BY <1>0 DEF Quiet
            <4>3. AtomicCall(R, q)
                BY DEF AtomicInv
            <4>4. pc[q] \in {"recover", "restore", "check", "published"} => token[q] # None
                BY <1>0
            <4>5. pc[q] \in {"lock", "compare"} => seen[q] # None
                BY DEF IInv, CallsOK, AfterRead
            <4> QED
                BY <1>0, <2>2, <3>1, <3>2, <3>3, <4>1, <4>2, <4>3, <4>4, <4>5
                   DEF AtomicCall, Above
        <3>5. AtomicCall(R, p)'
            BY <1>0, <2>2, <3>1, <3>2 DEF AtomicCall, Above, Quiet
        <3> QED
            BY <3>4, <3>5 DEF AtomicInv
    <2> QED
        BY <1>9, <2>1, <2>2 DEF Rename
<1>10. ASSUME NEW p \in Calls, Check(p) PROVE AtomicInv(R)'
    BY <1>0, <1>10, OthersStandBy
       DEF Check, Replacement, CloseTarget, AfterError, Continue, Goes, Quiet, AtomicInv,
           AtomicCall, Above, Board
<1>11. ASSUME NEW p \in Calls, VerifyPublished(p) PROVE AtomicInv(R)'
    <2>1. /\ pc[p] = "published" /\ UNCHANGED <<name, bytes>>
          /\ \/ pc' = [pc EXCEPT ![p] = "observe"]
             \/ pc' = [pc EXCEPT ![p] = "recover"] /\ Board # Output[token[p]]
        BY <1>11 DEF VerifyPublished, Continue, Goes, Quiet
    <2>2. UNCHANGED <<token, seen, restoring, renamed, fd>>
        BY <1>11 DEF VerifyPublished, Continue
    <2>3. AtomicCall(R, p)
        BY DEF AtomicInv
    <2>4. AtomicCall(R, p)'
        BY <1>0, <2>1, <2>2, <2>3 DEF AtomicCall, Above, Board
    <2>5. \A q \in Calls \ {p} : pc'[q] = pc[q]
        BY <1>0, <2>1
    <2> QED
        BY <2>1, <2>2, <2>4, <2>5, OthersStandBy
<1>12. ASSUME NEW p \in Calls, Observe(p) PROVE AtomicInv(R)'
    BY <1>0, <1>12, OthersStandBy DEF Observe, Goes, AtomicInv, AtomicCall, Above, Board
<1>13. ASSUME NEW p \in Calls, Finish(p) PROVE AtomicInv(R)'
    BY <1>0, <1>13, OthersStandBy DEF Finish, Goes, AtomicInv, AtomicCall, Above, Board
<1>14. ASSUME NEW p \in Calls, Recover(p) PROVE AtomicInv(R)'
    BY <1>0, <1>14, OthersStandBy DEF Recover, Goes, AtomicInv, AtomicCall, Above, Board
<1>15. ASSUME NEW p \in Calls, Restore(p) PROVE AtomicInv(R)'
    BY <1>0, <1>15, OthersStandBy
       DEF Restore, Continue, Goes, AtomicInv, AtomicCall, Above, Board
<1>16. ASSUME NEW p \in Calls, Look(p) PROVE AtomicInv(R)'
    BY <1>0, <1>16, OthersStandBy DEF Look, Returns, Goes, AtomicInv, AtomicCall, Above, Board
<1>17. ASSUME NEW t \in Tokens, Preview(t) PROVE AtomicInv(R)'
    BY <1>17 DEF Preview, AtomicInv, AtomicCall, Above, Board
<1>18. ASSUME NEW p \in Calls, NEW t \in Tokens, Begin(p, t) PROVE AtomicInv(R)'
    BY <1>0, <1>18, OthersStandBy
       DEF Begin, Returns, Goes, AtomicInv, AtomicCall, Above, Board
<1>19. ASSUME NEW content \in Outside, WriteOutside(content) PROVE AtomicInv(R)'
    BY <1>19 DEF Quiet
<1>20. ASSUME Editor PROVE AtomicInv(R)'
    BY <1>20 DEF Editor, ToggleEditor, AtomicInv, AtomicCall, Above, Board
<1>21. ASSUME NEW s \in Servers, Die(s) PROVE AtomicInv(R)'
    BY <1>0, <1>21 DEF Die, CloseAll, AtomicInv, AtomicCall, Above, Board
<1>22. ASSUME SecondPasses PROVE AtomicInv(R)'
    BY <1>22 DEF SecondPasses, AtomicInv, AtomicCall, Above, Board
<1>23. CASE UNCHANGED vars
    BY <1>23 DEF vars, AtomicInv, AtomicCall, Above, Board
<1> QED
    BY <1>1, <1>2, <1>3, <1>4, <1>5, <1>6, <1>7, <1>8, <1>9, <1>10, <1>11,
       <1>12, <1>13, <1>14, <1>15, <1>16, <1>17, <1>18, <1>19, <1>20,
       <1>21, <1>22, <1>23
       DEF Next, CallStep, OthersStep

(* A refusal is the abstract one, a publishing rename the abstract swap:   *)
(* its token is not used yet, since the board would then be past it.       *)
LEMMA StepIsAtomic ==
    ASSUME NEW R, Quiet(R), IInv, AtomicInv(R), [Next]_vars
    PROVE  [Atomic!Next]_<<Board, {token[p] : p \in {q \in Calls : renamed[q]}},
                            {p \in Calls : renamed[p] \/ status[p] = "refused"}>>
<1> DEFINE Used == {token[p] : p \in {q \in Calls : renamed[q]}}
           Out == {p \in Calls : renamed[p] \/ status[p] = "refused"}
<1> USE DEF calls, file
<1>0. /\ pc \in [Calls -> PC] /\ token \in [Calls -> Tokens \cup {None}]
      /\ renamed \in [Calls -> BOOLEAN]
      /\ status \in [Calls -> {"none", "refused", "applied", "unverified"}]
      /\ \A p \in Calls : pc[p] = "new" <=> token[p] = None
      /\ \A p \in Calls : status[p] = "refused" => pc[p] = "returned"
    BY DEF IInv, TypeOK, CallsOK
<1>a. ASSUME UNCHANGED <<name, bytes, token, renamed, status>>
      PROVE  UNCHANGED <<Board, Used, Out>>
    BY <1>a DEF Board
<1>b. ASSUME NEW p \in Calls, UNCHANGED <<name, bytes, renamed>>,
             \A q \in Calls : renamed[q] => token'[q] = token[q],
             \A q \in Calls : status'[q] = "refused" <=> status[q] = "refused"
      PROVE  UNCHANGED <<Board, Used, Out>>
    BY <1>b DEF Board
<1>c. ASSUME NEW p \in Calls, UNCHANGED <<name, bytes, renamed>>,
             \A q \in Calls : renamed[q] => token'[q] = token[q],
             status' = [status EXCEPT ![p] = "refused"], ~renamed[p], pc[p] # "returned"
      PROVE  Atomic!Refuse(p)
    <2>1. UNCHANGED <<Board, Used>>
        BY <1>c DEF Board
    <2>2. p \notin Out /\ Out' = Out \cup {p}
        BY <1>0, <1>c
    <2> QED
        BY <2>1, <2>2 DEF Atomic!Refuse
<1>1. ASSUME NEW p \in Calls,
             ReadBoard(p) \/ Inspect(p) \/ WriteBackup(p) \/ PruneBackups(p)
      PROVE  Atomic!Refuse(p) \/ UNCHANGED <<Board, Used, Out>>
    <2>1. pc[p] \in Early
        BY <1>1 DEF ReadBoard, Inspect, WriteBackup, PruneBackups, Early
    <2>2. ~renamed[p] /\ pc[p] # "returned"
        BY <2>1 DEF IInv, RefusedOK, Unpublished, Early
    <2>3. CASE Refuse(p) /\ UNCHANGED file
        BY <1>c, <2>2, <2>3 DEF Refuse, Returns
    <2>4. CASE UNCHANGED <<file, token, renamed, status>>
        BY <1>a, <2>4
    <2> QED
        BY <1>1, <2>3, <2>4
           DEF ReadBoard, Inspect, WriteBackup, PruneBackups, Continue
<1>2. ASSUME NEW p \in Calls, Compare(p) \/ Precheck(p)
      PROVE  Atomic!Refuse(p) \/ UNCHANGED <<Board, Used, Out>>
    <2>1. ~restoring[p] /\ pc[p] \in {"compare", "precheck"}
        BY <1>2 DEF Compare, Precheck, AtomicInv, AtomicCall
    <2>2. ~renamed[p] /\ pc[p] # "returned"
        BY <2>1 DEF IInv, RefusedOK, Unpublished
    <2>3. CASE Refuse(p) /\ UNCHANGED <<name, bytes>>
        BY <1>c, <2>2, <2>3 DEF Refuse, Returns
    <2>4. CASE UNCHANGED <<name, bytes, token, renamed, status>>
        BY <1>a, <2>4
    <2> QED
        BY <1>2, <2>1, <2>3, <2>4 DEF Compare, Precheck, GiveUp, Continue
<1>3. ASSUME NEW p \in Calls, Rename(p)
      PROVE  Atomic!Refuse(p) \/ Atomic!Swap(p)
    <2>1. pc[p] = "rename" /\ ~restoring[p]
        BY <1>3 DEF Rename, AtomicInv, AtomicCall
    <2>2. ~renamed[p] /\ status[p] # "refused" /\ pc[p] # "returned"
        BY <1>0, <2>1 DEF IInv, RefusedOK, Unpublished
    <2>3. CASE GiveUp(p) /\ UNCHANGED <<name, bytes>>
        BY <1>c, <2>1, <2>2, <2>3 DEF GiveUp, Refuse, Returns
    <2>4. CASE /\ RenameOver(Replacement(p))
               /\ renamed' = [renamed EXCEPT ![p] = @ \/ ~restoring[p]]
               /\ UNCHANGED <<token, status>>
        <3>1. /\ token[p] \in Tokens /\ Board = Base[token[p]] /\ Board' = Output[token[p]]
              /\ R[Board] \in Nat
            BY <2>1, <2>4, RenameClimbs
        <3>2. token[p] \notin Used
            <4> SUFFICES ASSUME NEW q \in Calls, renamed[q], token[q] = token[p] PROVE FALSE
                OBVIOUS
            <4>1. R[Output[token[p]]] <= R[Board] /\ R[Board] < R[Output[token[p]]]
                BY <3>1 DEF AtomicInv, AtomicCall, Quiet
            <4>2. R[Output[token[p]]] \in Nat
                BY <3>1, ApplyAssumption DEF Quiet
            <4> QED
                BY <3>1, <4>1, <4>2
        <3>3. \A q \in Calls : renamed'[q] <=> renamed[q] \/ q = p
            BY <1>0, <2>1, <2>4
        <3>4. Used' = Used \cup {token[p]} /\ Out' = Out \cup {p} /\ p \notin Out
            BY <2>2, <2>4, <3>3
        <3> HIDE DEF Used, Out
        <3>5. \E t \in Tokens \ Used : Board = Base[t] /\ Board' = Output[t] /\ Used' = Used \cup {t}
            BY <3>1, <3>2, <3>4
        <3> QED
            BY <3>4, <3>5 DEF Atomic!Swap, Used, Out
    <2> QED
        BY <1>3, <2>3, <2>4 DEF Rename
<1>4. ASSUME NEW p \in Calls, NEW t \in Tokens, Begin(p, t)
      PROVE  Atomic!Refuse(p) \/ UNCHANGED <<Board, Used, Out>>
    <2>1. pc[p] = "new" /\ ~renamed[p] /\ \A q \in Calls : renamed[q] => token'[q] = token[q]
        BY <1>0, <1>4 DEF Begin, IInv, RefusedOK, Unpublished, Early
    <2>2. CASE status' = status
        BY <1>4, <1>b, <2>1, <2>2 DEF Begin
    <2>3. CASE status' = [status EXCEPT ![p] = "refused"]
        BY <1>4, <1>c, <2>1, <2>3 DEF Begin
    <2> QED
        BY <1>4, <2>2, <2>3 DEF Begin, Returns
<1>5. ASSUME NEW p \in Calls, Observe(p) \/ Look(p)
      PROVE  UNCHANGED <<Board, Used, Out>>
    <2>1. status[p] # "refused"
        BY <1>0, <1>5 DEF Observe, Look
    <2>2. PICK said \in {"applied", "unverified"} : status' = [status EXCEPT ![p] = said]
        BY <1>5 DEF Observe, Look, Returns
    <2>3. \A q \in Calls : status'[q] = "refused" <=> status[q] = "refused"
        BY <1>0, <2>1, <2>2
    <2> QED
        BY <1>5, <1>b, <2>3 DEF Observe, Look
<1>6. ASSUME NEW p \in Calls,
             \/ Open(p) \/ Lock(p) \/ Check(p) \/ VerifyPublished(p)
             \/ Finish(p) \/ Recover(p) \/ Restore(p)
      PROVE  UNCHANGED <<Board, Used, Out>>
    BY <1>6, <1>a
       DEF Open, OpenTarget, Lock, TakeLock, Check, AfterError, VerifyPublished, Finish,
           Recover, Restore, Continue
<1>7. ASSUME NEW t \in Tokens, Preview(t) PROVE UNCHANGED <<Board, Used, Out>>
    BY <1>7, <1>a DEF Preview
<1>8. ASSUME NEW s \in Servers, Die(s) PROVE UNCHANGED <<Board, Used, Out>>
    BY <1>8, <1>a DEF Die, CloseAll
<1>9. ASSUME OthersStep PROVE UNCHANGED <<Board, Used, Out>>
    BY <1>9, <1>a DEF OthersStep, Editor, ToggleEditor, SecondPasses, Quiet
<1>10. ASSUME UNCHANGED vars PROVE UNCHANGED <<Board, Used, Out>>
    BY <1>10, <1>a DEF vars
<1> HIDE DEF Used, Out
<1>11. (\E p \in Calls : Atomic!Swap(p) \/ Atomic!Refuse(p)) \/ UNCHANGED <<Board, Used, Out>>
    BY <1>1, <1>2, <1>3, <1>4, <1>5, <1>6, <1>7, <1>8, <1>9, <1>10 DEF Next, CallStep
<1> QED
    BY <1>11 DEF Atomic!Next, Used, Out

LEMMA AtomicAlways ==
    ASSUME NEW R, Quiet(R)
    PROVE  Spec => []AtomicInv(R)
<1>1. IInv /\ AtomicInv(R) /\ [Next]_vars => AtomicInv(R)'
    BY StepKeepsAtomic
<1>2. Init => AtomicInv(R)
    BY NothingPublishedYet
<1> QED
    BY <1>1, <1>2, Invariance, PTL DEF Spec

(* On a board nobody else writes, when every write can be verified and no  *)
(* sequence of the tokens leads back to bytes the board has held, the apply*)
(* calls are atomic swaps: each either replaces exactly the bytes its token*)
(* was issued for, once per token, or changes nothing (service.py, and     *)
(* security.py, replace_workspace_file).                                   *)
THEOREM CallsAreAtomicSwaps ==
    ASSUME NEW R, Quiet(R)
    PROVE  Spec => ImplementsAtomicApply
<1>1. Init => Atomic!Init
    BY DEF Init, FileInit, Board, Atomic!Init
<1>2. IInv /\ AtomicInv(R) /\ [Next]_vars
        => [Atomic!Next]_<<Board, {token[p] : p \in {q \in Calls : renamed[q]}},
                            {p \in Calls : renamed[p] \/ status[p] = "refused"}>>
    BY StepIsAtomic
<1> QED
    BY <1>1, <1>2, AtomicAlways, Invariance, PTL
       DEF Spec, ImplementsAtomicApply, Atomic!Spec

-----------------------------------------------------------------------------
(* What the two findings need.                                             *)

(* A call publishes over the bytes it compared, with a token no call has   *)
(* used: one with it would have left the board above them.                 *)
LEMMA PublishingIsOnce ==
    ASSUME NEW R, Quiet(R), IInv, AtomicInv(R), TokenWritesOnce, [Next]_vars
    PROVE  /\ TokenWritesOnce'
           /\ \A p \in Calls : renamed'[p] /\ ~renamed[p] => Board = seen[p]
<1>0. /\ token \in [Calls -> Tokens \cup {None}] /\ renamed \in [Calls -> BOOLEAN]
      /\ \A p \in Calls : pc[p] = "new" => ~renamed[p]
    BY DEF IInv, TypeOK, RefusedOK, Unpublished, Early
<1>1. CASE UNCHANGED renamed /\ \A q \in Calls : renamed[q] => token'[q] = token[q]
    BY <1>1 DEF TokenWritesOnce
<1>2. ASSUME NEW p \in Calls, Rename(p), ~UNCHANGED renamed
      PROVE  /\ TokenWritesOnce'
             /\ \A q \in Calls : renamed'[q] /\ ~renamed[q] => Board = seen[q]
    <2>1. /\ pc[p] = "rename" /\ RenameOver(Replacement(p)) /\ UNCHANGED token
          /\ renamed' = [renamed EXCEPT ![p] = @ \/ ~restoring[p]]
        BY <1>2 DEF Rename, GiveUp, Continue, Refuse
    <2>2. /\ token[p] \in Tokens /\ Board = Base[token[p]] /\ R[Board] \in Nat
          /\ Board' = Output[token[p]] /\ R[Board'] \in Nat /\ R[Board] < R[Board']
        BY <2>1, RenameClimbs
    <2>3. Board = seen[p]
        BY <2>1 DEF AtomicInv, AtomicCall
    <2>4. ASSUME NEW q \in Calls, renamed[q] PROVE token[q] # token[p]
        BY <2>2, <2>4 DEF AtomicInv, AtomicCall
    <2>5. \A q \in Calls : renamed'[q] => renamed[q] \/ q = p
        BY <1>0, <2>1
    <2> QED
        BY <2>1, <2>3, <2>4, <2>5 DEF TokenWritesOnce
<1>3. ASSUME NEW p \in Calls, NEW t \in Tokens, Begin(p, t)
      PROVE  UNCHANGED renamed /\ \A q \in Calls : renamed[q] => token'[q] = token[q]
    BY <1>0, <1>3 DEF Begin
<1>4. ASSUME NEW p \in Calls, CallStep(p), ~Rename(p) \/ UNCHANGED renamed
      PROVE  UNCHANGED <<renamed, token>>
    BY <1>4
       DEF CallStep, ReadBoard, Inspect, WriteBackup, PruneBackups, Open, Lock, Compare,
           Precheck, Rename, Check, VerifyPublished, Observe, Finish, Recover, Restore, Look,
           GiveUp, AfterError, Continue, Refuse
<1>5. ASSUME \/ \E t \in Tokens : Preview(t)
             \/ \E s \in Servers : Die(s)
             \/ OthersStep
             \/ UNCHANGED vars
      PROVE  UNCHANGED <<renamed, token>>
    BY <1>5
       DEF Preview, Die, OthersStep, WriteOutside, Editor, SecondPasses, calls, vars
<1> QED
    BY <1>1, <1>2, <1>3, <1>4, <1>5 DEF Next

(* Under the same hypotheses one token stands for one write (tokens.py:1,  *)
(* "Single-use apply tokens"): only a rolled-back write leaves its token a *)
(* second one.                                                             *)
THEOREM TokensWriteOnceWithoutRestores ==
    ASSUME NEW R, Quiet(R)
    PROVE  Spec => []TokenWritesOnce
<1>1. Init => TokenWritesOnce
    BY DEF Init, TokenWritesOnce
<1>2. IInv /\ AtomicInv(R) /\ TokenWritesOnce /\ [Next]_vars => TokenWritesOnce'
    BY PublishingIsOnce
<1> QED
    BY <1>1, <1>2, AtomicAlways, Invariance, PTL DEF Spec

(* And a call publishes over exactly the bytes it compared (service.py:17, *)
(* "the loser refuses instead of clobbering the winner"): only a restore   *)
(* lets two calls into the critical section.                               *)
THEOREM LosersRefuseWithoutRestores ==
    ASSUME NEW R, Quiet(R)
    PROVE  Spec => LoserRefuses
<1>1. IInv /\ AtomicInv(R) /\ TokenWritesOnce /\ [Next]_vars
        => [\A p \in Calls : renamed'[p] /\ ~renamed[p] => Board = seen[p]]_vars
    BY PublishingIsOnce
<1> QED
    BY <1>1, TokensWriteOnceWithoutRestores, AtomicAlways, Invariance, PTL
       DEF Spec, LoserRefuses
===============================================================================
