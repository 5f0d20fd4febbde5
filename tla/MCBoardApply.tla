------------------------------ MODULE MCBoardApply ------------------------------
(***************************************************************************)
(* Small instances of the apply tools for TLC.                             *)
(***************************************************************************)
EXTENDS BoardApplyProperties, TLC

CONSTANTS t1, t2, t3, i1, r0, rA, rB, rAB, rX, s1

\* t1 and t2 authorize two candidates for one board; t3 one for t1's result.
MCBase == [t \in Tokens |-> IF t = t3 THEN rA ELSE r0]
MCOutput == [t \in Tokens |-> CASE t = t1 -> rA [] t = t2 -> rB [] OTHER -> rAB]
MCIssuer == [t \in Tokens |-> s1]

\* Copies from earlier seconds fill the directory.
MCOldBackups == [stamp : {0}, copy : {rX, rAB}]
MCNoBackups == {}

\* Inodes are interchangeable, and liveness is checked without symmetry: the
\* board starts as i1, and a new file takes one fixed free inode.
MCInit == Init /\ name = i1
MCNext == Next /\ (name' # name => name' = CHOOSE i \in Inodes : Fresh(i))
MCFairSpec ==
    /\ MCInit
    /\ [][MCNext]_vars
    /\ \A p \in Calls : WF_vars(CallStep(p))

MCSymmetry == Permutations(Calls) \cup Permutations(Inodes)
===============================================================================
