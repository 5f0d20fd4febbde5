--------------------------- MODULE BoardApplyProperties ---------------------------
(***************************************************************************)
(* What must be true of a board, its tokens and its backups while apply    *)
(* calls run, and what the code's documents say that is not.               *)
(***************************************************************************)
EXTENDS BoardApply

Over(p) == pc[p] \in {"returned", "dead"}

(* Every variable keeps its type; a call has the board open exactly while  *)
(* it is replacing it, inside the swap it holds that file's lock, and no   *)
(* lock outlives the descriptor it was taken through.                      *)
TypeOK ==
    /\ FileTypeOK
    /\ TokensTypeOK
    /\ pc \in [Calls -> PC]
    /\ token \in [Calls -> Tokens \cup {None}]
    /\ seen \in [Calls -> Contents \cup {None}]
    /\ restoring \in [Calls -> BOOLEAN]
    /\ renamed \in [Calls -> BOOLEAN]
    /\ status \in [Calls -> {"none", "refused", "applied", "unverified"}]
    /\ stamp \in [Calls -> Nat]
    /\ backups \subseteq [stamp : Nat, copy : Contents]
    /\ \A p \in Calls :
          /\ pc[p] \in Swapping <=> fd[p] # None
          /\ pc[p] \in Swapping \ {"lock"} => holder[fd[p]] = p
    /\ \A i \in Inodes : holder[i] # None => fd[holder[i]] = i

(* A call that reports a refusal has not changed the board, whatever       *)
(* failed and whenever: "a failure after [the rename] says so" (service.py *)
(* :21).                                                                   *)
RefusedLeavesBoard == \A p \in Calls : status[p] = "refused" => ~renamed[p]

(* Once a call that wrote the board is over, no call can be authorized by  *)
(* its token again: until the token expires its nonce is remembered, even  *)
(* if the write could not be verified or was rolled back.                  *)
SpentTokenStaysSpent ==
    \A p \in Calls :
        Over(p) /\ renamed[p] =>
            Expired(token[p]) \/ token[p] \in consumed \ Swept(Issuer[token[p]])

(* A call that goes on to write has its pre-apply copy, and keeps it until *)
(* it returns, whatever the calls beside it prune, as long as they are not *)
(* more than MAX_BACKUPS_PER_BOARD.                                        *)
WayBackKept ==
    \A p \in Calls :
        renamed[p] /\ ~Over(p) =>
            [stamp |-> stamp[p], copy |-> seen[p]] \in backups

(* On a board nobody else writes, and whose writes can be verified, the    *)
(* apply calls behave as atomic swaps.                                     *)
Atomic ==
    INSTANCE AtomicApply WITH
        board <- Board,
        used <- {token[p] : p \in {q \in Calls : renamed[q]}},
        out <- {p \in Calls : renamed[p] \/ status[p] = "refused"}

ImplementsAtomicApply == Atomic!Spec

(* Every call ends: nobody waits for ever for the lock of a file.          *)
CallsEnd == \A p \in Calls : pc[p] # "new" ~> Over(p)

-----------------------------------------------------------------------------
(* What the documents say, and the code does not do.                       *)

(* "Two applies from the same base serialise and the loser refuses instead *)
(* of clobbering the winner" (service.py:17; security.py:322; docs/adr/    *)
(* 0025-...:139): a call publishes over the bytes it compared, not over    *)
(* the board another call published in between.                            *)
LoserRefuses ==
    [][\A p \in Calls : renamed'[p] /\ ~renamed[p] => Board = seen[p]]_vars

(* "A post-rename condition spends the capability even when the guarded    *)
(* rollback succeeds: otherwise the same token could replay a second write *)
(* against the restored revision" (service.py:556; tokens.py:1 "Single-use *)
(* apply tokens"): one token, one published write.                         *)
TokenWritesOnce ==
    \A p, q \in Calls :
        renamed[p] /\ renamed[q] /\ token[p] = token[q] => p = q
===================================================================================
