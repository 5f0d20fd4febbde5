------------------------------ MODULE AtomicApply ------------------------------
(***************************************************************************)
(* What the apply tools promise about a board nobody else is writing       *)
(* (docs/adr/0025-file-level-candidate-apply.md): a call either swaps the  *)
(* board, in one step, from exactly the bytes its token was issued for to  *)
(* those bytes with its candidate applied, or it changes nothing; and a    *)
(* token is good for one swap.                                             *)
(***************************************************************************)
CONSTANTS Calls, Tokens, Base, Output

VARIABLES
    board,  \* what the board holds
    used,   \* the tokens a swap has used
    out     \* the calls that are over without a swap, and those that swapped

Swap(p) ==
    /\ p \notin out
    /\ \E t \in Tokens \ used :
          /\ board = Base[t]
          /\ board' = Output[t]
          /\ used' = used \cup {t}
    /\ out' = out \cup {p}

Refuse(p) ==
    /\ p \notin out
    /\ out' = out \cup {p}
    /\ UNCHANGED <<board, used>>

Init ==
    /\ \E t \in Tokens : board = Base[t]
    /\ used = {}
    /\ out = {}

Next == \E p \in Calls : Swap(p) \/ Refuse(p)

Spec == Init /\ [][Next]_<<board, used, out>>
================================================================================
