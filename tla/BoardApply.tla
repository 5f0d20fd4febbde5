------------------------------- MODULE BoardApply -------------------------------
(***************************************************************************)
(* Applying an authorized candidate to a board file                        *)
(* (src/copper_mcp/apply/service.py: apply_candidate and                   *)
(* apply_placement_candidate), with the tokens that authorize it, the file *)
(* it replaces, the pre-apply copies, and everybody else who writes the    *)
(* board meanwhile.                                                        *)
(*                                                                         *)
(* A call is one invocation of one of the two tools, in the process that   *)
(* issued its token; a step is what the call does between two accesses to  *)
(* something it shares: the authority, the board, its lock, the backups,   *)
(* the editor's lock file.  The parsing, the candidate's replay and the    *)
(* splice touch nothing shared: they are the part of a step that decides   *)
(* whether the call goes on, and any of them may refuse.                   *)
(***************************************************************************)
EXTENDS WorkspaceFile, ApplyTokens

CONSTANTS
    Base,        \* Base[t]: the board bytes token t was issued for
    Output,      \* Output[t]: those bytes with the token's candidate applied
    Placing,     \* tokens of the placement tool; the others are the route tool's
    MaxBackups,  \* pre-apply copies kept (MAX_BACKUPS_PER_BOARD)
    OldBackups,  \* copies earlier applies left
    Outside,     \* what writers other than the calls may write
    Replacing,   \* TRUE: such a writer may also rename a file over the board
    MayFail      \* TRUE: fsync or re-reading may fail after the rename

ASSUME ApplyAssumption ==
    /\ Base \in [Tokens -> Contents]
    /\ Output \in [Tokens -> Contents]
    /\ \A t \in Tokens : Output[t] # Base[t]
    /\ Placing \subseteq Tokens
    /\ MaxBackups \in Nat \ {0}
    /\ OldBackups \subseteq [stamp : Nat, copy : Contents]
    /\ Outside \subseteq Contents
    /\ Replacing \in BOOLEAN /\ MayFail \in BOOLEAN
    /\ None \notin Tokens

VARIABLES
    pc,       \* what each call does next
    token,    \* the token it presented
    seen,     \* board.content, read before the compare-and-swap
    restoring,\* FALSE: publishing the candidate; TRUE: _guarded_restore
    renamed,  \* the publishing rename has happened
    status,   \* the status the call reports
    stamp,    \* the timestamp in the name of the call's own pre-apply copy
    backups   \* the pre-apply copies of this board

calls == <<pc, token, seen, restoring, renamed, status, stamp>>
vars == <<file, tokens, calls, backups>>

Swapping == {"lock", "compare", "precheck", "rename", "check"}
PC == {"new", "read", "inspect", "backup", "prune", "open"} \cup Swapping \cup
      {"published", "observe", "spend", "recover", "restore", "look", "returned", "dead"}

Goes(p, label) == pc' = [pc EXCEPT ![p] = label]

Returns(p, outcome) ==
    /\ Goes(p, "returned")
    /\ status' = [status EXCEPT ![p] = outcome]

(* Until the rename every refusal is the same: nothing was written.        *)
Refuse(p) ==
    /\ Returns(p, "refused")
    /\ UNCHANGED <<token, seen, restoring, renamed, stamp>>

Continue(p, label) ==
    /\ Goes(p, label)
    /\ UNCHANGED <<token, seen, restoring, renamed, status, stamp>>

-----------------------------------------------------------------------------
(* A preview that read the board issues a token for the bytes it read.     *)
Preview(t) ==
    /\ Board = Base[t]
    /\ Issue(t)
    /\ UNCHANGED <<file, calls, backups>>

(* The token is verified before the board is read, and not consumed.       *)
Begin(p, t) ==
    /\ pc[p] = "new"
    /\ expires[t] # 0
    /\ Verify(t)
    /\ token' = [token EXCEPT ![p] = t]
    /\ IF Verifies(t)
       THEN Goes(p, "read") /\ UNCHANGED status
       ELSE Returns(p, "refused")
    /\ UNCHANGED <<file, seen, restoring, renamed, stamp, backups>>

ReadBoard(p) ==
    /\ pc[p] = "read"
    /\ \/ /\ Goes(p, "inspect")
          /\ seen' = [seen EXCEPT ![p] = Board]
          /\ UNCHANGED <<token, restoring, renamed, status, stamp>>
       \/ Refuse(p)
    /\ UNCHANGED <<file, tokens, backups>>

(* Lock file, first compare-and-swap, parse, replay, splice, filesystem.   *)
Inspect(p) ==
    /\ pc[p] = "inspect"
    /\ \/ /\ ~editor
          /\ seen[p] = Base[token[p]]
          /\ Continue(p, "backup")
       \/ Refuse(p)
    /\ UNCHANGED <<file, tokens, backups>>

(* _write_backup: the copy's name is its second and its digest, so a copy  *)
(* that is already there is the same copy.                                 *)
WriteBackup(p) ==
    /\ pc[p] = "backup"
    /\ \/ /\ Goes(p, "prune")
          /\ stamp' = [stamp EXCEPT ![p] = time]
          /\ backups' = backups \cup {[stamp |-> time, copy |-> seen[p]]}
          /\ UNCHANGED <<token, seen, restoring, renamed, status>>
       \/ Refuse(p) /\ UNCHANGED backups
    /\ UNCHANGED <<file, tokens>>

(* Mutant of Newest: the slice keeps the oldest copies.                    *)
Oldest(kept) ==
    /\ kept \subseteq backups
    /\ Cardinality(kept) = MaxBackups
    /\ \A b \in kept, d \in backups \ kept : b.stamp <= d.stamp

(* The newest copies by name; the digest, which is as good as arbitrary,   *)
(* breaks ties between copies of one second.                               *)
Newest(kept) ==
    /\ kept \subseteq backups
    /\ Cardinality(kept) = MaxBackups
    /\ \A b \in kept, d \in backups \ kept : b.stamp >= d.stamp

PruneBackups(p) ==
    /\ pc[p] = "prune"
    /\ IF Cardinality(backups) > MaxBackups
       THEN \E kept \in SUBSET backups : Newest(kept) /\ backups' = kept
       ELSE UNCHANGED backups
    /\ Continue(p, "open")
    /\ UNCHANGED <<file, tokens>>

-----------------------------------------------------------------------------
(* replace_workspace_file: once to publish, and once more to restore.      *)

Expected(p) == IF restoring[p] THEN Output[token[p]] ELSE seen[p]
Replacement(p) == IF restoring[p] THEN seen[p] ELSE Output[token[p]]

(* An error before the rename: publishing is refused, restoring given up.  *)
GiveUp(p) == IF restoring[p] THEN Continue(p, "look") ELSE Refuse(p)

Open(p) ==
    /\ pc[p] = "open"
    /\ OpenTarget(p)
    /\ Continue(p, "lock")
    /\ UNCHANGED <<tokens, backups>>

Lock(p) ==
    /\ pc[p] = "lock"
    /\ TakeLock(p)
    /\ Continue(p, "compare")
    /\ UNCHANGED <<tokens, backups>>

Compare(p) ==
    /\ pc[p] = "compare"
    /\ IF Matches(p, Expected(p))
       THEN Continue(p, "precheck") /\ UNCHANGED file
       ELSE GiveUp(p) /\ CloseTarget(p) /\ UNCHANGED <<name, bytes, editor>>
    /\ UNCHANGED <<tokens, backups>>

(* _recheck_lockfile; a restore has no precheck.                           *)
Precheck(p) ==
    /\ pc[p] = "precheck"
    /\ IF restoring[p] \/ ~editor
       THEN Continue(p, "rename") /\ UNCHANGED file
       ELSE GiveUp(p) /\ CloseTarget(p) /\ UNCHANGED <<name, bytes, editor>>
    /\ UNCHANGED <<tokens, backups>>

(* Write the temporary file, which may fail, and rename it.                *)
Rename(p) ==
    /\ pc[p] = "rename"
    /\ \/ /\ RenameOver(Replacement(p))
          /\ Goes(p, "check")
          /\ renamed' = [renamed EXCEPT ![p] = @ \/ ~restoring[p]]
          /\ UNCHANGED <<token, seen, restoring, status, stamp>>
       \/ GiveUp(p) /\ CloseTarget(p) /\ UNCHANGED <<name, bytes, editor>>
    /\ UNCHANGED <<tokens, backups>>

(* Mutant of AfterError: an error after the rename is one before it.       *)
AfterErrorRefuses(p) == GiveUp(p)

(* WorkspacePostRenameError: publishing recovers, restoring is given up.   *)
AfterError(p) == Continue(p, IF restoring[p] THEN "look" ELSE "recover")

(* The directory sync and the re-read after the rename.                    *)
Check(p) ==
    /\ pc[p] = "check"
    /\ CloseTarget(p)
    /\ \/ /\ Board = Replacement(p)
          /\ Continue(p, CASE restoring[p] -> "look"
                           [] token[p] \in Placing -> "published"
                           [] OTHER -> "observe")
       \/ /\ Board # Replacement(p) \/ MayFail
          /\ AfterError(p)
    /\ UNCHANGED <<name, bytes, editor, tokens, backups>>

-----------------------------------------------------------------------------
(* After publication.                                                      *)

(* verify_published_placement_board, the placement tool only.              *)
VerifyPublished(p) ==
    /\ pc[p] = "published"
    /\ \/ Board = Output[token[p]] /\ Continue(p, "observe")
       \/ (Board # Output[token[p]] \/ MayFail) /\ Continue(p, "recover")
    /\ UNCHANGED <<file, tokens, backups>>

(* _final_observed_revision: the report depends on what is visible now.    *)
Observe(p) ==
    /\ pc[p] = "observe"
    /\ Goes(p, "spend")
    /\ \/ /\ Board = Output[token[p]]
          /\ status' = [status EXCEPT ![p] = "applied"]
       \/ /\ Board # Output[token[p]] \/ MayFail
          /\ status' = [status EXCEPT ![p] = "unverified"]
    /\ UNCHANGED <<file, tokens, token, seen, restoring, renamed, stamp, backups>>

(* Mutant of Spend: an unverified write does not spend its token.          *)
SpendWhenApplied(p) ==
    IF status[p] = "applied" THEN Consume(token[p]) ELSE UNCHANGED tokens

Spend(p) == Consume(token[p])

Finish(p) ==
    /\ pc[p] = "spend"
    /\ Spend(p)
    /\ Goes(p, "returned")
    /\ UNCHANGED <<file, token, seen, restoring, renamed, status, stamp, backups>>

(* A write that could not be verified: the token is spent first.           *)
Recover(p) ==
    /\ pc[p] = "recover"
    /\ Consume(token[p])
    /\ Goes(p, "restore")
    /\ restoring' = [restoring EXCEPT ![p] = TRUE]
    /\ UNCHANGED <<file, token, seen, renamed, status, stamp, backups>>

(* _guarded_restore reads the board and stops unless it is our own write.  *)
Restore(p) ==
    /\ pc[p] = "restore"
    /\ \/ Board = Output[token[p]] /\ Continue(p, "open")
       \/ (Board # Output[token[p]] \/ MayFail) /\ Continue(p, "look")
    /\ UNCHANGED <<file, tokens, backups>>

(* _observed_revision or _final_observed_revision, and the report.         *)
Look(p) ==
    /\ pc[p] = "look"
    /\ Returns(p, "unverified")
    /\ UNCHANGED <<file, tokens, token, seen, restoring, renamed, stamp, backups>>

-----------------------------------------------------------------------------
(* Everybody else.                                                         *)

(* The editor saves, or a person copies a backup over the board.           *)
WriteOutside(content) ==
    /\ \/ WriteInPlace(content)
       \/ Replacing /\ RenameOver(content)
    /\ UNCHANGED <<tokens, calls, backups>>

Editor ==
    /\ ToggleEditor
    /\ UNCHANGED <<tokens, calls, backups>>

CallsOf(s) ==
    {p \in Calls : token[p] # None /\ pc[p] # "returned" /\ Issuer[token[p]] = s}

(* A server process dies with its calls, and its successor has a new key.  *)
Die(s) ==
    /\ CloseAll(CallsOf(s))
    /\ NewKey(s)
    /\ pc' = [p \in Calls |-> IF p \in CallsOf(s) THEN "dead" ELSE pc[p]]
    /\ UNCHANGED <<token, seen, restoring, renamed, status, stamp, backups>>

SecondPasses == ClockTick /\ UNCHANGED <<file, calls, backups>>

Init ==
    /\ \E t \in Tokens : FileInit(Base[t])
    /\ TokensInit
    /\ pc = [p \in Calls |-> "new"]
    /\ token = [p \in Calls |-> None]
    /\ seen = [p \in Calls |-> None]
    /\ restoring = [p \in Calls |-> FALSE]
    /\ renamed = [p \in Calls |-> FALSE]
    /\ status = [p \in Calls |-> "none"]
    /\ stamp = [p \in Calls |-> 0]
    /\ backups = OldBackups

CallStep(p) ==
    \/ ReadBoard(p) \/ Inspect(p) \/ WriteBackup(p) \/ PruneBackups(p)
    \/ Open(p) \/ Lock(p) \/ Compare(p) \/ Precheck(p) \/ Rename(p) \/ Check(p)
    \/ VerifyPublished(p) \/ Observe(p) \/ Finish(p)
    \/ Recover(p) \/ Restore(p) \/ Look(p)

OthersStep ==
    \/ \E content \in Outside : WriteOutside(content)
    \/ Editor
    \/ SecondPasses

Next ==
    \/ \E t \in Tokens : Preview(t)
    \/ \E p \in Calls, t \in Tokens : Begin(p, t)
    \/ \E p \in Calls : CallStep(p)
    \/ \E s \in Servers : Die(s)
    \/ OthersStep

Spec == Init /\ [][Next]_vars
================================================================================
