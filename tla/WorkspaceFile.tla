----------------------------- MODULE WorkspaceFile -----------------------------
(***************************************************************************)
(* One board file of the workspace as POSIX keeps it, and the primitive    *)
(* that replaces it (src/copper_mcp/security.py, replace_workspace_file).  *)
(*                                                                         *)
(* A name refers to an inode; a rename makes it refer to another one, and  *)
(* whoever had the old inode open keeps it.  flock locks an inode, not a   *)
(* name.  Contents stand for bytes and for their digests: two contents are *)
(* equal exactly when their digests are.                                   *)
(*                                                                         *)
(* Calls that replace the board go through open, lock, compare, precheck,  *)
(* rename and check, each a step of its own.  Everybody else (the editor,  *)
(* a person copying a backup over the board) writes without asking.        *)
(***************************************************************************)
EXTENDS Naturals, FiniteSets

CONSTANTS
    Calls,     \* invocations of the apply tools, in any server process
    Inodes,    \* enough for the board, one per open descriptor, and a fresh one
    Contents,  \* what a board file may hold
    None

ASSUME FileAssumption ==
    /\ None \notin Calls
    /\ None \notin Inodes
    /\ None \notin Contents
    /\ IsFiniteSet(Calls) /\ IsFiniteSet(Inodes)
    /\ Cardinality(Inodes) > Cardinality(Calls) + 1

VARIABLES
    name,    \* the inode the board's name refers to
    bytes,   \* what each inode holds
    holder,  \* who holds the flock of each inode
    fd,      \* the descriptor a call keeps open on the target
    editor   \* KiCad has the board open: its lock file is there

file == <<name, bytes, holder, fd, editor>>

FileTypeOK ==
    /\ name \in Inodes
    /\ bytes \in [Inodes -> Contents]
    /\ holder \in [Inodes -> Calls \cup {None}]
    /\ fd \in [Calls -> Inodes \cup {None}]
    /\ editor \in BOOLEAN

Board == bytes[name]

(* Inodes nobody refers to: what a new file gets.                          *)
Fresh(i) == i # name /\ \A p \in Calls : fd[p] # i

OpenTarget(p) ==
    /\ fd' = [fd EXCEPT ![p] = name]
    /\ UNCHANGED <<name, bytes, holder, editor>>

(* flock(LOCK_EX) blocks while another descriptor of the inode holds it.   *)
TakeLock(p) ==
    /\ holder[fd[p]] = None
    /\ holder' = [holder EXCEPT ![fd[p]] = p]
    /\ UNCHANGED <<name, bytes, fd, editor>>

(* Mutant of Matches: the held descriptor is read again, not the name.     *)
MatchesHeld(p, expected) == bytes[fd[p]] = expected

(* The compare of the compare-and-swap re-reads the name.                  *)
Matches(p, expected) == Board = expected

(* Mutant of CloseTarget: the descriptor leaks, and its lock with it.      *)
LeakTarget(p) ==
    /\ holder' = holder
    /\ fd' = [fd EXCEPT ![p] = None]

(* Closing the descriptor releases the lock.                               *)
CloseTarget(p) ==
    /\ holder' = [i \in Inodes |-> IF holder[i] = p THEN None ELSE holder[i]]
    /\ fd' = [fd EXCEPT ![p] = None]

(* The temporary file, complete and synced, takes the board's name.        *)
RenameOver(content) ==
    \E i \in Inodes :
        /\ Fresh(i)
        /\ name' = i
        /\ bytes' = [bytes EXCEPT ![i] = content]
        /\ UNCHANGED <<holder, fd, editor>>

-----------------------------------------------------------------------------
(* Writers that take no lock.                                              *)

WriteInPlace(content) ==
    /\ bytes' = [bytes EXCEPT ![name] = content]
    /\ UNCHANGED <<name, holder, fd, editor>>

ToggleEditor ==
    /\ editor' = ~editor
    /\ UNCHANGED <<name, bytes, holder, fd>>

(* A process dies: the kernel closes the descriptors of its calls.         *)
CloseAll(dead) ==
    /\ holder' = [i \in Inodes |-> IF holder[i] \in dead THEN None ELSE holder[i]]
    /\ fd' = [p \in Calls |-> IF p \in dead THEN None ELSE fd[p]]
    /\ UNCHANGED <<name, bytes, editor>>

FileInit(original) ==
    /\ name \in Inodes
    /\ bytes = [i \in Inodes |-> original]
    /\ holder = [i \in Inodes |-> None]
    /\ fd = [p \in Calls |-> None]
    /\ editor = FALSE
===============================================================================
