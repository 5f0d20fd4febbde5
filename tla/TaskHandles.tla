------------------------------ MODULE TaskHandles ------------------------------
(***************************************************************************)
(* RoutingTaskHandleBroker of routing/task_bridge.py: a bounded map from   *)
(* unguessable handles to routing jobs, bound to the caller that minted    *)
(* them.  Every operation first reads the clock under the broker's lock    *)
(* and refuses, changing nothing, when the clock has stepped back; then it *)
(* drops what has expired.                                                 *)
(***************************************************************************)
EXTENDS Naturals, FiniteSets

CONSTANTS
    Handles,      \* the values a random handle may take
    HandleJobs,   \* the jobs handles may name
    Owners,       \* the authorization digests of callers
    MaxHandles, HandleRetention,
    MaxTaskClock  \* bound on the clock, for TLC

ASSUME HandleAssumption ==
    /\ MaxHandles \in Nat \ {0} /\ HandleRetention \in Nat \ {0}
    /\ MaxTaskClock \in Nat

VARIABLES
    handles,      \* the stored entries
    lastReading,  \* the last clock reading an operation accepted
    taskClock,    \* the injected clock, which may step back
    handleAnswer  \* what the last operation gave its caller

taskVars == <<handles, lastReading, taskClock, handleAnswer>>

HandleEntry ==
    [handle : Handles, job : HandleJobs, owner : Owners, expires : Nat]
NoHandle == [status |-> "refused"]

(* Mutant of ReadingOK: the broker follows a clock that steps back.        *)
ReadingAnyway == TRUE

ReadingOK == taskClock >= lastReading

Unexpired == {h \in handles : h.expires > taskClock}

(* Mutant of HandleRoom: one handle too many.                              *)
HandleRoomOverfull == Cardinality(Unexpired) <= MaxHandles

HandleRoom == Cardinality(Unexpired) < MaxHandles

ClockSteppedBack ==
    /\ ~ReadingOK
    /\ handleAnswer' = NoHandle
    /\ UNCHANGED <<handles, lastReading, taskClock>>

(* An accepted reading: what is kept of the map is decided by the caller.  *)
Accept ==
    /\ ReadingOK
    /\ lastReading' = taskClock
    /\ UNCHANGED taskClock

Mint(job, owner) ==
    /\ Accept
    /\ \/ /\ ~HandleRoom
          /\ handles' = Unexpired /\ handleAnswer' = NoHandle
       \/ /\ HandleRoom
          /\ \E h \in Handles \ {e.handle : e \in Unexpired} :
               LET entry == [handle |-> h, job |-> job, owner |-> owner,
                             expires |-> taskClock + HandleRetention]
               IN  /\ handles' = Unexpired \cup {entry}
                   /\ handleAnswer' = [status |-> "minted", entry |-> entry]

(* Absent, expired and foreign handles are refused alike; cancel resolves  *)
(* the handle first and then cancels the durable job it names.             *)
Resolve(handle, owner) ==
    /\ Accept
    /\ handles' = Unexpired
    /\ \/ \E e \in Unexpired :
            /\ e.handle = handle /\ e.owner = owner
            /\ \E use \in {"resolved", "cancelled"} :
                 handleAnswer' = [status |-> use, entry |-> e]
       \/ /\ \A e \in Unexpired : <<e.handle, e.owner>> # <<handle, owner>>
          /\ handleAnswer' = NoHandle

TaskClockMoves ==
    /\ taskClock' \in (0..MaxTaskClock) \ {taskClock}
    /\ UNCHANGED <<handles, lastReading, handleAnswer>>

TaskInit ==
    /\ handles = {} /\ lastReading = 0 /\ handleAnswer = NoHandle
    /\ taskClock \in 0..MaxTaskClock

TaskNext ==
    \/ ClockSteppedBack
    \/ \E owner \in Owners :
         \/ \E job \in HandleJobs : Mint(job, owner)
         \/ \E h \in Handles : Resolve(h, owner)
    \/ TaskClockMoves

TaskSpec == TaskInit /\ [][TaskNext]_taskVars

(***************************************************************************)
(* Properties                                                              *)
(***************************************************************************)
HandlesTypeOK ==
    /\ handles \subseteq HandleEntry /\ Cardinality(handles) <= MaxHandles
    /\ lastReading \in Nat /\ taskClock \in Nat

(* However the clock jumps, a handle never outlives its retention measured *)
(* from any reading the broker accepted, one handle names one job and one  *)
(* owner, and a handle an operation has seen expired is not stored.        *)
HandleLifetimeBounded ==
    \A h \in handles :
      /\ h.expires \in (lastReading + 1)..(lastReading + HandleRetention)
      /\ \A g \in handles : g.handle = h.handle => g = h
================================================================================
