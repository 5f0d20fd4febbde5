--------------------------- MODULE ConfinedContainer ---------------------------
(***************************************************************************)
(* A confined router run: run of optimization/container_runner.py over the *)
(* process owner of optimization/confined_container.py.  The supervisor    *)
(* probes the Docker daemon and the image, starts a docker client, passes  *)
(* it the request and reads its output over pipes until a deadline, and    *)
(* cleans up: it removes the container by its name and then kills and      *)
(* reaps the client.  The client and what it forked share its pipes.       *)
(*                                                                         *)
(* Standard error is read like standard output and is not stored, so only  *)
(* its overflow is modelled, as a choice of the environment.               *)
(***************************************************************************)
EXTENDS Naturals

CONSTANTS
    MaxProduced,     \* the chunks a router's whole output may have
    OutputLimit,     \* limits.max_output_bytes, in chunks
    CleanupAttempts  \* _CLEANUP_ATTEMPTS

ASSUME ContainerAssumption ==
    /\ MaxProduced \in Nat /\ OutputLimit \in Nat \ {0} /\ CleanupAttempts \in Nat \ {0}

VARIABLES
    run,       \* where the supervisor is, and the status it is to answer with
    client,    \* the docker client: its state, its exit code, its group
    container, \* the named container, as the daemon has it
    stream,    \* the router's whole output and what the pipes carried
    due,       \* early, late (past the work deadline) or over (past cleanup's)
    withdrawn  \* whether the caller cancelled

containerVars == <<run, client, container, stream, due, withdrawn>>

At(stage) == run.stage = stage
Go(stage) == run' = [run EXCEPT !.stage = stage]
Answer(status) == run' = [run EXCEPT !.stage = "done", !.status = status]
Unlaunched == UNCHANGED <<client, container, stream, due, withdrawn>>

(* run looks at the cancellation and the clock first and again before it   *)
(* launches anything.                                                      *)
Stopped == withdrawn \/ due # "early"
StopStatus == IF withdrawn THEN "cancelled" ELSE "deadline_exceeded"

Admit ==
    /\ At("admit")
    /\ IF Stopped THEN Answer(StopStatus) ELSE Go("info")
    /\ Unlaunched

(* A probe succeeds when its client exits well in time and is reaped; the  *)
(* image must also be the pinned one.                                      *)
Probe(stage, next, failure) ==
    /\ At(stage)
    /\ \/ due = "early" /\ Go(next)
       \/ Answer(failure)
    /\ Unlaunched

Launch ==
    /\ At("launch")
    /\ \/ Stopped /\ Answer(StopStatus) /\ UNCHANGED client
       \/ ~Stopped /\ Answer("launch_failed") /\ UNCHANGED client
       \/ /\ ~Stopped /\ Go("exchange")
          /\ client' = [client EXCEPT !.state = "running", !.group = {"client"}]
    /\ UNCHANGED <<container, stream, due, withdrawn>>

(***************************************************************************)
(* The exchange                                                            *)
(***************************************************************************)
Ended(status) == run' = [run EXCEPT !.stage = "remove", !.status = status]

(* Mutant of Poll: an exited client is reaped before its pipes are done.   *)
PollEarly ==
    /\ At("exchange")
    /\ \/ Stopped /\ Ended(StopStatus) /\ UNCHANGED client
       \/ /\ ~Stopped /\ client.state = "exited"
          /\ client' = [client EXCEPT !.state = "reaped"]
          /\ Ended("whole")
    /\ UNCHANGED <<container, stream, due, withdrawn>>

(* The client is polled, and thereby reaped, only once its pipes are done, *)
(* so that an abort can still signal its group.                            *)
Poll ==
    /\ At("exchange")
    /\ \/ Stopped /\ Ended(StopStatus) /\ UNCHANGED client
       \/ /\ ~Stopped /\ stream.open = {} /\ client.state = "exited"
          /\ client' = [client EXCEPT !.state = "reaped"]
          /\ Ended("whole")
    /\ UNCHANGED <<container, stream, due, withdrawn>>

(* Writing to a pipe nobody reads any more is an I/O failure.              *)
SendInput ==
    /\ At("exchange") /\ ~Stopped /\ "stdin" \in stream.open
    /\ \/ /\ client.group # {}
          /\ stream' = [stream EXCEPT !.open = @ \ {"stdin"}, !.sent = TRUE]
          /\ UNCHANGED run
       \/ client.group = {} /\ Ended("process_io_failed") /\ UNCHANGED stream
    /\ UNCHANGED <<client, container, due, withdrawn>>

ReadOutput ==
    /\ At("exchange") /\ ~Stopped /\ "stdout" \in stream.open
    /\ \/ /\ stream.wrote > stream.taken
          /\ stream' = [stream EXCEPT !.taken = @ + 1]
          /\ IF stream.taken + 1 > OutputLimit THEN Ended("output_limit_exceeded")
             ELSE UNCHANGED run
       \/ /\ stream.wrote = stream.taken /\ client.group = {}
          /\ stream' = [stream EXCEPT !.open = @ \ {"stdout"}]
          /\ UNCHANGED run
    /\ UNCHANGED <<client, container, due, withdrawn>>

(* Too much on standard error, or a pipe that cannot be polled.            *)
ExchangeFails ==
    /\ At("exchange")
    /\ Ended("output_limit_exceeded") \/ Ended("process_io_failed")
    /\ UNCHANGED <<client, container, stream, due, withdrawn>>

(***************************************************************************)
(* The cleanup                                                             *)
(***************************************************************************)
Taken == IF container = "present" THEN "removed" ELSE container

(* docker rm --force: it removes the container and says so; it removes it  *)
(* and is too late to say so; or it cannot.  Of a name there is no         *)
(* container for, it says one thing or the other, by its version.          *)
RemoveContainer ==
    /\ At("remove") /\ run.attempts < CleanupAttempts /\ due # "over"
    /\ \/ run' = [run EXCEPT !.stage = "reap", !.removed = TRUE] /\ container' = Taken
       \/ run' = [run EXCEPT !.attempts = @ + 1] /\ container' \in {container, Taken}
    /\ UNCHANGED <<client, stream, due, withdrawn>>

GiveUpRemoval ==
    /\ At("remove") /\ (run.attempts = CleanupAttempts \/ due = "over")
    /\ Go("reap")
    /\ Unlaunched

(* An unreaped client's group is killed and the client waited for until    *)
(* the cleanup's deadline.                                                 *)
KillClient ==
    /\ At("reap") /\ client.state \in {"running", "exited"}
    /\ client' = [client EXCEPT !.state = "exited", !.group = {},
                    !.code = IF @ = "none" THEN "killed" ELSE @]
    /\ Go("wait")
    /\ UNCHANGED <<container, stream, due, withdrawn>>

Verdict(reaped) ==
    IF ~(run.removed /\ reaped) THEN "cleanup_failed"
    ELSE IF run.status # "whole" THEN run.status
    ELSE IF client.code # "zero" THEN "exited_nonzero"
    ELSE IF stream.taken = 0 THEN "empty_output" ELSE "success"

ReapClient ==
    /\ \/ At("reap") /\ client.state = "reaped" /\ Answer(Verdict(TRUE)) /\ UNCHANGED client
       \/ /\ At("wait")
          /\ \/ client' = [client EXCEPT !.state = "reaped"] /\ Answer(Verdict(TRUE))
             \/ due = "over" /\ Answer(Verdict(FALSE)) /\ UNCHANGED client
    /\ UNCHANGED <<container, stream, due, withdrawn>>

(***************************************************************************)
(* The client, the daemon and the clock                                    *)
(***************************************************************************)
ClientRuns == "client" \in client.group

(* The daemon creates what the client asks for, also after a removal that  *)
(* found nothing.                                                          *)
CreateContainer ==
    /\ ClientRuns /\ container = "absent"
    /\ container' = IF run.removed THEN "late" ELSE "present"
    /\ UNCHANGED <<run, client, stream, due, withdrawn>>

RouterWrites ==
    /\ ClientRuns /\ container = "present" /\ stream.wrote < stream.whole
    /\ stream' = [stream EXCEPT !.wrote = @ + 1]
    /\ UNCHANGED <<run, client, container, due, withdrawn>>

(* The client's exit code is zero only after a router that ran to its end. *)
ClientExits ==
    /\ ClientRuns
    /\ \/ /\ container = "present" /\ stream.wrote = stream.whole
          /\ client' = [client EXCEPT !.state = "exited", !.code = "zero",
                          !.group = @ \ {"client"}]
       \/ client' = [client EXCEPT !.state = "exited", !.code = "nonzero",
                       !.group = @ \ {"client"}]
    /\ UNCHANGED <<run, container, stream, due, withdrawn>>

(* A descendant keeps the client's pipes open after it.                    *)
ClientForks ==
    /\ ClientRuns /\ client' = [client EXCEPT !.group = @ \cup {"descendant"}]
    /\ UNCHANGED <<run, container, stream, due, withdrawn>>

ClientDescendantEnds ==
    /\ "descendant" \in client.group
    /\ client' = [client EXCEPT !.group = @ \ {"descendant"}]
    /\ UNCHANGED <<run, container, stream, due, withdrawn>>

DuePasses ==
    /\ \/ due = "early" /\ due' = "late"
       \/ due = "late" /\ run.stage \in {"remove", "wait"} /\ due' = "over"
    /\ UNCHANGED <<run, client, container, stream, withdrawn>>

Withdraw ==
    /\ ~withdrawn /\ withdrawn' = TRUE
    /\ UNCHANGED <<run, client, container, stream, due>>

ContainerInit ==
    /\ run = [stage |-> "admit", status |-> "none", attempts |-> 0, removed |-> FALSE]
    /\ client = [state |-> "none", code |-> "none", group |-> {}]
    /\ container = "absent"
    /\ stream \in [open : {{"stdin", "stdout"}}, sent : {FALSE}, whole : 0..MaxProduced,
                   wrote : {0}, taken : {0}]
    /\ due = "early" /\ withdrawn = FALSE

ContainerNext ==
    \/ Admit
    \/ Probe("info", "image", "daemon_unavailable")
    \/ Probe("image", "launch", "image_unavailable")
    \/ Launch \/ Poll \/ SendInput \/ ReadOutput \/ ExchangeFails
    \/ RemoveContainer \/ GiveUpRemoval \/ KillClient \/ ReapClient
    \/ CreateContainer \/ RouterWrites \/ ClientExits
    \/ ClientForks \/ ClientDescendantEnds
    \/ DuePasses \/ Withdraw

ContainerSpec == ContainerInit /\ [][ContainerNext]_containerVars

(***************************************************************************)
(* Properties                                                              *)
(***************************************************************************)
Stages == {"admit", "info", "image", "launch", "exchange", "remove", "reap", "wait", "done"}
Statuses ==
    {"none", "cancelled", "deadline_exceeded", "daemon_unavailable", "image_unavailable",
     "launch_failed", "process_io_failed", "output_limit_exceeded", "whole",
     "cleanup_failed", "exited_nonzero", "empty_output", "success"}

Run == [stage : Stages, status : Statuses, attempts : 0..CleanupAttempts, removed : BOOLEAN]
Client ==
    [state : {"none", "running", "exited", "reaped"},
     code : {"none", "zero", "nonzero", "killed"}, group : SUBSET {"client", "descendant"}]
Output ==
    [open : SUBSET {"stdin", "stdout"}, sent : BOOLEAN,
     whole : 0..MaxProduced, wrote : 0..MaxProduced, taken : 0..MaxProduced]

ContainerTypeOK ==
    /\ run \in Run /\ client \in Client /\ stream \in Output
    /\ container \in {"absent", "present", "late", "removed"}
    /\ due \in {"early", "late", "over"} /\ withdrawn \in BOOLEAN

(* A success is the whole output of a router that had its whole input and  *)
(* ended well, within the limit.  And whatever the status is that a        *)
(* launched run answers with, unless it says that the cleanup failed, the  *)
(* client is reaped and the container it had created is gone.              *)
RunEndsClean ==
    At("done") /\ client.state # "none" =>
      /\ run.status = "success" =>
           /\ stream.taken = stream.whole /\ stream.taken \in 1..OutputLimit
           /\ stream.sent /\ client.code = "zero" /\ container = "removed"
      /\ run.status # "cleanup_failed" =>
           client.state = "reaped" /\ container # "present"
================================================================================
