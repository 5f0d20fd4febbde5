---------------------------- MODULE IsolatedExchange ----------------------------
(***************************************************************************)
(* How an optimization job reaches its worker and its answer comes back:   *)
(* _exchange of optimization/isolated.py in the server, the guardian of    *)
(* optimization/_process_guard.py that leads the worker's process group,   *)
(* and main of optimization/isolated_entry.py, the worker.                 *)
(*                                                                         *)
(* The supervisor sends the request and reads the answer over two bounded  *)
(* pipes and reads one status frame from the guardian over a third.  The   *)
(* deadline is absolute, and the guardian has an alarm of its own, a grace *)
(* period later.  OptimizationService takes the whole exchange as one step *)
(* that delivers the worker's answer or stops; this module shows why it    *)
(* may.                                                                    *)
(***************************************************************************)
EXTENDS Naturals, FiniteSets

CONSTANTS
    RequestChunks, AnswerChunks, \* what has to pass each pipe
    PipeRoom                     \* the chunks a pipe holds

ASSUME ExchangeAssumption ==
    /\ RequestChunks \in Nat \ {0} /\ AnswerChunks \in Nat \ {0}
    /\ PipeRoom \in Nat \ {0}

VARIABLES
    supervisor, \* the loop of _exchange
    group,      \* the live members of the process group
    worker,     \* what the worker has read and written, and its exit code
    pipes,      \* what the two data pipes hold and the status pipe carries
    hour,       \* early, late (past the deadline) or over (past the grace)
    stopAsked   \* whether the job was cancelled

exchangeVars == <<supervisor, group, worker, pipes, hour, stopAsked>>

Stream == {"stdin", "stdout", "status"}

(* The worker and what it forked share its standard streams.               *)
StreamHolders == {"worker", "descendant"} \cap group

Supervising == supervisor.state = "watching"
SupervisorGone == supervisor.state = "dead"

(* _terminate: the group is killed before its leader is reaped.            *)
Raise ==
    /\ supervisor' = [supervisor EXCEPT !.state = "raised", !.open = {}, !.ready = {}]
    /\ group' = {}

Handled(s) == [supervisor EXCEPT !.ready = @ \ {s}]
Closed(s) == [Handled(s) EXCEPT !.open = @ \ {s}]

FrameSent == pipes.frame \notin {"unsent", "lost"}

(* What select reports: a pipe with room or without readers, a pipe with   *)
(* data or without writers.                                                *)
Ready(s) ==
    CASE s = "stdin"  -> pipes.request < PipeRoom \/ StreamHolders = {}
      [] s = "stdout" -> pipes.answer > 0 \/ StreamHolders = {}
      [] s = "status" -> FrameSent \/ "guardian" \notin group

(* The head of the loop looks at the clock and the job once for all the    *)
(* events of a round.                                                      *)
Round ==
    /\ Supervising /\ supervisor.ready = {} /\ supervisor.open # {}
    /\ \/ (hour # "early" \/ stopAsked) /\ Raise
       \/ /\ hour = "early" /\ ~stopAsked
          /\ \E s \in supervisor.open : Ready(s)
          /\ supervisor' = [supervisor EXCEPT !.ready = {s \in supervisor.open : Ready(s)}]
          /\ UNCHANGED group
    /\ UNCHANGED <<worker, pipes, hour, stopAsked>>

WriteRequest ==
    /\ "stdin" \in supervisor.ready
    /\ \/ StreamHolders = {} /\ Raise /\ UNCHANGED pipes
       \/ /\ StreamHolders # {} /\ pipes.request < PipeRoom
          /\ pipes' = [pipes EXCEPT !.request = @ + 1]
          /\ supervisor' = [IF supervisor.sent + 1 = RequestChunks THEN Closed("stdin")
                            ELSE Handled("stdin") EXCEPT !.sent = @ + 1]
          /\ UNCHANGED group
    /\ UNCHANGED <<worker, hour, stopAsked>>

ReadAnswer ==
    /\ "stdout" \in supervisor.ready
    /\ \/ /\ pipes.answer > 0
          /\ pipes' = [pipes EXCEPT !.answer = @ - 1]
          /\ supervisor' = [Handled("stdout") EXCEPT !.received = @ + 1]
       \/ /\ pipes.answer = 0 /\ StreamHolders = {}
          /\ supervisor' = Closed("stdout")
          /\ UNCHANGED pipes
    /\ UNCHANGED <<group, worker, hour, stopAsked>>

(* Mutants of GoodFrame: the answer's pipe is not drained; the group is    *)
(* left to end by itself.                                                  *)
GoodFrameUndrained ==
    /\ supervisor' = [Handled("status") EXCEPT !.exited = TRUE, !.open = @ \ {"stdout"}]
    /\ group' = {}

GoodFrameSparing ==
    /\ supervisor' = [Handled("status") EXCEPT !.exited = TRUE]
    /\ UNCHANGED group

(* A good frame lets the supervisor end the group although something may   *)
(* still hold the answer's pipe; what is in the pipe is drained after it.  *)
GoodFrame ==
    /\ supervisor' = [Handled("status") EXCEPT !.exited = TRUE]
    /\ group' = {}

ReadStatus ==
    /\ "status" \in supervisor.ready
    /\ \/ pipes.frame = "good" /\ ~supervisor.exited /\ GoodFrame
       \/ pipes.frame = "bad" /\ Raise
       \/ ~FrameSent /\ Raise
       \/ supervisor.exited /\ supervisor' = Closed("status") /\ UNCHANGED group
    /\ UNCHANGED <<worker, pipes, hour, stopAsked>>

Deliver ==
    /\ Supervising /\ supervisor.open = {}
    /\ \/ /\ supervisor.exited /\ supervisor.sent = RequestChunks
          /\ supervisor' = [supervisor EXCEPT !.state = "returned"]
          /\ UNCHANGED group
       \/ ~(supervisor.exited /\ supervisor.sent = RequestChunks) /\ Raise
    /\ UNCHANGED <<worker, pipes, hour, stopAsked>>

(* Nothing runs in a server that died; its ends of the pipes are closed.   *)
SupervisorDies ==
    /\ Supervising
    /\ supervisor' = [supervisor EXCEPT !.state = "dead", !.open = {}, !.ready = {}]
    /\ UNCHANGED <<group, worker, pipes, hour, stopAsked>>

(***************************************************************************)
(* The guardian                                                            *)
(***************************************************************************)
Report ==
    /\ "guardian" \in group /\ "worker" \notin group /\ pipes.frame = "unsent"
    /\ \/ /\ ~SupervisorGone
          /\ pipes' = [pipes EXCEPT !.frame = worker.code]
          /\ UNCHANGED group
       \/ /\ SupervisorGone
          /\ pipes' = [pipes EXCEPT !.frame = "lost"]
          /\ group' = {}
    /\ UNCHANGED <<supervisor, worker, hour, stopAsked>>

(* Mutant of Watchdog: it kills the guardian and spares its group.         *)
WatchdogAlone ==
    /\ "guardian" \in group /\ hour = "over"
    /\ group' = group \ {"guardian"}
    /\ UNCHANGED <<supervisor, worker, pipes, hour, stopAsked>>

(* The alarm kills the whole group, its leader included.                   *)
Watchdog ==
    /\ "guardian" \in group /\ hour = "over"
    /\ group' = {}
    /\ UNCHANGED <<supervisor, worker, pipes, hour, stopAsked>>

(***************************************************************************)
(* The worker                                                              *)
(***************************************************************************)
WorkerReads ==
    /\ "worker" \in group /\ pipes.request > 0
    /\ pipes' = [pipes EXCEPT !.request = @ - 1]
    /\ worker' = [worker EXCEPT !.read = @ + 1]
    /\ UNCHANGED <<supervisor, group, hour, stopAsked>>

WorkerWrites ==
    /\ "worker" \in group /\ worker.read = RequestChunks
    /\ worker.wrote < AnswerChunks /\ pipes.answer < PipeRoom /\ ~SupervisorGone
    /\ pipes' = [pipes EXCEPT !.answer = @ + 1]
    /\ worker' = [worker EXCEPT !.wrote = @ + 1]
    /\ UNCHANGED <<supervisor, group, hour, stopAsked>>

WorkerEnds ==
    /\ "worker" \in group
    /\ group' = group \ {"worker"}
    /\ \/ worker.wrote = AnswerChunks /\ worker' = [worker EXCEPT !.code = "good"]
       \/ worker' = [worker EXCEPT !.code = "bad"]
    /\ UNCHANGED <<supervisor, pipes, hour, stopAsked>>

(* A program the worker started inherits its streams and may outlive it.   *)
WorkerForks ==
    /\ "worker" \in group /\ "descendant" \notin group
    /\ group' = group \cup {"descendant"}
    /\ UNCHANGED <<supervisor, worker, pipes, hour, stopAsked>>

DescendantEnds ==
    /\ "descendant" \in group
    /\ group' = group \ {"descendant"}
    /\ UNCHANGED <<supervisor, worker, pipes, hour, stopAsked>>

HourPasses ==
    /\ \/ hour = "early" /\ hour' = "late"
       \/ hour = "late" /\ hour' = "over"
    /\ UNCHANGED <<supervisor, group, worker, pipes, stopAsked>>

AskToStop ==
    /\ ~stopAsked /\ stopAsked' = TRUE
    /\ UNCHANGED <<supervisor, group, worker, pipes, hour>>

ExchangeInit ==
    /\ supervisor = [state |-> "watching", open |-> Stream, ready |-> {},
                     sent |-> 0, received |-> 0, exited |-> FALSE]
    /\ group = {"guardian", "worker"}
    /\ worker = [read |-> 0, wrote |-> 0, code |-> "running"]
    /\ pipes = [request |-> 0, answer |-> 0, frame |-> "unsent"]
    /\ hour = "early" /\ stopAsked = FALSE

SupervisorStep == Round \/ WriteRequest \/ ReadAnswer \/ ReadStatus \/ Deliver

ExchangeNext ==
    \/ SupervisorStep \/ SupervisorDies
    \/ Report \/ Watchdog
    \/ WorkerReads \/ WorkerWrites \/ WorkerEnds
    \/ WorkerForks \/ DescendantEnds
    \/ HourPasses \/ AskToStop

(* The server's thread runs and the guardian is scheduled; the worker, its *)
(* descendants, the clock and the callers owe nothing.                     *)
ExchangeFairness ==
    WF_exchangeVars(SupervisorStep) /\ WF_exchangeVars(Report \/ Watchdog)

ExchangeSpec == ExchangeInit /\ [][ExchangeNext]_exchangeVars /\ ExchangeFairness

(***************************************************************************)
(* Properties                                                              *)
(***************************************************************************)
Supervisor ==
    [state : {"watching", "returned", "raised", "dead"},
     open : SUBSET Stream, ready : SUBSET Stream,
     sent : 0..RequestChunks, received : 0..AnswerChunks, exited : BOOLEAN]

ExchangeTypeOK ==
    /\ supervisor \in Supervisor
    /\ group \subseteq {"guardian", "worker", "descendant"}
    /\ worker \in [read : 0..RequestChunks, wrote : 0..AnswerChunks,
                   code : {"running", "good", "bad"}]
    /\ pipes \in [request : 0..PipeRoom, answer : 0..PipeRoom,
                  frame : {"unsent", "good", "bad", "lost"}]
    /\ hour \in {"early", "late", "over"} /\ stopAsked \in BOOLEAN

(* What _exchange returns is the whole answer of a worker that read the    *)
(* whole request and ended well, and nothing of its group is left; and     *)
(* when it raises, nothing of the group is left either.                    *)
DeliveredWhole ==
    /\ supervisor.state = "returned" =>
         /\ supervisor.received = AnswerChunks
         /\ worker.read = RequestChunks /\ worker.code = "good"
    /\ supervisor.state \in {"returned", "raised"} => group = {}

(* A worker that ended well is answered for without waiting for the        *)
(* deadline, whatever still holds its pipes: the exchange returns, unless  *)
(* the deadline, a cancellation or the server's death comes first.         *)
AnswerNeedsNoDeadline ==
    (worker.code = "good")
      ~> (supervisor.state = "returned" \/ hour # "early" \/ stopAsked \/ SupervisorGone)

(* When time passes, the group ends, whatever became of the supervisor and *)
(* however its worker hangs.                                               *)
GroupEnds == WF_exchangeVars(HourPasses) => <>[](group = {})
================================================================================
