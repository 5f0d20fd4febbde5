------------------------------ MODULE PartsProofs ------------------------------
(***************************************************************************)
(* What holds of the parts that share no state, for any sizes of pipes,    *)
(* messages, boards and limits and any number of callers: the answer of an *)
(* isolated optimization process is delivered whole, a container run ends  *)
(* clean, one challenge carries one human decision, the spatial indexes    *)
(* answer every query in full, the artifact store accounts for its bytes   *)
(* and keeps what was used last, and no task handle outlives its           *)
(* retention, whatever the clock does.                                     *)
(***************************************************************************)
EXTENDS ReviewConsent, IsolatedExchange, ConfinedContainer, SpatialIndex,
        ArtifactStore, TaskHandles, FiniteSetTheorems, SequenceTheorems, TLAPS

-----------------------------------------------------------------------------
(* The exchange with an isolated process.                                  *)

(* What was sent is read or in the pipe, and so is the answer; a good      *)
(* frame speaks of a worker that wrote everything; and a supervisor that   *)
(* read one has ended the group.                                           *)
ExchangeInv ==
    /\ ExchangeTypeOK
    /\ supervisor.ready \subseteq supervisor.open
    /\ supervisor.state # "watching" => supervisor.open = {}
    /\ supervisor.sent = worker.read + pipes.request
    /\ worker.wrote = supervisor.received + pipes.answer
    /\ worker.wrote > 0 => worker.read = RequestChunks
    /\ "stdin" \in supervisor.open => supervisor.sent < RequestChunks
    /\ "worker" \in group => worker.code = "running"
    /\ "guardian" \in group /\ "worker" \notin group => worker.code # "running"
    /\ worker.code = "good" => worker.wrote = AnswerChunks
    /\ pipes.frame = "good" => worker.code = "good"
    /\ supervisor.exited => pipes.frame = "good" /\ group = {}
    /\ supervisor.state \in {"watching", "returned"} /\ "stdout" \notin supervisor.open =>
         pipes.answer = 0 /\ StreamHolders = {}
    /\ DeliveredWhole

LEMMA ExchangeStarts == ExchangeInit => ExchangeInv
<1> SUFFICES ASSUME ExchangeInit PROVE ExchangeInv
  OBVIOUS
<1>1. 0 \in 0..RequestChunks /\ 0 \in 0..AnswerChunks /\ 0 \in 0..PipeRoom
  BY ExchangeAssumption
<1>2. supervisor \in Supervisor
  BY <1>1 DEF ExchangeInit, Supervisor
<1>3. /\ worker \in [read : 0..RequestChunks, wrote : 0..AnswerChunks,
                     code : {"running", "good", "bad"}]
      /\ pipes \in [request : 0..PipeRoom, answer : 0..PipeRoom,
                    frame : {"unsent", "good", "bad", "lost"}]
  BY <1>1 DEF ExchangeInit
<1>4. ExchangeTypeOK
  BY <1>2, <1>3 DEF ExchangeInit, ExchangeTypeOK, Supervisor
<1> QED
  BY <1>4, ExchangeAssumption
  DEF ExchangeInit, ExchangeInv, DeliveredWhole, StreamHolders, Stream

(* Whatever the supervisor gives up for, it ends the group first.          *)
LEMMA RaiseKeeps ==
    ASSUME ExchangeInv, Raise, UNCHANGED <<worker, pipes, hour, stopAsked>>
    PROVE  ExchangeInv'
<1>1. /\ supervisor'.state = "raised" /\ supervisor'.open = {} /\ supervisor'.ready = {}
      /\ supervisor'.sent = supervisor.sent /\ supervisor'.received = supervisor.received
      /\ supervisor'.exited = supervisor.exited /\ group' = {}
  BY DEF ExchangeInv, ExchangeTypeOK, Supervisor, Raise
<1>2. ExchangeTypeOK'
  BY <1>1 DEF ExchangeInv, ExchangeTypeOK, Supervisor, Raise
<1> QED
  BY <1>1, <1>2 DEF ExchangeInv, DeliveredWhole, StreamHolders

(* An event of a round is handled: it is not ready any more, and its       *)
(* stream may be closed.                                                   *)
LEMMA HandlingAnEvent ==
    ASSUME ExchangeInv, NEW s \in Stream
    PROVE  /\ Handled(s).open = supervisor.open /\ Closed(s).open = supervisor.open \ {s}
           /\ \A e \in {Handled(s), Closed(s)} :
                /\ e.state = supervisor.state /\ e.ready = supervisor.ready \ {s}
                /\ e.sent = supervisor.sent /\ e.received = supervisor.received
                /\ e.exited = supervisor.exited
                /\ e \in Supervisor
<1>1. supervisor \in Supervisor
  BY DEF ExchangeInv, ExchangeTypeOK, Supervisor
<1>2. /\ Handled(s).open = supervisor.open
      /\ Handled(s).state = supervisor.state /\ Handled(s).ready = supervisor.ready \ {s}
      /\ Handled(s).sent = supervisor.sent /\ Handled(s).received = supervisor.received
      /\ Handled(s).exited = supervisor.exited
      /\ Handled(s) \in Supervisor
  BY <1>1 DEF Handled, Supervisor
<1>3. /\ Closed(s).open = supervisor.open \ {s}
      /\ Closed(s).state = supervisor.state /\ Closed(s).ready = supervisor.ready \ {s}
      /\ Closed(s).sent = supervisor.sent /\ Closed(s).received = supervisor.received
      /\ Closed(s).exited = supervisor.exited
      /\ Closed(s) \in Supervisor
  BY <1>2 DEF Closed, Supervisor
<1> QED  BY <1>2, <1>3

LEMMA RoundKeeps ==
    ASSUME ExchangeInv, Round
    PROVE  ExchangeInv'
<1>1. CASE Raise
  BY <1>1, RaiseKeeps DEF Round
<1>2. CASE /\ supervisor' = [supervisor EXCEPT !.ready = {s \in supervisor.open : Ready(s)}]
           /\ UNCHANGED group
  <2>1. UNCHANGED <<worker, pipes, hour, stopAsked>>
    BY DEF Round
  <2> DEFINE ready == {s \in supervisor.open : Ready(s)}
  <2>2. ready \subseteq supervisor.open /\ supervisor' = [supervisor EXCEPT !.ready = ready]
    BY <1>2
  <2> HIDE DEF ready
  <2>3. /\ supervisor'.state = supervisor.state /\ supervisor'.open = supervisor.open
        /\ supervisor'.ready = ready /\ supervisor'.sent = supervisor.sent
        /\ supervisor'.received = supervisor.received
        /\ supervisor'.exited = supervisor.exited
    BY <2>2 DEF ExchangeInv, ExchangeTypeOK, Supervisor
  <2>4. ExchangeTypeOK'
    BY <1>2, <2>1, <2>2 DEF ExchangeInv, ExchangeTypeOK, Supervisor
  <2>5. supervisor'.state # "watching" => ready = {}
    BY <2>2, <2>3 DEF ExchangeInv
  <2> QED
    BY <1>2, <2>1, <2>2, <2>3, <2>4, <2>5 DEF ExchangeInv, DeliveredWhole, StreamHolders
<1> QED  BY <1>1, <1>2 DEF Round

LEMMA WriteRequestKeeps ==
    ASSUME ExchangeInv, WriteRequest
    PROVE  ExchangeInv'
<1>1. UNCHANGED <<worker, hour, stopAsked>> /\ "stdin" \in supervisor.ready
  BY DEF WriteRequest
<1>2. CASE Raise /\ UNCHANGED pipes
  BY <1>1, <1>2, RaiseKeeps
<1>3. CASE /\ StreamHolders # {} /\ pipes.request < PipeRoom
           /\ pipes' = [pipes EXCEPT !.request = @ + 1]
           /\ supervisor' = [IF supervisor.sent + 1 = RequestChunks THEN Closed("stdin")
                             ELSE Handled("stdin") EXCEPT !.sent = @ + 1]
           /\ UNCHANGED group
  <2> DEFINE e == IF supervisor.sent + 1 = RequestChunks THEN Closed("stdin")
                  ELSE Handled("stdin")
  <2>1. supervisor' = [e EXCEPT !.sent = @ + 1]
    BY <1>3
  <2>2. /\ supervisor.state = "watching" /\ supervisor.sent < RequestChunks
        /\ supervisor.sent \in Nat /\ RequestChunks \in Nat
    BY <1>1, ExchangeAssumption DEF ExchangeInv, ExchangeTypeOK, Supervisor
  <2>3. /\ e.state = supervisor.state /\ e.ready = supervisor.ready \ {"stdin"}
        /\ e.sent = supervisor.sent /\ e.received = supervisor.received
        /\ e.exited = supervisor.exited
        /\ e.open = IF supervisor.sent + 1 = RequestChunks THEN supervisor.open \ {"stdin"}
                    ELSE supervisor.open
        /\ e \in Supervisor
    <3>1. "stdin" \in Stream
      BY DEF Stream
    <3> QED  BY <3>1, HandlingAnEvent
  <2> HIDE DEF e
  <2>4. /\ supervisor'.state = supervisor.state
        /\ supervisor'.ready = supervisor.ready \ {"stdin"}
        /\ supervisor'.sent = supervisor.sent + 1
        /\ supervisor'.received = supervisor.received
        /\ supervisor'.exited = supervisor.exited /\ supervisor'.open = e.open
        /\ supervisor' \in Supervisor
    BY <2>1, <2>2, <2>3 DEF Supervisor
  <2>5. /\ pipes'.request = pipes.request + 1 /\ pipes'.answer = pipes.answer
        /\ pipes'.frame = pipes.frame
        /\ pipes' \in [request : 0..PipeRoom, answer : 0..PipeRoom,
                       frame : {"unsent", "good", "bad", "lost"}]
    BY <1>3, ExchangeAssumption DEF ExchangeInv, ExchangeTypeOK, Supervisor
  <2>6. ExchangeTypeOK'
    BY <1>1, <1>3, <2>4, <2>5 DEF ExchangeInv, ExchangeTypeOK, Supervisor
  <2>7. /\ supervisor'.open \subseteq supervisor.open
        /\ supervisor'.ready \subseteq supervisor'.open
        /\ "stdin" \in supervisor'.open => supervisor'.sent < RequestChunks
        /\ "stdout" \notin supervisor'.open => "stdout" \notin supervisor.open
    BY <2>2, <2>3, <2>4 DEF ExchangeInv
  <2>8. (supervisor.sent = worker.read + pipes.request)'
    BY <1>1, <2>2, <2>4, <2>5, ExchangeAssumption
    DEF ExchangeInv, ExchangeTypeOK, Supervisor
  <2> QED
    BY <1>1, <1>3, <2>2, <2>4, <2>5, <2>6, <2>7, <2>8
    DEF ExchangeInv, DeliveredWhole, StreamHolders
<1> QED  BY <1>2, <1>3 DEF WriteRequest

LEMMA ReadAnswerKeeps ==
    ASSUME ExchangeInv, ReadAnswer
    PROVE  ExchangeInv'
<1>1. /\ UNCHANGED <<group, worker, hour, stopAsked>> /\ "stdout" \in supervisor.ready
      /\ "stdout" \in Stream
  BY DEF ReadAnswer, Stream
<1>2. supervisor.state = "watching" /\ "stdout" \in supervisor.open
  BY <1>1 DEF ExchangeInv
<1>3. CASE /\ pipes.answer > 0 /\ pipes' = [pipes EXCEPT !.answer = @ - 1]
           /\ supervisor' = [Handled("stdout") EXCEPT !.received = @ + 1]
  <2> DEFINE e == Handled("stdout")
  <2>1. /\ supervisor.received + 1 \in 0..AnswerChunks
    BY <1>3, ExchangeAssumption DEF ExchangeInv, ExchangeTypeOK, Supervisor
  <2>2. /\ e.state = supervisor.state /\ e.ready = supervisor.ready \ {"stdout"}
        /\ e.sent = supervisor.sent /\ e.received = supervisor.received
        /\ e.exited = supervisor.exited /\ e.open = supervisor.open
        /\ e \in Supervisor
    BY <1>1, HandlingAnEvent
  <2>3. supervisor' = [e EXCEPT !.received = @ + 1]
    BY <1>3
  <2> HIDE DEF e
  <2>4. /\ supervisor'.state = supervisor.state
        /\ supervisor'.ready = supervisor.ready \ {"stdout"}
        /\ supervisor'.sent = supervisor.sent
        /\ supervisor'.received = supervisor.received + 1
        /\ supervisor'.exited = supervisor.exited /\ supervisor'.open = supervisor.open
        /\ supervisor' \in Supervisor
    BY <2>1, <2>2, <2>3 DEF Supervisor
  <2>5. /\ pipes'.request = pipes.request /\ pipes'.answer = pipes.answer - 1
        /\ pipes'.frame = pipes.frame
        /\ pipes' \in [request : 0..PipeRoom, answer : 0..PipeRoom,
                       frame : {"unsent", "good", "bad", "lost"}]
    BY <1>3, ExchangeAssumption DEF ExchangeInv, ExchangeTypeOK, Supervisor
  <2>6. ExchangeTypeOK'
    BY <1>1, <2>4, <2>5 DEF ExchangeInv, ExchangeTypeOK, Supervisor
  <2>7. (worker.wrote = supervisor.received + pipes.answer)'
    BY <1>1, <1>3, <2>4, <2>5, ExchangeAssumption
    DEF ExchangeInv, ExchangeTypeOK, Supervisor
  <2> QED
    BY <1>1, <1>2, <2>4, <2>5, <2>6, <2>7 DEF ExchangeInv, DeliveredWhole, StreamHolders
<1>4. CASE /\ pipes.answer = 0 /\ StreamHolders = {}
           /\ supervisor' = Closed("stdout") /\ UNCHANGED pipes
  <2>1. /\ supervisor'.state = supervisor.state
        /\ supervisor'.ready = supervisor.ready \ {"stdout"}
        /\ supervisor'.open = supervisor.open \ {"stdout"}
        /\ supervisor'.sent = supervisor.sent
        /\ supervisor'.received = supervisor.received
        /\ supervisor'.exited = supervisor.exited
        /\ supervisor' \in Supervisor
    BY <1>1, <1>4, HandlingAnEvent
  <2>2. ExchangeTypeOK'
    BY <1>1, <1>4, <2>1 DEF ExchangeInv, ExchangeTypeOK, Supervisor
  <2> QED
    BY <1>1, <1>2, <1>4, <2>1, <2>2 DEF ExchangeInv, DeliveredWhole, StreamHolders
<1> QED  BY <1>3, <1>4 DEF ReadAnswer

LEMMA ReadStatusKeeps ==
    ASSUME ExchangeInv, ReadStatus
    PROVE  ExchangeInv'
<1>1. /\ UNCHANGED <<worker, pipes, hour, stopAsked>> /\ "status" \in supervisor.ready
      /\ "status" \in Stream
  BY DEF ReadStatus, Stream
<1>2. supervisor.state = "watching"
  BY <1>1 DEF ExchangeInv
<1>3. CASE Raise
  BY <1>1, <1>3, RaiseKeeps
<1>4. CASE pipes.frame = "good" /\ GoodFrame
  <2> DEFINE e == Handled("status")
  <2>1. /\ e.state = supervisor.state /\ e.ready = supervisor.ready \ {"status"}
        /\ e.sent = supervisor.sent /\ e.received = supervisor.received
        /\ e.open = supervisor.open
        /\ e \in Supervisor
    BY <1>1, HandlingAnEvent
  <2>2. supervisor' = [e EXCEPT !.exited = TRUE] /\ group' = {}
    BY <1>4 DEF GoodFrame
  <2> HIDE DEF e
  <2>3. /\ supervisor'.state = supervisor.state
        /\ supervisor'.ready = supervisor.ready \ {"status"}
        /\ supervisor'.open = supervisor.open /\ supervisor'.sent = supervisor.sent
        /\ supervisor'.received = supervisor.received /\ supervisor'.exited = TRUE
        /\ supervisor' \in Supervisor
    BY <2>1, <2>2 DEF Supervisor
  <2>4. ExchangeTypeOK'
    BY <1>1, <2>2, <2>3 DEF ExchangeInv, ExchangeTypeOK, Supervisor
  <2> QED
    BY <1>1, <1>2, <1>4, <2>2, <2>3, <2>4 DEF ExchangeInv, DeliveredWhole, StreamHolders
<1>5. CASE supervisor' = Closed("status") /\ UNCHANGED group
  <2>1. /\ supervisor'.state = supervisor.state
        /\ supervisor'.ready = supervisor.ready \ {"status"}
        /\ supervisor'.open = supervisor.open \ {"status"}
        /\ supervisor'.sent = supervisor.sent
        /\ supervisor'.received = supervisor.received
        /\ supervisor'.exited = supervisor.exited
        /\ supervisor' \in Supervisor
    BY <1>1, <1>5, HandlingAnEvent
  <2>2. ExchangeTypeOK'
    BY <1>1, <1>5, <2>1 DEF ExchangeInv, ExchangeTypeOK, Supervisor
  <2> QED
    BY <1>1, <1>2, <1>5, <2>1, <2>2 DEF ExchangeInv, DeliveredWhole, StreamHolders
<1> QED  BY <1>3, <1>4, <1>5 DEF ReadStatus

(* When every stream is closed, the answer's pipe is empty, so that all    *)
(* the worker wrote has been received, and all of it because it ended well.*)
LEMMA DeliverKeeps ==
    ASSUME ExchangeInv, Deliver
    PROVE  ExchangeInv'
<1>1. /\ UNCHANGED <<worker, pipes, hour, stopAsked>>
      /\ supervisor.state = "watching" /\ supervisor.open = {}
  BY DEF Deliver, Supervising
<1>2. CASE Raise
  BY <1>1, <1>2, RaiseKeeps
<1>3. CASE /\ supervisor.exited /\ supervisor.sent = RequestChunks
           /\ supervisor' = [supervisor EXCEPT !.state = "returned"] /\ UNCHANGED group
  <2>1. /\ supervisor'.state = "returned" /\ supervisor'.open = supervisor.open
        /\ supervisor'.ready = supervisor.ready /\ supervisor'.sent = supervisor.sent
        /\ supervisor'.received = supervisor.received
        /\ supervisor'.exited = supervisor.exited
    BY <1>3 DEF ExchangeInv, ExchangeTypeOK, Supervisor
  <2>2. ExchangeTypeOK'
    BY <1>1, <1>3 DEF ExchangeInv, ExchangeTypeOK, Supervisor
  <2>3. /\ worker.code = "good" /\ worker.wrote = AnswerChunks /\ pipes.answer = 0
        /\ group = {} /\ StreamHolders = {}
    BY <1>1, <1>3 DEF ExchangeInv
  <2>4. supervisor.received = AnswerChunks /\ worker.read = RequestChunks
    BY <2>3, ExchangeAssumption DEF ExchangeInv, ExchangeTypeOK, Supervisor
  <2>5. DeliveredWhole'
    BY <1>1, <1>3, <2>1, <2>3, <2>4 DEF DeliveredWhole
  <2> QED
    BY <1>1, <1>3, <2>1, <2>2, <2>3, <2>5 DEF ExchangeInv, StreamHolders
<1> QED  BY <1>2, <1>3 DEF Deliver

LEMMA SupervisorDiesKeeps == ExchangeInv /\ SupervisorDies => ExchangeInv'
<1> SUFFICES ASSUME ExchangeInv, SupervisorDies PROVE ExchangeInv'
  OBVIOUS
<1>1. /\ supervisor' = [supervisor EXCEPT !.state = "dead", !.open = {}, !.ready = {}]
      /\ UNCHANGED <<group, worker, pipes, hour, stopAsked>>
  BY DEF SupervisorDies
<1>2. /\ supervisor'.state = "dead" /\ supervisor'.open = {} /\ supervisor'.ready = {}
      /\ supervisor'.sent = supervisor.sent
      /\ supervisor'.received = supervisor.received
      /\ supervisor'.exited = supervisor.exited
  BY <1>1 DEF ExchangeInv, ExchangeTypeOK, Supervisor
<1>3. ExchangeTypeOK'
  BY <1>1 DEF ExchangeInv, ExchangeTypeOK, Supervisor
<1>4. DeliveredWhole'
  BY <1>2 DEF DeliveredWhole
<1> QED
  BY <1>1, <1>2, <1>3, <1>4 DEF ExchangeInv

LEMMA ReportKeeps == ExchangeInv /\ Report => ExchangeInv'
  BY DEF ExchangeInv, ExchangeTypeOK, Supervisor, DeliveredWhole, StreamHolders,
         Stream, Report, SupervisorGone

LEMMA WatchdogKeeps == ExchangeInv /\ Watchdog => ExchangeInv'
  BY DEF ExchangeInv, ExchangeTypeOK, Supervisor, DeliveredWhole, StreamHolders,
         Stream, Watchdog

LEMMA WorkerReadsKeeps == ExchangeInv /\ WorkerReads => ExchangeInv'
  BY ExchangeAssumption
  DEF ExchangeInv, ExchangeTypeOK, Supervisor, DeliveredWhole, StreamHolders,
      Stream, WorkerReads

LEMMA WorkerWritesKeeps == ExchangeInv /\ WorkerWrites => ExchangeInv'
  BY ExchangeAssumption
  DEF ExchangeInv, ExchangeTypeOK, Supervisor, DeliveredWhole, StreamHolders,
      Stream, WorkerWrites, SupervisorGone

LEMMA WorkerEndsKeeps == ExchangeInv /\ WorkerEnds => ExchangeInv'
  BY ExchangeAssumption
  DEF ExchangeInv, ExchangeTypeOK, Supervisor, DeliveredWhole, StreamHolders,
      Stream, WorkerEnds

LEMMA WorkerForksKeeps == ExchangeInv /\ WorkerForks => ExchangeInv'
  BY DEF ExchangeInv, ExchangeTypeOK, Supervisor, DeliveredWhole, StreamHolders,
         Stream, WorkerForks

LEMMA DescendantEndsKeeps == ExchangeInv /\ DescendantEnds => ExchangeInv'
  BY DEF ExchangeInv, ExchangeTypeOK, Supervisor, DeliveredWhole, StreamHolders,
         Stream, DescendantEnds

LEMMA ExchangeGoesOn ==
    ASSUME ExchangeInv, [ExchangeNext]_exchangeVars
    PROVE  ExchangeInv'
<1>1. CASE SupervisorStep
  BY <1>1, RoundKeeps, WriteRequestKeeps, ReadAnswerKeeps, ReadStatusKeeps, DeliverKeeps
  DEF SupervisorStep
<1>2. CASE HourPasses
  BY <1>2
  DEF HourPasses, ExchangeInv, ExchangeTypeOK, Supervisor, DeliveredWhole,
      StreamHolders
<1>3. CASE AskToStop
  BY <1>3
  DEF AskToStop, ExchangeInv, ExchangeTypeOK, Supervisor, DeliveredWhole,
      StreamHolders
<1>4. CASE UNCHANGED exchangeVars
  BY <1>4
  DEF exchangeVars, ExchangeInv, ExchangeTypeOK, Supervisor, DeliveredWhole,
      StreamHolders
<1> QED
  BY <1>1, <1>2, <1>3, <1>4, SupervisorDiesKeeps, ReportKeeps, WatchdogKeeps, WorkerReadsKeeps,
     WorkerWritesKeeps, WorkerEndsKeeps, WorkerForksKeeps, DescendantEndsKeeps
  DEF ExchangeNext

(* What the exchange with an isolated process returns is the whole answer  *)
(* to the whole request, from a worker that ended well, for any sizes of   *)
(* request, answer and pipes; and whether it returns or raises, nothing of *)
(* the process group is left.                                              *)
THEOREM AnswerIsDeliveredWhole == ExchangeSpec => []DeliveredWhole
<1>1. ExchangeInv => DeliveredWhole
  BY DEF ExchangeInv
<1>2. ExchangeInit /\ [][ExchangeNext]_exchangeVars => []ExchangeInv
  BY ExchangeStarts, ExchangeGoesOn, PTL
<1> QED  BY <1>1, <1>2, PTL DEF ExchangeSpec

-----------------------------------------------------------------------------
(* A confined container run.                                               *)

Early == {"admit", "info", "image", "launch"}
Interrupted ==
    {"cancelled", "deadline_exceeded", "process_io_failed", "output_limit_exceeded"}

StreamInv ==
    /\ stream.taken <= stream.wrote /\ stream.wrote <= stream.whole
    /\ "stdin" \notin stream.open => stream.sent
    /\ "stdout" \notin stream.open =>
         client.group = {} /\ client.state # "none" /\ stream.taken = stream.wrote

(* Only the exchange reads the router's output, and what it read is within *)
(* the limit when it ends well; a client is reaped only when nothing runs  *)
(* that could use its pipes or create a container.                         *)
ContainerInv ==
    /\ ContainerTypeOK
    /\ run.stage \in Early => client.state = "none" /\ stream.taken = 0
    /\ run.stage \in {"exchange", "remove", "reap", "wait"} => client.state # "none"
    /\ run.stage = "exchange" => client.state # "reaped"
    /\ run.stage \in Early \cup {"exchange"} => run.status = "none"
    /\ run.stage \in {"remove", "reap", "wait"} => run.status \in Interrupted \cup {"whole"}
    /\ client.state = "none" => client.code = "none"
    /\ "client" \in client.group => client.state = "running" /\ client.code = "none"
    /\ client.state \in {"none", "reaped"} \/ run.stage \in {"wait", "done"} =>
         client.group = {}
    /\ client.code = "zero" =>
         stream.wrote = stream.whole /\ container \in {"present", "removed"}
    /\ run.removed => container # "present"
    /\ StreamInv
    /\ run.stage = "exchange" \/ run.status = "whole" => stream.taken <= OutputLimit
    /\ run.status = "whole" => client.state = "reaped" /\ stream.open = {}
    /\ RunEndsClean

LEMMA ContainerStarts == ContainerInit => ContainerInv
<1> SUFFICES ASSUME ContainerInit PROVE ContainerInv
  OBVIOUS
<1>1. 0 \in 0..CleanupAttempts /\ 0 \in 0..MaxProduced
  BY ContainerAssumption
<1>2. run \in Run /\ client \in Client
  BY <1>1 DEF ContainerInit, Run, Stages, Statuses, Client
<1>3. stream \in [open : {{"stdin", "stdout"}}, sent : {FALSE}, whole : 0..MaxProduced,
                  wrote : {0}, taken : {0}]
  BY DEF ContainerInit
<1>4. /\ stream.open = {"stdin", "stdout"} /\ stream.whole \in 0..MaxProduced
      /\ stream.wrote = 0 /\ stream.taken = 0
  BY <1>3
<1>5. stream \in Output
  BY <1>1, <1>3 DEF Output
<1>6. StreamInv
  BY <1>4, ContainerAssumption DEF StreamInv
<1>7. /\ run.stage = "admit" /\ run.status = "none" /\ ~run.removed
      /\ client.state = "none" /\ client.code = "none" /\ client.group = {}
      /\ container = "absent" /\ due = "early" /\ withdrawn = FALSE
  BY DEF ContainerInit
<1> QED
  BY <1>2, <1>4, <1>5, <1>6, <1>7
  DEF ContainerInv, ContainerTypeOK, RunEndsClean, At, Early, Interrupted

(* The three ways a step moves the run on.                                 *)
LEMMA RunMoves ==
    ASSUME run \in Run, NEW stage \in Stages, NEW status \in Statuses
    PROVE  /\ Go(stage) =>
                /\ run' \in Run /\ run'.stage = stage /\ run'.status = run.status
                /\ run'.removed = run.removed
           /\ Answer(status) =>
                /\ run' \in Run /\ run'.stage = "done" /\ run'.status = status
                /\ run'.removed = run.removed
           /\ Ended(status) =>
                /\ run' \in Run /\ run'.stage = "remove" /\ run'.status = status
                /\ run'.removed = run.removed
<1>1. Go(stage) =>
        /\ run' \in Run /\ run'.stage = stage /\ run'.status = run.status
        /\ run'.removed = run.removed
  BY DEF Go, Run
<1>2. Answer(status) =>
        /\ run' \in Run /\ run'.stage = "done" /\ run'.status = status
        /\ run'.removed = run.removed
  BY DEF Answer, Run, Stages
<1>3. Ended(status) =>
        /\ run' \in Run /\ run'.stage = "remove" /\ run'.status = status
        /\ run'.removed = run.removed
  BY DEF Ended, Run, Stages
<1> QED  BY <1>1, <1>2, <1>3

LEMMA StopIsAnInterruption == StopStatus \in Interrupted /\ Interrupted \subseteq Statuses
  BY DEF StopStatus, Interrupted, Statuses

(* Until a client is launched there is nothing to clean up.                *)
LEMMA NothingIsLaunched ==
    ASSUME ContainerInv, run.stage \in Early, Unlaunched,
           run' \in Run, run'.removed = run.removed,
           \/ run'.stage \in Early /\ run'.status = "none"
           \/ run'.stage = "done" /\ run'.status \notin {"whole", "success"}
    PROVE  ContainerInv'
  BY DEF ContainerInv, ContainerTypeOK, StreamInv, RunEndsClean, At, Early, Interrupted,
         Unlaunched

LEMMA AdmitKeeps ==
    ASSUME ContainerInv, Admit
    PROVE  ContainerInv'
<1>1. /\ run \in Run /\ run.stage \in Early /\ run.status = "none" /\ Unlaunched
      /\ Go("info") \/ Answer(StopStatus)
  BY DEF ContainerInv, ContainerTypeOK, Admit, At, Early
<1>2. CASE Go("info")
  <2>1. "info" \in Stages /\ "info" \in Early
    BY DEF Stages, Early
  <2> QED  BY <1>1, <1>2, <2>1, RunMoves, StopIsAnInterruption, NothingIsLaunched
<1>3. CASE Answer(StopStatus)
  <2>1. StopStatus \in Statuses /\ StopStatus \notin {"whole", "success"}
    BY DEF StopStatus, Statuses
  <2>2. "done" \in Stages
    BY DEF Stages
  <2> QED  BY <1>1, <1>3, <2>1, <2>2, RunMoves, NothingIsLaunched
<1> QED  BY <1>1, <1>2, <1>3

LEMMA ProbeKeeps ==
    ASSUME ContainerInv, NEW stage \in Early, NEW next \in Early,
           NEW failure \in {"daemon_unavailable", "image_unavailable"},
           Probe(stage, next, failure)
    PROVE  ContainerInv'
<1>1. /\ run \in Run /\ run.stage \in Early /\ run.status = "none" /\ Unlaunched
      /\ Go(next) \/ Answer(failure)
  BY DEF ContainerInv, ContainerTypeOK, Probe, At, Early
<1>2. /\ next \in Stages /\ failure \in Statuses
      /\ failure \notin {"whole", "success"}
  BY DEF Early, Stages, Statuses
<1> QED  BY <1>1, <1>2, RunMoves, NothingIsLaunched

LEMMA LaunchKeeps ==
    ASSUME ContainerInv, Launch
    PROVE  ContainerInv'
<1>1. /\ run \in Run /\ run.stage \in Early /\ run.status = "none"
      /\ UNCHANGED <<container, stream, due, withdrawn>>
  BY DEF ContainerInv, ContainerTypeOK, Launch, At, Early
<1>2. "exchange" \in Stages /\ "launch_failed" \in Statuses
  BY DEF Stages, Statuses
<1>3. CASE (Answer(StopStatus) \/ Answer("launch_failed")) /\ UNCHANGED client
  <2>1. PICK status \in Statuses :
          Answer(status) /\ status \notin {"whole", "success"}
    <3>1. /\ StopStatus \in Statuses /\ StopStatus \notin {"whole", "success"}
          /\ "launch_failed" \in Statuses
      BY DEF StopStatus, Statuses
    <3> QED  BY <1>3, <3>1
  <2>2. Unlaunched
    BY <1>1, <1>3 DEF Unlaunched
  <2> QED  BY <1>1, <1>2, <2>1, <2>2, RunMoves, NothingIsLaunched
<1>4. CASE /\ Go("exchange")
           /\ client' = [client EXCEPT !.state = "running", !.group = {"client"}]
  <2>1. /\ client' \in Client /\ client'.state = "running" /\ client'.group = {"client"}
        /\ client'.code = client.code
    BY <1>4 DEF ContainerInv, ContainerTypeOK, Client
  <2>2. /\ run' \in Run /\ run'.stage = "exchange" /\ run'.status = "none"
        /\ run'.removed = run.removed
    BY <1>1, <1>2, <1>4, RunMoves
  <2>3. stream.taken = 0 /\ 0 <= OutputLimit
    BY <1>1, ContainerAssumption DEF ContainerInv
  <2> QED
    BY <1>1, <2>1, <2>2, <2>3
    DEF ContainerInv, ContainerTypeOK, StreamInv, RunEndsClean, At, Early, Interrupted
<1> QED  BY <1>3, <1>4 DEF Launch

(* A round of the exchange goes on, or ends with an interruption, after    *)
(* which nothing says that the output is whole.                            *)
LEMMA ExchangeStep ==
    ASSUME ContainerInv, At("exchange"), UNCHANGED <<client, container, due, withdrawn>>,
           stream' \in Output, stream'.wrote = stream.wrote, stream'.whole = stream.whole,
           StreamInv',
           \/ UNCHANGED run /\ stream'.taken <= OutputLimit
           \/ \E status \in Interrupted : Ended(status)
    PROVE  ContainerInv'
<1>1. run \in Run /\ run.stage = "exchange"
  BY DEF ContainerInv, ContainerTypeOK, At
<1>2. CASE UNCHANGED run /\ stream'.taken <= OutputLimit
  BY <1>1, <1>2
  DEF ContainerInv, ContainerTypeOK, RunEndsClean, At, Early, Interrupted
<1>3. CASE \E status \in Interrupted : Ended(status)
  <2>1. PICK status \in Interrupted : Ended(status)
    BY <1>3
  <2>2. /\ run' \in Run /\ run'.stage = "remove" /\ run'.status = status
        /\ run'.removed = run.removed
    <3>1. status \in Statuses /\ "remove" \in Stages
      BY DEF Interrupted, Statuses, Stages
    <3> QED  BY <1>1, <2>1, <3>1, RunMoves
  <2> QED
    BY <1>1, <2>1, <2>2
    DEF ContainerInv, ContainerTypeOK, RunEndsClean, At, Early, Interrupted
<1> QED  BY <1>2, <1>3

LEMMA PollKeeps ==
    ASSUME ContainerInv, Poll
    PROVE  ContainerInv'
<1>1. /\ At("exchange") /\ run.stage = "exchange" /\ run \in Run
      /\ stream \in Output /\ StreamInv
      /\ UNCHANGED <<container, stream, due, withdrawn>>
  BY DEF ContainerInv, ContainerTypeOK, Poll, At
<1>2. CASE Ended(StopStatus) /\ UNCHANGED client
  <2>1. StreamInv'
    BY <1>1, <1>2 DEF StreamInv
  <2> QED  BY <1>1, <1>2, <2>1, StopIsAnInterruption, ExchangeStep
<1>3. CASE /\ stream.open = {} /\ client.state = "exited"
           /\ client' = [client EXCEPT !.state = "reaped"] /\ Ended("whole")
  <2>1. /\ client' \in Client /\ client'.state = "reaped" /\ client'.group = client.group
        /\ client'.code = client.code
    BY <1>3 DEF ContainerInv, ContainerTypeOK, Client
  <2>2. /\ run' \in Run /\ run'.stage = "remove" /\ run'.status = "whole"
        /\ run'.removed = run.removed
    <3>1. "whole" \in Statuses /\ "remove" \in Stages
      BY DEF Statuses, Stages
    <3> QED  BY <1>1, <1>3, <3>1, RunMoves
  <2>3. client.group = {} /\ stream.taken <= OutputLimit
    BY <1>1, <1>3 DEF ContainerInv, StreamInv
  <2> QED
    BY <1>1, <1>3, <2>1, <2>2, <2>3
    DEF ContainerInv, ContainerTypeOK, StreamInv, RunEndsClean, At, Early, Interrupted
<1> QED  BY <1>2, <1>3 DEF Poll

LEMMA SendInputKeeps ==
    ASSUME ContainerInv, SendInput
    PROVE  ContainerInv'
<1>1. /\ At("exchange") /\ run.stage = "exchange" /\ stream \in Output /\ StreamInv
      /\ UNCHANGED <<client, container, due, withdrawn>> /\ stream.taken <= OutputLimit
  BY DEF ContainerInv, ContainerTypeOK, SendInput, At
<1>2. CASE /\ stream' = [stream EXCEPT !.open = @ \ {"stdin"}, !.sent = TRUE]
           /\ UNCHANGED run
  <2>1. /\ stream' \in Output /\ stream'.wrote = stream.wrote
        /\ stream'.whole = stream.whole /\ stream'.taken = stream.taken
        /\ stream'.sent /\ stream'.open = stream.open \ {"stdin"}
    BY <1>1, <1>2 DEF Output
  <2>2. StreamInv'
    BY <1>1, <2>1 DEF StreamInv
  <2> QED  BY <1>1, <1>2, <2>1, <2>2, ExchangeStep
<1>3. CASE Ended("process_io_failed") /\ UNCHANGED stream
  <2>1. StreamInv' /\ "process_io_failed" \in Interrupted
    BY <1>1, <1>3 DEF StreamInv, Interrupted
  <2> QED  BY <1>1, <1>3, <2>1, ExchangeStep
<1> QED  BY <1>2, <1>3 DEF SendInput

LEMMA ReadOutputKeeps ==
    ASSUME ContainerInv, ReadOutput
    PROVE  ContainerInv'
<1>1. /\ At("exchange") /\ run.stage = "exchange" /\ stream \in Output /\ StreamInv
      /\ UNCHANGED <<client, container, due, withdrawn>> /\ stream.taken <= OutputLimit
      /\ "stdout" \in stream.open /\ client.state # "none"
  BY DEF ContainerInv, ContainerTypeOK, ReadOutput, At
<1>2. CASE /\ stream.wrote > stream.taken /\ stream' = [stream EXCEPT !.taken = @ + 1]
           /\ IF stream.taken + 1 > OutputLimit THEN Ended("output_limit_exceeded")
              ELSE UNCHANGED run
  <2>1. stream.taken + 1 \in 0..MaxProduced /\ stream.taken + 1 <= stream.wrote
    BY <1>1, <1>2, ContainerAssumption DEF Output
  <2>2. /\ stream' \in Output /\ stream'.wrote = stream.wrote
        /\ stream'.whole = stream.whole /\ stream'.taken = stream.taken + 1
        /\ stream'.sent = stream.sent /\ stream'.open = stream.open
    BY <1>1, <1>2, <2>1 DEF Output
  <2>3. StreamInv'
    BY <1>1, <2>1, <2>2 DEF StreamInv
  <2>4. "output_limit_exceeded" \in Interrupted
    BY DEF Interrupted
  <2>5. CASE stream.taken + 1 > OutputLimit
    BY <1>1, <1>2, <2>2, <2>3, <2>4, <2>5, ExchangeStep
  <2>6. CASE ~(stream.taken + 1 > OutputLimit)
    <3>1. stream'.taken <= OutputLimit
      BY <1>1, <2>1, <2>2, <2>6, ContainerAssumption DEF Output
    <3> QED  BY <1>1, <1>2, <2>2, <2>3, <2>6, <3>1, ExchangeStep
  <2> QED  BY <2>5, <2>6
<1>3. CASE /\ stream.wrote = stream.taken /\ client.group = {}
           /\ stream' = [stream EXCEPT !.open = @ \ {"stdout"}] /\ UNCHANGED run
  <2>1. /\ stream' \in Output /\ stream'.wrote = stream.wrote
        /\ stream'.whole = stream.whole /\ stream'.taken = stream.taken
        /\ stream'.sent = stream.sent /\ stream'.open = stream.open \ {"stdout"}
    BY <1>1, <1>3 DEF Output
  <2>2. StreamInv'
    BY <1>1, <1>3, <2>1 DEF StreamInv
  <2> QED  BY <1>1, <1>3, <2>1, <2>2, ExchangeStep
<1> QED  BY <1>2, <1>3 DEF ReadOutput

LEMMA ExchangeFailsKeeps ==
    ASSUME ContainerInv, ExchangeFails
    PROVE  ContainerInv'
<1>1. /\ At("exchange") /\ stream \in Output
      /\ UNCHANGED <<client, container, stream, due, withdrawn>>
      /\ \E status \in Interrupted : Ended(status)
  BY DEF ContainerInv, ContainerTypeOK, ExchangeFails, Interrupted
<1>2. StreamInv'
  BY <1>1 DEF ContainerInv, StreamInv
<1> QED  BY <1>1, <1>2, ExchangeStep

(* Whichever way the removal ends, a container that is said to be removed  *)
(* is not there, and a router's whole output stays its output.             *)
LEMMA RemoveContainerKeeps ==
    ASSUME ContainerInv, RemoveContainer
    PROVE  ContainerInv'
<1>1. /\ run \in Run /\ run.stage = "remove" /\ run.attempts < CleanupAttempts
      /\ UNCHANGED <<client, stream, due, withdrawn>>
      /\ container \in {"absent", "present", "late", "removed"}
  BY DEF ContainerInv, ContainerTypeOK, RemoveContainer, At
<1>2. /\ Taken \in {"absent", "late", "removed"} /\ Taken # "present"
      /\ container \in {"present", "removed"} => Taken = "removed"
  BY <1>1 DEF Taken
<1>3. CASE /\ run' = [run EXCEPT !.stage = "reap", !.removed = TRUE] /\ container' = Taken
  <2>1. run' \in Run /\ run'.stage = "reap" /\ run'.status = run.status
    BY <1>1, <1>3 DEF Run, Stages
  <2> QED
    BY <1>1, <1>2, <1>3, <2>1
    DEF ContainerInv, ContainerTypeOK, StreamInv, RunEndsClean, At, Early, Interrupted
<1>4. CASE run' = [run EXCEPT !.attempts = @ + 1] /\ container' \in {container, Taken}
  <2>1. run.attempts + 1 \in 0..CleanupAttempts
    BY <1>1, ContainerAssumption DEF Run
  <2>2. /\ run' \in Run /\ run'.stage = "remove" /\ run'.status = run.status
        /\ run'.removed = run.removed
    BY <1>1, <1>4, <2>1 DEF Run
  <2> QED
    BY <1>1, <1>2, <1>4, <2>2
    DEF ContainerInv, ContainerTypeOK, StreamInv, RunEndsClean, At, Early, Interrupted
<1> QED  BY <1>3, <1>4 DEF RemoveContainer

LEMMA GiveUpRemovalKeeps ==
    ASSUME ContainerInv, GiveUpRemoval
    PROVE  ContainerInv'
<1>1. run \in Run /\ run.stage = "remove" /\ Go("reap") /\ Unlaunched
  BY DEF ContainerInv, ContainerTypeOK, GiveUpRemoval, At
<1>2. /\ run' \in Run /\ run'.stage = "reap" /\ run'.status = run.status
      /\ run'.removed = run.removed
  <2>1. "reap" \in Stages /\ run.status \in Statuses
    BY <1>1 DEF Stages, Run
  <2> QED  BY <1>1, <2>1, RunMoves
<1> QED
  BY <1>1, <1>2
  DEF ContainerInv, ContainerTypeOK, StreamInv, RunEndsClean, At, Early, Interrupted,
      Unlaunched

LEMMA KillClientKeeps ==
    ASSUME ContainerInv, KillClient
    PROVE  ContainerInv'
<1>1. /\ run \in Run /\ run.stage = "reap" /\ Go("wait")
      /\ client \in Client /\ client.state \in {"running", "exited"}
      /\ UNCHANGED <<container, stream, due, withdrawn>>
  BY DEF ContainerInv, ContainerTypeOK, KillClient, At
<1>2. /\ run' \in Run /\ run'.stage = "wait" /\ run'.status = run.status
      /\ run'.removed = run.removed
  <2>1. "wait" \in Stages /\ run.status \in Statuses
    BY <1>1 DEF Stages, Run
  <2> QED  BY <1>1, <2>1, RunMoves
<1>3. /\ client' \in Client /\ client'.state = "exited" /\ client'.group = {}
      /\ client'.code \in {client.code, "killed"}
  <2> DEFINE code == IF client.code = "none" THEN "killed" ELSE client.code
  <2>1. client' = [client EXCEPT !.state = "exited", !.group = {}, !.code = code]
    BY DEF KillClient
  <2>2. code \in {client.code, "killed"} /\ code \in {"none", "zero", "nonzero", "killed"}
    BY <1>1 DEF Client
  <2> HIDE DEF code
  <2> QED  BY <1>1, <2>1, <2>2 DEF Client
<1> QED
  BY <1>1, <1>2, <1>3
  DEF ContainerInv, ContainerTypeOK, StreamInv, RunEndsClean, At, Early, Interrupted

(* The verdict: success only for a removed container, a reaped client and  *)
(* a whole output.                                                         *)
LEMMA ReapClientKeeps ==
    ASSUME ContainerInv, ReapClient
    PROVE  ContainerInv'
<1>1. /\ run \in Run /\ run.stage \in {"reap", "wait"}
      /\ client \in Client /\ stream \in Output
      /\ UNCHANGED <<container, stream, due, withdrawn>>
  BY DEF ContainerInv, ContainerTypeOK, ReapClient, At
<1>2. PICK reaped \in BOOLEAN :
        /\ Answer(Verdict(reaped))
        /\ \/ reaped /\ client' = [client EXCEPT !.state = "reaped"]
              /\ (client.state = "reaped" \/ run.stage = "wait")
           \/ ~reaped /\ UNCHANGED client /\ run.stage = "wait"
  <2>1. CASE At("reap") /\ client.state = "reaped" /\ Answer(Verdict(TRUE)) /\ UNCHANGED client
    <3>1. client' = [client EXCEPT !.state = "reaped"]
      BY <1>1, <2>1 DEF Client
    <3> QED  BY <2>1, <3>1
  <2>2. CASE /\ At("wait") /\ client' = [client EXCEPT !.state = "reaped"]
             /\ Answer(Verdict(TRUE))
    BY <2>2 DEF At
  <2>3. CASE At("wait") /\ Answer(Verdict(FALSE)) /\ UNCHANGED client
    BY <2>3 DEF At
  <2> QED  BY <2>1, <2>2, <2>3 DEF ReapClient
<1>3. /\ run.status \in Interrupted \cup {"whole"} /\ client.state # "none"
      /\ run.stage = "wait" \/ client.state = "reaped" => client.group = {}
      /\ run.status = "whole" =>
           /\ client.state = "reaped" /\ stream.open = {} /\ stream.taken <= OutputLimit
           /\ stream.sent /\ stream.taken = stream.wrote
      /\ client.code = "zero" =>
           stream.wrote = stream.whole /\ container \in {"present", "removed"}
      /\ run.removed => container # "present"
      /\ "client" \notin client.group
  BY <1>1, <1>2 DEF ContainerInv, StreamInv
<1>4. Verdict(reaped) \in Statuses
  BY <1>1, <1>3 DEF Verdict, Statuses, Interrupted
<1>5. /\ run' \in Run /\ run'.stage = "done" /\ run'.status = Verdict(reaped)
      /\ run'.removed = run.removed
  <2> DEFINE status == Verdict(reaped)
  <2>1. status \in Statuses /\ Answer(status)
    BY <1>2, <1>4
  <2>2. "done" \in Stages
    BY DEF Stages
  <2> HIDE DEF status
  <2>3. /\ run' \in Run /\ run'.stage = "done" /\ run'.status = status
        /\ run'.removed = run.removed
    BY <1>1, <2>1, <2>2, RunMoves
  <2> QED  BY <2>3 DEF status
<1>6. /\ client' \in Client /\ client'.code = client.code /\ client'.group = {}
      /\ client'.state # "none" /\ (reaped => client'.state = "reaped")
      /\ client.state = "reaped" => client'.state = "reaped"
  BY <1>1, <1>2, <1>3 DEF Client
<1>7. /\ Verdict(reaped) # "cleanup_failed" => run.removed /\ reaped
      /\ Verdict(reaped) = "whole" => run.status = "whole"
      /\ Verdict(reaped) = "success" =>
           run.status = "whole" /\ client.code = "zero" /\ stream.taken # 0 /\ run.removed
  BY <1>3 DEF Verdict, Interrupted
<1>8. (Verdict(reaped) = "success" => stream.taken \in 1..OutputLimit)
  BY <1>1, <1>3, <1>7, ContainerAssumption DEF Output
<1>9. RunEndsClean'
  BY <1>1, <1>3, <1>5, <1>6, <1>7, <1>8 DEF RunEndsClean, At
<1> QED
  BY <1>1, <1>3, <1>5, <1>6, <1>7, <1>9
  DEF ContainerInv, ContainerTypeOK, StreamInv, Early, Interrupted

LEMMA CreateContainerKeeps ==
    ASSUME ContainerInv, CreateContainer
    PROVE  ContainerInv'
  BY DEF ContainerInv, ContainerTypeOK, StreamInv, RunEndsClean, At, Early, Interrupted,
         CreateContainer, ClientRuns

(* A router only writes while its client runs, so never after the end of   *)
(* its output was read.                                                    *)
LEMMA RouterWritesKeeps ==
    ASSUME ContainerInv, RouterWrites
    PROVE  ContainerInv'
<1>1. /\ stream \in Output /\ stream.wrote < stream.whole /\ "client" \in client.group
      /\ stream' = [stream EXCEPT !.wrote = @ + 1]
      /\ UNCHANGED <<run, client, container, due, withdrawn>>
  BY DEF ContainerInv, ContainerTypeOK, RouterWrites, ClientRuns
<1>2. /\ stream.wrote + 1 \in 0..MaxProduced /\ stream.wrote + 1 <= stream.whole
      /\ stream.taken <= stream.wrote => stream.taken <= stream.wrote + 1
  BY <1>1, ContainerAssumption DEF Output
<1>3. /\ stream' \in Output /\ stream'.wrote = stream.wrote + 1
      /\ stream'.whole = stream.whole /\ stream'.taken = stream.taken
      /\ stream'.sent = stream.sent /\ stream'.open = stream.open
  BY <1>1, <1>2 DEF Output
<1>4. StreamInv'
  BY <1>1, <1>2, <1>3 DEF ContainerInv, StreamInv
<1>5. client.state = "running" /\ client.code = "none" /\ ~At("done")
  BY <1>1 DEF ContainerInv, At
<1>6. RunEndsClean'
  BY <1>1, <1>5 DEF RunEndsClean, At
<1> QED
  BY <1>1, <1>3, <1>4, <1>5, <1>6
  DEF ContainerInv, ContainerTypeOK, Early, Interrupted

LEMMA ClientExitsKeeps ==
    ASSUME ContainerInv, ClientExits
    PROVE  ContainerInv'
<1>1. /\ client \in Client /\ "client" \in client.group
      /\ UNCHANGED <<run, container, stream, due, withdrawn>>
  BY DEF ContainerInv, ContainerTypeOK, ClientExits, ClientRuns
<1>2. PICK code \in {"zero", "nonzero"} :
        /\ client' = [client EXCEPT !.state = "exited", !.code = code,
                         !.group = @ \ {"client"}]
        /\ code = "zero" => container = "present" /\ stream.wrote = stream.whole
  BY DEF ClientExits
<1>3. /\ client' \in Client /\ client'.state = "exited" /\ client'.code = code
      /\ client'.group = client.group \ {"client"}
  BY <1>1, <1>2 DEF Client
<1>4. client.state = "running" /\ ~At("done") /\ run.stage # "wait" /\ run.status # "whole"
  BY <1>1 DEF ContainerInv, At
<1>5. RunEndsClean'
  BY <1>1, <1>4 DEF RunEndsClean, At
<1> QED
  BY <1>1, <1>2, <1>3, <1>4, <1>5
  DEF ContainerInv, ContainerTypeOK, StreamInv, Early, Interrupted, At

(* The group of a client gains and loses descendants while it runs.        *)
LEMMA GroupChangeKeeps ==
    ASSUME ContainerInv, ClientForks \/ ClientDescendantEnds
    PROVE  ContainerInv'
<1>1. client \in Client /\ UNCHANGED <<run, container, stream, due, withdrawn>>
  BY DEF ContainerInv, ContainerTypeOK, ClientForks, ClientDescendantEnds
<1>2. PICK members \in SUBSET {"client", "descendant"} :
        /\ client' = [client EXCEPT !.group = members]
        /\ "client" \in members => "client" \in client.group
        /\ client.group = {} => members = {}
  <2>1. CASE ClientForks
    BY <1>1, <2>1 DEF ClientForks, ClientRuns, Client
  <2>2. CASE ClientDescendantEnds
    BY <1>1, <2>2 DEF ClientDescendantEnds, Client
  <2> QED  BY <2>1, <2>2
<1>3. /\ client' \in Client /\ client'.state = client.state /\ client'.code = client.code
      /\ client'.group = members
  BY <1>1, <1>2 DEF Client
<1> QED
  BY <1>1, <1>2, <1>3
  DEF ContainerInv, ContainerTypeOK, StreamInv, RunEndsClean, At, Early, Interrupted

LEMMA ContainerGoesOn ==
    ASSUME ContainerInv, [ContainerNext]_containerVars
    PROVE  ContainerInv'
<1>1. CASE UNCHANGED containerVars
  BY <1>1 DEF containerVars, ContainerInv, ContainerTypeOK, StreamInv, RunEndsClean, At
<1>2. CASE Probe("info", "image", "daemon_unavailable")
  <2>1. "info" \in Early /\ "image" \in Early
    BY DEF Early
  <2> QED  BY <1>2, <2>1, ProbeKeeps
<1>3. CASE Probe("image", "launch", "image_unavailable")
  <2>1. "image" \in Early /\ "launch" \in Early
    BY DEF Early
  <2> QED  BY <1>3, <2>1, ProbeKeeps
<1>4. CASE DuePasses
  BY <1>4 DEF DuePasses, ContainerInv, ContainerTypeOK, StreamInv, RunEndsClean, At
<1>5. CASE Withdraw
  BY <1>5 DEF Withdraw, ContainerInv, ContainerTypeOK, StreamInv, RunEndsClean, At
<1> QED
  BY <1>1, <1>2, <1>3, <1>4, <1>5, AdmitKeeps, LaunchKeeps, PollKeeps,
     SendInputKeeps, ReadOutputKeeps, ExchangeFailsKeeps, RemoveContainerKeeps, GiveUpRemovalKeeps,
     KillClientKeeps, ReapClientKeeps, CreateContainerKeeps, RouterWritesKeeps,
     ClientExitsKeeps, GroupChangeKeeps
  DEF ContainerNext

(* A confined run that answers with success has read the whole output of a *)
(* router that had its whole input and ended well, within the limit; and   *)
(* whatever it answers, unless it says that the cleanup failed, its client *)
(* is reaped and its container gone, for any limits and output.            *)
THEOREM ConfinedRunEndsClean == ContainerSpec => []RunEndsClean
<1>1. ContainerInv => RunEndsClean
  BY DEF ContainerInv
<1> QED  BY <1>1, ContainerStarts, ContainerGoesOn, PTL DEF ContainerSpec

-----------------------------------------------------------------------------
(* The human review of a package.                                          *)

Effective == {"declined", "approved", "disclosed"}
Drawn(c) == c.challenge # NoChallenge
InUse(f) == {q \in Purpose : f[q].challenge # NoChallenge}

PendingInv ==
    /\ pending \in [Purpose -> Pending] /\ challenges \in Nat
    /\ Cardinality(InUse(pending)) <= MaxPending
    /\ \A p \in Purpose : pending[p].challenge <= challenges
    /\ \A p, q \in Purpose :
         Drawn(pending[p]) /\ pending[p].challenge = pending[q].challenge => p = q

(* A call waits with a challenge that was drawn, and one that had its      *)
(* effect has used it up.                                                  *)
ReviewInv(r) ==
    /\ reviews[r] \in Review /\ reviews[r].challenge <= challenges
    /\ reviews[r].pc = "idle" => reviews[r] = NoReview
    /\ reviews[r].pc \in {"asked", "decided"} =>
         reviews[r].purpose \in Purpose /\ Drawn(reviews[r])
    /\ reviews[r].outcome # "none" => reviews[r].pc = "done"
    /\ reviews[r].outcome \in Effective =>
         /\ Drawn(reviews[r])
         /\ \A p \in Purpose : pending[p].challenge # reviews[r].challenge

DisclosedInv ==
    /\ disclosed \subseteq [by : Reviews, expires : Nat]
    /\ IsFiniteSet(disclosed) /\ Cardinality(disclosed) <= ArtifactRoom

(* Challenges are drawn once and for one purpose, and one that was used is *)
(* not pending any more.                                                   *)
ConsentInv ==
    /\ reviewed \in [status : {"awaiting", "approved", "closed"}, revision : Nat]
    /\ reviews \in [Reviews -> Review] /\ consentClock \in Nat
    /\ PendingInv /\ DisclosedInv
    /\ \A r \in Reviews : ReviewInv(r)
    /\ OneDecisionPerChallenge

LEMMA PurposesAreFinite ==
    /\ IsFiniteSet(Purpose)
    /\ \A f : IsFiniteSet(InUse(f)) /\ Cardinality(InUse(f)) \in Nat
<1>1. IsFiniteSet(Purpose)
  <2>1. IsFiniteSet({"geometry"} \cup {"approval"})
    BY FS_Singleton, FS_Union
  <2> QED  BY <2>1 DEF Purpose
<1>2. \A f : InUse(f) \subseteq Purpose
  BY DEF InUse
<1> QED  BY <1>1, <1>2, FS_Subset, FS_CardinalityType

LEMMA FewerInUse ==
    ASSUME NEW f, NEW g, InUse(f) \subseteq InUse(g)
    PROVE  Cardinality(InUse(f)) <= Cardinality(InUse(g))
  BY PurposesAreFinite, FS_Subset

LEMMA ConsentStarts == ConsentInit => ConsentInv
<1> SUFFICES ASSUME ConsentInit PROVE ConsentInv
  OBVIOUS
<1>1. PendingInv
  <2>1. pending \in [Purpose -> Pending] /\ \A p \in Purpose : pending[p].challenge = 0
    BY DEF ConsentInit, NoPending, Pending, NoChallenge
  <2>2. InUse(pending) = {}
    BY <2>1 DEF InUse, NoChallenge
  <2>3. Cardinality(InUse(pending)) = 0
    BY <2>2, FS_EmptySet
  <2> QED
    BY <2>1, <2>3, ConsentAssumption DEF ConsentInit, PendingInv, Drawn, NoChallenge
<1>2. DisclosedInv
  <2>1. disclosed = {} /\ IsFiniteSet({}) /\ Cardinality({}) = 0
    BY FS_EmptySet DEF ConsentInit
  <2> QED  BY <2>1, ConsentAssumption DEF DisclosedInv
<1>3. NoReview \in Review
  BY DEF NoReview, Review, NoChallenge
<1>4. /\ reviews \in [Reviews -> Review]
      /\ \A r \in Reviews : reviews[r] = NoReview
  BY <1>3 DEF ConsentInit
<1>5. ASSUME NEW r \in Reviews PROVE ReviewInv(r)
  <2>1. /\ NoReview.challenge = 0 /\ NoReview.pc = "idle" /\ NoReview.outcome = "none"
        /\ challenges = 0
    BY DEF NoReview, NoChallenge, ConsentInit
  <2> QED  BY <1>3, <1>4, <2>1 DEF ReviewInv, Effective
<1>6. OneDecisionPerChallenge
  BY <1>4 DEF OneDecisionPerChallenge, NoReview
<1> QED  BY <1>1, <1>2, <1>4, <1>5, <1>6 DEF ConsentInit, ConsentInv

(* What the purge leaves pending.                                          *)
LEMMA PurgeForgets ==
    ASSUME ConsentInv
    PROVE  /\ ConsentsPurged \in [Purpose -> Pending]
           /\ \A p \in Purpose : ConsentsPurged[p] \in {pending[p], NoPending}
  BY DEF ConsentInv, PendingInv, ConsentsPurged, NoPending, Pending, NoChallenge

(* Forgetting challenges keeps what holds of the others.                   *)
LEMMA PendingShrinks ==
    ASSUME ConsentInv, UNCHANGED challenges, pending' \in [Purpose -> Pending],
           \A p \in Purpose : pending'[p] \in {pending[p], NoPending}
    PROVE  PendingInv'
<1>1. InUse(pending') \subseteq InUse(pending)
  BY DEF InUse, NoPending
<1>2. /\ Cardinality(InUse(pending')) <= Cardinality(InUse(pending))
      /\ Cardinality(InUse(pending')) \in Nat /\ Cardinality(InUse(pending)) \in Nat
  BY <1>1, FewerInUse, PurposesAreFinite
<1>3. Cardinality(InUse(pending')) <= MaxPending
  BY <1>2, ConsentAssumption DEF ConsentInv, PendingInv
<1>4. \A p \in Purpose : pending'[p].challenge <= challenges
  BY DEF ConsentInv, PendingInv, NoPending, NoChallenge
<1>5. \A p, q \in Purpose :
        Drawn(pending'[p]) /\ pending'[p].challenge = pending'[q].challenge => p = q
  <2> SUFFICES ASSUME NEW p \in Purpose, NEW q \in Purpose, Drawn(pending'[p]),
                      pending'[p].challenge = pending'[q].challenge
               PROVE  p = q
    OBVIOUS
  <2>1. pending'[p] = pending[p] /\ pending'[q] = pending[q]
    BY DEF Drawn, NoPending
  <2> QED  BY <2>1 DEF ConsentInv, PendingInv
<1> QED  BY <1>3, <1>4, <1>5 DEF ConsentInv, PendingInv

(* A call that does not take part in a step is not affected by it, as long *)
(* as what is pending is old, forgotten or new.                            *)
LEMMA OthersStand ==
    ASSUME ConsentInv, NEW s \in Reviews, reviews'[s] = reviews[s],
           challenges' \in Nat, challenges <= challenges',
           \A p \in Purpose : pending'[p].challenge \in
                              {pending[p].challenge, NoChallenge, challenges + 1}
    PROVE  ReviewInv(s)'
<1>1. /\ ReviewInv(s) /\ challenges \in Nat /\ reviews[s].challenge \in Nat
  BY DEF ConsentInv, PendingInv, ReviewInv, Review
<1>2. reviews[s].challenge <= challenges' /\ reviews[s].challenge # challenges + 1
  BY <1>1 DEF ReviewInv
<1>3. reviews[s].outcome \in Effective =>
        \A p \in Purpose : pending'[p].challenge # reviews[s].challenge
  BY <1>1, <1>2 DEF ReviewInv, Drawn
<1> QED  BY <1>1, <1>2, <1>3 DEF ReviewInv

(* A call that had no effect yet may have one with a challenge that is     *)
(* pending, for nobody used that.                                          *)
LEMMA DecisionIsTheOnlyOne ==
    ASSUME ConsentInv, NEW r \in Reviews,
           \A s \in Reviews \ {r} : reviews'[s] = reviews[s],
           \/ reviews'[r].outcome \notin Effective
           \/ \E p \in Purpose : pending[p].challenge = reviews'[r].challenge
    PROVE  OneDecisionPerChallenge'
<1> SUFFICES ASSUME NEW t \in Reviews, NEW u \in Reviews, t # u,
                    reviews'[t].challenge = reviews'[u].challenge,
                    reviews'[t].outcome \in Effective, reviews'[u].outcome \in Effective
             PROVE  FALSE
  BY DEF OneDecisionPerChallenge, Effective
<1>1. ASSUME NEW v \in Reviews \ {r}, reviews'[r].outcome \in Effective,
             reviews'[v].outcome \in Effective,
             reviews'[v].challenge = reviews'[r].challenge
      PROVE  FALSE
  <2>1. reviews'[v] = reviews[v] /\ ReviewInv(v)
    BY DEF ConsentInv
  <2> QED  BY <1>1, <2>1 DEF ReviewInv
<1>2. CASE t = r
  BY <1>1, <1>2
<1>3. CASE u = r
  BY <1>1, <1>3
<1>4. CASE t # r /\ u # r
  <2>1. reviews'[t] = reviews[t] /\ reviews'[u] = reviews[u]
    BY <1>4
  <2> QED  BY <2>1 DEF ConsentInv, OneDecisionPerChallenge, Effective
<1> QED  BY <1>2, <1>3, <1>4

LEMMA ConsentIsTyped == ConsentInv => ConsentTypeOK
  BY DEF ConsentInv, PendingInv, DisclosedInv, InUse, ConsentTypeOK

LEMMA ReviewMoves ==
    ASSUME ConsentInv, NEW r \in Reviews, NEW v \in Review,
           reviews' = [reviews EXCEPT ![r] = v],
           reviewed' \in [status : {"awaiting", "approved", "closed"}, revision : Nat],
           UNCHANGED consentClock, challenges <= challenges', PendingInv', DisclosedInv',
           \A p \in Purpose : pending'[p].challenge \in
                              {pending[p].challenge, NoChallenge, challenges + 1},
           ReviewInv(r)',
           \/ v.outcome \notin Effective
           \/ \E p \in Purpose : pending[p].challenge = v.challenge
    PROVE  ConsentInv'
<1>1. /\ reviews' \in [Reviews -> Review] /\ reviews'[r] = v
      /\ \A s \in Reviews \ {r} : reviews'[s] = reviews[s]
  BY DEF ConsentInv
<1>2. challenges' \in Nat
  BY DEF PendingInv
<1>3. ASSUME NEW s \in Reviews PROVE ReviewInv(s)'
  <2>1. CASE s = r
    BY <2>1
  <2>2. CASE s # r
    BY <1>1, <1>2, <2>2, OthersStand
  <2> QED  BY <2>1, <2>2
<1>4. OneDecisionPerChallenge'
  BY <1>1, DecisionIsTheOnlyOne
<1>5. consentClock' \in Nat
  BY DEF ConsentInv
<1> QED  BY <1>1, <1>3, <1>4, <1>5 DEF ConsentInv

(* What does not touch the calls: only what is pending may shrink.         *)
LEMMA CallsStand ==
    ASSUME ConsentInv, UNCHANGED <<reviews, pending, challenges>>,
           reviewed' \in [status : {"awaiting", "approved", "closed"}, revision : Nat],
           consentClock' \in Nat, DisclosedInv'
    PROVE  ConsentInv'
  BY DEF ConsentInv, PendingInv, ReviewInv, OneDecisionPerChallenge

LEMMA DisclosedStays ==
    ASSUME ConsentInv, UNCHANGED disclosed
    PROVE  DisclosedInv'
  BY DEF ConsentInv, DisclosedInv

LEMMA DisclosedShrinks ==
    ASSUME ConsentInv, disclosed' \subseteq disclosed
    PROVE  DisclosedInv'
<1>1. /\ IsFiniteSet(disclosed') /\ Cardinality(disclosed') <= Cardinality(disclosed)
      /\ Cardinality(disclosed) \in Nat /\ Cardinality(disclosed') \in Nat
  BY FS_Subset, FS_CardinalityType DEF ConsentInv, DisclosedInv
<1>2. Cardinality(disclosed') <= ArtifactRoom
  BY <1>1, ConsentAssumption DEF ConsentInv, DisclosedInv
<1> QED  BY <1>1, <1>2 DEF ConsentInv, DisclosedInv

LEMMA DisclosedGrows ==
    ASSUME ConsentInv, NEW r \in Reviews, Cardinality(ArtifactsKept) < ArtifactRoom,
           disclosed' = ArtifactsKept
                          \cup {[by |-> r, expires |-> consentClock + 2 * ConsentTtl]}
    PROVE  DisclosedInv'
<1> DEFINE kept == ArtifactsKept
           a == [by |-> r, expires |-> consentClock + 2 * ConsentTtl]
<1>1. kept \subseteq disclosed
  BY DEF ArtifactsKept
<1>2. a \in [by : Reviews, expires : Nat]
  BY ConsentAssumption DEF ConsentInv
<1>3. disclosed' = kept \cup {a} /\ Cardinality(kept) < ArtifactRoom
  OBVIOUS
<1> HIDE DEF kept, a
<1>4. IsFiniteSet(kept) /\ Cardinality(kept) \in Nat
  BY <1>1, FS_Subset, FS_CardinalityType DEF ConsentInv, DisclosedInv
<1>5. /\ IsFiniteSet(kept \cup {a})
      /\ Cardinality(kept \cup {a}) \in {Cardinality(kept), Cardinality(kept) + 1}
  BY <1>4, FS_AddElement
<1>6. Cardinality(kept \cup {a}) <= ArtifactRoom
  BY <1>3, <1>4, <1>5, ConsentAssumption
<1> QED  BY <1>1, <1>2, <1>3, <1>5, <1>6 DEF ConsentInv, DisclosedInv

(* The end of a call: it forgets challenges, among them the one it had its *)
(* effect with.                                                            *)
LEMMA CallConcludes ==
    ASSUME ConsentInv, NEW r \in Reviews, reviews[r].pc = "decided",
           NEW outcome \in Effective \cup {"refused"}, Conclude(r, outcome),
           reviewed' \in [status : {"awaiting", "approved", "closed"}, revision : Nat],
           UNCHANGED <<consentClock, challenges>>, DisclosedInv',
           pending' \in [Purpose -> Pending],
           \A p \in Purpose : pending'[p] \in {pending[p], NoPending},
           outcome \in Effective =>
             /\ pending'[reviews[r].purpose] = NoPending
             /\ pending[reviews[r].purpose].challenge = reviews[r].challenge
    PROVE  ConsentInv'
<1> DEFINE v == [reviews[r] EXCEPT !.pc = "done", !.outcome = outcome]
<1>1. /\ ReviewInv(r) /\ reviews[r] \in Review /\ reviews \in [Reviews -> Review]
      /\ reviews[r].purpose \in Purpose /\ Drawn(reviews[r])
  BY DEF ConsentInv, ReviewInv
<1>2. /\ v \in Review /\ v.pc = "done" /\ v.outcome = outcome
      /\ v.challenge = reviews[r].challenge /\ v.purpose = reviews[r].purpose
  BY <1>1 DEF Review, Effective
<1>3. reviews' = [reviews EXCEPT ![r] = v]
  BY <1>1 DEF Conclude
<1> HIDE DEF v
<1>4. PendingInv' /\ PendingInv
  BY PendingShrinks DEF ConsentInv
<1>5. outcome \in Effective =>
        \A p \in Purpose : pending'[p].challenge # v.challenge
  <2> SUFFICES ASSUME outcome \in Effective, NEW p \in Purpose
               PROVE  pending'[p].challenge # v.challenge
    OBVIOUS
  <2>1. CASE pending'[p] = NoPending
    BY <1>1, <1>2, <2>1 DEF Drawn, NoPending
  <2>2. CASE pending'[p] # NoPending
    <3>1. pending'[p] = pending[p] /\ p # reviews[r].purpose
      BY <2>2
    <3>2. Drawn(pending[reviews[r].purpose])
      BY <1>1 DEF Drawn
    <3> QED  BY <1>1, <1>2, <1>4, <3>1, <3>2 DEF PendingInv
  <2> QED  BY <2>1, <2>2
<1>6. reviews'[r] = v
  BY <1>1, <1>3
<1>7. ReviewInv(r)'
  BY <1>1, <1>2, <1>5, <1>6 DEF ReviewInv, Drawn
<1>8. /\ challenges <= challenges'
      /\ \A p \in Purpose : pending'[p].challenge \in
                             {pending[p].challenge, NoChallenge, challenges + 1}
  BY <1>4 DEF PendingInv, NoPending
<1>9. v.outcome \in Effective => \E p \in Purpose : pending[p].challenge = v.challenge
  BY <1>1, <1>2
<1> QED  BY <1>2, <1>3, <1>4, <1>7, <1>8, <1>9, ReviewMoves

LEMMA AskKeeps ==
    ASSUME ConsentInv, NEW r \in Reviews, Ask(r)
    PROVE  ConsentInv'
<1>1. PICK purpose \in Purpose, revision \in 1..MaxRevision :
        \/ StateReadable(revision) /\ Issue(r, purpose, revision)
        \/ /\ reviews' = [reviews EXCEPT ![r] = [NoReview EXCEPT !.pc = "done",
                             !.purpose = purpose, !.revision = revision,
                             !.outcome = "refused"]]
           /\ UNCHANGED <<pending, challenges>>
  BY DEF Ask
<1>2. /\ UNCHANGED <<reviewed, disclosed, consentClock>> /\ DisclosedInv'
      /\ reviewed' \in [status : {"awaiting", "approved", "closed"}, revision : Nat]
      /\ PendingInv /\ challenges \in Nat /\ consentClock \in Nat /\ revision \in Nat
      /\ reviews \in [Reviews -> Review]
  BY DisclosedStays, ConsentAssumption DEF Ask, ConsentInv, PendingInv
<1> DEFINE asked == [NoReview EXCEPT !.purpose = purpose, !.revision = revision]
<1>3. /\ asked \in Review /\ asked.purpose = purpose /\ asked.outcome = "none"
      /\ asked.challenge = 0
  BY <1>2 DEF NoReview, Review, NoChallenge
<1> DEFINE turned == [asked EXCEPT !.pc = "done", !.outcome = "refused"]
<1>4. /\ turned \in Review /\ turned.pc = "done" /\ turned.outcome = "refused"
      /\ turned.challenge = 0
  BY <1>3 DEF Review
<1>5. ASSUME reviews' = [reviews EXCEPT ![r] = turned], UNCHANGED challenges,
             pending' \in [Purpose -> Pending],
             \A p \in Purpose : pending'[p] \in {pending[p], NoPending}
      PROVE  ConsentInv'
  <2> HIDE DEF turned
  <2>1. PendingInv'
    BY <1>5, PendingShrinks
  <2>2. reviews'[r] = turned
    BY <1>2, <1>5
  <2>3. ReviewInv(r)'
    BY <1>2, <1>4, <1>5, <2>2 DEF ReviewInv, Effective
  <2>4. /\ challenges <= challenges' /\ turned.outcome \notin Effective
        /\ \A p \in Purpose : pending'[p].challenge \in
                               {pending[p].challenge, NoChallenge, challenges + 1}
    BY <1>2, <1>4, <1>5 DEF NoPending, Effective
  <2> QED  BY <1>2, <1>4, <1>5, <2>1, <2>3, <2>4, ReviewMoves
<1>6. CASE /\ reviews' = [reviews EXCEPT ![r] = [NoReview EXCEPT !.pc = "done",
                             !.purpose = purpose, !.revision = revision,
                             !.outcome = "refused"]]
           /\ UNCHANGED <<pending, challenges>>
  <2>1. [NoReview EXCEPT !.pc = "done", !.purpose = purpose, !.revision = revision,
           !.outcome = "refused"] = turned
    BY DEF NoReview
  <2>2. /\ pending' \in [Purpose -> Pending]
        /\ \A p \in Purpose : pending'[p] \in {pending[p], NoPending}
    BY <1>2, <1>6 DEF PendingInv
  <2> QED  BY <1>5, <1>6, <2>1, <2>2
<1>7. CASE Issue(r, purpose, revision)
  <2> DEFINE f == ConsentsPurged
             same == f[purpose].challenge # NoChallenge /\ f[purpose].revision = revision
             full == Cardinality({q \in Purpose : f[q].challenge # NoChallenge}) >= MaxPending
             given == IF same THEN f[purpose]
                      ELSE [revision |-> revision, challenge |-> challenges + 1,
                            expires |-> consentClock + ConsentTtl]
             shown == [asked EXCEPT !.pc = "asked", !.challenge = given.challenge]
  <2>1. \/ /\ same \/ f[purpose].challenge # NoChallenge \/ ~full
           /\ pending' = [f EXCEPT ![purpose] = given]
           /\ challenges' = IF same THEN challenges ELSE challenges + 1
           /\ reviews' = [reviews EXCEPT ![r] = shown]
        \/ /\ pending' = f
           /\ reviews' = [reviews EXCEPT ![r] = turned] /\ UNCHANGED challenges
    BY <1>7 DEF Issue
  <2>2. /\ f \in [Purpose -> Pending]
        /\ \A p \in Purpose : f[p] \in {pending[p], NoPending}
    BY PurgeForgets
  <2>3. full <=> Cardinality(InUse(f)) >= MaxPending
    BY DEF InUse
  <2> HIDE DEF f, full
  <2>4. CASE pending' = f /\ reviews' = [reviews EXCEPT ![r] = turned] /\ UNCHANGED challenges
    BY <1>5, <2>2, <2>4
  <2>5. CASE /\ same \/ f[purpose].challenge # NoChallenge \/ ~full
             /\ pending' = [f EXCEPT ![purpose] = given]
             /\ challenges' = IF same THEN challenges ELSE challenges + 1
             /\ reviews' = [reviews EXCEPT ![r] = shown]
    <3>1. /\ given \in Pending /\ given.challenge # 0 /\ given.challenge <= challenges'
          /\ challenges' \in Nat /\ challenges <= challenges'
          /\ \/ given.challenge = challenges + 1
             \/ given = f[purpose] /\ given = pending[purpose]
      <4>1. CASE same
        <5>1. given = f[purpose] /\ challenges' = challenges /\ f[purpose].challenge # 0
          BY <2>5, <4>1 DEF NoChallenge
        <5>2. f[purpose] = pending[purpose]
          BY <2>2, <5>1 DEF NoPending, NoChallenge
        <5> QED  BY <1>2, <2>2, <5>1, <5>2 DEF PendingInv
      <4>2. CASE ~same
        <5>1. /\ given = [revision |-> revision, challenge |-> challenges + 1,
                          expires |-> consentClock + ConsentTtl]
              /\ challenges' = challenges + 1
          BY <2>5, <4>2
        <5> QED  BY <1>2, <5>1, ConsentAssumption DEF Pending
      <4> QED  BY <4>1, <4>2
    <3>2. shown = [asked EXCEPT !.pc = "asked", !.challenge = given.challenge]
      OBVIOUS
    <3>8. f[purpose].challenge # NoChallenge \/ ~full
      BY <2>5
    <3>9. /\ pending' = [f EXCEPT ![purpose] = given]
          /\ reviews' = [reviews EXCEPT ![r] = shown]
      BY <2>5
    <3> HIDE DEF given, asked, shown
    <3>3. /\ pending' \in [Purpose -> Pending] /\ pending'[purpose] = given
          /\ \A p \in Purpose \ {purpose} : pending'[p] = f[p]
      BY <2>2, <3>1, <3>9
    <3>4. Cardinality(InUse(pending')) <= MaxPending
      <4>1. InUse(pending') = InUse(f) \cup {purpose}
        BY <3>1, <3>3 DEF InUse, NoChallenge
      <4>2. InUse(f) \subseteq InUse(pending)
        BY <2>2 DEF InUse, NoPending
      <4>3. /\ Cardinality(InUse(f)) <= Cardinality(InUse(pending))
            /\ Cardinality(InUse(f)) \in Nat /\ Cardinality(InUse(pending)) \in Nat
            /\ IsFiniteSet(InUse(f))
        BY <4>2, FewerInUse, PurposesAreFinite
      <4>4. CASE purpose \in InUse(f)
        <5>1. InUse(pending') = InUse(f)
          BY <4>1, <4>4
        <5> QED  BY <1>2, <4>3, <5>1, ConsentAssumption DEF PendingInv
      <4>5. CASE purpose \notin InUse(f)
        <5>1. Cardinality(InUse(f)) < MaxPending
          BY <2>3, <3>8, <4>3, <4>5, ConsentAssumption DEF InUse
        <5>2. Cardinality(InUse(f) \cup {purpose}) = Cardinality(InUse(f)) + 1
          BY <4>3, <4>5, FS_AddElement
        <5> QED  BY <4>1, <4>3, <5>1, <5>2, ConsentAssumption
      <4> QED  BY <4>4, <4>5
    <3>5. PendingInv'
      <4>1. \A p \in Purpose : pending'[p].challenge \in Nat /\ pending'[p].challenge <= challenges'
        <5> SUFFICES ASSUME NEW p \in Purpose
                     PROVE  pending'[p].challenge \in Nat /\ pending'[p].challenge <= challenges'
          OBVIOUS
        <5>1. CASE p = purpose
          BY <3>1, <3>3, <5>1 DEF Pending
        <5>2. CASE p # purpose
          <6>1. pending'[p] \in {pending[p], NoPending}
            BY <2>2, <3>3, <5>2
          <6>2. pending[p].challenge \in Nat /\ pending[p].challenge <= challenges
            BY <1>2 DEF PendingInv, Pending
          <6> QED  BY <1>2, <3>1, <6>1, <6>2 DEF NoPending, NoChallenge
        <5> QED  BY <5>1, <5>2
      <4>2. ASSUME NEW p \in Purpose, NEW q \in Purpose, Drawn(pending'[p]),
                   pending'[p].challenge = pending'[q].challenge
            PROVE  p = q
        <5>1. \A t \in Purpose \ {purpose} :
                Drawn(pending'[t]) =>
                  /\ pending'[t] = pending[t] /\ pending[t].challenge \in Nat
                  /\ pending[t].challenge <= challenges
          BY <1>2, <2>2, <3>3 DEF PendingInv, Drawn, NoPending, Pending
        <5>2. Drawn(pending'[q])
          BY <4>2 DEF Drawn
        <5>3. CASE given.challenge = challenges + 1
          BY <1>2, <3>3, <4>2, <5>1, <5>2, <5>3 DEF PendingInv
        <5>4. CASE given = pending[purpose]
          BY <1>2, <3>3, <4>2, <5>1, <5>2, <5>4 DEF PendingInv, Drawn
        <5> QED  BY <3>1, <5>3, <5>4
      <4> QED  BY <3>1, <3>3, <3>4, <4>1, <4>2 DEF PendingInv
    <3>6. /\ shown \in Review /\ shown.pc = "asked" /\ shown.outcome = "none"
          /\ shown.challenge = given.challenge /\ shown.purpose = purpose
      BY <1>3, <3>1, <3>2 DEF Review, Pending
    <3>7. ReviewInv(r)'
      <4>1. reviews'[r] = shown
        BY <1>2, <3>9
      <4> QED  BY <3>1, <3>6, <4>1 DEF ReviewInv, Drawn, Effective, NoChallenge
    <3>10. /\ shown.outcome \notin Effective
           /\ \A p \in Purpose : pending'[p].challenge \in
                                  {pending[p].challenge, NoChallenge, challenges + 1}
      <4>1. shown.outcome \notin Effective
        BY <3>6 DEF Effective
      <4>2. ASSUME NEW p \in Purpose
            PROVE  pending'[p].challenge \in {pending[p].challenge, NoChallenge, challenges + 1}
        BY <2>2, <3>1, <3>3 DEF NoPending
      <4> QED  BY <4>1, <4>2
    <3> QED  BY <1>2, <3>1, <3>5, <3>6, <3>7, <3>9, <3>10, ReviewMoves
  <2> QED  BY <2>1, <2>4, <2>5
<1> QED  BY <1>1, <1>6, <1>7

LEMMA DecideKeeps ==
    ASSUME ConsentInv, NEW r \in Reviews, Decide(r)
    PROVE  ConsentInv'
<1>1. PICK d \in {"approve", "decline"} :
        reviews' = [reviews EXCEPT ![r].pc = "decided", ![r].decision = d]
  BY DEF Decide
<1> DEFINE v == [reviews[r] EXCEPT !.pc = "decided", !.decision = d]
<1>2. /\ ReviewInv(r) /\ reviews[r] \in Review /\ reviews \in [Reviews -> Review]
      /\ reviews[r].pc = "asked" /\ PendingInv
      /\ UNCHANGED <<reviewed, pending, disclosed, challenges, consentClock>>
  BY DEF ConsentInv, ReviewInv, Decide
<1>3. /\ v \in Review /\ v.pc = "decided" /\ v.outcome = reviews[r].outcome
      /\ v.challenge = reviews[r].challenge /\ v.purpose = reviews[r].purpose
  BY <1>2 DEF Review
<1>4. reviews' = [reviews EXCEPT ![r] = v] /\ reviews'[r] = v
  BY <1>1, <1>2
<1> HIDE DEF v
<1>5. PendingInv' /\ DisclosedInv'
  BY <1>2, DisclosedStays DEF PendingInv
<1>6. v.outcome = "none"
  BY <1>2, <1>3 DEF ReviewInv
<1>7. ReviewInv(r)' /\ v.outcome \notin Effective
  BY <1>2, <1>3, <1>4, <1>6 DEF ReviewInv, Drawn, Effective
<1>8. /\ challenges <= challenges'
      /\ \A p \in Purpose : pending'[p].challenge \in
                             {pending[p].challenge, NoChallenge, challenges + 1}
  BY <1>2 DEF PendingInv
<1>9. reviewed' \in [status : {"awaiting", "approved", "closed"}, revision : Nat]
  BY <1>2 DEF ConsentInv
<1> QED  BY <1>2, <1>3, <1>4, <1>5, <1>7, <1>8, <1>9, ReviewMoves

(* Whatever the resumed call does, an effect it has uses up the challenge  *)
(* that is pending for it.                                                 *)
LEMMA ResumeKeeps ==
    ASSUME ConsentInv, NEW r \in Reviews, Resume(r)
    PROVE  ConsentInv'
<1>1. /\ reviews[r].pc = "decided" /\ UNCHANGED <<challenges, consentClock>>
      /\ reviews[r].purpose \in Purpose /\ Drawn(reviews[r])
      /\ reviewed \in [status : {"awaiting", "approved", "closed"}, revision : Nat]
      /\ pending \in [Purpose -> Pending]
  BY DEF Resume, ConsentInv, ReviewInv, PendingInv
<1>2. CASE Conclude(r, "refused") /\ UNCHANGED <<reviewed, pending, disclosed>>
  BY <1>1, <1>2, DisclosedStays, CallConcludes DEF Effective
<1>3. CASE /\ pending' = ConsentsPurged /\ Conclude(r, "refused")
           /\ UNCHANGED <<reviewed, disclosed>>
  BY <1>1, <1>3, PurgeForgets, DisclosedStays, CallConcludes DEF Effective
<1>4. CASE /\ Matches(r) /\ pending' = Consumed(r)
           /\ \/ /\ Conclude(r, "declined") /\ UNCHANGED <<reviewed, disclosed>>
              \/ ApproveReviewed(r) /\ UNCHANGED disclosed
              \/ Disclose(r) /\ UNCHANGED reviewed
  <2> DEFINE f == ConsentsPurged
             p == reviews[r].purpose
  <2>1. /\ f \in [Purpose -> Pending]
        /\ \A q \in Purpose : f[q] \in {pending[q], NoPending}
    BY PurgeForgets
  <2>2. f[p].challenge = reviews[r].challenge /\ pending' = [f EXCEPT ![p] = NoPending]
    BY <1>4 DEF Matches, Consumed
  <2> HIDE DEF f
  <2>3. f[p] = pending[p] /\ pending[p].challenge = reviews[r].challenge
    BY <1>1, <2>1, <2>2 DEF Drawn, NoPending
  <2>4. NoPending \in Pending
    BY DEF NoPending, Pending, NoChallenge
  <2>5. /\ pending' \in [Purpose -> Pending] /\ pending'[p] = NoPending
        /\ \A q \in Purpose : pending'[q] \in {pending[q], NoPending}
    BY <1>1, <2>1, <2>2, <2>4
  <2>6. CASE Conclude(r, "declined") /\ UNCHANGED <<reviewed, disclosed>>
    BY <1>1, <2>3, <2>5, <2>6, DisclosedStays, CallConcludes DEF Effective
  <2>7. CASE ApproveReviewed(r) /\ UNCHANGED disclosed
    <3>1. /\ reviewed' \in [status : {"awaiting", "approved", "closed"}, revision : Nat]
          /\ Conclude(r, "approved") \/ Conclude(r, "refused")
      BY <1>1, <2>7 DEF ApproveReviewed
    <3> QED  BY <1>1, <2>3, <2>5, <2>7, <3>1, DisclosedStays, CallConcludes DEF Effective
  <2>8. CASE Disclose(r) /\ UNCHANGED reviewed
    <3>1. CASE /\ Cardinality(ArtifactsKept) < ArtifactRoom
               /\ disclosed' = ArtifactsKept
                     \cup {[by |-> r, expires |-> consentClock + 2 * ConsentTtl]}
               /\ Conclude(r, "disclosed")
      <4>1. DisclosedInv'
        BY <3>1, DisclosedGrows
      <4> QED  BY <1>1, <2>3, <2>5, <2>8, <3>1, <4>1, CallConcludes DEF Effective
    <3>2. CASE disclosed' = ArtifactsKept /\ Conclude(r, "refused")
      <4>1. DisclosedInv'
        <5>1. disclosed' \subseteq disclosed
          BY <3>2 DEF ArtifactsKept
        <5> QED  BY <5>1, DisclosedShrinks
      <4> QED  BY <1>1, <2>3, <2>5, <2>8, <3>2, <4>1, CallConcludes DEF Effective
    <3> QED  BY <2>8, <3>1, <3>2 DEF Disclose
  <2> QED  BY <1>4, <2>6, <2>7, <2>8
<1> QED  BY <1>2, <1>3, <1>4 DEF Resume

LEMMA ConsentGoesOn ==
    ASSUME ConsentInv, [ConsentNext]_consentVars
    PROVE  ConsentInv'
<1>1. CASE \E r \in Reviews : Ask(r) \/ Decide(r) \/ Resume(r)
  BY <1>1, AskKeeps, DecideKeeps, ResumeKeeps
<1>2. /\ reviewed \in [status : {"awaiting", "approved", "closed"}, revision : Nat]
      /\ consentClock \in Nat
  BY DEF ConsentInv
<1>3. CASE ReadArtifact
  <2>1. disclosed' \subseteq disclosed
    BY <1>3 DEF ReadArtifact, ArtifactsKept
  <2>2. UNCHANGED <<reviewed, pending, reviews, challenges, consentClock>>
    BY <1>3 DEF ReadArtifact
  <2> QED  BY <1>2, <2>1, <2>2, DisclosedShrinks, CallsStand
<1>4. CASE JobCloses
  <2>1. /\ reviewed' \in [status : {"awaiting", "approved", "closed"}, revision : Nat]
        /\ UNCHANGED <<pending, reviews, disclosed, challenges, consentClock>>
    BY <1>2, <1>4 DEF JobCloses
  <2> QED  BY <1>2, <2>1, DisclosedStays, CallsStand
<1>5. CASE ConsentTick
  <2>1. /\ consentClock' \in Nat
        /\ UNCHANGED <<reviewed, pending, reviews, disclosed, challenges>>
    BY <1>2, <1>5 DEF ConsentTick
  <2> QED  BY <1>2, <2>1, DisclosedStays, CallsStand
<1>6. CASE UNCHANGED consentVars
  BY <1>2, <1>6, DisclosedStays, CallsStand DEF consentVars
<1> QED  BY <1>1, <1>3, <1>4, <1>5, <1>6 DEF ConsentNext

LEMMA ConsentStaysSound == ConsentSpec => []ConsentInv
  BY ConsentStarts, ConsentGoesOn, PTL DEF ConsentSpec

(* The state of a review keeps its types: in particular no more challenges *)
(* than there is room for are ever pending, and no more candidates than    *)
(* there is room for are handed out.                                       *)
THEOREM ReviewKeepsTypes == ConsentSpec => []ConsentTypeOK
  BY ConsentStaysSound, ConsentIsTyped, PTL

(* However many calls were shown the same challenge, at most one of them   *)
(* refuses, approves or discloses with it, for any number of calls, any    *)
(* capacity and lifetime and whatever the humans answer.                   *)
THEOREM ChallengeCarriesOneDecision == ConsentSpec => []OneDecisionPerChallenge
<1>1. ConsentInv => OneDecisionPerChallenge
  BY DEF ConsentInv
<1> QED  BY <1>1, ConsentStaysSound, PTL

-----------------------------------------------------------------------------
(* The spatial indexes.                                                    *)

(* A finite set of integers has an extreme element in either direction: a  *)
(* smallest counterexample would lose an element and keep an extreme.      *)
LEMMA ExtremeExists ==
    ASSUME NEW S, IsFiniteSet(S), S # {}, S \subseteq Int, NEW sign \in {1, -1}
    PROVE  \E x \in S : \A y \in S : sign * x >= sign * y
<1> DEFINE Has(T) == \E x \in T : \A y \in T : sign * x >= sign * y
           Bad == {T \in FiniteSubsetsOf(S) : T # {} /\ ~Has(T)}
<1>1. SUFFICES ASSUME ~Has(S) PROVE FALSE
  OBVIOUS
<1>2. S \in Bad
  BY <1>1 DEF FiniteSubsetsOf
<1>3. PICK T \in Bad : \A U \in Bad : <<U, T>> \notin StrictSubsetOrdering(S)
  BY <1>2, FS_StrictSubsetOrderingWellFounded, WFMin, Bad \subseteq FiniteSubsetsOf(S)
<1>4. PICK x \in T : TRUE
  OBVIOUS
<1>5. /\ T \ {x} \in FiniteSubsetsOf(S) /\ <<T \ {x}, T>> \in StrictSubsetOrdering(S)
      /\ T \subseteq Int
  BY <1>4, FS_RemoveElement DEF FiniteSubsetsOf, StrictSubsetOrdering
<1>6. T \ {x} = {} \/ Has(T \ {x})
  BY <1>3, <1>5
<1>7. CASE T \ {x} = {}
  <2>1. \A y \in T : y = x
    BY <1>7
  <2> QED
    BY <2>1, <1>3, <1>4, <1>5
<1>8. CASE Has(T \ {x})
  <2>1. PICK m \in T \ {x} : \A y \in T \ {x} : sign * m >= sign * y
    BY <1>8
  <2>2. m \in Int /\ x \in Int /\ \A y \in T : y \in Int
    BY <1>4, <1>5
  <2>3. CASE sign = 1
    BY <2>1, <2>2, <2>3, <1>3, <1>4
  <2>4. CASE sign = -1
    BY <2>1, <2>2, <2>4, <1>3, <1>4
  <2> QED
    BY <2>3, <2>4
<1> QED
  BY <1>6, <1>7, <1>8

LEMMA ExtremesAreMembers ==
    ASSUME NEW S, IsFiniteSet(S), S # {}, S \subseteq Int
    PROVE  /\ Max(S) \in S /\ \A y \in S : Max(S) >= y
           /\ Min(S) \in S
<1>1. \E x \in S : \A y \in S : 1 * x >= 1 * y
  BY ExtremeExists
<1>2. \E x \in S : \A y \in S : (-1) * x >= (-1) * y
  BY ExtremeExists
<1>3. \E x \in S : \A y \in S : x >= y
  BY <1>1
<1>4. \E x \in S : \A y \in S : x =< y
  BY <1>2
<1> QED
  BY <1>3, <1>4 DEF Max, Min

(* Division rounds towards minus infinity and never turns an order round,  *)
(* at negative coordinates either.                                         *)
LEMMA CellsFollowOrder ==
    ASSUME NEW a \in Int, NEW b \in Int, a <= b, NEW size \in Nat \ {0}
    PROVE  a \div size \in Int /\ b \div size \in Int /\ a \div size <= b \div size
<1>1. /\ a \div size \in Int /\ a = size * (a \div size) + (a % size)
      /\ b \div size \in Int /\ b = size * (b \div size) + (b % size)
      /\ a % size \in 0..(size - 1) /\ b % size \in 0..(size - 1)
  OBVIOUS
<1>2. SUFFICES ASSUME a \div size >= (b \div size) + 1 PROVE FALSE
  BY <1>1
<1>3. size * (a \div size) >= size * ((b \div size) + 1)
  BY <1>1, <1>2
<1>4. size * ((b \div size) + 1) = size * (b \div size) + size
  BY <1>1
<1> QED
  BY <1>1, <1>3, <1>4

Rectangle == {r \in Int \X Int \X Int \X Int : r[1] <= r[3] /\ r[2] <= r[4]}

(* The cells of rectangles that meet have one in common.                   *)
LEMMA MeetingRectanglesShareCell ==
    ASSUME NEW r \in Rectangle, NEW s \in Rectangle, Meet(r, s),
           NEW size \in Nat \ {0}
    PROVE  CellsOf(r, size) \cap CellsOf(s, size) # {}
<1>1. /\ r[1] \in Int /\ r[2] \in Int /\ r[3] \in Int /\ r[4] \in Int
      /\ s[1] \in Int /\ s[2] \in Int /\ s[3] \in Int /\ s[4] \in Int
      /\ r[1] <= r[3] /\ r[2] <= r[4] /\ s[1] <= s[3] /\ s[2] <= s[4]
  BY DEF Rectangle
<1>2. PICK x \in Int : r[1] <= x /\ s[1] <= x /\ x <= r[3] /\ x <= s[3]
  <2>1. CASE r[1] <= s[1]
    BY <1>1, <2>1 DEF Meet
  <2>2. CASE s[1] <= r[1]
    BY <1>1, <2>2 DEF Meet
  <2> QED
    BY <1>1, <2>1, <2>2
<1>3. PICK y \in Int : r[2] <= y /\ s[2] <= y /\ y <= r[4] /\ y <= s[4]
  <2>1. CASE r[2] <= s[2]
    BY <1>1, <2>1 DEF Meet
  <2>2. CASE s[2] <= r[2]
    BY <1>1, <2>2 DEF Meet
  <2> QED
    BY <1>1, <2>1, <2>2
<1>4. \A low, high \in Int :
        low <= x /\ x <= high => x \div size \in CellRange(low, high, size)
  BY <1>2, CellsFollowOrder DEF CellRange
<1>5. \A low, high \in Int :
        low <= y /\ y <= high => y \div size \in CellRange(low, high, size)
  BY <1>3, CellsFollowOrder DEF CellRange
<1>6. /\ x \div size \in CellRange(r[1], r[3], size)
      /\ x \div size \in CellRange(s[1], s[3], size)
      /\ y \div size \in CellRange(r[2], r[4], size)
      /\ y \div size \in CellRange(s[2], s[4], size)
  BY <1>1, <1>2, <1>3, <1>4, <1>5
<1>7. /\ <<x \div size, y \div size>> \in CellsOf(r, size)
      /\ <<x \div size, y \div size>> \in CellsOf(s, size)
  BY <1>6 DEF CellsOf
<1> QED
  BY <1>7

LEMMA FewAreFinite ==
    ASSUME NEW a, NEW b, NEW c
    PROVE  IsFiniteSet({a, b}) /\ IsFiniteSet({a, b, c})
<1>1. IsFiniteSet({a})
  BY FS_Singleton
<1>2. IsFiniteSet({a} \cup {b})
  BY <1>1, FS_AddElement
<1>3. IsFiniteSet(({a} \cup {b}) \cup {c})
  BY <1>2, FS_AddElement
<1>4. {a} \cup {b} = {a, b} /\ ({a} \cup {b}) \cup {c} = {a, b, c}
  OBVIOUS
<1> QED
  BY <1>2, <1>3, <1>4

(* The conservative index divides by a positive side, whatever its entries.*)
LEMMA GridSizeIsPositive ==
    ASSUME NEW entries, IsFiniteSet(DOMAIN entries), DOMAIN entries # {},
           \A k \in DOMAIN entries : entries[k] \in Rectangle
    PROVE  GridSize(entries) \in Nat \ {0}
<1> DEFINE n == Cardinality(DOMAIN entries)
           Column(i) == {entries[k][i] : k \in DOMAIN entries}
<1>1. \A i \in 1..4 : Column(i) \subseteq Int /\ Column(i) # {}
  BY DEF Rectangle
<1>2. \A i \in 1..4 : IsFiniteSet(Column(i))
  <2> TAKE i \in 1..4
  <2> DEFINE f == [k \in DOMAIN entries |-> entries[k][i]]
  <2>1. f \in Surjection(DOMAIN entries, Column(i))
    BY DEF Surjection
  <2> QED
    BY <2>1, FS_Surjection
<1>3. \A i \in 1..4 : Max(Column(i)) \in Int /\ Min(Column(i)) \in Int
  BY <1>1, <1>2, ExtremesAreMembers
<1>4. Extent(entries, 1, 3) \in Int /\ Extent(entries, 2, 4) \in Int
  BY <1>3 DEF Extent
<1>5. n \in Nat
  BY FS_CardinalityType
<1>6. \A a, b \in Int : Max({a, b}) \in Int /\ Max({a, b}) >= a /\ Max({a, b}) >= b
  <2> TAKE a, b \in Int
  <2>1. IsFiniteSet({a, b})
    BY FewAreFinite
  <2>2. {a, b} # {} /\ {a, b} \subseteq Int
    OBVIOUS
  <2>3. Max({a, b}) \in {a, b} /\ \A y \in {a, b} : Max({a, b}) >= y
    BY <2>1, <2>2, ExtremesAreMembers
  <2> QED
    BY <2>3
<1>7. \A a, b, c \in Int : Max({a, b, c}) \in Int /\ Max({a, b, c}) >= c
  <2> TAKE a, b, c \in Int
  <2>1. IsFiniteSet({a, b, c})
    BY FewAreFinite
  <2>2. {a, b, c} # {} /\ {a, b, c} \subseteq Int
    OBVIOUS
  <2>3. /\ Max({a, b, c}) \in {a, b, c}
        /\ \A y \in {a, b, c} : Max({a, b, c}) >= y
    BY <2>1, <2>2, ExtremesAreMembers
  <2> QED
    BY <2>3
<1>8. GridSide(n) \in 1..16
  <2> DEFINE limit == Min({256, n * 4})
             fits == {side \in 1..16 : side * side <= Max({1, limit})}
  <2>1. limit \in Int
    <3> HIDE DEF n
    <3>1. IsFiniteSet({256, n * 4})
      BY FewAreFinite
    <3>2. {256, n * 4} # {} /\ {256, n * 4} \subseteq Int
      BY <1>5
    <3>3. limit \in {256, n * 4}
      BY <3>1, <3>2, ExtremesAreMembers
    <3> QED
      BY <3>2, <3>3
  <2>2. Max({1, limit}) >= 1 /\ Max({1, limit}) \in Int
    <3> HIDE DEF limit
    <3> QED
      BY <1>6, <2>1
  <2> HIDE DEF limit
  <2>3. 1 \in fits
    BY <2>2
  <2>4. fits \in SUBSET (1..16)
    OBVIOUS
  <2> HIDE DEF fits
  <2>5. fits \in SUBSET Nat /\ \A s \in fits : s <= 16
    BY <2>4
  <2>6. IsFiniteSet(fits) /\ fits # {} /\ fits \subseteq Int
    BY <2>3, <2>5, 16 \in Nat, FS_BoundedSetOfNaturals
  <2>7. Max(fits) \in fits
    BY <2>6, ExtremesAreMembers
  <2>8. GridSide(n) = Max(fits)
    BY DEF GridSide, limit, fits
  <2> QED
    BY <2>4, <2>7, <2>8
<1> DEFINE side == GridSide(n)
           span == Max({Extent(entries, 1, 3), Extent(entries, 2, 4), 1})
           cell == (span + side - 1) \div side
<1>9. span \in Int
  BY <1>4, <1>7, 1 \in Int
<1>10. GridSize(entries) = Max({1, cell})
  BY DEF GridSize
<1>11. cell \in Int
  <2> HIDE DEF span
  <2>1. side \in 1..16
    BY <1>8
  <2> HIDE DEF side
  <2> QED
    BY <1>9, <2>1
<1> HIDE DEF cell
<1>12. Max({1, cell}) \in Int /\ Max({1, cell}) >= 1
  BY <1>6, <1>11, 1 \in Int
<1> QED
  BY <1>10, <1>12

FiledAt(c) == {k \in Keys : ~IsLarge(bounds[k]) /\ c \in CellsOf(bounds[k], CellSize)}

(* The grid is the one a rebuild from the stored rectangles gives: entries *)
(* that cover too many cells are kept apart, every other one is filed      *)
(* under exactly the cells it covers, and no cell is empty.                *)
IndexInv ==
    /\ IndexTypeOK /\ IsFiniteSet(Keys)
    /\ oversize = {k \in Keys : IsLarge(bounds[k])}
    /\ \A c \in DOMAIN buckets : buckets[c] = FiledAt(c)
    /\ \A k \in Keys \ oversize : CellsOf(bounds[k], CellSize) \subseteq DOMAIN buckets

LEMMA IndexStarts == IndexInit => IndexInv
<1> SUFFICES ASSUME IndexInit PROVE IndexInv
  OBVIOUS
<1>1. Keys = {} /\ DOMAIN buckets = {} /\ oversize = {}
  BY DEF IndexInit, Keys
<1>2. IsFiniteSet({}) /\ Cardinality({}) = 0 /\ MaxEntries \in Nat
  BY FS_EmptySet, IndexAssumption
<1> QED
  BY <1>1, <1>2 DEF IndexInv, IndexTypeOK

LEMMA InsertKeepsIndex ==
    ASSUME IndexInv, NEW k \in IndexKeys, NEW r \in Rectangles, InsertEntry(k, r)
    PROVE  IndexInv'
<1>1. /\ Keys' = Keys \cup {k} /\ k \notin Keys /\ Cardinality(Keys) < MaxEntries
      /\ bounds'[k] = r /\ \A j \in Keys : bounds'[j] = bounds[j]
  BY DEF InsertEntry, Keys
<1>2. IsFiniteSet(Keys') /\ Cardinality(Keys') <= MaxEntries
  <2>1. IsFiniteSet(Keys) /\ Cardinality(Keys) \in Nat /\ MaxEntries \in Nat
    BY FS_CardinalityType, IndexAssumption DEF IndexInv
  <2>2. /\ IsFiniteSet(Keys \cup {k})
        /\ Cardinality(Keys \cup {k}) =
             IF k \in Keys THEN Cardinality(Keys) ELSE Cardinality(Keys) + 1
    BY <2>1, FS_AddElement
  <2> QED
    BY <1>1, <2>1, <2>2
<1>3. CASE IsLarge(r)
  <2>1. oversize' = oversize \cup {k} /\ buckets' = buckets
    BY <1>3 DEF InsertEntry
  <2>2. \A c : FiledAt(c)' = FiledAt(c)
    BY <1>1, <1>3 DEF FiledAt
  <2> QED
    BY <1>1, <1>2, <1>3, <2>1, <2>2 DEF IndexInv, IndexTypeOK
<1>4. CASE ~IsLarge(r)
  <2> DEFINE cells == CellsOf(r, CellSize)
  <2>1. /\ oversize' = oversize /\ DOMAIN buckets' = DOMAIN buckets \cup cells
        /\ \A c \in DOMAIN buckets' :
             buckets'[c] = Occupants(buckets, c) \cup (IF c \in cells THEN {k} ELSE {})
    BY <1>4 DEF InsertEntry
  <2>2. \A c : Occupants(buckets, c) = FiledAt(c)
    BY DEF IndexInv, Occupants, FiledAt
  <2>3. \A c : FiledAt(c)' = FiledAt(c) \cup (IF c \in cells THEN {k} ELSE {})
    BY <1>1, <1>4 DEF FiledAt
  <2>4. \A c \in DOMAIN buckets' : buckets'[c] = FiledAt(c)'
    BY <2>1, <2>2, <2>3
  <2>5. oversize' = {j \in Keys' : IsLarge(bounds'[j])}
    BY <1>1, <1>4, <2>1 DEF IndexInv
  <2>6. \A j \in Keys' \ oversize' : CellsOf(bounds'[j], CellSize) \subseteq DOMAIN buckets'
    BY <1>1, <2>1 DEF IndexInv
  <2>7. \A c \in DOMAIN buckets' : buckets'[c] # {}
    BY <2>1 DEF IndexInv, IndexTypeOK, Occupants
  <2>8. \A c : FiledAt(c)' \subseteq Keys' \ oversize'
    BY <2>5 DEF FiledAt
  <2> HIDE DEF cells
  <2>9. IndexTypeOK'
    <3>1. /\ Keys' \subseteq IndexKeys /\ oversize' \subseteq Keys'
          /\ \A j \in Keys' : bounds'[j] \in Rectangles
      BY <1>1, <2>1 DEF IndexInv, IndexTypeOK
    <3>2. \A c \in DOMAIN buckets' : buckets'[c] \subseteq Keys' \ oversize'
      BY <2>4, <2>8
    <3> QED
      BY <1>2, <2>7, <3>1, <3>2 DEF IndexTypeOK
  <2> QED
    BY <1>2, <2>4, <2>5, <2>6, <2>9 DEF IndexInv
<1> QED
  BY <1>3, <1>4

LEMMA RemoveKeepsIndex ==
    ASSUME IndexInv, NEW k \in IndexKeys, RemoveEntry(k)
    PROVE  IndexInv'
<1>1. /\ Keys' = Keys \ {k} /\ k \in Keys
      /\ \A j \in Keys \ {k} : bounds'[j] = bounds[j]
  BY DEF RemoveEntry, Keys
<1>2. IsFiniteSet(Keys') /\ Cardinality(Keys') <= MaxEntries
  <2>1. IsFiniteSet(Keys) /\ Cardinality(Keys) \in Nat /\ Cardinality(Keys) <= MaxEntries
        /\ MaxEntries \in Nat
    BY FS_CardinalityType, IndexAssumption DEF IndexInv, IndexTypeOK
  <2>2. /\ IsFiniteSet(Keys \ {k})
        /\ Cardinality(Keys \ {k}) =
             IF k \in Keys THEN Cardinality(Keys) - 1 ELSE Cardinality(Keys)
    BY <2>1, FS_RemoveElement
  <2> QED
    BY <1>1, <2>1, <2>2
<1>3. CASE k \in oversize
  <2>1. oversize' = oversize \ {k} /\ buckets' = buckets
    BY <1>3 DEF RemoveEntry
  <2>2. \A c : FiledAt(c)' = FiledAt(c)
    BY <1>1, <1>3 DEF FiledAt, IndexInv
  <2>3. \A c \in DOMAIN buckets' : buckets'[c] \subseteq Keys' \ oversize'
    BY <1>1, <1>3, <2>1 DEF IndexInv, IndexTypeOK
  <2> QED
    BY <1>1, <1>2, <1>3, <2>1, <2>2, <2>3 DEF IndexInv, IndexTypeOK
<1>4. CASE k \notin oversize
  <2> DEFINE cells == CellsOf(bounds[k], CellSize)
             emptied == {c \in cells : Occupants(buckets, c) \subseteq {k}}
  <2>1. /\ oversize' = oversize /\ DOMAIN buckets' = DOMAIN buckets \ emptied
        /\ \A c \in DOMAIN buckets' :
             buckets'[c] = IF c \in cells THEN buckets[c] \ {k} ELSE buckets[c]
    BY <1>4 DEF RemoveEntry
  <2>2. /\ \A c : Occupants(buckets, c) = FiledAt(c)
        /\ \A c \in DOMAIN buckets : buckets[c] = FiledAt(c)
    BY DEF IndexInv, Occupants, FiledAt
  <2>3. \A c : FiledAt(c)' = FiledAt(c) \ {k}
    BY <1>1 DEF FiledAt
  <2>4. \A c : c \notin cells => k \notin FiledAt(c)
    BY DEF FiledAt
  <2>5. \A c \in DOMAIN buckets' : c \in DOMAIN buckets /\ buckets'[c] = FiledAt(c)'
    BY <2>1, <2>2, <2>3, <2>4
  <2>6. \A c \in DOMAIN buckets' : buckets'[c] # {}
    BY <2>1, <2>2, <2>4 DEF IndexInv, IndexTypeOK
  <2>7. oversize' = {j \in Keys' : IsLarge(bounds'[j])}
    BY <1>1, <1>4, <2>1 DEF IndexInv
  <2>8. \A j \in Keys' \ oversize' : CellsOf(bounds'[j], CellSize) \subseteq DOMAIN buckets'
    <3> SUFFICES ASSUME NEW j \in Keys' \ oversize', NEW c \in CellsOf(bounds'[j], CellSize)
                 PROVE  c \in DOMAIN buckets'
      OBVIOUS
    <3>1. j \in Keys \ oversize /\ j # k /\ bounds'[j] = bounds[j]
      BY <1>1, <2>1
    <3>2. c \in DOMAIN buckets /\ j \in FiledAt(c)
      BY <3>1 DEF IndexInv, FiledAt
    <3> QED
      BY <2>1, <2>2, <3>1, <3>2
  <2>9. \A c : FiledAt(c)' \subseteq Keys' \ oversize'
    BY <2>7 DEF FiledAt
  <2> HIDE DEF cells, emptied
  <2>10. IndexTypeOK'
    <3>1. /\ Keys' \subseteq IndexKeys /\ oversize' \subseteq Keys'
          /\ \A j \in Keys' : bounds'[j] \in Rectangles
      BY <1>1, <1>4, <2>1 DEF IndexInv, IndexTypeOK
    <3>2. \A c \in DOMAIN buckets' : buckets'[c] \subseteq Keys' \ oversize'
      BY <2>5, <2>9
    <3> QED
      BY <1>2, <2>6, <3>1, <3>2 DEF IndexTypeOK
  <2> QED
    BY <1>2, <2>5, <2>7, <2>8, <2>10 DEF IndexInv
<1> QED
  BY <1>3, <1>4

LEMMA IndexGoesOn == IndexInv /\ [IndexNext]_indexVars => IndexInv'
<1> SUFFICES ASSUME IndexInv, [IndexNext]_indexVars PROVE IndexInv'
  OBVIOUS
<1>1. CASE ClearIndex
  <2>1. IndexInit'
    BY <1>1 DEF ClearIndex, IndexInit
  <2>2. IndexInit' => IndexInv'
    BY IndexStarts, PTL
  <2> QED
    BY <2>1, <2>2
<1>2. CASE UNCHANGED indexVars
  BY <1>2 DEF indexVars, IndexInv, IndexTypeOK, Keys, FiledAt
<1> QED
  BY <1>1, <1>2, InsertKeepsIndex, RemoveKeepsIndex DEF IndexNext

LEMMA IndexAnswersAll ==
    ASSUME IndexInv, NEW k \in Keys, NEW r \in Rectangles
    PROVE  k \in Query(r) <=> Meet(bounds[k], r)
<1>1. bounds[k] \in Rectangle /\ r \in Rectangle /\ CellSize \in Nat \ {0}
  BY IndexAssumption DEF IndexInv, IndexTypeOK, Rectangle
<1>2. Candidates(r) \subseteq Keys
  BY DEF Candidates, Occupants, IndexInv, IndexTypeOK
<1>3. ASSUME Meet(bounds[k], r) PROVE k \in Candidates(r)
  <2>1. CASE IsLarge(r) \/ k \in oversize
    BY <2>1 DEF Candidates
  <2>2. CASE ~IsLarge(r) /\ k \notin oversize
    <3>1. PICK c \in CellsOf(r, CellSize) : c \in CellsOf(bounds[k], CellSize)
      BY <1>1, <1>3, MeetingRectanglesShareCell
    <3>2. c \in DOMAIN buckets /\ k \in buckets[c]
      BY <2>2, <3>1 DEF IndexInv, FiledAt
    <3>3. k \in Occupants(buckets, c)
      BY <3>2 DEF Occupants
    <3> QED
      BY <2>2, <3>1, <3>3 DEF Candidates
  <2> QED
    BY <2>1, <2>2
<1> QED
  BY <1>2, <1>3 DEF Query

LEMMA ConservativeIndexAnswersAll ==
    ASSUME IndexInv, NEW k \in Keys, NEW r \in Rectangles
    PROVE  /\ Meet(bounds[k], r) => k \in StaticQuery(bounds, r)
           /\ HasGrid(bounds) /\ k \in StaticQuery(bounds, r) => Meet(bounds[k], r)
<1>1. r \in Rectangle /\ \A j \in Keys : bounds[j] \in Rectangle
  BY IndexAssumption DEF IndexInv, IndexTypeOK, Rectangle
<1>2. GridSize(bounds) \in Nat \ {0}
  BY <1>1, GridSizeIsPositive DEF IndexInv, Keys
<1>3. ASSUME Meet(bounds[k], r)
      PROVE  CellsOf(bounds[k], GridSize(bounds)) \cap CellsOf(r, GridSize(bounds)) # {}
  BY <1>1, <1>2, <1>3, MeetingRectanglesShareCell
<1> QED
  BY <1>3 DEF StaticQuery, Keys

(* For any keys, rectangles and limits: after any sequence of insertions,  *)
(* removals and clearings the incremental index (spatial_index.py) is the  *)
(* one a rebuild from the surviving entries gives, each query returns the  *)
(* entries that meet it and no others, and the conservative index of the   *)
(* same entries misses none of them, at negative coordinates as at others. *)
THEOREM QueriesMissNothing == IndexSpec => []IndexesMissNothing
<1>1. IndexInv => IndexesMissNothing
  <2> SUFFICES ASSUME IndexInv PROVE IndexesMissNothing
    OBVIOUS
  <2> DEFINE filed == {k \in Keys : ~IsLarge(bounds[k])}
  <2>1. oversize = Keys \ filed
    BY DEF IndexInv
  <2>2. \A c \in DOMAIN buckets :
          buckets[c] = {k \in filed : c \in CellsOf(bounds[k], CellSize)}
    BY DEF IndexInv, FiledAt
  <2>3. DOMAIN buckets = UNION {CellsOf(bounds[k], CellSize) : k \in filed}
    <3>1. \A k \in filed : CellsOf(bounds[k], CellSize) \subseteq DOMAIN buckets
      BY <2>1 DEF IndexInv
    <3>2. \A c \in DOMAIN buckets : \E k \in filed : c \in CellsOf(bounds[k], CellSize)
      BY <2>2 DEF IndexInv, IndexTypeOK
    <3> QED
      BY <3>1, <3>2
  <2>4. \A k \in Keys, r \in Rectangles :
          /\ k \in Query(r) <=> Meet(bounds[k], r)
          /\ Meet(bounds[k], r) => k \in StaticQuery(bounds, r)
          /\ HasGrid(bounds) /\ k \in StaticQuery(bounds, r) => Meet(bounds[k], r)
    BY IndexAnswersAll, ConservativeIndexAnswersAll
  <2> QED
    BY <2>1, <2>2, <2>3, <2>4 DEF IndexesMissNothing
<1> QED
  BY <1>1, IndexStarts, IndexGoesOn, PTL DEF IndexSpec

-----------------------------------------------------------------------------
(* The artifact store.                                                     *)

Place(I, i) == Cardinality({j \in I : j <= i})

(* Ranks number a finite set of integers from 1 in their order.            *)
LEMMA RanksCount ==
    ASSUME NEW I, IsFiniteSet(I), I \subseteq Int
    PROVE  /\ Cardinality(I) \in Nat
           /\ \A i \in I : Place(I, i) \in 1..Cardinality(I)
           /\ \A i, j \in I : i < j => Place(I, i) < Place(I, j)
           /\ \A n \in 1..Cardinality(I) : \E i \in I : Place(I, i) = n
<1> DEFINE upTo(i) == {j \in I : j <= i}
           n == Cardinality(I)
           f == [i \in I |-> Place(I, i)]
<1>1. \A i \in I : /\ IsFiniteSet(upTo(i)) /\ Cardinality(upTo(i)) \in Nat
                   /\ Cardinality(upTo(i)) <= n /\ upTo(i) # {}
  <2> TAKE i \in I
  <2>1. upTo(i) \in SUBSET I /\ i \in upTo(i)
    OBVIOUS
  <2>2. IsFiniteSet(upTo(i)) /\ Cardinality(upTo(i)) <= n
    BY <2>1, FS_Subset
  <2> QED
    BY <2>1, <2>2, FS_CardinalityType
<1>2. n \in Nat
  BY FS_CardinalityType
<1>3. \A i \in I : Place(I, i) \in 1..n
  <2> TAKE i \in I
  <2>1. Cardinality(upTo(i)) # 0
    BY <1>1, FS_EmptySet
  <2> QED
    BY <1>1, <1>2, <2>1 DEF Place
<1>4. \A i, j \in I : i < j => Place(I, i) < Place(I, j)
  <2> SUFFICES ASSUME NEW i \in I, NEW j \in I, i < j PROVE Place(I, i) < Place(I, j)
    OBVIOUS
  <2>1. upTo(i) \in SUBSET upTo(j) /\ j \in upTo(j) /\ j \notin upTo(i)
    <3>1. i \in Int /\ j \in Int /\ \A k \in I : k \in Int
      OBVIOUS
    <3>2. (\A k \in I : k <= i => k <= j) /\ j <= j /\ ~(j <= i)
      BY <3>1
    <3> QED
      BY <3>2, Zenon
  <2>2. upTo(i) # upTo(j)
    BY <2>1
  <2> HIDE DEF upTo
  <2>3. /\ Cardinality(upTo(i)) <= Cardinality(upTo(j))
        /\ Cardinality(upTo(j)) # Cardinality(upTo(i))
    BY <1>1, <2>1, <2>2, FS_Subset
  <2> QED
    BY <1>1, <2>3 DEF Place, upTo
<1>5. f \in Injection(I, 1..n)
  <2>1. \A i, j \in I : Place(I, i) = Place(I, j) => i = j
    BY <1>3, <1>4
  <2> QED
    BY <1>3, <2>1 DEF Injection, IsInjective
<1>6. IsFiniteSet(1..n) /\ Cardinality(1..n) = n
  <2>1. /\ IsFiniteSet(1..n)
        /\ Cardinality(1..n) = IF 1 > n THEN 0 ELSE n - 1 + 1
    BY <1>2, 1 \in Int, n \in Int, FS_Interval
  <2> QED
    BY <1>2, <2>1
<1> HIDE DEF f
<1>7. f \in Surjection(I, 1..n)
  BY <1>5, <1>6, FS_Injection
<1> QED
  BY <1>2, <1>3, <1>4, <1>7 DEF Surjection, f

(* The result of Picked is the entries of I in their order.                *)
Takes(r, s, I, p) ==
    /\ DOMAIN r = 1..Cardinality(I)
    /\ p \in Bijection(1..Cardinality(I), I)
    /\ \A m, n \in 1..Cardinality(I) : m < n => p[m] < p[n]
    /\ \A n \in 1..Cardinality(I) : r[n] = s[p[n]]

LEMMA PickedTakes ==
    ASSUME NEW S, NEW s \in Seq(S), NEW I \in SUBSET DOMAIN s
    PROVE  /\ IsFiniteSet(I) /\ Cardinality(I) \in Nat /\ Cardinality(I) <= Len(s)
           /\ Picked(s, I) \in Seq(S) /\ Len(Picked(s, I)) = Cardinality(I)
           /\ \E p : Takes(Picked(s, I), s, I, p)
<1> DEFINE c == Cardinality(I)
           p == [n \in 1..c |-> CHOOSE i \in I : Place(I, i) = n]
<1>1. /\ DOMAIN s = 1..Len(s) /\ Len(s) \in Nat /\ I \subseteq Int
      /\ IsFiniteSet(1..Len(s)) /\ Cardinality(1..Len(s)) = Len(s)
  <2>1. DOMAIN s = 1..Len(s) /\ Len(s) \in Nat
    OBVIOUS
  <2>2. /\ IsFiniteSet(1..Len(s))
        /\ Cardinality(1..Len(s)) = IF 1 > Len(s) THEN 0 ELSE Len(s) - 1 + 1
    BY <2>1, 1 \in Int, Len(s) \in Int, FS_Interval
  <2> QED
    BY <2>1, <2>2
<1>2. IsFiniteSet(I) /\ c <= Len(s)
  BY <1>1, FS_Subset
<1>3. /\ c \in Nat
      /\ \A i \in I : Place(I, i) \in 1..c
      /\ \A i, j \in I : i < j => Place(I, i) < Place(I, j)
      /\ \A n \in 1..c : \E i \in I : Place(I, i) = n
  BY <1>1, <1>2, RanksCount
<1>4. \A n \in 1..c : p[n] \in I /\ Place(I, p[n]) = n
  BY <1>3
<1>5. \A m, n \in 1..c : m < n => p[m] < p[n]
  <2> SUFFICES ASSUME NEW m \in 1..c, NEW n \in 1..c, m < n PROVE p[m] < p[n]
    OBVIOUS
  <2>1. p[m] \in I /\ p[n] \in I /\ p[m] \in Int /\ p[n] \in Int
        /\ Place(I, p[m]) = m /\ Place(I, p[n]) = n
    BY <1>1, <1>4
  <2>2. ~(p[n] < p[m]) /\ p[n] # p[m]
    BY <1>3, <2>1
  <2> HIDE DEF p
  <2> QED
    BY <2>1, <2>2
<1>6. \A i \in I : p[Place(I, i)] = i
  <2> TAKE i \in I
  <2>1. /\ Place(I, i) \in 1..c /\ p[Place(I, i)] \in I /\ i \in Int
        /\ p[Place(I, i)] \in Int /\ Place(I, p[Place(I, i)]) = Place(I, i)
    BY <1>1, <1>3, <1>4
  <2>2. ~(i < p[Place(I, i)]) /\ ~(p[Place(I, i)] < i)
    BY <1>3, <2>1
  <2> HIDE DEF p
  <2> QED
    BY <2>1, <2>2
<1>7. p \in Bijection(1..c, I)
  <2>1. p \in [1..c -> I]
    BY <1>4
  <2>2. \A m, n \in 1..c : p[m] = p[n] => m = n
    BY <1>4
  <2>3. \A i \in I : \E n \in 1..c : p[n] = i
    BY <1>3, <1>6
  <2> HIDE DEF p
  <2> QED
    BY <2>1, <2>2, <2>3 DEF Bijection, Injection, Surjection, IsInjective
<1>8. Picked(s, I) = [n \in 1..c |-> s[p[n]]]
  BY DEF Picked, Place
<1> HIDE DEF p
<1>9. /\ Picked(s, I) \in Seq(S) /\ Len(Picked(s, I)) = c
      /\ DOMAIN Picked(s, I) = 1..c
  BY <1>1, <1>3, <1>4, <1>8
<1>10. Takes(Picked(s, I), s, I, p)
  BY <1>5, <1>7, <1>8, <1>9 DEF Takes
<1> QED
  BY <1>2, <1>3, <1>9, <1>10

(* The bytes at some positions: a cardinality, so a natural number that    *)
(* splits over disjoint positions and moves along a bijection.             *)
UnitsAt(s, I) == UNION {{i} \X (1..s[i].size) : i \in I}

Weighs(s) == \A i \in DOMAIN s : s[i].size \in Nat

LEMMA UnitsAreFinite ==
    ASSUME NEW s, Weighs(s), NEW I \in SUBSET DOMAIN s, IsFiniteSet(I)
    PROVE  IsFiniteSet(UnitsAt(s, I)) /\ BytesAt(s, I) \in Nat
<1> DEFINE column(i) == {i} \X (1..s[i].size)
           columns == {column(i) : i \in I}
           f == [i \in I |-> column(i)]
<1>1. \A i \in I : IsFiniteSet(column(i))
  <2> TAKE i \in I
  <2>1. 1 \in Int /\ (s[i].size) \in Int
    BY DEF Weighs
  <2>2. IsFiniteSet({i}) /\ IsFiniteSet(1..(s[i].size))
    BY <2>1, FS_Singleton, FS_Interval
  <2> QED
    BY <2>2, FS_Product
<1>2. IsFiniteSet(columns)
  <2>1. f \in Surjection(I, columns)
    BY DEF Surjection
  <2> QED
    BY <2>1, FS_Surjection
<1>3. IsFiniteSet(UNION columns)
  BY <1>1, <1>2, FS_UNION
<1> QED
  BY <1>3, FS_CardinalityType DEF UnitsAt, BytesAt

LEMMA UnitIn ==
    ASSUME NEW s, NEW I, NEW x
    PROVE  x \in UnitsAt(s, I) <=> \E i \in I : \E u \in 1..s[i].size : x = <<i, u>>
BY DEF UnitsAt

LEMMA BytesSplit ==
    ASSUME NEW s, Weighs(s), NEW I \in SUBSET DOMAIN s, NEW J \in SUBSET DOMAIN s,
           IsFiniteSet(I), IsFiniteSet(J), I \cap J = {}
    PROVE  BytesAt(s, I \cup J) = BytesAt(s, I) + BytesAt(s, J)
<1>1. /\ IsFiniteSet(UnitsAt(s, I)) /\ BytesAt(s, I) \in Nat
      /\ IsFiniteSet(UnitsAt(s, J)) /\ BytesAt(s, J) \in Nat
  BY UnitsAreFinite
<1>2. UnitsAt(s, I \cup J) = UnitsAt(s, I) \cup UnitsAt(s, J)
  BY DEF UnitsAt
<1>3. UnitsAt(s, I) \cap UnitsAt(s, J) = {}
  BY UnitIn
<1>4. Cardinality(UnitsAt(s, I) \cup UnitsAt(s, J))
        = Cardinality(UnitsAt(s, I)) + Cardinality(UnitsAt(s, J)) - Cardinality({})
  BY <1>1, <1>3, FS_Union
<1>5. /\ BytesAt(s, I) = Cardinality(UnitsAt(s, I))
      /\ BytesAt(s, J) = Cardinality(UnitsAt(s, J))
      /\ BytesAt(s, I \cup J) = Cardinality(UnitsAt(s, I) \cup UnitsAt(s, J))
  BY <1>2, Zenon DEF BytesAt, UnitsAt
<1>6. Cardinality({}) = 0
  BY FS_EmptySet
<1> QED
  BY <1>1, <1>4, <1>5, <1>6

LEMMA BytesOfOne ==
    ASSUME NEW s, NEW i, s[i].size \in Nat
    PROVE  BytesAt(s, {i}) = s[i].size
<1> DEFINE n == s[i].size
           f == [u \in 1..n |-> <<i, u>>]
<1>1. f \in Bijection(1..n, UnitsAt(s, {i}))
  <2>1. f \in [1..n -> UnitsAt(s, {i})]
    BY UnitIn
  <2>2. \A u, v \in 1..n : f[u] = f[v] => u = v
    OBVIOUS
  <2>3. \A x \in UnitsAt(s, {i}) : \E u \in 1..n : f[u] = x
    BY UnitIn
  <2> HIDE DEF f
  <2> QED
    BY <2>1, <2>2, <2>3 DEF Bijection, Injection, Surjection, IsInjective
<1>2. /\ IsFiniteSet(1..n)
      /\ Cardinality(1..n) = IF 1 > n THEN 0 ELSE n - 1 + 1
  BY 1 \in Int, n \in Int, FS_Interval
<1>3. ExistsBijection(1..n, UnitsAt(s, {i}))
  BY <1>1 DEF ExistsBijection
<1>4. Cardinality(UnitsAt(s, {i})) = Cardinality(1..n)
  BY <1>2, <1>3, FS_Bijection
<1> QED
  BY <1>2, <1>4 DEF BytesAt, UnitsAt

LEMMA BytesMove ==
    ASSUME NEW r, NEW s, NEW I, NEW p, Takes(r, s, I, p),
           Weighs(s), I \subseteq DOMAIN s, IsFiniteSet(I)
    PROVE  BytesOf(r) = BytesAt(s, I)
<1> DEFINE D == DOMAIN r
           f == [x \in UnitsAt(r, D) |-> <<p[x[1]], x[2]>>]
<1>1. /\ p \in [D -> I] /\ \A m, n \in D : p[m] = p[n] => m = n
      /\ \A i \in I : \E n \in D : p[n] = i
      /\ \A n \in D : r[n] = s[p[n]]
  BY DEF Takes, Bijection, Injection, Surjection, IsInjective
<1> HIDE DEF D
<1>2. f \in Bijection(UnitsAt(r, D), UnitsAt(s, I))
  <2>1. ASSUME NEW x \in UnitsAt(r, D) PROVE f[x] \in UnitsAt(s, I)
    <3>1. PICK n \in D : \E u \in 1..r[n].size : x = <<n, u>>
      BY UnitIn
    <3>2. PICK u \in 1..r[n].size : x = <<n, u>>
      BY <3>1
    <3>3. f[x] = <<p[n], u>> /\ p[n] \in I /\ u \in 1..s[p[n]].size
      BY <1>1, <3>2
    <3> QED
      BY <3>3, UnitIn
  <2>2. ASSUME NEW x \in UnitsAt(r, D), NEW y \in UnitsAt(r, D), f[x] = f[y]
        PROVE  x = y
    <3>1. PICK n \in D : \E u \in 1..r[n].size : x = <<n, u>>
      BY UnitIn
    <3>2. PICK u \in 1..r[n].size : x = <<n, u>>
      BY <3>1
    <3>3. PICK m \in D : \E v \in 1..r[m].size : y = <<m, v>>
      BY UnitIn
    <3>4. PICK v \in 1..r[m].size : y = <<m, v>>
      BY <3>3
    <3>5. f[x] = <<p[n], u>> /\ f[y] = <<p[m], v>>
      BY <3>2, <3>4
    <3> QED
      BY <1>1, <2>2, <3>2, <3>4, <3>5
  <2>3. ASSUME NEW y \in UnitsAt(s, I) PROVE \E x \in UnitsAt(r, D) : f[x] = y
    <3>1. PICK i \in I : \E u \in 1..s[i].size : y = <<i, u>>
      BY UnitIn
    <3>2. PICK u \in 1..s[i].size : y = <<i, u>>
      BY <3>1
    <3>3. PICK n \in D : p[n] = i
      BY <1>1
    <3>4. u \in 1..r[n].size
      BY <1>1, <3>2, <3>3
    <3>5. <<n, u>> \in UnitsAt(r, D)
      BY <3>4, UnitIn
    <3>6. f[<<n, u>>] = <<i, u>>
      BY <3>3, <3>5
    <3> QED
      BY <3>2, <3>5, <3>6
  <2>4. f \in [UnitsAt(r, D) -> UnitsAt(s, I)]
    BY <2>1
  <2> HIDE DEF f
  <2> QED
    BY <2>2, <2>3, <2>4 DEF Bijection, Injection, Surjection, IsInjective
<1>3. IsFiniteSet(UnitsAt(s, I))
  BY UnitsAreFinite
<1>4. f \in Injection(UnitsAt(r, D), UnitsAt(s, I)) /\ f \in Surjection(UnitsAt(r, D), UnitsAt(s, I))
  BY <1>2 DEF Bijection
<1> HIDE DEF f
<1>5. Cardinality(UnitsAt(r, D)) = Cardinality(UnitsAt(s, I))
  BY <1>3, <1>4, FS_Injection
<1> QED
  BY <1>5 DEF BytesOf, BytesAt, UnitsAt, D

(* The entries lie in the order of their last use, so that no two have one *)
(* token, and no use is later than the calls made so far.                  *)
StoreOK(s, bytes, use, calls) ==
    /\ s \in Seq(Entry) /\ Len(s) <= MaxArtifacts
    /\ bytes = BytesOf(s) /\ bytes <= MaxTotalBytes
    /\ use \in [Tokens -> Nat] /\ calls \in Nat
    /\ \A i, j \in DOMAIN s : i < j => use[s[i].token] < use[s[j].token]
    /\ \A t \in Tokens : use[t] <= calls

ArtifactInv ==
    /\ artifactNow \in Nat
    /\ StoreOK(artifacts, artifactBytes, lastUse, artifactCalls)

LEMMA StoredEntries ==
    ASSUME NEW s, NEW bytes, NEW use, NEW calls, StoreOK(s, bytes, use, calls)
    PROVE  /\ Len(s) \in Nat /\ DOMAIN s = 1..Len(s) /\ IsFiniteSet(DOMAIN s)
           /\ \A i \in DOMAIN s : s[i] \in Entry
           /\ Weighs(s) /\ bytes \in Nat
           /\ \A i, j \in DOMAIN s : s[i].token = s[j].token => i = j
<1>1. /\ Len(s) \in Nat /\ DOMAIN s = 1..Len(s)
      /\ \A i \in DOMAIN s : s[i] \in Entry
  BY DEF StoreOK
<1>2. IsFiniteSet(DOMAIN s)
  BY <1>1, 1 \in Int, Len(s) \in Int, FS_Interval
<1>3. Weighs(s)
  BY <1>1, ArtifactAssumption DEF Weighs, Entry
<1>4. bytes \in Nat
  BY <1>2, <1>3, UnitsAreFinite, DOMAIN s \in SUBSET DOMAIN s DEF StoreOK, BytesOf
<1>5. ASSUME NEW i \in DOMAIN s, NEW j \in DOMAIN s, s[i].token = s[j].token
      PROVE  i = j
  <2>1. i \in Int /\ j \in Int /\ s[i].token \in Tokens /\ use[s[i].token] \in Nat
    BY <1>1 DEF StoreOK, Entry
  <2>2. ~(i < j) /\ ~(j < i)
    BY <1>5, <2>1 DEF StoreOK
  <2> QED
    BY <2>1, <2>2
<1> QED
  BY <1>1, <1>2, <1>3, <1>4, <1>5

(* Taking some entries out keeps the order and takes their bytes off.      *)
LEMMA PickedKeepsStore ==
    ASSUME NEW s, NEW bytes, NEW use, NEW calls, StoreOK(s, bytes, use, calls),
           NEW I \in SUBSET DOMAIN s
    PROVE  /\ StoreOK(Picked(s, I), bytes - BytesAt(s, DOMAIN s \ I), use, calls)
           /\ Len(Picked(s, I)) = Cardinality(I)
           /\ TokensOf(Picked(s, I)) = {s[i].token : i \in I}
<1> DEFINE r == Picked(s, I)
           c == Cardinality(I)
<1>1. /\ IsFiniteSet(I) /\ c \in Nat /\ c <= Len(s)
      /\ r \in Seq(Entry) /\ Len(r) = c /\ \E p : Takes(r, s, I, p)
  BY PickedTakes DEF StoreOK
<1>2. PICK p : Takes(r, s, I, p)
  BY <1>1
<1> HIDE DEF r
<1>3. /\ DOMAIN r = 1..c /\ p \in [1..c -> I]
      /\ \A i \in I : \E n \in 1..c : p[n] = i
      /\ \A m, n \in 1..c : m < n => p[m] < p[n]
      /\ \A n \in 1..c : r[n] = s[p[n]]
  BY <1>2 DEF Takes, Bijection, Injection, Surjection
<1>4. /\ Len(s) \in Nat /\ IsFiniteSet(DOMAIN s) /\ Weighs(s) /\ bytes \in Nat
      /\ MaxArtifacts \in Nat /\ MaxTotalBytes \in Nat
  BY StoredEntries, ArtifactAssumption
<1>5. BytesOf(r) = BytesAt(s, I)
  BY <1>1, <1>2, <1>4, BytesMove
<1>6. /\ IsFiniteSet(DOMAIN s \ I)
      /\ BytesAt(s, I) \in Nat /\ BytesAt(s, DOMAIN s \ I) \in Nat
      /\ bytes = BytesAt(s, I) + BytesAt(s, DOMAIN s \ I)
  <2> DEFINE J == DOMAIN s \ I
  <2>1. J \in SUBSET DOMAIN s /\ I \cap J = {} /\ I \cup J = DOMAIN s
    OBVIOUS
  <2> HIDE DEF J
  <2>2. IsFiniteSet(J)
    BY <1>4, <2>1, FS_Subset
  <2>3. BytesAt(s, I) \in Nat /\ BytesAt(s, J) \in Nat
    BY <1>1, <1>4, <2>1, <2>2, UnitsAreFinite
  <2>4. BytesAt(s, I \cup J) = BytesAt(s, I) + BytesAt(s, J)
    BY <1>1, <1>4, <2>1, <2>2, BytesSplit
  <2>5. bytes = BytesAt(s, DOMAIN s)
    BY DEF StoreOK, BytesOf
  <2> QED
    BY <2>1, <2>2, <2>3, <2>4, <2>5 DEF J
<1>7. \A m, n \in DOMAIN r : m < n => use[r[m].token] < use[r[n].token]
  BY <1>3 DEF StoreOK
<1>8. /\ BytesOf(r) = bytes - BytesAt(s, DOMAIN s \ I)
      /\ bytes - BytesAt(s, DOMAIN s \ I) <= MaxTotalBytes
      /\ Len(r) <= MaxArtifacts
  BY <1>1, <1>4, <1>5, <1>6 DEF StoreOK
<1>9. TokensOf(r) = {s[i].token : i \in I}
  BY <1>3 DEF TokensOf
<1> QED
  BY <1>1, <1>7, <1>8, <1>9 DEF StoreOK, r

(* An entry that is put last is the one used last.                         *)
LEMMA AppendKeepsStore ==
    ASSUME NEW s, NEW bytes, NEW use, NEW calls, StoreOK(s, bytes, use, calls),
           NEW e \in Entry, e.token \notin TokensOf(s),
           Len(s) < MaxArtifacts, bytes + e.size <= MaxTotalBytes
    PROVE  StoreOK(Append(s, e), bytes + e.size,
                   [use EXCEPT ![e.token] = calls + 1], calls + 1)
<1> DEFINE r == Append(s, e)
           n == Len(s) + 1
           later == [use EXCEPT ![e.token] = calls + 1]
<1>1. /\ Len(s) \in Nat /\ DOMAIN s = 1..Len(s) /\ IsFiniteSet(DOMAIN s)
      /\ \A i \in DOMAIN s : s[i] \in Entry
      /\ Weighs(s) /\ bytes \in Nat /\ s \in Seq(Entry)
  BY StoredEntries DEF StoreOK
<1>2. /\ r \in Seq(Entry) /\ Len(r) = n /\ DOMAIN r = DOMAIN s \cup {n} /\ r[n] = e
      /\ \A i \in DOMAIN s : r[i] = s[i]
  BY <1>1
<1> HIDE DEF r
<1>3. Weighs(r) /\ e.size \in Nat /\ r[n].size = e.size
  BY <1>1, <1>2, ArtifactAssumption DEF Weighs, Entry
<1>4. BytesOf(r) = bytes + e.size
  <2>1. n \notin DOMAIN s /\ DOMAIN s \in SUBSET DOMAIN r /\ {n} \in SUBSET DOMAIN r
    BY <1>1, <1>2
  <2>2. DOMAIN s \cap {n} = {} /\ IsFiniteSet({n})
    BY <2>1, FS_Singleton
  <2>3. BytesAt(r, DOMAIN s \cup {n}) = BytesAt(r, DOMAIN s) + BytesAt(r, {n})
    BY <1>1, <1>3, <2>1, <2>2, BytesSplit
  <2>4. BytesAt(r, {n}) = e.size
    BY <1>3, BytesOfOne
  <2>5. BytesAt(r, DOMAIN s) = BytesAt(s, DOMAIN s)
    BY <1>2 DEF BytesAt
  <2> QED
    BY <1>2, <2>3, <2>4, <2>5 DEF StoreOK, BytesOf
<1>5. later \in [Tokens -> Nat] /\ \A t \in Tokens : later[t] <= calls + 1
  BY DEF StoreOK, Entry
<1>6. ASSUME NEW i \in DOMAIN r, NEW j \in DOMAIN r, i < j
      PROVE  later[r[i].token] < later[r[j].token]
  <2>1. i \in DOMAIN s /\ i \in Int /\ j \in Int
    BY <1>1, <1>2, <1>6
  <2>2. /\ s[i].token \in Tokens /\ s[i].token # e.token
        /\ later[s[i].token] = use[s[i].token] /\ use[s[i].token] \in Nat
        /\ use[s[i].token] <= calls /\ calls \in Nat
    BY <1>1, <2>1 DEF TokensOf, StoreOK, Entry
  <2>3. CASE j = n
    <3>1. later[r[j].token] = calls + 1
      BY <1>2, <2>3 DEF StoreOK, Entry
    <3> HIDE DEF later
    <3> QED
      BY <1>2, <2>1, <2>2, <3>1
  <2>4. CASE j \in DOMAIN s
    <3>1. s[j].token # e.token /\ later[s[j].token] = use[s[j].token]
      BY <1>1, <2>4 DEF TokensOf, StoreOK, Entry
    <3>2. use[s[i].token] < use[s[j].token]
      BY <1>6, <2>1, <2>4 DEF StoreOK
    <3> HIDE DEF later
    <3> QED
      BY <1>2, <2>1, <2>2, <2>4, <3>1, <3>2
  <2> QED
    BY <1>2, <2>3, <2>4
<1>7. Len(r) <= MaxArtifacts /\ calls + 1 \in Nat
  BY <1>1, <1>2, ArtifactAssumption DEF StoreOK
<1> HIDE DEF later
<1> QED
  BY <1>2, <1>4, <1>5, <1>6, <1>7 DEF StoreOK, r, later

LEMMA StoreStarts == ArtifactInit => ArtifactInv
<1> SUFFICES ASSUME ArtifactInit PROVE ArtifactInv
  OBVIOUS
<1>1. /\ artifacts = <<>> /\ Len(artifacts) = 0 /\ DOMAIN artifacts = {}
      /\ artifacts \in Seq(Entry)
  BY DEF ArtifactInit
<1>2. UNION {{i} \X (1..artifacts[i].size) : i \in {}} = {}
  OBVIOUS
<1>3. BytesOf(artifacts) = 0
  BY <1>1, <1>2, FS_EmptySet DEF BytesOf, BytesAt
<1>4. artifacts \in Seq(Entry) /\ Len(artifacts) <= MaxArtifacts /\ 0 <= MaxTotalBytes
  BY <1>1, ArtifactAssumption
<1>5. lastUse \in [Tokens -> Nat] /\ \A t \in Tokens : lastUse[t] <= 0
  BY DEF ArtifactInit
<1> QED
  BY <1>1, <1>3, <1>4, <1>5 DEF ArtifactInv, StoreOK, ArtifactInit

(* A call that serves nobody leaves the uses as they were.                 *)
LEMMA VainKeepsStore ==
    ASSUME NEW s, NEW bytes, NEW use, NEW calls, StoreOK(s, bytes, use, calls)
    PROVE  StoreOK(s, bytes, use, calls + 1)
BY DEF StoreOK

LEMMA PurgedStore ==
    ASSUME ArtifactInv
    PROVE  /\ StoreOK(Live, LiveBytes, lastUse, artifactCalls)
           /\ TokensOf(Live) = {artifacts[i].token : i \in InTime}
<1>1. InTime \in SUBSET DOMAIN artifacts
  BY DEF InTime
<1> QED
  BY <1>1, PickedKeepsStore DEF ArtifactInv, Live, LiveBytes

(* The eviction loop stops with room for one more, or with nothing left.   *)
LEMMA EvictionsMakeRoom ==
    ASSUME ArtifactInv, NEW size \in Sizes
    PROVE  /\ Evictions(size) \in 0..Len(Live)
           /\ \/ Evictions(size) = Len(Live)
              \/ /\ Len(Live) - Evictions(size) < MaxArtifacts
                 /\ LiveBytes - BytesAt(Live, 1..Evictions(size)) + size <= MaxTotalBytes
<1> DEFINE Room(k) == /\ Len(Live) - k < MaxArtifacts
                      /\ LiveBytes - BytesAt(Live, 1..k) + size <= MaxTotalBytes
           ks == {k \in 0..Len(Live) : k = Len(Live) \/ Room(k)}
<1>1. Len(Live) \in Nat
  BY PurgedStore, StoredEntries
<1>2. ks \subseteq 0..Len(Live) /\ Len(Live) \in ks
  BY <1>1
<1>3. Evictions(size) = Min(ks)
  BY DEF Evictions
<1> HIDE DEF Room
<1>4. IsFiniteSet(ks) /\ ks # {} /\ ks \subseteq Int
  <2>1. ks \in SUBSET Nat /\ \A k \in ks : k <= Len(Live)
    BY <1>1, <1>2
  <2> HIDE DEF ks
  <2>2. IsFiniteSet(ks)
    BY <1>1, <2>1, FS_BoundedSetOfNaturals
  <2> QED
    BY <1>2, <2>1, <2>2
<1>5. Min(ks) \in ks
  BY <1>4, ExtremesAreMembers
<1> QED
  BY <1>3, <1>5 DEF Room

(* What the eviction leaves, and that it has room.                         *)
LEMMA EvictedStore ==
    ASSUME ArtifactInv, NEW size \in Sizes, size <= MaxTotalBytes
    PROVE  LET k == Evictions(size)
               kept == Picked(Live, (k + 1)..Len(Live))
               bytes == LiveBytes - BytesAt(Live, 1..k)
           IN  /\ StoreOK(kept, bytes, lastUse, artifactCalls)
               /\ Len(kept) < MaxArtifacts /\ bytes + size <= MaxTotalBytes
               /\ TokensOf(kept) = {Live[i].token : i \in (k + 1)..Len(Live)}
<1> DEFINE k == Evictions(size)
           stay == (k + 1)..Len(Live)
           kept == Picked(Live, stay)
           bytes == LiveBytes - BytesAt(Live, 1..k)
<1>1. /\ StoreOK(Live, LiveBytes, lastUse, artifactCalls)
      /\ Len(Live) \in Nat /\ DOMAIN Live = 1..Len(Live)
  BY PurgedStore, StoredEntries
<1> DEFINE n == Len(Live)
<1>2. n \in Nat
  BY <1>1
<1>3. k \in 0..n
  BY EvictionsMakeRoom
<1>4. k = n \/ (n - k < MaxArtifacts /\ bytes + size <= MaxTotalBytes)
  BY EvictionsMakeRoom
<1> HIDE DEF k, n
<1>5. k \in Int /\ k + 1 \in Int /\ n \in Int /\ k <= n /\ 0 <= k
  BY <1>2, <1>3
<1>6. stay \in SUBSET DOMAIN Live /\ DOMAIN Live \ stay = 1..k
  <2>1. \A m \in Nat : \A b \in 0..m :
          ((b + 1)..m) \in SUBSET (1..m) /\ (1..m) \ ((b + 1)..m) = 1..b
    OBVIOUS
  <2> QED
    BY <1>2, <1>1, <1>3, <2>1, Zenon DEF n
<1>7. Cardinality(stay) = IF k + 1 > n THEN 0 ELSE n - (k + 1) + 1
  BY <1>5, FS_Interval DEF n
<1> HIDE DEF stay
<1>8. /\ StoreOK(kept, bytes, lastUse, artifactCalls) /\ Len(kept) = Cardinality(stay)
      /\ TokensOf(kept) = {Live[i].token : i \in stay}
  BY <1>1, <1>6, PickedKeepsStore
<1> HIDE DEF kept
<1>9. Len(kept) = n - k
  BY <1>7, <1>8, <1>5
<1>10. bytes \in Nat
  BY <1>8, StoredEntries
<1>11. CASE k = n
  <2>1. Len(kept) = 0 /\ DOMAIN kept = {}
    BY <1>8, <1>9, <1>11, <1>5, StoredEntries
  <2>2. UNION {{i} \X (1..kept[i].size) : i \in {}} = {}
    OBVIOUS
  <2>3. BytesOf(kept) = 0
    BY <2>1, <2>2, FS_EmptySet DEF BytesOf, BytesAt
  <2>4. bytes = 0
    BY <1>8, <2>3 DEF StoreOK
  <2> HIDE DEF bytes
  <2>5. bytes + size <= MaxTotalBytes /\ Len(kept) < MaxArtifacts
    BY <2>1, <2>4, ArtifactAssumption
  <2> QED
    BY <1>8, <2>5 DEF stay, kept, bytes, k
<1>12. CASE k # n
  <2>1. bytes + size <= MaxTotalBytes /\ Len(kept) < MaxArtifacts
    BY <1>9, <1>12, <1>4
  <2> QED
    BY <1>8, <2>1 DEF stay, kept, bytes, k
<1> QED
  BY <1>11, <1>12

LEMMA StoreKeeps ==
    ASSUME ArtifactInv, NEW t \in Tokens, NEW size \in Sizes, Store(t, size)
    PROVE  ArtifactInv'
<1> DEFINE k == Evictions(size)
           kept == Picked(Live, (k + 1)..Len(Live))
           bytes == LiveBytes - BytesAt(Live, 1..k)
           e == [token |-> t, size |-> size, created |-> artifactNow, intact |-> TRUE]
<1>1. size <= MaxTotalBytes /\ artifactNow \in Nat
  BY DEF Store, ArtifactInv
<1>2. /\ StoreOK(kept, bytes, lastUse, artifactCalls)
      /\ Len(kept) < MaxArtifacts /\ bytes + size <= MaxTotalBytes
  BY <1>1, EvictedStore
<1>3. \/ /\ t \notin TokensOf(kept) /\ artifacts' = Append(kept, e)
         /\ artifactBytes' = bytes + size /\ Called(t)
      \/ artifacts' = kept /\ artifactBytes' = bytes /\ CalledInVain
  BY DEF Store
<1> HIDE DEF kept, bytes
<1>4. CASE /\ t \notin TokensOf(kept) /\ artifacts' = Append(kept, e)
           /\ artifactBytes' = bytes + size /\ Called(t)
  <2>1. e \in Entry /\ e.token = t /\ e.size = size
    BY <1>1 DEF Entry
  <2> HIDE DEF e
  <2>2. StoreOK(Append(kept, e), bytes + size,
                [lastUse EXCEPT ![t] = artifactCalls + 1], artifactCalls + 1)
    BY <1>2, <1>4, <2>1, AppendKeepsStore
  <2> QED
    BY <1>1, <1>4, <2>2 DEF ArtifactInv, Called
<1>5. CASE artifacts' = kept /\ artifactBytes' = bytes /\ CalledInVain
  <2>1. StoreOK(kept, bytes, lastUse, artifactCalls + 1)
    BY <1>2, VainKeepsStore
  <2> QED
    BY <1>1, <1>5, <2>1 DEF ArtifactInv, CalledInVain
<1> QED
  BY <1>3, <1>4, <1>5

(* An entry that leaves the live ones alone takes its bytes along.         *)
LEMMA WithoutOne ==
    ASSUME ArtifactInv, NEW i \in DOMAIN Live
    PROVE  LET rest == Without(Live, Live[i].token)
           IN  /\ StoreOK(rest, LiveBytes - Live[i].size, lastUse, artifactCalls)
               /\ Len(rest) < MaxArtifacts /\ LiveBytes <= MaxTotalBytes
               /\ Live[i] \in Entry /\ LiveBytes \in Nat
               /\ TokensOf(rest) = TokensOf(Live) \ {Live[i].token}
<1> DEFINE rest == Without(Live, Live[i].token)
           I == {j \in DOMAIN Live : Live[j].token # Live[i].token}
<1>1. /\ StoreOK(Live, LiveBytes, lastUse, artifactCalls)
      /\ Len(Live) \in Nat /\ DOMAIN Live = 1..Len(Live) /\ IsFiniteSet(DOMAIN Live)
      /\ \A j \in DOMAIN Live : Live[j] \in Entry
      /\ Weighs(Live) /\ LiveBytes \in Nat
      /\ \A j, k \in DOMAIN Live : Live[j].token = Live[k].token => j = k
  BY PurgedStore, StoredEntries
<1>2. I = DOMAIN Live \ {i} /\ I \in SUBSET DOMAIN Live /\ DOMAIN Live \ I = {i}
  BY <1>1
<1>3. rest = Picked(Live, I)
  BY DEF Without
<1> HIDE DEF I, rest
<1>4. /\ StoreOK(rest, LiveBytes - BytesAt(Live, {i}), lastUse, artifactCalls)
      /\ Len(rest) = Cardinality(I)
      /\ TokensOf(rest) = {Live[j].token : j \in I}
  <2>1. StoreOK(Live, LiveBytes, lastUse, artifactCalls) /\ I \in SUBSET DOMAIN Live
    BY <1>1, <1>2
  <2>2. /\ StoreOK(Picked(Live, I), LiveBytes - BytesAt(Live, DOMAIN Live \ I),
                   lastUse, artifactCalls)
        /\ Len(Picked(Live, I)) = Cardinality(I)
        /\ TokensOf(Picked(Live, I)) = {Live[j].token : j \in I}
    BY <2>1, PickedKeepsStore
  <2> QED
    BY <1>2, <1>3, <2>2
<1>5. BytesAt(Live, {i}) = Live[i].size
  BY <1>1, BytesOfOne DEF Weighs
<1>6. Len(rest) < MaxArtifacts
  <2>1. IsFiniteSet(DOMAIN Live) /\ Cardinality(DOMAIN Live) = Len(Live)
    <3>1. Cardinality(1..Len(Live)) = IF 1 > Len(Live) THEN 0 ELSE Len(Live) - 1 + 1
      BY <1>1, FS_Interval
    <3> QED
      BY <1>1, <3>1
  <2>2. Cardinality(DOMAIN Live \ {i}) = Cardinality(DOMAIN Live) - 1
    BY <2>1, FS_RemoveElement
  <2>3. Len(rest) = Len(Live) - 1
    BY <1>2, <1>4, <2>1, <2>2
  <2> QED
    BY <1>1, <2>3, ArtifactAssumption DEF StoreOK
<1>7. TokensOf(rest) = TokensOf(Live) \ {Live[i].token}
  <2>1. /\ \A j \in I : j \in DOMAIN Live /\ Live[j].token # Live[i].token
        /\ \A j \in DOMAIN Live : j \in I \/ Live[j].token = Live[i].token
    BY <1>1, <1>2
  <2> QED
    BY <1>4, <2>1, Zenon DEF TokensOf
<1>8. LiveBytes <= MaxTotalBytes /\ Live[i] \in Entry /\ LiveBytes \in Nat
  BY <1>1 DEF StoreOK
<1>9. StoreOK(rest, LiveBytes - Live[i].size, lastUse, artifactCalls)
  BY <1>4, <1>5
<1> QED
  BY <1>6, <1>7, <1>8, <1>9 DEF rest

LEMMA ReadKeeps ==
    ASSUME ArtifactInv, NEW t \in Tokens, Read(t)
    PROVE  ArtifactInv'
<1>1. artifactNow \in Nat /\ StoreOK(Live, LiveBytes, lastUse, artifactCalls)
  BY PurgedStore DEF ArtifactInv
<1>2. ASSUME NEW i \in DOMAIN Live, Live[i].token = t, Live[i].intact,
             artifacts' = Served(Live[i]), artifactBytes' = LiveBytes, Called(t)
      PROVE  ArtifactInv'
  <2> DEFINE rest == Without(Live, Live[i].token)
             e == Live[i]
  <2>1. /\ StoreOK(rest, LiveBytes - e.size, lastUse, artifactCalls)
        /\ Len(rest) < MaxArtifacts /\ LiveBytes <= MaxTotalBytes
        /\ e \in Entry /\ LiveBytes \in Nat
        /\ e.token \notin TokensOf(rest)
    BY WithoutOne
  <2>2. artifacts' = Append(rest, e)
    BY <1>2 DEF Served
  <2> HIDE DEF rest, e
  <2>3. e.size \in Nat /\ LiveBytes - e.size + e.size = LiveBytes
    <3>1. e.size \in Nat
      BY <2>1, ArtifactAssumption DEF Entry
    <3> QED
      BY <2>1, <3>1
  <2>4. StoreOK(Append(rest, e), LiveBytes - e.size + e.size,
                [lastUse EXCEPT ![e.token] = artifactCalls + 1], artifactCalls + 1)
    BY <2>1, <2>3, AppendKeepsStore
  <2> QED
    BY <1>1, <1>2, <2>2, <2>3, <2>4 DEF ArtifactInv, Called, e
<1>3. ASSUME NEW i \in DOMAIN Live, Live[i].token = t,
             artifacts' = Without(Live, t), artifactBytes' = LiveBytes - Live[i].size,
             CalledInVain
      PROVE  ArtifactInv'
  <2>1. StoreOK(artifacts', artifactBytes', lastUse, artifactCalls)
    BY <1>3, WithoutOne
  <2>2. StoreOK(artifacts', artifactBytes', lastUse, artifactCalls + 1)
    BY <2>1, VainKeepsStore
  <2> QED
    BY <1>1, <1>3, <2>2 DEF ArtifactInv, CalledInVain
<1>4. ASSUME artifacts' = Live, artifactBytes' = LiveBytes, CalledInVain
      PROVE  ArtifactInv'
  <2>1. StoreOK(Live, LiveBytes, lastUse, artifactCalls + 1)
    BY <1>1, VainKeepsStore
  <2> QED
    BY <1>1, <1>4, <2>1 DEF ArtifactInv, CalledInVain
<1> QED
  BY <1>2, <1>3, <1>4 DEF Read

LEMMA CorruptKeeps ==
    ASSUME ArtifactInv, NEW t \in Tokens, Corrupt(t)
    PROVE  /\ ArtifactInv' /\ DOMAIN artifacts' = DOMAIN artifacts
           /\ \A j \in DOMAIN artifacts : artifacts'[j].token = artifacts[j].token
<1>1. /\ StoreOK(artifacts, artifactBytes, lastUse, artifactCalls) /\ artifactNow \in Nat
      /\ Len(artifacts) \in Nat /\ DOMAIN artifacts = 1..Len(artifacts)
      /\ \A j \in DOMAIN artifacts : artifacts[j] \in Entry
      /\ artifacts \in Seq(Entry)
  BY StoredEntries DEF ArtifactInv, StoreOK
<1>2. PICK i \in DOMAIN artifacts : artifacts' = [artifacts EXCEPT ![i].intact = FALSE]
  BY DEF Corrupt
<1>3. [artifacts[i] EXCEPT !.intact = FALSE] \in Entry
  BY <1>1 DEF Entry
<1>4. /\ artifacts' \in Seq(Entry) /\ Len(artifacts') = Len(artifacts)
      /\ DOMAIN artifacts' = DOMAIN artifacts
  BY <1>1, <1>2, <1>3
<1>5. \A j \in DOMAIN artifacts : /\ artifacts'[j].token = artifacts[j].token
                                  /\ artifacts'[j].size = artifacts[j].size
  BY <1>1, <1>2 DEF Entry
<1>6. BytesOf(artifacts') = BytesOf(artifacts)
  BY <1>4, <1>5 DEF BytesOf, BytesAt
<1>7. UNCHANGED <<artifactBytes, artifactNow, lastUse, artifactCalls>>
  BY DEF Corrupt
<1> QED
  BY <1>1, <1>4, <1>5, <1>6, <1>7 DEF ArtifactInv, StoreOK

LEMMA StoreGoesOn == ArtifactInv /\ [ArtifactNext]_artifactVars => ArtifactInv'
<1> SUFFICES ASSUME ArtifactInv, [ArtifactNext]_artifactVars PROVE ArtifactInv'
  OBVIOUS
<1>1. CASE ArtifactTick
  BY <1>1 DEF ArtifactTick, ArtifactInv
<1>2. CASE UNCHANGED artifactVars
  BY <1>2 DEF artifactVars, ArtifactInv
<1> QED
  BY <1>1, <1>2, StoreKeeps, ReadKeeps, CorruptKeeps DEF ArtifactNext

LEMMA StoreAlways == ArtifactSpec => []ArtifactInv
BY StoreStarts, StoreGoesOn, PTL DEF ArtifactSpec

(* For any capabilities, sizes and limits: through every purge, eviction,  *)
(* failed verification and capability that could not be drawn              *)
(* (artifact_store.py:84-156) the byte count is that of the entries, no    *)
(* capability names two of them, and neither bound is exceeded.            *)
THEOREM BytesStayAccounted == ArtifactSpec => []BytesAccounted
<1>1. ArtifactInv => BytesAccounted
  BY StoredEntries DEF ArtifactInv, StoreOK, BytesAccounted
<1> QED
  BY <1>1, StoreAlways, PTL

LEMMA AppendedTokens ==
    ASSUME NEW S, NEW s \in Seq(S), NEW e
    PROVE  TokensOf(Append(s, e)) = TokensOf(s) \cup {e.token}
<1> DEFINE r == Append(s, e)
           n == Len(s) + 1
<1>1. /\ Len(s) \in Nat /\ DOMAIN s = 1..Len(s) /\ DOMAIN r = 1..n
      /\ r[n] = e /\ \A i \in DOMAIN s : r[i] = s[i]
  BY AppendProperties
<1>2. DOMAIN r = DOMAIN s \cup {n}
  BY <1>1
<1> HIDE DEF r, n
<1>3. /\ \A i \in DOMAIN s : i \in DOMAIN r /\ r[i].token = s[i].token
      /\ n \in DOMAIN r /\ r[n].token = e.token
      /\ \A i \in DOMAIN r : i \in DOMAIN s \/ i = n
  BY <1>1, <1>2
<1>4. TokensOf(r) = TokensOf(s) \cup {e.token}
  BY <1>3, Zenon DEF TokensOf
<1> QED
  BY <1>4 DEF r

LEMMA LiveHasWhatIsInTime ==
    ASSUME ArtifactInv, NEW i \in InTime
    PROVE  \E n \in DOMAIN Live : Live[n] = artifacts[i]
<1>1. InTime \in SUBSET DOMAIN artifacts /\ artifacts \in Seq(Entry)
  BY DEF InTime, ArtifactInv, StoreOK
<1>2. PICK p : Takes(Live, artifacts, InTime, p)
  BY <1>1, PickedTakes DEF Live
<1>3. PICK n \in 1..Cardinality(InTime) : p[n] = i
  BY <1>2 DEF Takes, Bijection, Surjection
<1> QED
  BY <1>2, <1>3 DEF Takes

(* The eviction takes from the cold end, so what it leaves was used later. *)
LEMMA StoreSparesRecent ==
    ASSUME ArtifactInv, NEW t \in Tokens, NEW size \in Sizes, Store(t, size),
           NEW i \in InTime
    PROVE  StaysOrWasLeastRecent(i)
<1> DEFINE k == Evictions(size)
           kept == Picked(Live, (k + 1)..Len(Live))
           bytes == LiveBytes - BytesAt(Live, 1..k)
           e == [token |-> t, size |-> size, created |-> artifactNow, intact |-> TRUE]
           old == artifacts[i].token
<1>1. /\ StoreOK(Live, LiveBytes, lastUse, artifactCalls)
      /\ Len(Live) \in Nat /\ DOMAIN Live = 1..Len(Live)
      /\ \A n \in DOMAIN Live : Live[n] \in Entry
  BY PurgedStore, StoredEntries
<1>2. PICK n \in DOMAIN Live : Live[n] = artifacts[i]
  BY LiveHasWhatIsInTime
<1>3. size <= MaxTotalBytes /\ k \in 0..Len(Live)
  BY EvictionsMakeRoom DEF Store
<1>4. /\ kept \in Seq(Entry)
      /\ TokensOf(kept) = {Live[m].token : m \in (k + 1)..Len(Live)}
  BY <1>3, EvictedStore DEF StoreOK
<1>5. \/ /\ t \notin TokensOf(kept) /\ artifacts' = Append(kept, e) /\ Called(t)
      \/ artifacts' = kept /\ CalledInVain
  BY DEF Store
<1> HIDE DEF k, kept
<1>6. /\ lastUse \in [Tokens -> Nat] /\ artifactCalls \in Nat /\ old \in Tokens
      /\ \A u \in Tokens : lastUse[u] <= artifactCalls
      /\ TokensOf(kept) \subseteq Tokens
  <2>1. \A m \in DOMAIN Live : Live[m].token \in Tokens
    BY <1>1 DEF Entry
  <2>2. old \in Tokens
    BY <1>2, <2>1
  <2>3. (k + 1)..Len(Live) \subseteq DOMAIN Live
    BY <1>1, <1>3
  <2>4. TokensOf(kept) \subseteq Tokens
    BY <1>4, <2>1, <2>3
  <2> QED
    BY <1>1, <2>2, <2>4 DEF StoreOK
<1>7. e.token = t
  OBVIOUS
<1> HIDE DEF e
<1>8. \/ /\ t \notin TokensOf(kept) /\ Called(t)
         /\ TokensOf(artifacts') = TokensOf(kept) \cup {t}
      \/ TokensOf(artifacts') = TokensOf(kept) /\ CalledInVain
  <2>1. TokensOf(Append(kept, e)) = TokensOf(kept) \cup {t}
    BY <1>4, <1>7, AppendedTokens
  <2> QED
    BY <1>5, <2>1
<1>9. CASE n > k
  <2>1. old \in TokensOf(kept)
    BY <1>1, <1>2, <1>3, <1>4, <1>9
  <2> QED
    BY <1>8, <2>1 DEF StaysOrWasLeastRecent
<1>10. CASE n <= k
  <2>1. \A u \in TokensOf(kept) : lastUse[u] > lastUse[old]
    <3> SUFFICES ASSUME NEW m \in (k + 1)..Len(Live)
                 PROVE  lastUse[Live[m].token] > lastUse[old]
      BY <1>4
    <3>1. m \in DOMAIN Live /\ n < m
      BY <1>1, <1>3, <1>10
    <3>2. lastUse[Live[n].token] < lastUse[Live[m].token]
      BY <1>1, <3>1 DEF StoreOK
    <3>3. Live[m].token \in Tokens
      BY <1>1, <3>1 DEF Entry
    <3> QED
      BY <1>2, <1>6, <3>2, <3>3
  <2>2. CASE CalledInVain /\ TokensOf(artifacts') = TokensOf(kept)
    BY <2>1, <2>2 DEF CalledInVain, StaysOrWasLeastRecent
  <2>3. CASE /\ t \notin TokensOf(kept) /\ Called(t)
             /\ TokensOf(artifacts') = TokensOf(kept) \cup {t}
    <3>1. lastUse' = [lastUse EXCEPT ![t] = artifactCalls + 1]
      BY <2>3 DEF Called
    <3>2. lastUse'[t] > lastUse[old]
      BY <1>6, <3>1
    <3>3. \A u \in TokensOf(kept) : lastUse'[u] = lastUse[u]
      BY <1>6, <2>3, <3>1
    <3> QED
      BY <2>1, <2>3, <3>2, <3>3 DEF StaysOrWasLeastRecent
  <2> QED
    BY <1>8, <2>2, <2>3
<1> QED
  BY <1>1, <1>3, <1>9, <1>10

(* A read takes nothing but an entry whose content no longer matches.      *)
LEMMA ReadSparesIntact ==
    ASSUME ArtifactInv, NEW t \in Tokens, Read(t), NEW i \in InTime, artifacts[i].intact
    PROVE  artifacts[i].token \in TokensOf(artifacts')
<1> DEFINE old == artifacts[i].token
<1>1. /\ \A m, n \in DOMAIN Live : Live[m].token = Live[n].token => m = n
      /\ TokensOf(Live) = {artifacts[j].token : j \in InTime}
  BY PurgedStore, StoredEntries
<1>2. PICK n \in DOMAIN Live : Live[n] = artifacts[i]
  BY LiveHasWhatIsInTime
<1>3. old \in TokensOf(Live)
  BY <1>1
<1>4. ASSUME NEW j \in DOMAIN Live, artifacts' = Served(Live[j])
      PROVE  old \in TokensOf(artifacts')
  <2> DEFINE rest == Without(Live, Live[j].token)
  <2>1. rest \in Seq(Entry) /\ TokensOf(rest) = TokensOf(Live) \ {Live[j].token}
    BY WithoutOne DEF StoreOK
  <2>2. artifacts' = Append(rest, Live[j])
    BY <1>4 DEF Served
  <2> HIDE DEF rest
  <2>3. TokensOf(artifacts') = TokensOf(rest) \cup {Live[j].token}
    BY <2>1, <2>2, AppendedTokens
  <2> QED
    BY <1>3, <2>1, <2>3
<1>5. ASSUME NEW j \in DOMAIN Live, Live[j].token = t, ~Live[j].intact,
             artifacts' = Without(Live, t)
      PROVE  old \in TokensOf(artifacts')
  <2>1. TokensOf(artifacts') = TokensOf(Live) \ {Live[j].token}
    BY <1>5, WithoutOne
  <2>2. old # Live[j].token
    BY <1>1, <1>2, <1>5
  <2> QED
    BY <1>3, <2>1, <2>2
<1> QED
  BY <1>3, <1>4, <1>5 DEF Read

(* For any capabilities, sizes and limits: an intact artifact that has not *)
(* expired goes only to make room for another (artifact_store.py:117-122), *)
(* and whatever stays was stored or served after it.                       *)
THEOREM WhatWasUsedLastStays == ArtifactSpec => LeastRecentGoes
<1> DEFINE Spared == \A i \in InTime : artifacts[i].intact => StaysOrWasLeastRecent(i)
<1>1. ArtifactInv /\ [ArtifactNext]_artifactVars => [Spared]_artifactVars
  <2> SUFFICES ASSUME ArtifactInv, ArtifactNext, NEW i \in InTime, artifacts[i].intact
               PROVE  StaysOrWasLeastRecent(i)
    OBVIOUS
  <2>1. ASSUME NEW t \in Tokens, NEW size \in Sizes, Store(t, size)
        PROVE  StaysOrWasLeastRecent(i)
    BY <2>1, StoreSparesRecent
  <2>2. ASSUME NEW t \in Tokens, Read(t)
        PROVE  StaysOrWasLeastRecent(i)
    BY <2>2, ReadSparesIntact DEF StaysOrWasLeastRecent
  <2>3. i \in DOMAIN artifacts
    BY DEF InTime
  <2>4. ASSUME NEW t \in Tokens, Corrupt(t)
        PROVE  StaysOrWasLeastRecent(i)
    <3>1. /\ DOMAIN artifacts' = DOMAIN artifacts
          /\ \A j \in DOMAIN artifacts : artifacts'[j].token = artifacts[j].token
      BY <2>4, CorruptKeeps
    <3> QED
      BY <2>3, <3>1 DEF StaysOrWasLeastRecent, TokensOf
  <2>5. CASE ArtifactTick
    BY <2>3, <2>5 DEF ArtifactTick, StaysOrWasLeastRecent, TokensOf
  <2> QED
    BY <2>1, <2>2, <2>4, <2>5 DEF ArtifactNext
<1> QED
  BY <1>1, StoreAlways, PTL DEF ArtifactSpec, LeastRecentGoes

-----------------------------------------------------------------------------
(* Task handles.  Unexpired measures against the clock while the property  *)
(* measures against the last accepted reading.  The two meet in Accept: an *)
(* operation that changes the map first makes its reading the last one.    *)

(* What is stored, and that the map is within its limit.                   *)
HandlesInv ==
    /\ handles \subseteq HandleEntry
    /\ IsFiniteSet(handles) /\ Cardinality(handles) <= MaxHandles
    /\ lastReading \in Nat /\ taskClock \in Nat
    /\ HandleLifetimeBounded

LEMMA EmptyBrokerOK == TaskInit => HandlesInv
  BY FS_EmptySet, HandleAssumption, SMT
     DEF TaskInit, HandlesInv, HandleLifetimeBounded

(* Dropping what has expired leaves a map that fits the new reading.       *)
LEMMA PurgedMapFits ==
  ASSUME HandlesInv, ReadingOK
  PROVE  /\ Unexpired \subseteq handles
         /\ IsFiniteSet(Unexpired) /\ Cardinality(Unexpired) \in Nat
         /\ Cardinality(Unexpired) <= MaxHandles
         /\ \A h \in Unexpired : h.expires \in (taskClock + 1)..(taskClock + HandleRetention)
  <1>1. Unexpired \subseteq handles
    BY DEF Unexpired
  <1>2. /\ IsFiniteSet(Unexpired)
        /\ Cardinality(Unexpired) <= Cardinality(handles)
    BY <1>1, FS_Subset DEF HandlesInv
  <1>3. /\ Cardinality(Unexpired) \in Nat
        /\ Cardinality(handles) \in Nat
    BY <1>2, FS_CardinalityType DEF HandlesInv
  <1>4. Cardinality(Unexpired) <= MaxHandles
    BY <1>2, <1>3, HandleAssumption, SMT DEF HandlesInv
  <1>5. ASSUME NEW h \in Unexpired
        PROVE  h.expires \in (taskClock + 1)..(taskClock + HandleRetention)
    <2>1. h \in handles /\ h.expires \in Nat
      BY <1>1 DEF HandlesInv, HandleEntry
    <2>2. h.expires > taskClock
      BY DEF Unexpired
    <2>3. h.expires <= lastReading + HandleRetention
      BY <2>1 DEF HandlesInv, HandleLifetimeBounded
    <2>4. QED
      BY <2>1, <2>2, <2>3, HandleAssumption, SMT DEF HandlesInv, ReadingOK
  <1>6. QED
    BY <1>1, <1>2, <1>3, <1>4, <1>5

LEMMA MintKeepsHandlesInv ==
  ASSUME HandlesInv, NEW job \in HandleJobs, NEW owner \in Owners, Mint(job, owner)
  PROVE  HandlesInv'
  <1>1. ReadingOK /\ lastReading' = taskClock /\ taskClock' = taskClock
    BY DEF Mint, Accept
  <1>2. CASE handles' = Unexpired
    BY <1>1, <1>2, PurgedMapFits DEF HandlesInv, HandleLifetimeBounded
  <1>3. CASE HandleRoom /\ handles' # Unexpired
    <2>1. PICK h \in Handles \ {e.handle : e \in Unexpired} :
            handles' = Unexpired \cup {[handle |-> h, job |-> job, owner |-> owner,
                                        expires |-> taskClock + HandleRetention]}
      BY <1>3 DEF Mint
    <2> DEFINE entry == [handle |-> h, job |-> job, owner |-> owner,
                         expires |-> taskClock + HandleRetention]
    <2>2. taskClock + HandleRetention \in (taskClock + 1)..(taskClock + HandleRetention)
      BY HandleAssumption, SMT DEF HandlesInv
    <2>3. entry \in HandleEntry
      BY HandleAssumption, SMT DEF HandlesInv, HandleEntry
    <2>4. /\ IsFiniteSet(Unexpired \cup {entry})
          /\ Cardinality(Unexpired \cup {entry}) <= Cardinality(Unexpired) + 1
      <3> HIDE DEF entry
      <3>1. IsFiniteSet(Unexpired) /\ Cardinality(Unexpired) \in Nat
        BY <1>1, PurgedMapFits
      <3>2. /\ IsFiniteSet(Unexpired \cup {entry})
            /\ Cardinality(Unexpired \cup {entry}) =
                 IF entry \in Unexpired THEN Cardinality(Unexpired)
                                        ELSE Cardinality(Unexpired) + 1
        BY <3>1, FS_AddElement, Zenon
      <3>3. QED
        BY <3>1, <3>2, SMT
    <2>5. IsFiniteSet(handles') /\ Cardinality(handles') <= MaxHandles
      <3>1. Cardinality(Unexpired) < MaxHandles
        BY <1>3 DEF HandleRoom
      <3>2. Cardinality(handles') \in Nat
        BY <2>1, <2>4, FS_CardinalityType
      <3>3. QED
        BY <1>1, <2>1, <2>4, <3>1, <3>2, PurgedMapFits, HandleAssumption, SMT
    <2>6. handles' \subseteq HandleEntry
      BY <1>1, <2>1, <2>3, PurgedMapFits DEF HandlesInv
    <2>7. ASSUME NEW f \in handles'
          PROVE  f.expires \in (lastReading' + 1)..(lastReading' + HandleRetention)
      <3>1. CASE f \in Unexpired
        BY <1>1, <3>1, PurgedMapFits
      <3>2. CASE f = entry
        BY <1>1, <2>2, <3>2
      <3>3. QED
        BY <2>1, <3>1, <3>2
    <2>8. ASSUME NEW f \in handles', NEW g \in handles', g.handle = f.handle
          PROVE  g = f
      <3>1. entry.handle = h /\ \A e \in Unexpired : e.handle # h
        OBVIOUS
      <3>2. CASE f \in Unexpired /\ g \in Unexpired
        BY <1>1, <2>8, <3>2, PurgedMapFits DEF HandlesInv, HandleLifetimeBounded
      <3>3. QED
        BY <2>1, <2>8, <3>1, <3>2
    <2>9. QED
      BY <1>1, <2>5, <2>6, <2>7, <2>8 DEF HandlesInv, HandleLifetimeBounded
  <1>4. QED
    BY <1>2, <1>3 DEF Mint

LEMMA ResolveKeepsHandlesInv ==
  ASSUME HandlesInv, NEW h \in Handles, NEW owner \in Owners, Resolve(h, owner)
  PROVE  HandlesInv'
  <1>1. /\ ReadingOK /\ lastReading' = taskClock /\ taskClock' = taskClock
        /\ handles' = Unexpired
    BY DEF Resolve, Accept
  <1>2. QED
    BY <1>1, PurgedMapFits DEF HandlesInv, HandleLifetimeBounded

LEMMA StepKeepsHandlesInv == HandlesInv /\ [TaskNext]_taskVars => HandlesInv'
  <1> SUFFICES ASSUME HandlesInv, [TaskNext]_taskVars
               PROVE  HandlesInv'
    OBVIOUS
  <1>1. CASE ClockSteppedBack
    BY <1>1 DEF ClockSteppedBack, HandlesInv, HandleLifetimeBounded
  <1>2. ASSUME NEW job \in HandleJobs, NEW owner \in Owners, Mint(job, owner)
        PROVE  HandlesInv'
    BY <1>2, MintKeepsHandlesInv
  <1>3. ASSUME NEW h \in Handles, NEW owner \in Owners, Resolve(h, owner)
        PROVE  HandlesInv'
    BY <1>3, ResolveKeepsHandlesInv
  <1>4. CASE TaskClockMoves
    <2>1. taskClock' \in Nat
      BY <1>4, HandleAssumption, SMT DEF TaskClockMoves
    <2>2. QED
      BY <1>4, <2>1 DEF TaskClockMoves, HandlesInv, HandleLifetimeBounded
  <1>5. CASE UNCHANGED taskVars
    BY <1>5 DEF taskVars, HandlesInv, HandleLifetimeBounded
  <1>6. QED
    BY <1>1, <1>2, <1>3, <1>4, <1>5 DEF TaskNext

(* No handle the broker keeps lives past its retention after any reading   *)
(* it accepted, however the clock jumps, and a handle names one entry.     *)
THEOREM HandlesExpireInTime == TaskSpec => []HandleLifetimeBounded
  <1>1. HandlesInv => HandleLifetimeBounded
    BY DEF HandlesInv
  <1>2. QED
    BY EmptyBrokerOK, StepKeepsHandlesInv, <1>1, PTL DEF TaskSpec
================================================================================
