------------------------- MODULE OptimizationLifecycle -------------------------
(***************************************************************************)
(* What the optimization service promises about each job, whatever         *)
(* processes run it: it works once, at most one candidate is published for *)
(* review, a review ends in completion or a stop, and a job that has ended *)
(* stays as it is until its retention has passed; only then is it          *)
(* forgotten, and may the same request create it anew.                     *)
(*                                                                         *)
(* One transaction may move several jobs, because each one first recovers  *)
(* and forgets whatever is due.                                            *)
(***************************************************************************)
CONSTANTS Jobs, Candidates, None

VARIABLE job  \* [Jobs -> [phase, candidate under review, retention passed]]

Absent == [phase |-> "absent", candidate |-> None, old |-> FALSE]
In(phase, c) == [phase |-> phase, candidate |-> c, old |-> FALSE]

Open == {"queued", "working", "review"}

Create(p, q) == (p.phase = "absent" \/ p.old) /\ q = In("queued", None)
Claim(p, q) == p.phase = "queued" /\ q = In("working", None)
Publish(p, q) == p.phase = "working" /\ \E c \in Candidates : q = In("review", c)
Approve(p, q) == p.phase = "review" /\ q = In("completed", p.candidate)
Stop(p, q) == p.phase \in Open /\ q = In("stopped", None)
Renew(p, q) == p.phase \in Open /\ q = [p EXCEPT !.old = FALSE]
Age(p, q) == p.phase # "absent" /\ q = [p EXCEPT !.old = TRUE]
Forget(p, q) == p.old /\ q = Absent

Init == job = [j \in Jobs |-> Absent]

Next ==
    \A j \in Jobs :
        \/ UNCHANGED job[j]
        \/ Create(job[j], job'[j]) \/ Claim(job[j], job'[j]) \/ Publish(job[j], job'[j])
        \/ Approve(job[j], job'[j]) \/ Stop(job[j], job'[j]) \/ Renew(job[j], job'[j])
        \/ Age(job[j], job'[j]) \/ Forget(job[j], job'[j])

Spec == Init /\ [][Next]_job
===============================================================================
