----------------------------- MODULE MCOptimization -----------------------------
(* Instances of OptimizationProperties for TLC.                            *)
EXTENDS OptimizationProperties

CONSTANTS j1, j2

MCVersions == {j2}
MCLaunches == 1..2

(* The server's crash, passing deadlines and days, and a worker that       *)
(* charges or gives up are explored with one job and one start at a time,  *)
(* the bounds that jobs and starts share with two.  Callers are alike: the *)
(* second one starts only while the first one prepares.                    *)
MCNext ==
    /\ Next
    /\ Preparing' = Callers \/ Preparing' \ Preparing \subseteq {1}
    /\ Cardinality(Stored(rows')) > 1 \/ Preparing' = Callers
       => /\ crashes' = 0 /\ overdue' = {}
          /\ \A j \in Jobs : ~rows'[j].old
          /\ \A l \in Launches : /\ child'[l].charges = 0
                                 /\ child'[l].code \notin WorkerCodes

MCSpec == Init /\ [][MCNext]_vars
MCFairSpec == MCSpec /\ Fairness
===============================================================================
