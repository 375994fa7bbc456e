------------------------------ MODULE MCScheduler ------------------------------
(* Instances of Scheduler for TLC: a live and a backfill task of the first    *)
(* Home generation, and a live task of the second.                           *)
EXTENDS Scheduler

CONSTANTS l1, b1, m1

OneHomeTasks == {l1, b1}
TwoHomeTasks == {l1, b1, m1}
TaskLane == [t \in Tasks |-> IF t = b1 THEN "backfill" ELSE "live"]
TaskGen == [t \in Tasks |-> IF t = m1 THEN 2 ELSE 1]

FenceEvents == {"home", "sourceUp", "sourceDown", "pauseBackfill", "pauseAll", "resume",
                "wake", "probeFails", "abandon", "crash"}
TargetEvents == {"pauseAll", "resume", "crash", "fault", "promote", "fileChanges",
                 "storeFault", "pressure", "sliceFault"}
ServeEvents == {"fileChanges", "sliceFault", "pauseBackfill", "resume", "sleep", "wake",
                "crash"}
RetryEvents == {"storeFault"}
===============================================================================
