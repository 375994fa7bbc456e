------------------------------- MODULE Scheduler -------------------------------
(***************************************************************************)
(* The durable task queue (store/scheduler_repository.go), the single       *)
(* worker that drains it (scheduler/worker.go), the targets it executes     *)
(* (liveindex, bootstrap), composed with the lifecycle coordinator and with *)
(* crashes of the helper process.                                           *)
(*                                                                         *)
(* A database transaction is one step; between two transactions of a cycle  *)
(* anything may interleave: coordinator writes, enqueues, promotions, a     *)
(* crash.  Timestamps are abstracted to what they order: `ahead` is the     *)
(* order of queue_order_ms among the queued tasks, w.tail holds the queued  *)
(* tasks that the stamp of the next write is known to exceed, and w.raced   *)
(* those promoted between the worker's read and its write of the same row,  *)
(* which may defeat the write's updated_at_ms check.                        *)
(***************************************************************************)
EXTENDS LifecycleCoordinator

CONSTANTS
  MaxLiveBurst,   \* consecutive live cycles before backfill is forced
  MaxAttempts,    \* failures the retry policy forgives
  LaneCapacity,   \* active tasks per lane
  Slices          \* slices of work a target needs

ASSUME SchedulerConstants ==
  /\ MaxLiveBurst \in Nat \ {0}
  /\ MaxAttempts \in Nat \ {0}
  /\ LaneCapacity \in Nat \ {0}
  /\ Slices \in Nat

VARIABLES
  tstate,       \* scheduler_tasks.state, "none" before admission
  interactive,  \* scheduler_tasks.service_class = interactive
  job,          \* the bound attempt (cur) and its resumed successor (next)
  retry,        \* scheduler_retry_states
  work,         \* slices the target still needs; checkpoints survive a crash
  ahead,        \* ahead[t]: the queued tasks before the queued task t
  streak,       \* consecutive live cycles at the end of scheduler_cycles
  w             \* the worker

taskVars == <<tstate, interactive, job, retry, work, ahead, streak>>
vars == <<coordVars, taskVars, w>>

TaskStates == {"none", "queued", "running", "interrupted", "failed", "succeeded"}
JobStates == {"none", "queued", "running", "interrupted", "failed", "succeeded"}
Dispositions == {"none", "waiting", "due", "blocked", "resolved"}
Outcomes == {"none", "yielded", "completed", "transient", "permanent", "interrupted"}
WorkerSteps == {"off", "idle", "recover", "resume", "bind", "retry", "requeue",
                "select", "begin", "claim", "run", "post", "commit", "recommit", "dead"}
Modes == {"startup", "boot", "cycle"}

At(pc) == [pc |-> pc, mode |-> "cycle", task |-> None, todo |-> {},
           out |-> "none", tail |-> {}, raced |-> {}]

Queued == {t \in Tasks : tstate[t] = "queued"}
Active(l) == {t \in Tasks : Lane[t] = l /\ tstate[t] \in {"queued", "running", "interrupted"}}

\* queue_order_ms: t leaves the queue, or joins it behind the tasks `before`.
Dequeued(t) == [u \in Tasks |-> IF u = t THEN {} ELSE ahead[u] \ {t}]
PutBehind(t, before) ==
  [u \in Tasks |-> IF u = t THEN before
                   ELSE IF u \in Queued \ before THEN ahead[u] \cup {t} ELSE ahead[u]]
Prefixes == {s \in SUBSET Queued : \A u \in s : ahead[u] \subseteq s}

\* afterMS: the stamp exceeds those of the tasks the worker saw, and may fall
\* short of one enqueued since.
PutAfter(t, known) ==
  \E before \in Prefixes : known \subseteq before /\ ahead' = PutBehind(t, before)

\* The task leaves the tail of a cycle row of its lane.
NextStreak(t) == IF Lane[t] = "backfill" THEN 0
                 ELSE IF streak < MaxLiveBurst THEN streak + 1 ELSE streak

\* Variant of Mutated that grants one attempt too many.
MutatedOnceMore(t, transient) ==
  LET n == retry[t].fails + 1
  IN  [disp |-> IF transient /\ n <= MaxAttempts + 1 THEN "waiting" ELSE "blocked",
       fails |-> n]

\* retryMutation: a transient failure waits while the policy has attempts left.
Mutated(t, transient) ==
  LET n == retry[t].fails + 1
  IN  [disp |-> IF transient /\ n <= MaxAttempts THEN "waiting" ELSE "blocked",
       fails |-> n]

-------------------------------------------------------------------------------
(* Admission. *)

\* liveindex.Start for a file of the plan: the attempt exists or is created.
StartLive(t) ==
  /\ co.pc = "scan" /\ t \in co.plan
  /\ tstate[t] = "none" /\ job[t].cur = "none"
  /\ job' = [job EXCEPT ![t].cur = "queued"]
  /\ UNCHANGED <<coordVars, tstate, interactive, retry, work, ahead, streak, w>>

\* EnqueueSchedulerTask.  A known task is a no-op; queue_order_ms is the file's
\* modification time, so the task may land anywhere in the queue.
Enqueue(t, before) ==
  /\ job[t].cur \in {"queued", "running"}
  /\ Cardinality(Active(Lane[t])) < LaneCapacity
  /\ tstate' = [tstate EXCEPT ![t] = "queued"]
  /\ interactive' = [interactive EXCEPT ![t] = Lane[t] = "backfill"]
  /\ ahead' = PutBehind(t, before)
  /\ UNCHANGED <<job, retry, work, streak, w>>

EnqueueLive(t) ==
  /\ co.pc = "scan" /\ t \in co.plan
  /\ tstate[t] = "none"
  /\ \E before \in Prefixes : Enqueue(t, before)
  /\ co' = [co EXCEPT !.plan = @ \ {t}]
  /\ UNCHANGED <<lc, act, home, phase>>

EnqueueKnown(t) ==
  /\ co.pc = "scan" /\ t \in co.plan
  /\ tstate[t] # "none"
  /\ co' = [co EXCEPT !.plan = @ \ {t}]
  /\ UNCHANGED <<lc, act, home, phase, taskVars, w>>

\* ErrSchedulerQueueFull fails the reconcile.
EnqueueFull(t) ==
  /\ co.pc = "scan" /\ t \in co.plan
  /\ tstate[t] = "none" /\ job[t].cur # "none"
  /\ Cardinality(Active("live")) >= LaneCapacity
  /\ co' = [co EXCEPT !.pc = "block"]
  /\ UNCHANGED <<lc, act, home, phase, taskVars, w>>

ScanDone ==
  /\ co.pc = "scan" /\ co.plan = {}
  /\ co' = [co EXCEPT !.pc = "confirm"]
  /\ UNCHANGED <<lc, act, home, phase, taskVars, w>>

\* StartBootstrap for the confirmed generation: the attempt runs discovery and
\* freezes its plan before it is enqueued.
StartBackfill(t) ==
  /\ phase = "up" /\ Lane[t] = "backfill" /\ Gen[t] = home
  /\ job[t].cur = "none"
  /\ job' = [job EXCEPT ![t].cur = "running"]
  /\ UNCHANGED <<coordVars, tstate, interactive, retry, work, ahead, streak, w>>

\* enqueueLatestApplicationBootstrap.
EnqueueBackfill(t) ==
  /\ phase = "up" /\ Lane[t] = "backfill" /\ Gen[t] = home
  /\ tstate[t] = "none"
  /\ \E before \in Prefixes : Enqueue(t, before)
  /\ UNCHANGED coordVars

\* A file that was indexed changes again: the next scan finds a new request,
\* for which the slot of the finished task is reused.
FileChanges(t) ==
  /\ "fileChanges" \in Events
  /\ Lane[t] = "live" /\ tstate[t] = "succeeded"
  /\ tstate' = [tstate EXCEPT ![t] = "none"]
  /\ job' = [job EXCEPT ![t] = [cur |-> "none", next |-> "none"]]
  /\ retry' = [retry EXCEPT ![t] = [disp |-> "none", fails |-> 0]]
  /\ work' = [work EXCEPT ![t] = Slices]
  /\ interactive' = [interactive EXCEPT ![t] = FALSE]
  /\ UNCHANGED <<coordVars, ahead, streak, w>>

\* Variant of Promote that bumps an interactive task again.
PromoteAgain(t) ==
  /\ "promote" \in Events
  /\ phase = "up" /\ tstate[t] \in {"queued", "running"}
  /\ interactive' = [interactive EXCEPT ![t] = TRUE]
  /\ w' = IF t = w.task \/ t \in w.todo THEN [w EXCEPT !.raced = @ \cup {t}] ELSE w
  /\ UNCHANGED <<coordVars, tstate, job, retry, work, ahead, streak>>

\* PromoteSchedulerTask bumps updated_at_ms of a queued or running task once.
Promote(t) ==
  /\ "promote" \in Events
  /\ phase = "up" /\ ~interactive[t] /\ tstate[t] \in {"queued", "running"}
  /\ interactive' = [interactive EXCEPT ![t] = TRUE]
  /\ w' = IF t = w.task \/ t \in w.todo THEN [w EXCEPT !.raced = @ \cup {t}] ELSE w
  /\ UNCHANGED <<coordVars, tstate, job, retry, work, ahead, streak>>

-------------------------------------------------------------------------------
(* Recovery of running and interrupted tasks. *)

\* Variant of Recoverable that forgets interrupted tasks.
RecoverableRunning == {t \in Tasks : tstate[t] = "running" /\ Permits(lc, t)}

Recoverable == {t \in Tasks : tstate[t] \in {"running", "interrupted"} /\ Permits(lc, t)}

Recovering(mode) == [At("recover") EXCEPT !.mode = mode, !.todo = Recoverable]

Preflight(b) == act' = [act EXCEPT !.preflight = b]

\* coordinator.recover at startup calls RecoverActiveTasks when the row is open.
StartupRecover ==
  /\ phase = "recovering" /\ w.pc = "off"
  /\ IF lc.trans = "steady" /\ lc.source = "available" /\ lc.pause # "all"
       THEN w' = Recovering("startup") /\ Preflight(TRUE) /\ phase' = phase
       ELSE phase' = "up" /\ UNCHANGED <<w, act>>
  /\ UNCHANGED <<lc, co, home, taskVars>>

\* Run: the owner lease is taken and the leftovers are recovered first.
WorkerStart ==
  /\ phase = "up" /\ w.pc = "off"
  /\ w' = Recovering("boot")
  /\ Preflight(TRUE)
  /\ UNCHANGED <<lc, co, home, phase, taskVars>>

\* runCycleOwned starts: preflight is registered, the row read, recovery runs.
CycleStart ==
  /\ w.pc = "idle"
  /\ w' = Recovering("cycle")
  /\ Preflight(TRUE)
  /\ UNCHANGED <<lc, co, home, phase, taskVars>>

\* Variants of RecoverInterrupt: one resumes without interrupting, one takes a
\* finished attempt for a lost one.
RecoverUninterrupted(t) ==
  /\ w.pc = "recover" /\ t \in w.todo
  /\ job[t].cur \in {"queued", "running", "interrupted"}
  /\ w' = [w EXCEPT !.pc = "resume", !.task = t]
  /\ UNCHANGED <<coordVars, taskVars>>

RecoverFinished(t) ==
  /\ w.pc = "recover" /\ t \in w.todo
  /\ job' = [job EXCEPT ![t].cur = "interrupted"]
  /\ w' = [w EXCEPT !.pc = "resume", !.task = t]
  /\ UNCHANGED <<coordVars, tstate, interactive, retry, work, ahead, streak>>

\* executor.Recover interrupts an attempt that has no owner any more.
RecoverInterrupt(t) ==
  /\ w.pc = "recover" /\ t \in w.todo
  /\ job[t].cur \in {"queued", "running", "interrupted"}
  /\ job' = [job EXCEPT ![t].cur = "interrupted"]
  /\ w' = [w EXCEPT !.pc = "resume", !.task = t]
  /\ UNCHANGED <<coordVars, tstate, interactive, retry, work, ahead, streak>>

\* executor.Recover creates, or finds, the resumed attempt under its stable ID.
RecoverResume ==
  /\ w.pc = "resume"
  /\ job' = [job EXCEPT ![w.task].next = "queued"]
  /\ w' = [w EXCEPT !.pc = "bind", !.tail = Queued]
  /\ UNCHANGED <<coordVars, tstate, interactive, retry, work, ahead, streak>>

\* The queue position and binding that RecoverSchedulerTask and
\* RequeueFailedSchedulerTask write.
Rebind(t) ==
  /\ tstate' = [tstate EXCEPT ![t] = "queued"]
  /\ job' = [job EXCEPT ![t] = [cur |-> "queued", next |-> "none"]]
  /\ PutAfter(t, w.tail)

\* RecoverSchedulerTask checks the lifecycle row again in its transaction; a
\* row that closed meanwhile leaves the task for a later cycle.
RecoverBind ==
  /\ w.pc = "bind"
  /\ IF Permits(lc, w.task)
       THEN Rebind(w.task)
       ELSE UNCHANGED <<tstate, job, ahead>>
  /\ w' = [w EXCEPT !.pc = "recover", !.todo = @ \ {w.task}, !.task = None,
                    !.tail = {}, !.raced = @ \ {w.task}]
  /\ UNCHANGED <<coordVars, interactive, retry, work, streak>>

\* A promotion since the task was listed makes the stamp too old, and the error
\* ends Run.
BindRaced ==
  /\ w.pc = "bind" /\ w.task \in w.raced
  /\ w' = At("dead")
  /\ Preflight(FALSE)
  /\ UNCHANGED <<lc, co, home, phase, taskVars>>

\* reconcileTerminalTarget: the target ended but its cycle was never committed.
ReconcileTerminal(t) ==
  /\ w.pc = "recover" /\ t \in w.todo
  /\ tstate[t] = "running" /\ job[t].cur \in {"succeeded", "failed"}
  /\ IF job[t].cur = "succeeded"
       THEN /\ tstate' = [tstate EXCEPT ![t] = "succeeded"]
            /\ UNCHANGED retry
       ELSE /\ tstate' = [tstate EXCEPT ![t] = "failed"]
            /\ \E transient \in BOOLEAN :
                 retry' = [retry EXCEPT ![t] = Mutated(t, transient)]
  /\ streak' = NextStreak(t)
  /\ w' = [w EXCEPT !.todo = @ \ {t}, !.raced = @ \ {t}]
  /\ UNCHANGED <<coordVars, interactive, job, work, ahead>>

Due == {t \in Tasks : tstate[t] = "failed" /\ retry[t].disp = "due" /\ Permits(lc, t)}

\* Recovery is over.  At startup the coordinator returns; Run goes on to its
\* first burst; a cycle reads the row again and lists the retries that are due.
RecoverDone ==
  /\ w.pc = "recover" /\ w.todo = {}
  /\ CASE w.mode = "startup" -> w' = At("off") /\ phase' = "up" /\ Preflight(FALSE)
       [] w.mode = "boot"    -> w' = At("idle") /\ phase' = phase /\ Preflight(FALSE)
       [] w.mode = "cycle"   -> /\ w' = [At("retry") EXCEPT !.todo = Due]
                                /\ UNCHANGED <<phase, act>>
  /\ UNCHANGED <<lc, co, home, taskVars>>

-------------------------------------------------------------------------------
(* Due retries. *)

\* The clock passes next_retry_at_ms.
RetryDue(t) ==
  /\ retry[t].disp = "waiting"
  /\ retry' = [retry EXCEPT ![t].disp = "due"]
  /\ UNCHANGED <<coordVars, tstate, interactive, job, work, ahead, streak, w>>

\* executor.Retry accepts a failed attempt, or for a bootstrap the resumed
\* attempt that an earlier, interrupted retry created.
Retryable(t) == \/ job[t].cur = "failed"
                \/ Lane[t] = "backfill" /\ job[t].next = "queued"

RetryTarget(t) ==
  /\ w.pc = "retry" /\ t \in w.todo
  /\ Retryable(t)
  /\ job' = [job EXCEPT ![t].next = "queued"]
  /\ w' = [At("requeue") EXCEPT !.task = t, !.tail = Queued]
  /\ UNCHANGED <<coordVars, tstate, interactive, retry, work, ahead, streak>>

\* An error of executor.Retry ends the cycle, and Run with it.
RetryRefused(t) ==
  /\ w.pc = "retry" /\ t \in w.todo
  /\ ~Retryable(t)
  /\ w' = At("dead")
  /\ Preflight(FALSE)
  /\ UNCHANGED <<lc, co, home, phase, taskVars>>

\* Variant of Requeue that leaves the retry fact unresolved.
RequeueUnresolved ==
  /\ w.pc = "requeue"
  /\ IF Permits(lc, w.task) THEN Rebind(w.task) ELSE UNCHANGED <<tstate, job, ahead>>
  /\ w' = At("select")
  /\ Preflight(FALSE)
  /\ UNCHANGED <<lc, co, home, phase, interactive, retry, work, streak>>

\* RequeueFailedSchedulerTask: rebind and resolve in one transaction, fenced
\* by the row as it is now.
Requeue ==
  /\ w.pc = "requeue"
  /\ IF Permits(lc, w.task)
       THEN /\ Rebind(w.task)
            /\ retry' = [retry EXCEPT ![w.task].disp = "resolved"]
       ELSE UNCHANGED <<tstate, job, ahead, retry>>
  /\ w' = At("select")
  /\ Preflight(FALSE)
  /\ UNCHANGED <<lc, co, home, phase, interactive, work, streak>>

RetryNone ==
  /\ w.pc = "retry" /\ w.todo = {}
  /\ w' = At("select")
  /\ Preflight(FALSE)
  /\ UNCHANGED <<lc, co, home, phase, taskVars>>
-------------------------------------------------------------------------------
(* One cycle. *)

Runnable(l) == {t \in Queued : Lane[t] = l /\ Permits(lc, t)}
Oldest(l) == {t \in Runnable(l) : ahead[t] \cap Runnable(l) = {}}

\* selectQueueSnapshot: live first, unless the last MaxLiveBurst cycles were
\* all live and backfill waits.
Candidates ==
  IF Runnable("backfill") = {} \/ (Runnable("live") # {} /\ streak < MaxLiveBurst)
    THEN Oldest("live") ELSE Oldest("backfill")

Select(t) ==
  /\ w.pc = "select" /\ t \in Candidates
  /\ w' = [At("begin") EXCEPT !.task = t]
  /\ UNCHANGED <<coordVars, taskVars>>

SelectEmpty ==
  /\ w.pc = "select" /\ Candidates = {}
  /\ w' = At("idle")
  /\ UNCHANGED <<coordVars, taskVars>>

\* setActivity: from here Drain waits for the task.
Begin ==
  /\ w.pc = "begin"
  /\ act' = [act EXCEPT !.task = w.task]
  /\ w' = [w EXCEPT !.pc = "claim"]
  /\ UNCHANGED <<lc, co, home, phase, taskVars>>

\* Variant of Claimable that forgets the other running tasks.
ClaimableBeside(t) == tstate[t] = "queued" /\ Permits(lc, t)

\* ClaimSchedulerTask: queued, permitted by the row as it is now, and nobody
\* else running; a promotion after the selection may make the stamp too old.
Claimable(t) ==
  /\ tstate[t] = "queued"
  /\ Permits(lc, t)
  /\ \A u \in Tasks \ {t} : tstate[u] # "running"

Claim ==
  /\ w.pc = "claim" /\ Claimable(w.task)
  /\ tstate' = [tstate EXCEPT ![w.task] = "running"]
  /\ ahead' = Dequeued(w.task)
  /\ w' = [w EXCEPT !.pc = "run", !.raced = {}]
  /\ UNCHANGED <<coordVars, interactive, job, retry, work, streak>>

ClaimRefused ==
  /\ w.pc = "claim"
  /\ ~Claimable(w.task) \/ w.task \in w.raced
  /\ w' = At("idle")
  /\ act' = [act EXCEPT !.task = None]
  /\ UNCHANGED <<lc, co, home, phase, taskVars>>

Finish(out) == w' = [w EXCEPT !.pc = "post", !.out = out]

\* ExecuteSlice: a queued attempt is promoted to running first.
SlicePromote ==
  /\ w.pc = "run" /\ job[w.task].cur = "queued"
  /\ job' = [job EXCEPT ![w.task].cur = "running"]
  /\ UNCHANGED <<coordVars, tstate, interactive, retry, work, ahead, streak, w>>

\* Variant of SliceYields that reports progress past the end.
SliceOverruns ==
  /\ w.pc = "run" /\ job[w.task].cur = "running"
  /\ work' = [work EXCEPT ![w.task] = @ - 1]
  /\ Finish("yielded")
  /\ UNCHANGED <<coordVars, tstate, interactive, job, retry, ahead, streak>>

SliceYields ==
  /\ w.pc = "run" /\ job[w.task].cur = "running" /\ work[w.task] > 0
  /\ work' = [work EXCEPT ![w.task] = @ - 1]
  /\ Finish("yielded")
  /\ UNCHANGED <<coordVars, tstate, interactive, job, retry, ahead, streak>>

SliceCompletes ==
  /\ w.pc = "run" /\ job[w.task].cur = "running" /\ work[w.task] = 0
  /\ job' = [job EXCEPT ![w.task].cur = "succeeded"]
  /\ Finish("completed")
  /\ UNCHANGED <<coordVars, tstate, interactive, retry, work, ahead, streak>>

\* The target records its failure before it returns the error.
SliceFails(out) ==
  /\ "sliceFault" \in Events
  /\ w.pc = "run" /\ job[w.task].cur = "running"
  /\ job' = [job EXCEPT ![w.task].cur = "failed"]
  /\ Finish(out)
  /\ UNCHANGED <<coordVars, tstate, interactive, retry, work, ahead, streak>>

\* The store fails while the target reads or writes its own attempt: the error
\* is returned and the attempt stays as it is, or has just succeeded.
SliceStoreFails ==
  /\ "storeFault" \in Events
  /\ w.pc = "run"
  /\ \/ UNCHANGED job
     \/ /\ job[w.task].cur = "running" /\ work[w.task] = 0
        /\ job' = [job EXCEPT ![w.task].cur = "succeeded"]
  /\ Finish("transient")
  /\ UNCHANGED <<coordVars, tstate, interactive, retry, work, ahead, streak>>

\* Cancellation or a panic: the attempt is interrupted.
SliceInterrupted ==
  /\ "sliceFault" \in Events
  /\ w.pc = "run"
  /\ job' = [job EXCEPT ![w.task].cur = "interrupted"]
  /\ Finish("interrupted")
  /\ UNCHANGED <<coordVars, tstate, interactive, retry, work, ahead, streak>>

\* Variant of SliceRejected that classifies the rejection as transient.
SliceRejectedTransient ==
  /\ "sliceFault" \in Events
  /\ w.pc = "run"
  /\ job' = [job EXCEPT ![w.task].cur = "interrupted"]
  /\ Finish("transient")
  /\ UNCHANGED <<coordVars, tstate, interactive, retry, work, ahead, streak>>

\* The slice has no headroom left or reports more than its budget: the attempt
\* is interrupted and the task fails for good.
SliceRejected ==
  /\ "sliceFault" \in Events
  /\ w.pc = "run"
  /\ job' = [job EXCEPT ![w.task].cur = "interrupted"]
  /\ Finish("permanent")
  /\ UNCHANGED <<coordVars, tstate, interactive, retry, work, ahead, streak>>

\* System pressure: the claimed task is put back without a slice.
SliceBlocked ==
  /\ "pressure" \in Events
  /\ w.pc = "run"
  /\ Finish("yielded")
  /\ UNCHANGED <<coordVars, taskVars>>

\* The queue snapshot after the slice covers only the tasks the row permits, so
\* a task whose lane was closed meanwhile need not end up last in it.
PostSnapshot ==
  /\ w.pc = "post"
  /\ w' = [w EXCEPT !.pc = "commit", !.tail = Runnable("live") \cup Runnable("backfill")]
  /\ UNCHANGED <<coordVars, taskVars>>

\* CommitSchedulerCycle: task, retry fact and cycle row in one transaction.
CommitWrite(t, out) ==
  /\ tstate[t] = "running"
  /\ tstate' = [tstate EXCEPT ![t] =
       CASE out = "yielded"     -> "queued"
         [] out = "completed"   -> "succeeded"
         [] out = "interrupted" -> "interrupted"
         [] OTHER               -> "failed"]
  /\ IF out \in {"transient", "permanent"}
       THEN retry' = [retry EXCEPT ![t] = Mutated(t, out = "transient")]
       ELSE UNCHANGED retry
  /\ IF out = "yielded" THEN PutAfter(t, w.tail) ELSE UNCHANGED ahead
  /\ streak' = NextStreak(t)
  /\ UNCHANGED <<interactive, job, work>>

\* A panic or a cancellation is returned to Run, which stops.
AfterCommit ==
  /\ w' = At(IF w.out = "interrupted" THEN "dead" ELSE "idle")
  /\ act' = [act EXCEPT !.task = None]
  /\ UNCHANGED <<lc, co, home, phase>>

Commit ==
  /\ w.pc = "commit"
  /\ CommitWrite(w.task, w.out)
  /\ AfterCommit

\* A promotion during the slice made the commit stamp too old: the stamp is
\* rebased on the row and on the whole queue.
CommitConflict ==
  /\ w.pc = "commit" /\ w.task \in w.raced
  /\ w' = [w EXCEPT !.pc = "recommit", !.tail = Queued, !.raced = {}]
  /\ UNCHANGED <<coordVars, taskVars>>

Recommit ==
  /\ w.pc = "recommit"
  /\ CommitWrite(w.task, w.out)
  /\ AfterCommit

\* Any other error, a failed read or write, or cancellation ends Run.
WorkerFault ==
  /\ "fault" \in Events
  /\ phase = "up" /\ w.pc \notin {"off", "idle", "dead"}
  /\ w' = At("dead")
  /\ act' = [preflight |-> FALSE, task |-> None]
  /\ UNCHANGED <<lc, co, home, phase, taskVars>>
-------------------------------------------------------------------------------
(* The process. *)

Crash ==
  /\ "crash" \in Events
  /\ phase # "down"
  /\ CoordCrash
  /\ w' = At("off")
  /\ UNCHANGED taskVars

Restart == CoordRestart /\ UNCHANGED <<taskVars, w>>

CoordinatorCommand ==
  \/ Pause("backfill") \/ Pause("all") \/ Resume \/ Sleep \/ Wake
  \/ SourceUp \/ SourceDown \/ HomeChanged

Plans == SUBSET {t \in LiveTasks : Gen[t] = lc.gen}

CoordinatorStep ==
  \/ DrainReturns \/ DrainComplete \/ Rebound \/ ReboundReconcile
  \/ \E ok \in ProbeOutcomes : Confirm(ok) \/ \E plan \in Plans : Probe(plan, ok)
  \/ Complete \/ Block \/ StartupWake \/ StartupHandoff

Environment ==
  \E g \in Generations : HomeCommitted(g)

ScanStep ==
  \/ \E t \in Tasks : StartLive(t) \/ EnqueueLive(t) \/ EnqueueKnown(t) \/ EnqueueFull(t)
  \/ ScanDone

Admission ==
  \E t \in Tasks : StartBackfill(t) \/ EnqueueBackfill(t) \/ FileChanges(t) \/ Promote(t)

RecoveryStep ==
  \/ StartupRecover \/ RecoverResume \/ RecoverBind \/ BindRaced \/ RecoverDone
  \/ \E t \in Tasks : RecoverInterrupt(t) \/ ReconcileTerminal(t)

RetryStep ==
  \/ Requeue \/ RetryNone
  \/ \E t \in Tasks : RetryTarget(t) \/ RetryRefused(t)

SliceProgress == SlicePromote \/ SliceYields \/ SliceCompletes

SliceTrouble ==
  \/ \E out \in {"transient", "permanent"} : SliceFails(out)
  \/ SliceStoreFails \/ SliceInterrupted \/ SliceRejected \/ SliceBlocked

CycleStep ==
  \/ WorkerStart \/ CycleStart
  \/ \E t \in Tasks : Select(t)
  \/ SelectEmpty \/ Begin \/ Claim \/ ClaimRefused
  \/ PostSnapshot \/ Commit \/ CommitConflict \/ Recommit

WorkerStep == RecoveryStep \/ RetryStep \/ CycleStep \/ SliceProgress

Next ==
  \/ (CoordinatorCommand \/ CoordinatorStep \/ Abandon \/ Environment)
       /\ UNCHANGED <<taskVars, w>>
  \/ ScanStep \/ Admission
  \/ WorkerStep \/ SliceTrouble
  \/ \E t \in Tasks : RetryDue(t)
  \/ WorkerFault \/ Crash \/ Restart

Init ==
  /\ CoordInit
  /\ tstate = [t \in Tasks |-> "none"]
  /\ interactive = [t \in Tasks |-> FALSE]
  /\ job = [t \in Tasks |-> [cur |-> "none", next |-> "none"]]
  /\ retry = [t \in Tasks |-> [disp |-> "none", fails |-> 0]]
  /\ work = [t \in Tasks |-> Slices]
  /\ ahead = [t \in Tasks |-> {}]
  /\ streak = 0
  /\ w = At("off")

Spec == Init /\ [][Next]_vars

\* The worker goroutine keeps running (cron fires every second while Run is
\* alive), and the clock passes every due time.  Nothing is assumed of commands,
\* faults, crashes or of the user restarting the process.
FairSpec == Spec /\ WF_vars(WorkerStep) /\ \A t \in Tasks : WF_vars(RetryDue(t))
-------------------------------------------------------------------------------
(* Properties. *)

WorkerRow == [pc: WorkerSteps, mode: Modes, task: Tasks \cup {None},
              todo: SUBSET Tasks, out: Outcomes, tail: SUBSET Tasks,
              raced: SUBSET Tasks]

AttemptRow == [cur: JobStates, next: {"none", "queued"}]
RetryRow == [disp: Dispositions, fails: Nat]

TaskTypeOK ==
  /\ tstate \in [Tasks -> TaskStates]
  /\ interactive \in [Tasks -> BOOLEAN]
  /\ job \in [Tasks -> AttemptRow]
  /\ retry \in [Tasks -> RetryRow]
  /\ work \in [Tasks -> 0..Slices]
  /\ ahead \in [Tasks -> SUBSET Tasks]
  /\ streak \in 0..MaxLiveBurst
  /\ w \in WorkerRow

\* Every variable of the coordinator, the queue and the worker has its type.
TypeOK == CoordTypeOK /\ TaskTypeOK

InSlice == w.pc \in {"run", "post", "commit", "recommit"}
InRebind == w.pc \in {"resume", "bind", "requeue"}

\* A target of lane l is being executed, or about to be resumed or rebound.
Touching(scope) ==
  \/ (InSlice \/ InRebind) /\ (scope = "all" \/ Lane[w.task] = "backfill")
  \/ \E t \in w.todo : scope = "all" \/ Lane[t] = "backfill"

\* Service.Drain (service.go): when it returns, no slice of its scope runs and
\* no recovery or retry that started before the intent will still touch a
\* target of its scope.
DrainHonest == [][DrainReturns => ~Touching(DrainScope(co.cmd))]_vars

\* coordinator.go pause/sleep/homeChanged: between the return of Drain(all) and
\* the write that completes the command nothing starts to touch a target.
DrainedStaysQuiet == co.pc = "drained" => ~Touching("all")

\* worker.go, coordinator.go homeChanged: a slice, a resume or a rebind only
\* ever works for the Home generation that the lifecycle row carries.
NoForeignSlice == InSlice \/ InRebind => Gen[w.task] = lc.gen

\* ClaimSchedulerTask, CommitSchedulerCycle: whoever executes a slice owns the
\* only running row and is registered for Drain, so its commit cannot be lost.
SliceOwnsRow ==
  InSlice => /\ tstate[w.task] = "running"
             /\ act.task = w.task
             /\ \A u \in Tasks \ {w.task} : tstate[u] # "running"

\* The worker holds a task.
Holding == InSlice \/ InRebind \/ w.pc \in {"begin", "claim"}

\* Why the four properties above hold together.  The worker is registered while
\* it may touch a target (service.go preflightActive, activityTask), it holds
\* tasks of the row's generation only, an unfinished drain keeps the row closed
\* (coordinator.go), and one row at most is running (ClaimSchedulerTask).
Fenced ==
  /\ Holding => w.task \in Tasks
  /\ w.todo # {} => w.pc \in {"recover", "resume", "bind", "retry"}
  /\ w.pc \in {"recover", "resume", "bind", "retry", "requeue"} => act.preflight
  /\ InSlice \/ w.pc = "claim" => act.task = w.task
  /\ InSlice => tstate[w.task] = "running"
  /\ \A t, u \in Tasks : tstate[t] = "running" /\ tstate[u] = "running" => t = u
  /\ InSlice \/ InRebind => Gen[w.task] = lc.gen
  /\ \A t \in w.todo : Gen[t] = lc.gen
  /\ co.pc \in {"drain", "drained"} /\ co.cmd \in {"pauseAll", "sleep", "home"}
       => lc.trans = "draining"
  /\ co.pc = "drain" => co.cmd \notin {"startup", "reconcile"}
  /\ co.pc = "drained" => co.cmd \in {"pauseAll", "sleep", "home"} /\ ~Touching("all")

\* liveindex.resumeTerminal, bootstrap.Resume: a resumed attempt exists only
\* beside an attempt that has ended, so no two attempts of a target are live.
OneLiveAttempt ==
  \A t \in Tasks : job[t].next = "queued" => job[t].cur \in {"interrupted", "failed"}

\* scheduler_tasks against job_runs and scheduler_retry_states: a queued task
\* has a runnable attempt, an interrupted or succeeded task a target in that
\* state, and a task is failed exactly while its retry fact waits or is blocked.
TargetAgrees ==
  \A t \in Tasks :
    /\ tstate[t] = "queued" => job[t].cur \in {"queued", "running"} /\ job[t].next = "none"
    /\ tstate[t] = "interrupted" => job[t].cur = "interrupted"
    /\ tstate[t] = "succeeded" => job[t].cur = "succeeded"
    /\ tstate[t] = "failed" <=> retry[t].disp \in {"waiting", "due", "blocked"}

\* worker.go reconcileTerminalTarget: a target that succeeded is never executed
\* or resumed again, whatever crash hid its cycle.
SucceededIsFinal ==
  [][\A t \in Tasks : job[t].cur = "succeeded" =>
       job'[t].cur = "succeeded" \/ tstate[t] = "succeeded"]_vars

\* commitCycleWithReadback: the single rebase is enough, because a task is
\* promoted at most once.
RebaseOnce == w.pc = "recommit" => w.raced = {}

\* resumeDueRetryOwned: a retry that is due is accepted by its target.
RetryAccepted == w.pc = "retry" => \A t \in w.todo : Retryable(t)

\* retryMutation: the retry budget of a task is MaxAttempts; only a blocked
\* task has failed more often.
RetryBudget ==
  \A t \in Tasks : /\ retry[t].fails <= MaxAttempts + 1
                   /\ retry[t].fails > MaxAttempts => retry[t].disp = "blocked"

\* Run is alive in a running process.
WorkerAlive == phase = "up" /\ w.pc # "dead"

\* Nothing is left to do for a task.
Served(t) == \/ tstate[t] \in {"none", "succeeded"}
             \/ tstate[t] = "failed" /\ retry[t].disp = "blocked"

\* selector.go, worker.go: while Run is alive and the row permits every admitted
\* task, each of them is served in the end: queued, interrupted by a crash or
\* waiting for a retry.
EveryTaskServed ==
  \A t \in Tasks :
    []<>(Served(t) \/ ~WorkerAlive
           \/ \E u \in Tasks : tstate[u] # "none" /\ ~Permits(lc, u))
===============================================================================
