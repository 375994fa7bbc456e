---------------------------- MODULE SchedulerProofs ----------------------------
(***************************************************************************)
(* Proofs about the scheduler and the lifecycle coordinator, for every set  *)
(* of tasks, lanes, generations and for every subset of the events.         *)
(***************************************************************************)
EXTENDS Scheduler, TLAPS

\* A leaf that names no prover is tried with SMT, then with Zenon.
USE SMTT(30), ZenonT(30)

\* The steps of the coordinator keep the types of its variables.
LEMMA CoordinatorTypes ==
  ASSUME TypeOK, CoordinatorCommand \/ CoordinatorStep \/ Abandon \/ Environment
  PROVE  CoordTypeOK'
<1> USE DEF TypeOK, CoordTypeOK
<1>1. CASE CoordinatorCommand
  <2> USE <1>1 DEF CoordinatorCommand, Accept, Pause, Resume, Sleep, Wake, SourceUp,
          SourceDown, HomeChanged, HomeChangedStep, ReconcileIntent
  <2>1. lc' \in LifecycleRow
    BY Zenon DEF LifecycleRow
  <2>2. co' \in CommandRow
    BY DEF CommandRow, LifecycleRow, Steps, Commands, Run
  <2> QED BY <2>1, <2>2
<1>2. CASE CoordinatorStep
  <2> USE DEF CommandRow, LifecycleRow, Steps, Commands, Idle, Run, Settled
  <2>1. CASE \E ok \in ProbeOutcomes, plan \in Plans : Probe(plan, ok)
    BY <2>1, Zenon DEF Probe, Plans
  <2>2. CASE \E ok \in ProbeOutcomes : Confirm(ok)
    BY <2>2 DEF Confirm
  <2>3. CASE DrainReturns
    BY <2>3 DEF DrainReturns
  <2>4. CASE DrainComplete
    BY <2>4 DEF DrainComplete
  <2>5. CASE Rebound
    <3>1. lc' \in LifecycleRow
      BY <2>5, Zenon DEF Rebound
    <3>2. co' \in CommandRow /\ phase' \in {"down", "starting", "recovering", "up"}
      BY <2>5 DEF Rebound
    <3> QED BY <2>5, <3>1, <3>2 DEF Rebound
  <2>6. CASE ReboundReconcile \/ StartupWake
    <3>1. lc' \in LifecycleRow
      BY <2>6, Zenon DEF ReboundReconcile, StartupWake, ReconcileIntent
    <3>2. co' \in CommandRow
      BY <2>6 DEF ReboundReconcile, StartupWake, ReconcileIntent
    <3> QED BY <2>6, <3>1, <3>2, Zenon DEF ReboundReconcile, StartupWake
  <2>7. CASE Complete \/ Block
    <3>1. lc' \in LifecycleRow
      BY <2>7, Zenon DEF Complete, Block
    <3>2. co' \in CommandRow /\ phase' \in {"down", "starting", "recovering", "up"}
      BY <2>7 DEF Complete, Block
    <3> QED BY <2>7, <3>1, <3>2 DEF Complete, Block
  <2>8. CASE StartupHandoff
    <3>1. lc' \in LifecycleRow
      BY <2>8, Zenon DEF StartupHandoff, HomeChangedStep, ReconcileIntent
    <3>2. co' \in CommandRow
      BY <2>8 DEF StartupHandoff, HomeChangedStep, ReconcileIntent
    <3> QED BY <2>8, <3>1, <3>2 DEF StartupHandoff
  <2> QED BY <1>2, <2>1, <2>2, <2>3, <2>4, <2>5, <2>6, <2>7, <2>8 DEF CoordinatorStep
<1>3. CASE Abandon
  BY <1>3 DEF Abandon, Idle, CommandRow, LifecycleRow, Steps, Commands
<1>4. CASE Environment
  BY <1>4 DEF Environment, HomeCommitted
<1> QED BY <1>1, <1>2, <1>3, <1>4

\* The admission of a scan plan keeps the types.
LEMMA ScanTypes ==
  ASSUME TypeOK, ScanStep
  PROVE  TypeOK'
<1> USE DEF TypeOK, CoordTypeOK, TaskTypeOK, ScanStep, StartLive, EnqueueLive, EnqueueKnown,
        EnqueueFull, ScanDone, Enqueue
<1>1. co' \in CommandRow
  BY DEF CommandRow, Steps, coordVars
<1>2. tstate' \in [Tasks -> TaskStates]
  BY DEF TaskStates, taskVars
<1>3. interactive' \in [Tasks -> BOOLEAN]
  BY Zenon DEF taskVars
<1>4. job' \in [Tasks -> AttemptRow]
  BY DEF AttemptRow, JobStates, taskVars
<1>5. ahead' \in [Tasks -> SUBSET Tasks]
  BY DEF PutBehind, Prefixes, Queued, taskVars
<1> QED BY <1>1, <1>2, <1>3, <1>4, <1>5 DEF coordVars, taskVars

\* So do bootstrap admission, a changed file and a promotion.
LEMMA AdmissionTypes ==
  ASSUME TypeOK, Admission
  PROVE  TypeOK'
<1> USE SchedulerConstants DEF TypeOK, CoordTypeOK, TaskTypeOK, Admission, StartBackfill, EnqueueBackfill,
        FileChanges, Promote, Enqueue
<1>1. tstate' \in [Tasks -> TaskStates]
  BY DEF TaskStates
<1>2. interactive' \in [Tasks -> BOOLEAN]
  BY Zenon
<1>3. job' \in [Tasks -> AttemptRow]
  BY DEF AttemptRow, JobStates
<1>4. ahead' \in [Tasks -> SUBSET Tasks]
  BY DEF PutBehind, Prefixes, Queued
<1>5. retry' \in [Tasks -> RetryRow]
  BY DEF RetryRow, Dispositions
<1>6. work' \in [Tasks -> 0..Slices]
  OBVIOUS
<1>7. w' \in WorkerRow
  BY DEF WorkerRow
<1> QED BY <1>1, <1>2, <1>3, <1>4, <1>5, <1>6, <1>7 DEF coordVars

-------------------------------------------------------------------------------
(* The rows the worker writes. *)

\* A worker that lets go of everything is a worker.
LEMMA AtType ==
  ASSUME NEW pc \in WorkerSteps
  PROVE  At(pc) \in WorkerRow
BY DEF At, WorkerRow, Modes, Outcomes

\* So is one that starts a recovery, or lists due retries.
LEMMA TodoType ==
  ASSUME NEW pc \in WorkerSteps, NEW mode \in Modes, NEW todo \in SUBSET Tasks
  PROVE  /\ [At(pc) EXCEPT !.mode = mode, !.todo = todo] \in WorkerRow
         /\ [At(pc) EXCEPT !.todo = todo] \in WorkerRow
BY AtType, Zenon DEF At, WorkerRow, Modes, Outcomes

\* Joining the queue keeps the order's type.
LEMMA PutAfterType ==
  ASSUME TypeOK, NEW t \in Tasks, NEW known, PutAfter(t, known)
  PROVE  ahead' \in [Tasks -> SUBSET Tasks]
BY DEF PutAfter, PutBehind, Prefixes, Queued, TypeOK, TaskTypeOK

\* A failure is a retry fact.
LEMMA MutatedType ==
  ASSUME TypeOK, NEW t \in Tasks, NEW transient \in BOOLEAN
  PROVE  Mutated(t, transient) \in RetryRow
BY DEF Mutated, RetryRow, Dispositions, TypeOK, TaskTypeOK

\* Registering a preflight keeps the type of the activity.
LEMMA PreflightType ==
  ASSUME TypeOK, NEW b \in BOOLEAN, Preflight(b)
  PROVE  act' \in Activity
BY DEF Preflight, Activity, TypeOK, CoordTypeOK

\* The task the worker holds is a task, so its rows may be written.
LEMMA RecoveryTypes ==
  ASSUME TypeOK, Fenced, RecoveryStep
  PROVE  TypeOK'
<1> USE DEF TypeOK, CoordTypeOK, TaskTypeOK
<1>1. CASE StartupRecover
  <2>1. Recovering("startup") \in WorkerRow
    BY TodoType, Zenon DEF Recovering, Recoverable, WorkerSteps, Modes
  <2>2. w' \in WorkerRow
    BY <1>1, <2>1, Zenon DEF StartupRecover
  <2>3. act' \in Activity
    BY <1>1, PreflightType, ZenonT(60) DEF StartupRecover
  <2> QED BY <1>1, <2>2, <2>3, Zenon DEF StartupRecover, taskVars
<1>2. CASE RecoverDone
  <2>1. At("off") \in WorkerRow /\ At("idle") \in WorkerRow /\ [At("retry") EXCEPT !.todo = Due] \in WorkerRow
    BY AtType, TodoType, Zenon DEF WorkerSteps, Due, Modes
  <2>2. w.mode \in {"startup", "boot", "cycle"}
    BY DEF WorkerRow, Modes
  <2>3. w' \in WorkerRow
    BY <1>2, <2>1, <2>2, Zenon DEF RecoverDone
  <2>4. act' \in Activity /\ phase' \in {"down", "starting", "recovering", "up"}
    BY <1>2, <2>2, PreflightType, Zenon DEF RecoverDone
  <2> QED BY <1>2, <2>3, <2>4 DEF RecoverDone, taskVars
<1>3. CASE BindRaced
  <2>1. w' \in WorkerRow
    BY <1>3, AtType DEF BindRaced, WorkerSteps, Modes
  <2>2. act' \in Activity
    BY <1>3, PreflightType, Zenon DEF BindRaced
  <2> QED BY <1>3, <2>1, <2>2 DEF BindRaced, taskVars
<1>4. CASE \E t \in Tasks : RecoverInterrupt(t)
  <2>1. job' \in [Tasks -> AttemptRow]
    BY <1>4 DEF RecoverInterrupt, AttemptRow, JobStates
  <2>2. w' \in WorkerRow
    BY <1>4, ZenonT(60) DEF RecoverInterrupt, WorkerRow, WorkerSteps
  <2> QED BY <1>4, <2>1, <2>2 DEF RecoverInterrupt, coordVars
<1>5. CASE RecoverResume
  <2>1. job' \in [Tasks -> AttemptRow]
    BY <1>5, Zenon DEF RecoverResume, AttemptRow
  <2>2. w' \in WorkerRow
    BY <1>5, Zenon DEF RecoverResume, WorkerRow, WorkerSteps, Queued
  <2> QED BY <1>5, <2>1, <2>2 DEF RecoverResume, coordVars
<1>6. CASE RecoverBind
  <2> w.task \in Tasks
    BY <1>6 DEF RecoverBind, Fenced, Holding, InRebind
  <2>1. tstate' \in [Tasks -> TaskStates]
    BY <1>6 DEF RecoverBind, Rebind, TaskStates
  <2>2. job' \in [Tasks -> AttemptRow]
    BY <1>6 DEF RecoverBind, Rebind, AttemptRow, JobStates
  <2>3. ahead' \in [Tasks -> SUBSET Tasks]
    BY <1>6, PutAfterType DEF RecoverBind, Rebind
  <2>4. w' \in WorkerRow
    BY <1>6, Zenon DEF RecoverBind, WorkerRow, WorkerSteps
  <2> QED BY <1>6, <2>1, <2>2, <2>3, <2>4 DEF RecoverBind, coordVars
<1>7. ASSUME NEW t \in Tasks, ReconcileTerminal(t)
      PROVE  TypeOK'
  <2>1. tstate' \in [Tasks -> TaskStates]
    BY <1>7 DEF ReconcileTerminal, TaskStates
  <2>2. retry' \in [Tasks -> RetryRow]
    BY <1>7, MutatedType DEF ReconcileTerminal
  <2>3. streak' \in 0..MaxLiveBurst
    BY <1>7, SchedulerConstants DEF ReconcileTerminal, NextStreak
  <2>4. w' \in WorkerRow
    BY <1>7, Zenon DEF ReconcileTerminal, WorkerRow
  <2> QED BY <1>7, <2>1, <2>2, <2>3, <2>4 DEF ReconcileTerminal, coordVars
<1> QED BY RecoveryStep, <1>1, <1>2, <1>3, <1>4, <1>5, <1>6, <1>7 DEF RecoveryStep

\* Retrying a failed target keeps the types.
LEMMA RetryTypes ==
  ASSUME TypeOK, Fenced, RetryStep
  PROVE  TypeOK'
<1> USE DEF TypeOK, CoordTypeOK, TaskTypeOK
<1>1. CASE Requeue
  <2> w.task \in Tasks
    BY <1>1 DEF Requeue, Fenced, Holding, InRebind
  <2>1. tstate' \in [Tasks -> TaskStates]
    BY <1>1 DEF Requeue, Rebind, TaskStates
  <2>2. job' \in [Tasks -> AttemptRow]
    BY <1>1 DEF Requeue, Rebind, AttemptRow, JobStates
  <2>3. ahead' \in [Tasks -> SUBSET Tasks]
    BY <1>1, PutAfterType DEF Requeue, Rebind
  <2>4. retry' \in [Tasks -> RetryRow]
    BY <1>1 DEF Requeue, RetryRow, Dispositions
  <2>5. w' \in WorkerRow
    BY <1>1, AtType DEF Requeue, WorkerSteps, Modes
  <2>6. act' \in Activity
    BY <1>1, PreflightType, Zenon DEF Requeue
  <2> QED BY <1>1, <2>1, <2>2, <2>3, <2>4, <2>5, <2>6 DEF Requeue
<1>2. CASE RetryNone \/ \E t \in Tasks : RetryRefused(t)
  <2>1. w' \in WorkerRow
    BY <1>2, AtType, Zenon DEF RetryNone, RetryRefused, WorkerSteps, Modes
  <2>2. act' \in Activity
    BY <1>2, PreflightType, Zenon DEF RetryNone, RetryRefused
  <2> QED BY <1>2, <2>1, <2>2, Zenon DEF RetryNone, RetryRefused, taskVars
<1>3. ASSUME NEW t \in Tasks, RetryTarget(t)
      PROVE  TypeOK'
  <2>1. job' \in [Tasks -> AttemptRow]
    BY <1>3 DEF RetryTarget, AttemptRow
  <2>2. At("requeue") \in WorkerRow
    BY AtType DEF WorkerSteps
  <2>3. w' \in WorkerRow
    BY <1>3, <2>2, Zenon DEF RetryTarget, WorkerRow, Queued
  <2> QED BY <1>3, <2>1, <2>3 DEF RetryTarget, coordVars
<1> QED BY <1>1, <1>2, <1>3 DEF RetryStep

\* Selection, claim and commit keep the types.
LEMMA CycleTypes ==
  ASSUME TypeOK, Fenced, CycleStep
  PROVE  TypeOK'
<1> USE DEF TypeOK, CoordTypeOK, TaskTypeOK
<1>1. CASE WorkerStart \/ CycleStart
  <2>1. Recovering("boot") \in WorkerRow /\ Recovering("cycle") \in WorkerRow
    BY TodoType, Zenon DEF Recovering, Recoverable, WorkerSteps, Modes
  <2>2. act' \in Activity
    BY <1>1, PreflightType, Zenon DEF WorkerStart, CycleStart
  <2> QED BY <1>1, <2>1, <2>2, Zenon DEF WorkerStart, CycleStart, taskVars
<1>2. CASE SelectEmpty \/ \E t \in Tasks : Select(t)
  <2>1. At("begin") \in WorkerRow /\ At("idle") \in WorkerRow
    BY AtType DEF WorkerSteps
  <2>2. w' \in WorkerRow
    BY <1>2, <2>1 DEF SelectEmpty, Select, WorkerRow
  <2> QED BY <1>2, <2>2 DEF SelectEmpty, Select, taskVars, coordVars
<1>3. CASE Begin
  <2>1. w' \in WorkerRow
    BY <1>3 DEF Begin, WorkerRow, WorkerSteps
  <2>2. act' \in Activity
    BY <1>3 DEF Begin, WorkerRow, Activity
  <2> QED BY <1>3, <2>1, <2>2 DEF Begin, taskVars
<1>4. CASE Claim
  <2>1. tstate' \in [Tasks -> TaskStates]
    BY <1>4, Zenon DEF Claim, TaskStates
  <2>2. ahead' \in [Tasks -> SUBSET Tasks]
    BY <1>4 DEF Claim, Dequeued
  <2>3. w' \in WorkerRow
    BY <1>4, ZenonT(60) DEF Claim, WorkerRow, WorkerSteps
  <2> QED BY <1>4, <2>1, <2>2, <2>3 DEF Claim, coordVars
<1>5. CASE ClaimRefused
  <2>1. w' \in WorkerRow
    BY <1>5, AtType DEF ClaimRefused, WorkerSteps, Modes
  <2>2. act' \in Activity
    BY <1>5 DEF ClaimRefused, Activity
  <2> QED BY <1>5, <2>1, <2>2 DEF ClaimRefused, taskVars
<1>6. CASE PostSnapshot \/ CommitConflict
  <2>1. w' \in WorkerRow
    <3>1. CASE PostSnapshot
      BY <3>1, Zenon DEF PostSnapshot, WorkerRow, WorkerSteps, Queued, Runnable
    <3>2. CASE CommitConflict
      BY <3>2, Zenon DEF CommitConflict, WorkerRow, WorkerSteps, Queued
    <3> QED BY <1>6, <3>1, <3>2
  <2> QED BY <1>6, <2>1 DEF PostSnapshot, CommitConflict, coordVars, taskVars
<1>7. CASE Commit \/ Recommit
  <2>0. w.task \in Tasks /\ w.out \in Outcomes
    BY <1>7 DEF Commit, Recommit, Fenced, Holding, InSlice, WorkerRow
  <2>1. tstate' \in [Tasks -> TaskStates]
    BY <1>7, <2>0 DEF Commit, Recommit, CommitWrite, TaskStates, Outcomes
  <2>2. retry' \in [Tasks -> RetryRow]
    <3>1. Mutated(w.task, w.out = "transient") \in RetryRow
      BY <2>0, MutatedType, Zenon
    <3> QED BY <1>7, <2>0, <3>1 DEF Commit, Recommit, CommitWrite
  <2>3. ahead' \in [Tasks -> SUBSET Tasks]
    BY <1>7, <2>0, PutAfterType DEF Commit, Recommit, CommitWrite
  <2>4. streak' \in 0..MaxLiveBurst
    BY <1>7, SchedulerConstants DEF Commit, Recommit, CommitWrite, NextStreak
  <2>5. w' \in WorkerRow
    BY <1>7, AtType DEF Commit, Recommit, AfterCommit, WorkerSteps, Modes
  <2>6. act' \in Activity
    BY <1>7 DEF Commit, Recommit, AfterCommit, Activity
  <2> QED BY <1>7, <2>1, <2>2, <2>3, <2>4, <2>5, <2>6 DEF Commit, Recommit, CommitWrite, AfterCommit
<1> QED BY <1>1, <1>2, <1>3, <1>4, <1>5, <1>6, <1>7 DEF CycleStep

\* A slice keeps the types, however it ends.
LEMMA SliceTypes ==
  ASSUME TypeOK, Fenced, SliceProgress \/ SliceTrouble
  PROVE  TypeOK'
<1> USE DEF TypeOK, CoordTypeOK, TaskTypeOK
<1>0. w.pc = "run" => w.task \in Tasks
  BY DEF Fenced, Holding, InSlice
<1>1. CASE SliceProgress
  <2>1. job' \in [Tasks -> AttemptRow]
    BY <1>1 DEF SliceProgress, SlicePromote, SliceYields, SliceCompletes, AttemptRow, JobStates
  <2>2. work' \in [Tasks -> 0..Slices]
    BY <1>0, <1>1, SchedulerConstants DEF SliceProgress, SlicePromote, SliceYields, SliceCompletes
  <2>3. w' \in WorkerRow
    BY <1>1, ZenonT(60) DEF SliceProgress, SlicePromote, SliceYields, SliceCompletes, Finish, WorkerRow,
                WorkerSteps, Outcomes
  <2> QED BY <1>1, <2>1, <2>2, <2>3 DEF SliceProgress, SlicePromote, SliceYields, SliceCompletes,
                                        coordVars
<1>2. CASE SliceTrouble
  <2>1. job' \in [Tasks -> AttemptRow]
    <3> USE DEF AttemptRow, JobStates
    <3>1. CASE \E out \in {"transient", "permanent"} : SliceFails(out)
      BY <1>0, <3>1 DEF SliceFails
    <3>2. CASE SliceStoreFails
      BY <3>2 DEF SliceStoreFails
    <3>3. CASE SliceInterrupted \/ SliceRejected
      BY <1>0, <3>3 DEF SliceInterrupted, SliceRejected
    <3>4. CASE SliceBlocked
      BY <3>4 DEF SliceBlocked, taskVars
    <3> QED BY <1>2, <3>1, <3>2, <3>3, <3>4 DEF SliceTrouble
  <2>2. \E out \in Outcomes : Finish(out)
    BY <1>2 DEF SliceTrouble, SliceFails, SliceStoreFails, SliceInterrupted, SliceRejected,
                SliceBlocked, Outcomes
  <2>3. w' \in WorkerRow
    BY <2>2, Zenon DEF Finish, WorkerRow, WorkerSteps
  <2> QED BY <1>2, <2>1, <2>3 DEF SliceTrouble, SliceFails, SliceStoreFails, SliceInterrupted,
                                  SliceRejected, SliceBlocked, coordVars, taskVars
<1> QED BY <1>1, <1>2

\* Every step keeps the types.
LEMMA TypeStep ==
  ASSUME TypeOK, Fenced, [Next]_vars
  PROVE  TypeOK'
<1> USE DEF TypeOK
<1>1. CASE (CoordinatorCommand \/ CoordinatorStep \/ Abandon \/ Environment)
             /\ UNCHANGED <<taskVars, w>>
  BY <1>1, CoordinatorTypes DEF taskVars, TaskTypeOK
<1>2. CASE \E t \in Tasks : RetryDue(t)
  <2>1. retry' \in [Tasks -> RetryRow]
    BY <1>2 DEF RetryDue, TaskTypeOK, RetryRow, Dispositions
  <2> QED BY <1>2, <2>1 DEF RetryDue, TaskTypeOK, CoordTypeOK, coordVars
<1>3. CASE WorkerFault \/ Crash
  <2>1. w' \in WorkerRow
    BY <1>3, AtType DEF WorkerFault, Crash, WorkerSteps, Modes
  <2>2. act' = [preflight |-> FALSE, task |-> None]
    BY <1>3 DEF WorkerFault, Crash, CoordCrash
  <2>3. co' \in CommandRow
    BY <1>3 DEF WorkerFault, Crash, CoordCrash, CommandRow, Idle, CoordTypeOK, LifecycleRow,
                Steps, Commands
  <2>4. act' \in Activity
    BY <2>2 DEF Activity
  <2> QED BY <1>3, <2>1, <2>3, <2>4 DEF WorkerFault, Crash, CoordCrash, CoordTypeOK, TaskTypeOK,
                                        taskVars
<1>4. CASE Restart
  <2>1. co' \in CommandRow
    BY <1>4 DEF Restart, CoordRestart, CommandRow, Run, CoordTypeOK, LifecycleRow, Steps, Commands
  <2> QED BY <1>4, <2>1 DEF Restart, CoordRestart, CoordTypeOK, TaskTypeOK, taskVars
<1>5. CASE UNCHANGED vars
  BY <1>5 DEF vars, coordVars, taskVars, CoordTypeOK, TaskTypeOK
<1> QED BY <1>1, <1>2, <1>3, <1>4, <1>5, ScanTypes, AdmissionTypes, RecoveryTypes, RetryTypes,
           CycleTypes, SliceTypes DEF Next, WorkerStep
-------------------------------------------------------------------------------
(* The fence. *)

\* What the row permits is of its generation, and nothing is permitted while a
\* command drains.
LEMMA PermitsFact ==
  ASSUME NEW t \in Tasks, Permits(lc, t)
  PROVE  Gen[t] = lc.gen /\ lc.trans = "steady"
BY DEF Permits

\* Starting a recovery picks up tasks the row permits, under the preflight.
LEMMA RecoveringFenced ==
  ASSUME TypeOK, Fenced, NEW mode \in Modes, w' = Recovering(mode), Preflight(TRUE),
         ~Holding, UNCHANGED <<lc, co, tstate>>
  PROVE  Fenced'
<1> USE DEF Fenced, Holding, InSlice, InRebind, Touching
<1>1. /\ w'.pc = "recover" /\ w'.todo = Recoverable /\ w'.task = None
      /\ act'.preflight
  BY DEF Recovering, At, Preflight, TypeOK, CoordTypeOK, Activity
<1>2. \A t \in Recoverable : Gen[t] = lc.gen /\ lc.trans = "steady"
  BY PermitsFact DEF Recoverable
<1> QED BY <1>1, <1>2

\* So does listing the due retries.
LEMMA DueFenced ==
  ASSUME TypeOK, Fenced, w' = [At("retry") EXCEPT !.todo = Due], w.pc = "recover",
         UNCHANGED <<lc, co, act, tstate>>
  PROVE  Fenced'
<1> USE DEF Fenced, Holding, InSlice, InRebind, Touching
<1>1. w'.pc = "retry" /\ w'.todo = Due /\ w'.task = None
  BY DEF At
<1>2. \A t \in Due : Gen[t] = lc.gen /\ lc.trans = "steady"
  BY PermitsFact DEF Due
<1> QED BY <1>1, <1>2

\* A worker that lets go of everything keeps the fence.
LEMMA ReleaseFenced ==
  ASSUME TypeOK, Fenced, NEW pc \in {"off", "idle", "dead", "select"}, w' = At(pc),
         UNCHANGED <<lc, co, tstate>>
  PROVE  Fenced'
BY DEF Fenced, Holding, InSlice, InRebind, Touching, At

\* Nor does anything change while the slice goes on.
LEMMA SlicingFenced ==
  ASSUME TypeOK, Fenced, InSlice, InSlice', w'.task = w.task, w'.todo = w.todo,
         UNCHANGED <<lc, co, act, tstate>>
  PROVE  Fenced'
BY DEF Fenced, Holding, InSlice, InRebind, Touching

\* A scan only adds queued tasks, behind a closed row.
LEMMA ScanFenced ==
  ASSUME TypeOK, TypeOK', Fenced, ScanStep
  PROVE  Fenced'
<1> USE PermitsFact DEF Fenced, Holding, InSlice, InRebind, Touching, TypeOK, CoordTypeOK, TaskTypeOK,
        coordVars, taskVars, WorkerRow, Activity
<1>1. CASE \E t \in Tasks : StartLive(t)
  BY <1>1 DEF StartLive
<1>2. ASSUME NEW t \in Tasks, EnqueueLive(t)
      PROVE  Fenced'
  <2>1. /\ tstate' = [tstate EXCEPT ![t] = "queued"] /\ tstate[t] = "none"
        /\ co.pc = "scan" /\ co'.pc = "scan"
        /\ UNCHANGED <<lc, act, w>>
    BY <1>2 DEF EnqueueLive, Enqueue, CommandRow
  <2> QED BY <2>1
<1>3. CASE \E t \in Tasks : EnqueueKnown(t) \/ EnqueueFull(t)
  <2>1. /\ co.pc = "scan" /\ co'.pc \in {"scan", "block"}
        /\ UNCHANGED <<lc, act, w, tstate>>
    BY <1>3 DEF EnqueueKnown, EnqueueFull, CommandRow
  <2> QED BY <2>1
<1>4. CASE ScanDone
  BY <1>4 DEF ScanDone
<1> QED BY <1>1, <1>2, <1>3, <1>4 DEF ScanStep

\* Admission and promotion touch no running task.
LEMMA AdmissionFenced ==
  ASSUME TypeOK, TypeOK', Fenced, Admission
  PROVE  Fenced'
<1> USE PermitsFact DEF Fenced, Holding, InSlice, InRebind, Touching, TypeOK, CoordTypeOK, TaskTypeOK,
        coordVars, taskVars, WorkerRow, Activity
<1>1. CASE \E t \in Tasks : StartBackfill(t) \/ EnqueueBackfill(t)
  BY <1>1 DEF StartBackfill, EnqueueBackfill, Enqueue
<1>2. CASE \E t \in Tasks : FileChanges(t) \/ Promote(t)
  BY <1>2 DEF FileChanges, Promote
<1> QED BY <1>1, <1>2 DEF Admission

\* Recovery works under the preflight, for tasks its reading of the row permitted.
LEMMA RecoveryFenced ==
  ASSUME TypeOK, TypeOK', Fenced, RecoveryStep
  PROVE  Fenced'
<1> USE PermitsFact DEF Fenced, Holding, InSlice, InRebind, Touching, TypeOK, CoordTypeOK, TaskTypeOK,
        coordVars, taskVars, WorkerRow, Activity
<1>1. CASE StartupRecover
  <2>1. CASE w' = Recovering("startup") /\ Preflight(TRUE)
    BY <1>1, <2>1, RecoveringFenced, Zenon DEF StartupRecover, Modes
  <2>2. CASE UNCHANGED <<w, act>>
    BY <1>1, <2>2 DEF StartupRecover
  <2> QED BY <1>1, <2>1, <2>2, Zenon DEF StartupRecover
<1>2. CASE RecoverDone
  <2>1. CASE w.mode \in {"startup", "boot"}
    BY <1>2, <2>1, ReleaseFenced, Zenon DEF RecoverDone
  <2>2. CASE w.mode = "cycle"
    BY <1>2, <2>2, DueFenced DEF RecoverDone
  <2> QED BY <2>1, <2>2 DEF Modes
<1>3. CASE BindRaced
  BY <1>3 DEF BindRaced, At, Preflight
<1>4. CASE \E t \in Tasks : RecoverInterrupt(t)
  BY <1>4 DEF RecoverInterrupt
<1>5. CASE RecoverResume
  BY <1>5 DEF RecoverResume
<1>6. CASE RecoverBind
  BY <1>6 DEF RecoverBind, Rebind
<1>7. CASE \E t \in Tasks : ReconcileTerminal(t)
  BY <1>7 DEF ReconcileTerminal
<1> QED BY <1>1, <1>2, <1>3, <1>4, <1>5, <1>6, <1>7, ZenonT(60) DEF RecoveryStep

\* So does a due retry.
LEMMA RetryFenced ==
  ASSUME TypeOK, TypeOK', Fenced, RetryStep
  PROVE  Fenced'
<1> USE PermitsFact DEF Fenced, Holding, InSlice, InRebind, Touching, TypeOK, CoordTypeOK, TaskTypeOK,
        coordVars, taskVars, WorkerRow, Activity
<1>1. CASE Requeue
  BY <1>1 DEF Requeue, Rebind, At, Preflight
<1>2. CASE RetryNone \/ \E t \in Tasks : RetryRefused(t)
  BY <1>2 DEF RetryNone, RetryRefused, At, Preflight
<1>3. CASE \E t \in Tasks : RetryTarget(t)
  BY <1>3 DEF RetryTarget, At
<1> QED BY <1>1, <1>2, <1>3 DEF RetryStep

\* A cycle registers its task before the claim checks the row.
LEMMA CycleFenced ==
  ASSUME TypeOK, TypeOK', Fenced, CycleStep
  PROVE  Fenced'
<1> USE PermitsFact DEF Fenced, Holding, InSlice, InRebind, Touching, TypeOK, CoordTypeOK, TaskTypeOK,
        coordVars, taskVars, WorkerRow, Activity
<1>1. CASE WorkerStart \/ CycleStart
  BY <1>1, RecoveringFenced, Zenon DEF WorkerStart, CycleStart, Modes
<1>2. CASE SelectEmpty \/ \E t \in Tasks : Select(t)
  BY <1>2 DEF SelectEmpty, Select, At
<1>3. CASE Begin
  BY <1>3 DEF Begin
<1>4. CASE Claim
  BY <1>4 DEF Claim, Claimable
<1>5. CASE ClaimRefused
  BY <1>5 DEF ClaimRefused, At
<1>6. CASE PostSnapshot \/ CommitConflict
  <2>1. InSlice /\ InSlice' /\ w'.task = w.task /\ w'.todo = w.todo
    BY <1>6, ZenonT(60) DEF PostSnapshot, CommitConflict
  <2> QED BY <1>6, <2>1, SlicingFenced DEF PostSnapshot, CommitConflict
<1>7. CASE Commit \/ Recommit
  BY <1>7 DEF Commit, Recommit, CommitWrite, AfterCommit, At
<1> QED BY <1>1, <1>2, <1>3, <1>4, <1>5, <1>6, <1>7, ZenonT(60) DEF CycleStep

\* A slice changes neither the row nor the ownership.
LEMMA SliceFenced ==
  ASSUME TypeOK, TypeOK', Fenced, SliceProgress \/ SliceTrouble
  PROVE  Fenced'
<1> USE PermitsFact DEF Fenced, Holding, InSlice, InRebind, Touching, TypeOK, CoordTypeOK, TaskTypeOK,
        coordVars, taskVars, WorkerRow, Activity
<1>1. InSlice /\ InSlice' /\ w'.task = w.task /\ w'.todo = w.todo
  BY ZenonT(60) DEF SliceProgress, SlicePromote, SliceYields, SliceCompletes, SliceTrouble, SliceFails,
         SliceStoreFails, SliceInterrupted, SliceRejected, SliceBlocked, Finish
<1>2. UNCHANGED <<lc, co, act, tstate>>
  BY DEF SliceProgress, SlicePromote, SliceYields, SliceCompletes, SliceTrouble, SliceFails,
         SliceStoreFails, SliceInterrupted, SliceRejected, SliceBlocked
<1> QED BY <1>1, <1>2, SlicingFenced

\* A reconcile keeps the generation and starts with the probe.
LEMMA IntentFact ==
  ASSUME CoordTypeOK, NEW a, NEW b, NEW c, ReconcileIntent(a, b, c)
  PROVE  lc'.gen = lc.gen /\ co'.pc = "probe"
BY DEF ReconcileIntent, Run, CoordTypeOK, LifecycleRow

\* A Home change either reconciles or drains behind a closed row.
LEMMA HomeChangedFact ==
  ASSUME CoordTypeOK, HomeChangedStep
  PROVE  /\ lc'.gen = lc.gen
         /\ co'.pc = "probe" \/ (co'.pc = "drain" /\ co'.cmd = "home" /\ lc'.trans = "draining")
<1>1. CASE lc.gen = home
  BY <1>1, IntentFact, Zenon DEF HomeChangedStep
<1>2. CASE lc.gen # home
  BY <1>2, Zenon DEF HomeChangedStep, Run, CoordTypeOK, LifecycleRow
<1> QED BY <1>1, <1>2

\* The commands and steps of the coordinator keep the fence: a drain returns
\* only when nothing is registered, and only then the generation moves.
LEMMA CoordinatorFenced ==
  ASSUME TypeOK, Fenced, UNCHANGED <<taskVars, w>>,
         CoordinatorCommand \/ CoordinatorStep \/ Abandon \/ Environment
  PROVE  Fenced'
<1> USE DEF Fenced, Holding, InSlice, InRebind, Touching, taskVars
<1>1. CASE CoordinatorCommand
  <2>1. act' = act /\ co.pc = "idle"
    BY <1>1, Zenon DEF CoordinatorCommand, Accept, Pause, Resume, Sleep, Wake, SourceUp, SourceDown,
                HomeChanged
  <2>2. /\ lc'.gen = lc.gen /\ co'.pc # "drained"
        /\ co'.pc = "drain" => co'.cmd \notin {"startup", "reconcile"}
        /\ co'.pc = "drain" /\ co'.cmd \in {"pauseAll", "sleep", "home"} => lc'.trans = "draining"
    <3>1. CASE Pause("all") \/ Pause("backfill") \/ Sleep \/ SourceDown
      <4>1. CASE Pause("all") \/ Sleep
        <5>1. CASE Pause("all")
          <6>1. /\ lc'.gen = lc.gen /\ lc'.trans = "draining" /\ co'.pc = "drain"
                /\ co'.cmd \in {"pauseAll", "sleep"}
            BY <5>1 DEF Pause, Run, TypeOK, CoordTypeOK, LifecycleRow
          <6> QED BY <6>1
        <5>2. CASE Sleep
          <6>1. /\ lc'.gen = lc.gen /\ lc'.trans = "draining" /\ co'.pc = "drain"
                /\ co'.cmd \in {"pauseAll", "sleep"}
            BY <5>2 DEF Sleep, Run, TypeOK, CoordTypeOK, LifecycleRow
          <6> QED BY <6>1
        <5> QED BY <4>1, <5>1, <5>2
      <4>2. CASE Pause("backfill")
        <5>1. lc'.gen = lc.gen /\ co'.pc = "drain" /\ co'.cmd = "pauseBackfill"
          BY <4>2 DEF Pause, Run, TypeOK, CoordTypeOK, LifecycleRow
        <5> QED BY <5>1
      <4>3. CASE SourceDown
        <5>1. lc'.gen = lc.gen /\ co'.pc = "drain" /\ co'.cmd = "sourceDown"
          BY <4>3 DEF SourceDown, Run, TypeOK, CoordTypeOK, LifecycleRow
        <5> QED BY <5>1
      <4> QED BY <3>1, <4>1, <4>2, <4>3
    <3>2. CASE Wake \/ ((Resume \/ SourceUp) /\ lc.sys # "sleeping")
      <4>1. lc'.gen = lc.gen /\ co'.pc = "probe"
        BY <3>2, IntentFact, Zenon DEF Resume, Wake, SourceUp, TypeOK
      <4> QED BY <4>1
    <3>3. CASE (Resume \/ SourceUp) /\ lc.sys = "sleeping"
      BY <2>1, <3>3, Zenon DEF Resume, SourceUp, TypeOK, CoordTypeOK, LifecycleRow
    <3>4. CASE HomeChanged
      BY <3>4, HomeChangedFact DEF HomeChanged, TypeOK
    <3> QED BY <1>1, <3>1, <3>2, <3>3, <3>4 DEF CoordinatorCommand
  <2> QED BY <2>1, <2>2
<1>2. CASE DrainReturns
  <2>1. lc' = lc /\ act' = act
    BY <1>2 DEF DrainReturns
  <2>2. CASE co.cmd \in {"pauseBackfill", "sourceDown"}
    BY <1>2, <2>1, <2>2 DEF DrainReturns, Idle
  <2>3. CASE co.cmd \notin {"pauseBackfill", "sourceDown"}
    <3>1. co'.pc = "drained" /\ co'.cmd = co.cmd
      BY <1>2, <2>3 DEF DrainReturns, TypeOK, CoordTypeOK, CommandRow
    <3>2. ~act.preflight /\ act.task \notin Tasks
      BY <1>2, <2>3 DEF DrainReturns, Quiet, DrainScope
    <3>3. co.cmd \in {"pauseAll", "sleep", "home"}
      BY <1>2, <2>3 DEF DrainReturns, TypeOK, CoordTypeOK, CommandRow, Commands
    <3> QED BY <1>2, <2>1, <3>1, <3>2, <3>3 DEF DrainReturns
  <2> QED BY <2>2, <2>3
<1>3. CASE DrainComplete \/ Rebound
  BY <1>3 DEF DrainComplete, Rebound, Idle, TypeOK, CoordTypeOK, LifecycleRow, CommandRow
<1>4. CASE ReboundReconcile \/ StartupWake \/ StartupHandoff
  <2>1. /\ act' = act /\ lc'.gen = lc.gen
        /\ co'.pc = "probe" \/ (co'.pc = "drain" /\ co'.cmd = "home" /\ lc'.trans = "draining")
    <3>1. CASE ReboundReconcile \/ StartupWake
      BY <3>1, IntentFact, ZenonT(60) DEF ReboundReconcile, StartupWake, TypeOK
    <3>2. CASE StartupHandoff
      BY <3>2, HomeChangedFact DEF StartupHandoff, TypeOK
    <3> QED BY <1>4, <3>1, <3>2
  <2> QED BY <2>1
<1>5. CASE Complete \/ Block
  <2>1. act' = act /\ lc'.gen = lc.gen /\ co'.pc = "idle"
    <3>1. CASE Complete
      BY <3>1 DEF Complete, Idle, TypeOK, CoordTypeOK, LifecycleRow
    <3>2. CASE Block
      BY <3>2 DEF Block, Idle, TypeOK, CoordTypeOK, LifecycleRow
    <3> QED BY <1>5, <3>1, <3>2
  <2> QED BY <2>1
<1>6. CASE \E ok \in ProbeOutcomes : Confirm(ok) \/ \E plan \in Plans : Probe(plan, ok)
  BY <1>6, Zenon DEF Confirm, Probe, TypeOK, CoordTypeOK, CommandRow
<1>7. CASE Abandon
  BY <1>7 DEF Abandon, Idle
<1>8. CASE Environment
  BY <1>8 DEF Environment, HomeCommitted
<1> QED BY <1>1, <1>2, <1>3, <1>4, <1>5, <1>6, <1>7, <1>8 DEF CoordinatorStep

\* Every step keeps the fence.
LEMMA FencedStep ==
  ASSUME TypeOK, TypeOK', Fenced, [Next]_vars
  PROVE  Fenced'
<1>1. CASE \E t \in Tasks : RetryDue(t)
  BY <1>1 DEF RetryDue, Fenced, Holding, InSlice, InRebind, Touching, coordVars
<1>2. CASE WorkerFault
  BY <1>2, ReleaseFenced DEF WorkerFault, taskVars
<1>3. CASE Crash
  BY <1>3 DEF Crash, CoordCrash, Idle, At, taskVars, Fenced, Holding, InSlice, InRebind, Touching
<1>4. CASE Restart
  BY <1>4 DEF Restart, CoordRestart, Run, taskVars, Fenced, Holding, InSlice, InRebind, Touching
<1>5. CASE UNCHANGED vars
  BY <1>5 DEF vars, coordVars, taskVars, Fenced, Holding, InSlice, InRebind, Touching
<1> QED BY <1>1, <1>2, <1>3, <1>4, <1>5, CoordinatorFenced, ScanFenced, AdmissionFenced,
           RecoveryFenced, RetryFenced, CycleFenced, SliceFenced DEF Next, WorkerStep

\* The initial state is typed and fenced.
LEMMA InitFenced ==
  ASSUME Init
  PROVE  TypeOK /\ Fenced
<1> USE TaskConstants, SchedulerConstants
<1>1. CoordTypeOK
  BY DEF Init, CoordInit, InitRow, CoordTypeOK, LifecycleRow, CommandRow, Activity, Commands, Steps
<1>2. w \in WorkerRow
  BY DEF Init, At, WorkerRow, WorkerSteps, Modes, Outcomes
<1>3. TaskTypeOK
  BY <1>2 DEF Init, TaskTypeOK, TaskStates, AttemptRow, JobStates, RetryRow, Dispositions
<1>4. Fenced
  BY DEF Init, CoordInit, At, Fenced, Holding, InSlice, InRebind, Touching
<1> QED BY <1>1, <1>3, <1>4 DEF TypeOK

\* Types and fence, for every set of tasks, lanes, generations and bounds.
THEOREM FenceInvariant == Spec => [](TypeOK /\ Fenced)
<1>1. Init => TypeOK /\ Fenced
  BY InitFenced
<1>2. TypeOK /\ Fenced /\ [Next]_vars => (TypeOK /\ Fenced)'
  BY TypeStep, FencedStep
<1> QED BY <1>1, <1>2, PTL DEF Spec

\* The lifecycle row, the queue, the attempts and the worker keep their types.
THEOREM TypeCorrect == Spec => []TypeOK
BY FenceInvariant, PTL

\* The fence between worker and coordinator holds in every reachable state.
THEOREM FenceHolds == Spec => []Fenced
BY FenceInvariant, PTL

\* No slice, resume or rebind works for a Home the row has left.
THEOREM ForeignSliceFree == Spec => []NoForeignSlice
<1>1. Fenced => NoForeignSlice
  BY DEF Fenced, NoForeignSlice
<1> QED BY <1>1, FenceInvariant, PTL

\* The task in a slice owns the only running row and is registered for Drain.
THEOREM SliceOwnership == Spec => []SliceOwnsRow
<1>1. Fenced => SliceOwnsRow
  BY DEF Fenced, Holding, SliceOwnsRow
<1> QED BY <1>1, FenceInvariant, PTL

\* Between the return of Drain and the completing write nothing is touched.
THEOREM DrainedQuiet == Spec => []DrainedStaysQuiet
<1>1. Fenced => DrainedStaysQuiet
  BY DEF Fenced, DrainedStaysQuiet
<1> QED BY <1>1, FenceInvariant, PTL

\* When Drain returns, nothing of its scope is being executed or rebound.
THEOREM DrainIsHonest == Spec => DrainHonest
<1>1. TypeOK /\ Fenced /\ [Next]_vars => [DrainReturns => ~Touching(DrainScope(co.cmd))]_vars
  <2> SUFFICES ASSUME TypeOK, Fenced, DrainReturns
               PROVE  ~Touching(DrainScope(co.cmd))
    OBVIOUS
  <2>1. ~act.preflight /\ Quiet(DrainScope(co.cmd))
    BY DEF DrainReturns, Quiet
  <2>2. w.todo = {} /\ ~InRebind
    BY <2>1 DEF Fenced, InRebind
  <2>3. InSlice => w.task \in Tasks /\ act.task = w.task
    BY DEF Fenced, Holding
  <2>4. DrainScope(co.cmd) = "all" \/ DrainScope(co.cmd) = "backfill"
    BY DEF DrainScope
  <2> QED BY <2>1, <2>2, <2>3, <2>4 DEF Touching, Quiet
<1> QED BY <1>1, FenceInvariant, PTL DEF Spec, DrainHonest

-------------------------------------------------------------------------------
\* The rows of a task (scheduler_tasks, job_runs, scheduler_retry_states)
\* agree at every step of worker, coordinator and crash.

\* What the worker knows of the tasks it holds, between two transactions: a
\* task being recovered is still unfinished and, once executor.Recover ran, its
\* attempt interrupted; a retry concerns a failed task that is due; a claimed
\* task has one runnable attempt, and the outcome of its slice is what the
\* target recorded.
WorkerAgrees ==
  /\ ~Holding => w.task = None
  /\ w.pc \in {"recover", "resume", "bind"} =>
       \A t \in w.todo : tstate[t] \in {"running", "interrupted"}
  /\ w.pc \in {"resume", "bind"} =>
       w.task \in w.todo /\ job[w.task].cur = "interrupted"
  /\ w.pc = "retry" =>
       \A t \in w.todo : tstate[t] = "failed" /\ retry[t].disp = "due"
  /\ w.pc = "requeue" =>
       /\ tstate[w.task] = "failed" /\ retry[w.task].disp = "due"
       /\ job[w.task].next = "queued"
  /\ w.pc \in {"begin", "claim"} => tstate[w.task] = "queued"
  /\ w.pc = "run" => job[w.task].cur \in {"queued", "running"}
  /\ InSlice => job[w.task].next = "none"
  /\ w.pc \in {"post", "commit", "recommit"} =>
       /\ w.out # "none"
       /\ w.out = "yielded" => job[w.task].cur \in {"queued", "running"}
       /\ w.out = "completed" => job[w.task].cur = "succeeded"
       /\ w.out = "interrupted" => job[w.task].cur = "interrupted"

\* PromoteSchedulerTask runs once per task: a task whose stamp it moved under
\* the worker's hands is interactive, and still held.
RacedAgrees ==
  /\ \A t \in w.raced : t \in w.todo \cup {w.task} /\ interactive[t]
  /\ w.pc = "recommit" => w.raced = {} /\ interactive[w.task]

\* Without a store fault, a failure is recorded by the target before the worker
\* learns of it, so what waits for a retry is a failed attempt.
FailureRecorded ==
  "storeFault" \notin Events =>
    /\ \A t \in Tasks : retry[t].disp \in {"waiting", "due"} => job[t].cur = "failed"
    /\ w.pc \in {"post", "commit", "recommit"} /\ w.out = "transient" =>
         job[w.task].cur = "failed"

\* The inductive invariant, beside the types and the fence.
TaskInv ==
  /\ TargetAgrees /\ OneLiveAttempt /\ RetryBudget
  /\ WorkerAgrees /\ RacedAgrees /\ FailureRecorded

\* Whatever the worker holds is neither new nor finished, so neither admission
\* nor a changed file touches it.
LEMMA HeldTasks ==
  ASSUME TypeOK, Fenced, WorkerAgrees, NEW t \in w.todo \cup {w.task}, t # None
  PROVE  t \in Tasks /\ tstate[t] \notin {"none", "succeeded"}
<1> USE DEF TypeOK, TaskTypeOK, WorkerRow
<1>1. t \in Tasks
  OBVIOUS
<1>2. CASE t \in w.todo
  BY <1>1, <1>2 DEF Fenced, WorkerAgrees
<1>3. CASE t = w.task
  BY <1>1, <1>2, <1>3 DEF Fenced, WorkerAgrees, Holding, InSlice, InRebind
<1> QED BY <1>1, <1>2, <1>3

\* A step that changes only a task the worker does not hold.
LEMMA UnheldChanges ==
  ASSUME TypeOK, Fenced, WorkerAgrees, RacedAgrees, NEW t \in Tasks,
         tstate[t] \in {"none", "succeeded"}, w' = w,
         \A u \in Tasks \ {t} : /\ tstate'[u] = tstate[u] /\ job'[u] = job[u]
                                /\ retry'[u] = retry[u] /\ interactive'[u] = interactive[u]
  PROVE  WorkerAgrees' /\ RacedAgrees'
<1>1. \A u \in w.todo : u \in Tasks \ {t}
  BY HeldTasks, TaskConstants DEF TypeOK, TaskTypeOK, WorkerRow
<1>2. Holding => w.task \in Tasks \ {t}
  BY HeldTasks, TaskConstants DEF Fenced
<1>3. WorkerAgrees'
  BY <1>1, <1>2 DEF WorkerAgrees, Holding, InSlice, InRebind
<1>4. \A u \in w.raced : u \in Tasks \ {t}
  BY HeldTasks, TaskConstants DEF RacedAgrees, TypeOK, TaskTypeOK, WorkerRow
<1>5. RacedAgrees'
  BY <1>2, <1>4 DEF RacedAgrees, Holding, InSlice
<1> QED BY <1>3, <1>5

\* A worker that lets go of everything knows nothing and races with nobody.
LEMMA LetGo ==
  ASSUME NEW pc \in {"off", "idle", "dead", "select"}, w' = At(pc)
  PROVE  WorkerAgrees' /\ RacedAgrees'
BY DEF At, WorkerAgrees, RacedAgrees, Holding, InSlice, InRebind

\* Without a store fault, so it stays while rows and outcome do.
LEMMA RecordKept ==
  ASSUME FailureRecorded, UNCHANGED <<job, retry>>,
         w'.pc \notin {"post", "commit", "recommit"}
           \/ (w'.out = w.out /\ w'.task = w.task /\ w.pc \in {"post", "commit", "recommit"})
  PROVE  FailureRecorded'
BY DEF FailureRecorded

\* Rebinding gives the task one fresh attempt and leaves the others alone.
LEMMA RebindFact ==
  ASSUME TypeOK, NEW t \in Tasks, Rebind(t)
  PROVE  /\ tstate'[t] = "queued" /\ job'[t].cur = "queued" /\ job'[t].next = "none"
         /\ \A u \in Tasks \ {t} : tstate'[u] = tstate[u] /\ job'[u] = job[u]
BY DEF Rebind, TypeOK, TaskTypeOK

\* The failure of a task within its budget.
LEMMA MutatedFact ==
  ASSUME TypeOK, NEW t \in Tasks, NEW transient \in BOOLEAN, retry[t].fails <= MaxAttempts
  PROVE  /\ Mutated(t, transient).disp \in {"waiting", "blocked"}
         /\ Mutated(t, transient).disp = "waiting" => transient
         /\ Mutated(t, transient).fails <= MaxAttempts + 1
         /\ Mutated(t, transient).fails > MaxAttempts => Mutated(t, transient).disp = "blocked"
BY SchedulerConstants DEF Mutated, TypeOK, TaskTypeOK, RetryRow

\* The admission of a scan plan keeps the rows and the worker in agreement.
LEMMA ScanTasks ==
  ASSUME TypeOK, TypeOK', Fenced, TaskInv, ScanStep
  PROVE  TaskInv'
<1> USE SchedulerConstants DEF TaskInv, TypeOK, TaskTypeOK, WorkerRow, AttemptRow, RetryRow,
        coordVars, taskVars, InSlice, InRebind, Holding
<1>1. ASSUME NEW t \in Tasks, StartLive(t)
      PROVE  TaskInv'
  <2>1. WorkerAgrees'
    BY <1>1, HeldTasks
      DEF StartLive, Fenced, WorkerAgrees
  <2>2. FailureRecorded'
    BY <1>1, HeldTasks
      DEF StartLive, Fenced, FailureRecorded
  <2>3. (TargetAgrees /\ OneLiveAttempt /\ RetryBudget /\ RacedAgrees)'
    BY <1>1
      DEF StartLive, Fenced, TargetAgrees, OneLiveAttempt, RetryBudget, RacedAgrees
  <2> QED BY <2>1, <2>2, <2>3 DEF TaskInv
<1>2. ASSUME NEW t \in Tasks, EnqueueLive(t)
      PROVE  TaskInv'
  <2>1. TargetAgrees'
    BY <1>2
      DEF EnqueueLive, Enqueue, Fenced, TargetAgrees, OneLiveAttempt
  <2>2. /\ w' = w /\ tstate[t] = "none"
        /\ \A u \in Tasks \ {t} :
             /\ tstate'[u] = tstate[u] /\ job'[u] = job[u]
             /\ retry'[u] = retry[u] /\ interactive'[u] = interactive[u]
    BY <1>2 DEF EnqueueLive, Enqueue
  <2>3. WorkerAgrees' /\ RacedAgrees'
    BY <2>2, UnheldChanges
  <2>4. (OneLiveAttempt /\ RetryBudget /\ FailureRecorded)'
    BY <1>2
      DEF EnqueueLive, Enqueue, Fenced, OneLiveAttempt, RetryBudget, FailureRecorded
  <2> QED BY <2>1, <2>2, <2>3, <2>4 DEF TaskInv
<1>3. ASSUME NEW t \in Tasks, EnqueueKnown(t) \/ EnqueueFull(t)
      PROVE  TaskInv'
  <2>1. (TargetAgrees /\ OneLiveAttempt /\ RetryBudget /\ WorkerAgrees /\ RacedAgrees /\ FailureRecorded)'
    BY <1>3
      DEF EnqueueKnown, EnqueueFull, TargetAgrees, OneLiveAttempt, RetryBudget, WorkerAgrees,
          RacedAgrees, FailureRecorded
  <2> QED BY <2>1 DEF TaskInv
<1>4. ASSUME ScanDone
      PROVE  TaskInv'
  <2>1. (TargetAgrees /\ OneLiveAttempt /\ RetryBudget /\ WorkerAgrees /\ RacedAgrees /\ FailureRecorded)'
    BY <1>4
      DEF ScanDone, TargetAgrees, OneLiveAttempt, RetryBudget, WorkerAgrees, RacedAgrees,
          FailureRecorded
  <2> QED BY <2>1 DEF TaskInv
<1> QED BY <1>1, <1>2, <1>3, <1>4 DEF ScanStep

\* So do bootstrap admission, a changed file and a promotion.
LEMMA AdmissionTasks ==
  ASSUME TypeOK, TypeOK', Fenced, TaskInv, Admission
  PROVE  TaskInv'
<1> USE SchedulerConstants DEF TaskInv, TypeOK, TaskTypeOK, WorkerRow, AttemptRow, RetryRow,
        coordVars, taskVars, InSlice, InRebind, Holding
<1>1. ASSUME NEW t \in Tasks, StartBackfill(t)
      PROVE  TaskInv'
  <2>1. WorkerAgrees'
    BY <1>1, HeldTasks
      DEF StartBackfill, Fenced, WorkerAgrees
  <2>2. FailureRecorded'
    BY <1>1
      DEF StartBackfill, Fenced, FailureRecorded, WorkerAgrees
  <2>3. (TargetAgrees /\ OneLiveAttempt /\ RetryBudget /\ RacedAgrees)'
    BY <1>1
      DEF StartBackfill, Fenced, TargetAgrees, OneLiveAttempt, RetryBudget, RacedAgrees
  <2> QED BY <2>1, <2>2, <2>3 DEF TaskInv
<1>2. ASSUME NEW t \in Tasks, EnqueueBackfill(t)
      PROVE  TaskInv'
  <2>1. TargetAgrees'
    BY <1>2
      DEF EnqueueBackfill, Enqueue, Fenced, TargetAgrees, OneLiveAttempt
  <2>2. /\ w' = w /\ tstate[t] = "none"
        /\ \A u \in Tasks \ {t} :
             /\ tstate'[u] = tstate[u] /\ job'[u] = job[u]
             /\ retry'[u] = retry[u] /\ interactive'[u] = interactive[u]
    BY <1>2 DEF EnqueueBackfill, Enqueue
  <2>3. WorkerAgrees' /\ RacedAgrees'
    BY <2>2, UnheldChanges
  <2>4. (OneLiveAttempt /\ RetryBudget /\ FailureRecorded)'
    BY <1>2
      DEF EnqueueBackfill, Enqueue, Fenced, OneLiveAttempt, RetryBudget, FailureRecorded
  <2> QED BY <2>1, <2>2, <2>3, <2>4 DEF TaskInv
<1>3. ASSUME NEW t \in Tasks, FileChanges(t)
      PROVE  TaskInv'
  <2>1. /\ w' = w /\ tstate[t] = "succeeded"
        /\ \A u \in Tasks \ {t} :
             /\ tstate'[u] = tstate[u] /\ job'[u] = job[u]
             /\ retry'[u] = retry[u] /\ interactive'[u] = interactive[u]
    BY <1>3 DEF FileChanges
  <2>2. WorkerAgrees' /\ RacedAgrees'
    BY <2>1, UnheldChanges
  <2>3. FailureRecorded'
    BY <1>3, HeldTasks
      DEF FileChanges, Fenced, FailureRecorded
  <2>4. (TargetAgrees /\ OneLiveAttempt /\ RetryBudget)'
    BY <1>3
      DEF FileChanges, Fenced, TargetAgrees, OneLiveAttempt, RetryBudget
  <2> QED BY <2>1, <2>2, <2>3, <2>4 DEF TaskInv
<1>4. ASSUME NEW t \in Tasks, Promote(t)
      PROVE  TaskInv'
  <2>1. WorkerAgrees'
    BY <1>4
      DEF Promote, Fenced, WorkerAgrees
  <2>2. RacedAgrees'
    BY <1>4
      DEF Promote, Fenced, RacedAgrees
  <2>3. FailureRecorded'
    BY <1>4
      DEF Promote, Fenced, FailureRecorded
  <2>4. (TargetAgrees /\ OneLiveAttempt /\ RetryBudget)'
    BY <1>4
      DEF Promote, Fenced, TargetAgrees, OneLiveAttempt, RetryBudget
  <2> QED BY <2>1, <2>2, <2>3, <2>4 DEF TaskInv
<1> QED BY <1>1, <1>2, <1>3, <1>4 DEF Admission

\* So does recovery.
LEMMA RecoveryTasks ==
  ASSUME TypeOK, TypeOK', Fenced, TaskInv, RecoveryStep
  PROVE  TaskInv'
<1> USE SchedulerConstants DEF TaskInv, TypeOK, TaskTypeOK, WorkerRow, AttemptRow, RetryRow,
        coordVars, taskVars, InSlice, InRebind, Holding
<1>1. ASSUME StartupRecover
      PROVE  TaskInv'
  <2>1. (WorkerAgrees /\ RacedAgrees)'
    <3>1. CASE w' = Recovering("startup")
      <4>1. w'.pc = "recover" /\ w'.todo = Recoverable /\ w'.task = None /\ w'.raced = {}
        BY <3>1 DEF Recovering, At
      <4> QED BY <1>1, <4>1 DEF StartupRecover, Recoverable, WorkerAgrees, RacedAgrees
    <3>2. CASE UNCHANGED w
      BY <1>1, <3>2 DEF StartupRecover, WorkerAgrees, RacedAgrees
    <3> QED BY <1>1, <3>1, <3>2, Zenon DEF StartupRecover
  <2>2. FailureRecorded'
    <3>1. w'.pc = "recover" \/ UNCHANGED w
      BY <1>1, Zenon DEF StartupRecover, Recovering, At
    <3> QED BY <1>1, <3>1 DEF StartupRecover, FailureRecorded
  <2>3. (TargetAgrees /\ OneLiveAttempt /\ RetryBudget)'
    BY <1>1
      DEF StartupRecover, TargetAgrees, OneLiveAttempt, RetryBudget
  <2> QED BY <2>1, <2>2, <2>3 DEF TaskInv
<1>2. ASSUME RecoverResume
      PROVE  TaskInv'
  <2>1. TargetAgrees'
    BY <1>2
      DEF RecoverResume, Fenced, TargetAgrees, WorkerAgrees
  <2>2. OneLiveAttempt'
    BY <1>2
      DEF RecoverResume, Fenced, OneLiveAttempt, WorkerAgrees
  <2>3. (RetryBudget /\ WorkerAgrees /\ RacedAgrees /\ FailureRecorded)'
    BY <1>2
      DEF RecoverResume, Fenced, RetryBudget, WorkerAgrees, RacedAgrees, FailureRecorded
  <2> QED BY <2>1, <2>2, <2>3 DEF TaskInv
<1>3. ASSUME RecoverBind
      PROVE  TaskInv'
  <2>1. (TargetAgrees /\ OneLiveAttempt)'
    <3>1. CASE Permits(lc, w.task)
      <4>1. w.task \in Tasks /\ Rebind(w.task) /\ tstate[w.task] \in {"running", "interrupted"}
        BY <1>3, <3>1 DEF RecoverBind, Fenced, WorkerAgrees
      <4>2. UNCHANGED retry
        BY <1>3 DEF RecoverBind
      <4> QED BY <4>1, <4>2, RebindFact DEF TargetAgrees, OneLiveAttempt
    <3>2. CASE ~Permits(lc, w.task)
      BY <1>3, <3>2 DEF RecoverBind, TargetAgrees, OneLiveAttempt
    <3> QED BY <3>1, <3>2
  <2>2. WorkerAgrees'
    BY <1>3
      DEF RecoverBind, Rebind, Fenced, WorkerAgrees
  <2>3. FailureRecorded'
    <3>1. CASE Permits(lc, w.task)
      <4>1. w.task \in Tasks /\ Rebind(w.task) /\ tstate[w.task] \in {"running", "interrupted"}
        BY <1>3, <3>1 DEF RecoverBind, Fenced, WorkerAgrees
      <4>2. UNCHANGED retry /\ w'.pc = "recover"
        BY <1>3 DEF RecoverBind
      <4> QED BY <4>1, <4>2, RebindFact DEF TargetAgrees, FailureRecorded
    <3>2. CASE ~Permits(lc, w.task)
      BY <1>3, <3>2 DEF RecoverBind, FailureRecorded
    <3> QED BY <3>1, <3>2
  <2>4. (RetryBudget /\ RacedAgrees)'
    BY <1>3
      DEF RecoverBind, Rebind, Fenced, RetryBudget, RacedAgrees
  <2> QED BY <2>1, <2>2, <2>3, <2>4 DEF TaskInv
<1>4. ASSUME BindRaced
      PROVE  TaskInv'
  <2>1. (WorkerAgrees /\ RacedAgrees)'
    BY <1>4, LetGo, ZenonT(60)
      DEF BindRaced, At, WorkerAgrees, RacedAgrees
  <2>2. (TargetAgrees /\ OneLiveAttempt /\ RetryBudget /\ FailureRecorded)'
    BY <1>4
      DEF BindRaced, At, TargetAgrees, OneLiveAttempt, RetryBudget, FailureRecorded
  <2> QED BY <2>1, <2>2 DEF TaskInv
<1>5. ASSUME RecoverDone
      PROVE  TaskInv'
  <2>1. (WorkerAgrees /\ RacedAgrees)'
    <3>1. CASE w.mode \in {"startup", "boot"}
      BY <1>5, <3>1, LetGo, Zenon DEF RecoverDone
    <3>2. CASE w.mode = "cycle"
      <4>1. w' = [At("retry") EXCEPT !.todo = Due]
        BY <1>5, <3>2 DEF RecoverDone
      <4>2. w'.pc = "retry" /\ w'.todo = Due /\ w'.task = None /\ w'.raced = {}
        BY <4>1 DEF At
      <4> QED BY <1>5, <4>2 DEF RecoverDone, Due, WorkerAgrees, RacedAgrees
    <3> QED BY <3>1, <3>2 DEF Modes
  <2>2. FailureRecorded'
    <3>1. w' = At("off") \/ w' = At("idle") \/ w' = [At("retry") EXCEPT !.todo = Due]
      BY <1>5, Zenon DEF RecoverDone, Modes
    <3>2. w'.pc \in {"off", "idle", "retry"}
      BY <3>1 DEF At
    <3> QED BY <1>5, <3>2, RecordKept DEF RecoverDone
  <2>3. (TargetAgrees /\ OneLiveAttempt /\ RetryBudget)'
    BY <1>5
      DEF RecoverDone, TargetAgrees, OneLiveAttempt, RetryBudget
  <2> QED BY <2>1, <2>2, <2>3 DEF TaskInv
<1>6. ASSUME NEW t \in Tasks, RecoverInterrupt(t)
      PROVE  TaskInv'
  <2>1. TargetAgrees'
    BY <1>6
      DEF RecoverInterrupt, Fenced, TargetAgrees, WorkerAgrees
  <2>2. RacedAgrees'
    <3>1. w.task = None /\ None \notin w.raced
      BY <1>6, TaskConstants DEF RecoverInterrupt, WorkerAgrees
    <3> QED BY <1>6, <3>1 DEF RecoverInterrupt, RacedAgrees
  <2>3. FailureRecorded'
    BY <1>6
      DEF RecoverInterrupt, Fenced, FailureRecorded, WorkerAgrees, TargetAgrees
  <2>4. (OneLiveAttempt /\ RetryBudget /\ WorkerAgrees)'
    BY <1>6
      DEF RecoverInterrupt, Fenced, OneLiveAttempt, RetryBudget, WorkerAgrees
  <2> QED BY <2>1, <2>2, <2>3, <2>4 DEF TaskInv
<1>7. ASSUME NEW t \in Tasks, ReconcileTerminal(t)
      PROVE  TaskInv'
  <2>1. TargetAgrees'
    BY <1>7, MutatedFact
      DEF ReconcileTerminal, Fenced, TargetAgrees, RetryBudget
  <2>2. RetryBudget'
    BY <1>7, MutatedFact
      DEF ReconcileTerminal, Fenced, RetryBudget, TargetAgrees
  <2>3. FailureRecorded'
    <3>1. tstate[t] = "running" /\ retry[t].disp \notin {"waiting", "due"}
      BY <1>7 DEF ReconcileTerminal, TargetAgrees
    <3>2. w'.pc = "recover" /\ UNCHANGED job
      BY <1>7 DEF ReconcileTerminal
    <3>3. job[t].cur = "failed" \/ UNCHANGED retry
      BY <1>7 DEF ReconcileTerminal
    <3>4. \A u \in Tasks \ {t} : retry'[u] = retry[u]
      BY <1>7 DEF ReconcileTerminal
    <3> QED BY <3>2, <3>3, <3>4 DEF FailureRecorded
  <2>4. (OneLiveAttempt /\ WorkerAgrees /\ RacedAgrees)'
    BY <1>7
      DEF ReconcileTerminal, Fenced, OneLiveAttempt, WorkerAgrees, RacedAgrees
  <2> QED BY <2>1, <2>2, <2>3, <2>4 DEF TaskInv
<1> QED BY <1>1, <1>2, <1>3, <1>4, <1>5, <1>6, <1>7 DEF RecoveryStep

\* So does a due retry.
LEMMA RetryTasks ==
  ASSUME TypeOK, TypeOK', Fenced, TaskInv, RetryStep
  PROVE  TaskInv'
<1> USE SchedulerConstants DEF TaskInv, TypeOK, TaskTypeOK, WorkerRow, AttemptRow, RetryRow,
        coordVars, taskVars, InSlice, InRebind, Holding
<1>1. ASSUME Requeue
      PROVE  TaskInv'
  <2>1. (TargetAgrees /\ OneLiveAttempt /\ RetryBudget /\ FailureRecorded)'
    <3>1. CASE Permits(lc, w.task)
      <4>1. /\ w.task \in Tasks /\ Rebind(w.task) /\ retry[w.task].disp = "due"
            /\ retry' = [retry EXCEPT ![w.task].disp = "resolved"]
        BY <1>1, <3>1 DEF Requeue, Fenced, WorkerAgrees
      <4>2. /\ retry'[w.task].disp = "resolved" /\ retry'[w.task].fails = retry[w.task].fails
            /\ \A u \in Tasks \ {w.task} : retry'[u] = retry[u]
        BY <4>1
      <4>3. (TargetAgrees /\ OneLiveAttempt)'
        BY <4>1, <4>2, RebindFact DEF TargetAgrees, OneLiveAttempt
      <4>4. RetryBudget'
        BY <4>1, <4>2 DEF RetryBudget
      <4>5. w'.pc = "select"
        BY <1>1 DEF Requeue, At
      <4>6. FailureRecorded'
        BY <4>1, <4>2, <4>5, RebindFact DEF FailureRecorded
      <4> QED BY <4>3, <4>4, <4>6
    <3>2. CASE ~Permits(lc, w.task)
      BY <1>1, <3>2 DEF Requeue, At, TargetAgrees, OneLiveAttempt, RetryBudget, FailureRecorded
    <3> QED BY <3>1, <3>2
  <2>2. (WorkerAgrees /\ RacedAgrees)'
    BY <1>1, LetGo
      DEF Requeue, WorkerAgrees, RacedAgrees
  <2> QED BY <2>1, <2>2 DEF TaskInv
<1>2. ASSUME RetryNone
      PROVE  TaskInv'
  <2>1. (WorkerAgrees /\ RacedAgrees)'
    BY <1>2, LetGo, ZenonT(60)
      DEF RetryNone, At, WorkerAgrees, RacedAgrees
  <2>2. (TargetAgrees /\ OneLiveAttempt /\ RetryBudget /\ FailureRecorded)'
    BY <1>2, Zenon
      DEF RetryNone, At, TargetAgrees, OneLiveAttempt, RetryBudget, FailureRecorded
  <2> QED BY <2>1, <2>2 DEF TaskInv
<1>3. ASSUME NEW t \in Tasks, RetryTarget(t)
      PROVE  TaskInv'
  <2>1. TargetAgrees'
    BY <1>3
      DEF RetryTarget, Retryable, At, Fenced, TargetAgrees, WorkerAgrees
  <2>2. WorkerAgrees'
    BY <1>3
      DEF RetryTarget, Retryable, At, Fenced, WorkerAgrees
  <2>3. OneLiveAttempt'
    BY <1>3
      DEF RetryTarget, Retryable, At, Fenced, OneLiveAttempt
  <2>4. (RetryBudget /\ RacedAgrees /\ FailureRecorded)'
    BY <1>3
      DEF RetryTarget, Retryable, At, Fenced, RetryBudget, RacedAgrees, FailureRecorded
  <2> QED BY <2>1, <2>2, <2>3, <2>4 DEF TaskInv
<1>4. ASSUME NEW t \in Tasks, RetryRefused(t)
      PROVE  TaskInv'
  <2>1. (WorkerAgrees /\ RacedAgrees)'
    BY <1>4, LetGo, ZenonT(60)
      DEF RetryRefused, At, WorkerAgrees, RacedAgrees
  <2>2. (TargetAgrees /\ OneLiveAttempt /\ RetryBudget /\ FailureRecorded)'
    BY <1>4
      DEF RetryRefused, At, TargetAgrees, OneLiveAttempt, RetryBudget, FailureRecorded
  <2> QED BY <2>1, <2>2 DEF TaskInv
<1> QED BY <1>1, <1>2, <1>3, <1>4 DEF RetryStep

\* So do selection, claim and commit.
LEMMA CycleTasks ==
  ASSUME TypeOK, TypeOK', Fenced, TaskInv, CycleStep
  PROVE  TaskInv'
<1> USE SchedulerConstants DEF TaskInv, TypeOK, TaskTypeOK, WorkerRow, AttemptRow, RetryRow,
        coordVars, taskVars, InSlice, InRebind, Holding
<1>1. ASSUME WorkerStart \/ CycleStart
      PROVE  TaskInv'
  <2>1. (TargetAgrees /\ OneLiveAttempt /\ RetryBudget)'
    <3>1. UNCHANGED <<tstate, job, retry>>
      BY <1>1, Zenon DEF WorkerStart, CycleStart
    <3> QED BY <3>1 DEF TargetAgrees, OneLiveAttempt, RetryBudget
  <2>2. (WorkerAgrees /\ RacedAgrees)'
    <3>1. w' = Recovering("boot") \/ w' = Recovering("cycle")
      BY <1>1, Zenon DEF WorkerStart, CycleStart
    <3>2. w'.pc = "recover" /\ w'.todo = Recoverable /\ w'.task = None /\ w'.raced = {}
      BY <3>1, Zenon DEF Recovering, At
    <3> QED BY <1>1, <3>2, Zenon DEF WorkerStart, CycleStart, Recoverable, WorkerAgrees, RacedAgrees
  <2>3. FailureRecorded'
    <3>1. w'.pc = "recover"
      BY <1>1, ZenonT(60) DEF WorkerStart, CycleStart, Recovering, At
    <3> QED BY <1>1, <3>1, RecordKept, Zenon DEF WorkerStart, CycleStart
  <2> QED BY <2>1, <2>2, <2>3 DEF TaskInv
<1>2. ASSUME NEW t \in Tasks, Select(t)
      PROVE  TaskInv'
  <2>1. (TargetAgrees /\ OneLiveAttempt /\ RetryBudget /\ WorkerAgrees /\ RacedAgrees /\ FailureRecorded)'
    BY <1>2
      DEF Select, Candidates, Oldest, Runnable, Queued, At, TargetAgrees, OneLiveAttempt,
          RetryBudget, WorkerAgrees, RacedAgrees, FailureRecorded
  <2> QED BY <2>1 DEF TaskInv
<1>3. ASSUME SelectEmpty
      PROVE  TaskInv'
  <2>1. (WorkerAgrees /\ RacedAgrees)'
    BY <1>3, LetGo, Zenon
      DEF SelectEmpty, At, WorkerAgrees, RacedAgrees
  <2>2. (TargetAgrees /\ OneLiveAttempt /\ RetryBudget /\ FailureRecorded)'
    BY <1>3, Zenon
      DEF SelectEmpty, At, TargetAgrees, OneLiveAttempt, RetryBudget, FailureRecorded
  <2> QED BY <2>1, <2>2 DEF TaskInv
<1>4. ASSUME Begin
      PROVE  TaskInv'
  <2>1. (TargetAgrees /\ OneLiveAttempt /\ RetryBudget /\ WorkerAgrees /\ RacedAgrees /\ FailureRecorded)'
    BY <1>4
      DEF Begin, TargetAgrees, OneLiveAttempt, RetryBudget, WorkerAgrees, RacedAgrees,
          FailureRecorded
  <2> QED BY <2>1 DEF TaskInv
<1>5. ASSUME Claim
      PROVE  TaskInv'
  <2>1. WorkerAgrees'
    BY <1>5
      DEF Claim, Claimable, Fenced, WorkerAgrees, TargetAgrees
  <2>2. (TargetAgrees /\ OneLiveAttempt /\ RetryBudget /\ RacedAgrees /\ FailureRecorded)'
    BY <1>5
      DEF Claim, Claimable, Fenced, TargetAgrees, OneLiveAttempt, RetryBudget, RacedAgrees,
          FailureRecorded
  <2> QED BY <2>1, <2>2 DEF TaskInv
<1>6. ASSUME ClaimRefused
      PROVE  TaskInv'
  <2>1. (WorkerAgrees /\ RacedAgrees)'
    BY <1>6, LetGo
      DEF ClaimRefused, At, WorkerAgrees, RacedAgrees
  <2>2. (TargetAgrees /\ OneLiveAttempt /\ RetryBudget /\ FailureRecorded)'
    BY <1>6
      DEF ClaimRefused, At, TargetAgrees, OneLiveAttempt, RetryBudget, FailureRecorded
  <2> QED BY <2>1, <2>2 DEF TaskInv
<1>7. ASSUME PostSnapshot
      PROVE  TaskInv'
  <2>1. (TargetAgrees /\ OneLiveAttempt /\ RetryBudget /\ WorkerAgrees /\ RacedAgrees /\ FailureRecorded)'
    BY <1>7
      DEF PostSnapshot, TargetAgrees, OneLiveAttempt, RetryBudget, WorkerAgrees, RacedAgrees,
          FailureRecorded
  <2> QED BY <2>1 DEF TaskInv
<1>8. ASSUME CommitConflict
      PROVE  TaskInv'
  <2>1. (TargetAgrees /\ OneLiveAttempt /\ RetryBudget /\ WorkerAgrees /\ RacedAgrees /\ FailureRecorded)'
    BY <1>8
      DEF CommitConflict, Fenced, TargetAgrees, OneLiveAttempt, RetryBudget, WorkerAgrees,
          RacedAgrees, FailureRecorded
  <2> QED BY <2>1 DEF TaskInv
<1>9. ASSUME CommitWrite(w.task, w.out), AfterCommit, w.pc \in {"commit", "recommit"}
      PROVE  TaskInv'
  <2>1. TargetAgrees'
    BY <1>9
      DEF CommitWrite, AfterCommit, Fenced, TargetAgrees, WorkerAgrees, Outcomes, Mutated
  <2>2. RetryBudget'
    <3>1. /\ w.task \in Tasks /\ retry[w.task].disp \notin {"waiting", "due", "blocked"}
          /\ retry[w.task].fails <= MaxAttempts
      BY <1>9 DEF Fenced, TargetAgrees, RetryBudget
    <3>2. CASE w.out \in {"transient", "permanent"}
      <4>1. \E transient \in BOOLEAN : retry' = [retry EXCEPT ![w.task] = Mutated(w.task, transient)]
        BY <1>9, <3>2, Zenon DEF CommitWrite
      <4>2. PICK transient \in BOOLEAN : retry' = [retry EXCEPT ![w.task] = Mutated(w.task, transient)]
        BY <4>1, Zenon
      <4>3. /\ retry'[w.task].fails <= MaxAttempts + 1
            /\ retry'[w.task].fails > MaxAttempts => retry'[w.task].disp = "blocked"
        BY <3>1, <4>2, MutatedFact
      <4>4. \A u \in Tasks \ {w.task} : retry'[u] = retry[u]
        BY <4>2
      <4> QED BY <4>3, <4>4, Zenon DEF RetryBudget
    <3>3. CASE w.out \notin {"transient", "permanent"}
      BY <1>9, <3>3 DEF CommitWrite, RetryBudget
    <3> QED BY <3>2, <3>3
  <2>3. (WorkerAgrees /\ RacedAgrees)'
    BY <1>9, LetGo
      DEF CommitWrite, AfterCommit, Fenced, WorkerAgrees, RacedAgrees
  <2>4. FailureRecorded'
    <3>1. /\ w.task \in Tasks /\ retry[w.task].disp \notin {"waiting", "due", "blocked"}
          /\ retry[w.task].fails <= MaxAttempts
      BY <1>9 DEF Fenced, TargetAgrees, RetryBudget
    <3>2. w'.pc \in {"dead", "idle"} /\ UNCHANGED job
      BY <1>9 DEF CommitWrite, AfterCommit, At
    <3>3. CASE w.out \in {"transient", "permanent"}
      <4>1. retry' = [retry EXCEPT ![w.task] = Mutated(w.task, w.out = "transient")]
        BY <1>9, <3>3 DEF CommitWrite
      <4>2. /\ retry'[w.task] = Mutated(w.task, w.out = "transient")
            /\ \A u \in Tasks \ {w.task} : retry'[u] = retry[u]
        BY <3>1, <4>1
      <4>3. retry'[w.task].disp \in {"waiting", "blocked"} /\ (retry'[w.task].disp = "waiting" => w.out = "transient")
        <5>1. (w.out = "transient") \in BOOLEAN
          OBVIOUS
        <5> QED BY <3>1, <4>2, <5>1, MutatedFact, Zenon
      <4> QED BY <1>9, <3>1, <3>2, <4>2, <4>3, Zenon DEF FailureRecorded
    <3>4. CASE w.out \notin {"transient", "permanent"}
      BY <1>9, <3>2, <3>4 DEF CommitWrite, FailureRecorded
    <3> QED BY <3>3, <3>4
  <2>5. OneLiveAttempt'
    BY <1>9
      DEF CommitWrite, AfterCommit, Fenced, OneLiveAttempt
  <2> QED BY <2>1, <2>2, <2>3, <2>4, <2>5 DEF TaskInv
<1> QED BY <1>1, <1>2, <1>3, <1>4, <1>5, <1>6, <1>7, <1>8, <1>9 DEF CycleStep, Commit, Recommit

\* So does a slice, however it ends.
LEMMA SliceTasks ==
  ASSUME TypeOK, TypeOK', Fenced, TaskInv, SliceProgress \/ SliceTrouble
  PROVE  TaskInv'
<1> USE SchedulerConstants DEF TaskInv, TypeOK, TaskTypeOK, WorkerRow, AttemptRow, RetryRow,
        coordVars, taskVars, InSlice, InRebind, Holding
<1>1. ASSUME SlicePromote
      PROVE  TaskInv'
  <2>1. (TargetAgrees /\ OneLiveAttempt /\ RetryBudget /\ WorkerAgrees /\ RacedAgrees /\ FailureRecorded)'
    BY <1>1
      DEF SlicePromote, Fenced, TargetAgrees, OneLiveAttempt, RetryBudget, WorkerAgrees,
          RacedAgrees, FailureRecorded
  <2> QED BY <2>1 DEF TaskInv
<1>2. ASSUME SliceYields
      PROVE  TaskInv'
  <2>1. (TargetAgrees /\ OneLiveAttempt /\ RetryBudget /\ WorkerAgrees /\ RacedAgrees /\ FailureRecorded)'
    BY <1>2
      DEF SliceYields, Finish, Fenced, TargetAgrees, OneLiveAttempt, RetryBudget, WorkerAgrees,
          RacedAgrees, FailureRecorded
  <2> QED BY <2>1 DEF TaskInv
<1>3. ASSUME SliceCompletes
      PROVE  TaskInv'
  <2>1. (TargetAgrees /\ OneLiveAttempt /\ RetryBudget /\ WorkerAgrees /\ RacedAgrees /\ FailureRecorded)'
    BY <1>3
      DEF SliceCompletes, Finish, Fenced, TargetAgrees, OneLiveAttempt, RetryBudget, WorkerAgrees,
          RacedAgrees, FailureRecorded
  <2> QED BY <2>1 DEF TaskInv
<1>4. ASSUME NEW out \in {"transient", "permanent"}, SliceFails(out)
      PROVE  TaskInv'
  <2>1. (TargetAgrees /\ OneLiveAttempt /\ RetryBudget /\ WorkerAgrees /\ RacedAgrees /\ FailureRecorded)'
    BY <1>4
      DEF SliceFails, Finish, Fenced, TargetAgrees, OneLiveAttempt, RetryBudget, WorkerAgrees,
          RacedAgrees, FailureRecorded
  <2> QED BY <2>1 DEF TaskInv
<1>5. ASSUME SliceStoreFails
      PROVE  TaskInv'
  <2>1. (TargetAgrees /\ OneLiveAttempt /\ RetryBudget /\ WorkerAgrees /\ RacedAgrees /\ FailureRecorded)'
    BY <1>5
      DEF SliceStoreFails, Finish, Fenced, TargetAgrees, OneLiveAttempt, RetryBudget,
          WorkerAgrees, RacedAgrees, FailureRecorded
  <2> QED BY <2>1 DEF TaskInv
<1>6. ASSUME SliceInterrupted
      PROVE  TaskInv'
  <2>1. FailureRecorded'
    BY <1>6
      DEF SliceInterrupted, Finish, Fenced, FailureRecorded, TargetAgrees
  <2>2. (TargetAgrees /\ OneLiveAttempt /\ RetryBudget /\ WorkerAgrees /\ RacedAgrees)'
    BY <1>6
      DEF SliceInterrupted, Finish, Fenced, TargetAgrees, OneLiveAttempt, RetryBudget,
          WorkerAgrees, RacedAgrees
  <2> QED BY <2>1, <2>2 DEF TaskInv
<1>7. ASSUME SliceRejected
      PROVE  TaskInv'
  <2>1. FailureRecorded'
    BY <1>7
      DEF SliceRejected, Finish, Fenced, FailureRecorded, TargetAgrees
  <2>2. (TargetAgrees /\ OneLiveAttempt /\ RetryBudget /\ WorkerAgrees /\ RacedAgrees)'
    BY <1>7
      DEF SliceRejected, Finish, Fenced, TargetAgrees, OneLiveAttempt, RetryBudget, WorkerAgrees,
          RacedAgrees
  <2> QED BY <2>1, <2>2 DEF TaskInv
<1>8. ASSUME SliceBlocked
      PROVE  TaskInv'
  <2>1. (TargetAgrees /\ OneLiveAttempt /\ RetryBudget /\ WorkerAgrees /\ RacedAgrees /\ FailureRecorded)'
    BY <1>8
      DEF SliceBlocked, Finish, Fenced, TargetAgrees, OneLiveAttempt, RetryBudget, WorkerAgrees,
          RacedAgrees, FailureRecorded
  <2> QED BY <2>1 DEF TaskInv
<1> QED BY <1>1, <1>2, <1>3, <1>4, <1>5, <1>6, <1>7, <1>8 DEF SliceProgress, SliceTrouble

\* A worker that loses everything, and rows that stay.
LEMMA LostWorker ==
  ASSUME TaskInv, NEW pc \in {"off", "dead"}, w' = At(pc), UNCHANGED taskVars
  PROVE  TaskInv'
<1>1. WorkerAgrees' /\ RacedAgrees'
  BY LetGo
<1>2. w'.pc \notin {"post", "commit", "recommit"}
  BY DEF At
<1>3. FailureRecorded'
  BY <1>2, RecordKept DEF TaskInv, taskVars
<1> QED BY <1>1, <1>3 DEF TaskInv, taskVars, TargetAgrees, OneLiveAttempt, RetryBudget

\* The clock passes the due time of a retry that waits.
LEMMA DueTasks ==
  ASSUME TypeOK, Fenced, TaskInv, NEW t \in Tasks, RetryDue(t)
  PROVE  TaskInv'
<1>1. /\ retry[t].disp = "waiting" /\ retry'[t].disp = "due" /\ retry'[t].fails = retry[t].fails
      /\ \A u \in Tasks \ {t} : retry'[u] = retry[u]
      /\ UNCHANGED <<tstate, interactive, job, w>>
  BY DEF RetryDue, TypeOK, TaskTypeOK, RetryRow
<1>2. (TargetAgrees /\ OneLiveAttempt)'
  BY <1>1 DEF TaskInv, TargetAgrees, OneLiveAttempt
<1>3. RetryBudget'
  BY <1>1 DEF TaskInv, RetryBudget
<1>4. w.todo \subseteq Tasks /\ (w.pc = "requeue" => w.task \in Tasks)
  BY DEF TypeOK, TaskTypeOK, WorkerRow, Fenced, Holding, InRebind
<1>5. WorkerAgrees'
  BY <1>1, <1>4 DEF TaskInv, WorkerAgrees, Holding, InSlice, InRebind
<1>6. RacedAgrees' /\ FailureRecorded'
  BY <1>1 DEF TaskInv, RacedAgrees, FailureRecorded
<1> QED BY <1>2, <1>3, <1>5, <1>6 DEF TaskInv

\* Every step keeps the agreement.
LEMMA TaskStep ==
  ASSUME TypeOK, TypeOK', Fenced, TaskInv, [Next]_vars
  PROVE  TaskInv'
<1>1. CASE UNCHANGED <<taskVars, w>>
  BY <1>1, ZenonT(60) DEF TaskInv, taskVars, TargetAgrees, OneLiveAttempt, RetryBudget, WorkerAgrees,
              RacedAgrees, FailureRecorded, Holding, InSlice, InRebind
<1>2. CASE WorkerFault \/ Crash
  BY <1>2, LostWorker DEF WorkerFault, Crash
<1> QED BY <1>1, <1>2, ScanTasks, AdmissionTasks, RecoveryTasks, RetryTasks, CycleTasks,
           SliceTasks, DueTasks DEF Next, WorkerStep, Restart, vars

\* Nothing is admitted in the initial state.
LEMMA InitTasks ==
  ASSUME Init
  PROVE  TaskInv
<1>1. WorkerAgrees /\ RacedAgrees
  BY DEF Init, At, WorkerAgrees, RacedAgrees, Holding, InSlice, InRebind
<1>2. TargetAgrees /\ OneLiveAttempt /\ RetryBudget
  BY SchedulerConstants DEF Init, TargetAgrees, OneLiveAttempt, RetryBudget
<1>3. FailureRecorded
  BY DEF Init, At, FailureRecorded
<1> QED BY <1>1, <1>2, <1>3 DEF TaskInv

-------------------------------------------------------------------------------
(* The theorems. *)

\* The rows of every task agree with each other and with what the worker holds.
THEOREM TaskInvariant == Spec => []TaskInv
<1>1. Init => TypeOK /\ Fenced /\ TaskInv
  BY InitFenced, InitTasks
<1>2. TypeOK /\ Fenced /\ TaskInv /\ [Next]_vars => (TypeOK /\ Fenced /\ TaskInv)'
  BY TypeStep, FencedStep, TaskStep
<1> QED BY <1>1, <1>2, PTL DEF Spec

\* scheduler_tasks, job_runs and scheduler_retry_states never contradict each
\* other, whatever crash, fault or promotion falls between two transactions.
THEOREM RowsAgree == Spec => []TargetAgrees
<1>1. TaskInv => TargetAgrees
  BY DEF TaskInv
<1> QED BY <1>1, TaskInvariant, PTL

\* A target never has two live attempts.
THEOREM LiveAttemptUnique == Spec => []OneLiveAttempt
<1>1. TaskInv => OneLiveAttempt
  BY DEF TaskInv
<1> QED BY <1>1, TaskInvariant, PTL

\* Only a blocked task has used up its retry budget.
THEOREM BudgetKept == Spec => []RetryBudget
<1>1. TaskInv => RetryBudget
  BY DEF TaskInv
<1> QED BY <1>1, TaskInvariant, PTL

\* The commit is rebased at most once.
THEOREM RebaseSuffices == Spec => []RebaseOnce
<1>1. TaskInv => RebaseOnce
  BY DEF TaskInv, RacedAgrees, RebaseOnce
<1> QED BY <1>1, TaskInvariant, PTL

\* While the store does not fail inside a slice, a due retry is accepted.
THEOREM RetryIsAccepted ==
  ASSUME "storeFault" \notin Events
  PROVE  Spec => []RetryAccepted
<1>1. TypeOK /\ TaskInv => RetryAccepted
  BY DEF TypeOK, TaskTypeOK, WorkerRow, TaskInv, WorkerAgrees, FailureRecorded, RetryAccepted, Retryable
<1> QED BY <1>1, TypeCorrect, TaskInvariant, PTL

\* The only steps that touch a succeeded attempt follow a committed success.
LEMMA SucceededKept ==
  ASSUME TypeOK, Fenced, TaskInv, Next, NEW t \in Tasks, job[t].cur = "succeeded",
         tstate[t] # "succeeded"
  PROVE  job'[t].cur = "succeeded"
<1> USE DEF TypeOK, TaskTypeOK, AttemptRow
<1>1. CASE UNCHANGED job
  BY <1>1
<1>2. CASE ScanStep
  BY <1>2 DEF ScanStep, StartLive, EnqueueLive, Enqueue, EnqueueKnown, EnqueueFull, ScanDone, taskVars
<1>3. CASE Admission
  BY <1>3 DEF Admission, StartBackfill, EnqueueBackfill, Enqueue, FileChanges, Promote
<1>4. CASE RecoveryStep
  <2>1. CASE RecoverBind
    <3>1. w.task \in Tasks /\ w.task # t
      BY <2>1 DEF RecoverBind, Fenced, Holding, InRebind, TaskInv, WorkerAgrees
    <3> QED BY <2>1, <3>1 DEF RecoverBind, Rebind
  <2>2. ASSUME NEW u \in Tasks, RecoverInterrupt(u) \/ (RecoverResume /\ u = w.task)
        PROVE  job'[t].cur = "succeeded"
    <3>1. job'[t].cur = job[t].cur \/ (t = u /\ RecoverInterrupt(u))
      BY <2>2 DEF RecoverResume, RecoverInterrupt
    <3> QED BY <3>1 DEF RecoverInterrupt
  <2>3. CASE StartupRecover \/ BindRaced \/ RecoverDone \/ \E u \in Tasks : ReconcileTerminal(u)
    <3>1. UNCHANGED job
      BY <2>3, Zenon DEF StartupRecover, BindRaced, RecoverDone, ReconcileTerminal, taskVars
    <3> QED BY <3>1
  <2>4. RecoverResume => w.task \in Tasks
    BY DEF RecoverResume, Fenced, Holding, InRebind
  <2> QED BY <1>4, <2>1, <2>2, <2>3, <2>4 DEF RecoveryStep
<1>5. CASE RetryStep
  <2>1. CASE Requeue
    <3>1. w.task \in Tasks /\ w.task # t
      BY <2>1 DEF Requeue, Fenced, Holding, InRebind, TaskInv, WorkerAgrees, OneLiveAttempt
    <3> QED BY <2>1, <3>1 DEF Requeue, Rebind
  <2>2. CASE \E u \in Tasks : RetryTarget(u)
    BY <2>2 DEF RetryTarget
  <2>3. CASE RetryNone \/ \E u \in Tasks : RetryRefused(u)
    <3>1. UNCHANGED job
      BY <2>3, Zenon DEF RetryNone, RetryRefused, taskVars
    <3> QED BY <3>1
  <2> QED BY <1>5, <2>1, <2>2, <2>3 DEF RetryStep
<1>6. CASE CycleStep
  <2>1. UNCHANGED job
    BY <1>6, Zenon DEF CycleStep, WorkerStart, CycleStart, Select, SelectEmpty, Begin, Claim, ClaimRefused,
           PostSnapshot, Commit, CommitConflict, Recommit, CommitWrite, taskVars
  <2> QED BY <2>1
<1>7. CASE SliceProgress \/ SliceTrouble
  <2>1. w.pc = "run" /\ w.task \in Tasks /\ w.task # t
    BY <1>7 DEF SliceProgress, SlicePromote, SliceYields, SliceCompletes, SliceTrouble, SliceFails,
           SliceStoreFails, SliceInterrupted, SliceRejected, SliceBlocked, Fenced, Holding, InSlice,
           TaskInv, WorkerAgrees
  <2> QED BY <1>7, <2>1 DEF SliceProgress, SlicePromote, SliceYields, SliceCompletes, SliceTrouble,
           SliceFails, SliceStoreFails, SliceInterrupted, SliceRejected, SliceBlocked, taskVars
<1>8. CASE (\E u \in Tasks : RetryDue(u)) \/ WorkerFault \/ Crash \/ Restart \/ UNCHANGED <<taskVars, w>>
  <2>1. UNCHANGED job
    BY <1>8 DEF RetryDue, WorkerFault, Crash, Restart, taskVars
  <2> QED BY <2>1
<1> QED BY <1>2, <1>3, <1>4, <1>5, <1>6, <1>7, <1>8 DEF Next, WorkerStep

\* A target that succeeded is never executed, interrupted or resumed again.
THEOREM SuccessFinal == Spec => SucceededIsFinal
<1> DEFINE Kept == \A t \in Tasks : job[t].cur = "succeeded" =>
                     job'[t].cur = "succeeded" \/ tstate[t] = "succeeded"
<1>1. TypeOK /\ Fenced /\ TaskInv /\ [Next]_vars => [Kept]_vars
  BY SucceededKept
<1>2. SucceededIsFinal <=> [][Kept]_vars
  BY DEF SucceededIsFinal
<1> HIDE DEF Kept
<1> QED BY <1>1, <1>2, FenceInvariant, TaskInvariant, PTL DEF Spec

===============================================================================
