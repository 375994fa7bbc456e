------------------------- MODULE LifecycleCoordinator -------------------------
(***************************************************************************)
(* The local lifecycle coordinator (internal/lifecycle/coordinator.go): one *)
(* private event loop that serialises user, system, source and startup     *)
(* commands, writes the single durable scheduler_lifecycle row, waits for   *)
(* the scheduler to drain, and re-opens a Home only after a reconcile.      *)
(*                                                                         *)
(* Every durable write, every wait and every read of the confirmed Home is  *)
(* a step of its own, so worker steps (module Scheduler) interleave with    *)
(* them, and a command may be abandoned at any of them: the context of the  *)
(* caller expires or the write fails, and the row keeps the intent.         *)
(*                                                                         *)
(* The row's revision and last_event_id are left out.  The loop is the only *)
(* writer, so the revision compare-and-swap never loses, and every caller   *)
(* passes a fresh UUID as event ID, so the replay early returns never fire. *)
(***************************************************************************)
EXTENDS Naturals, FiniteSets

CONSTANTS
  Tasks,        \* the scheduler tasks of the instance
  Lane,         \* Lane[t]: "live" or "backfill"
  Gen,          \* Gen[t]: the Home generation the task was admitted for
  Generations,  \* the Home generations the user may confirm
  Events,       \* the commands, faults and changes the instance lets happen
  None          \* no task

EventKinds == {"pauseBackfill", "pauseAll", "resume", "sleep", "wake", "sourceUp",
               "sourceDown", "home", "abandon", "probeFails", "crash", "fault",
               "promote", "fileChanges", "storeFault", "pressure", "sliceFault"}

ASSUME TaskConstants ==
  /\ Events \subseteq EventKinds
  /\ Lane \in [Tasks -> {"live", "backfill"}]
  /\ Gen \in [Tasks -> Generations]
  /\ None \notin Tasks

VARIABLES
  lc,     \* the durable scheduler_lifecycle row
  co,     \* the command the loop is executing
  act,    \* scheduler.Service: preflightActive and activityTask
  home,   \* the confirmed Home generation in the preferences file
  phase   \* the helper process: "down", "starting", "recovering", "up"

coordVars == <<lc, co, act, home, phase>>

Commands == {"pauseBackfill", "pauseAll", "sleep", "sourceDown", "home",
             "startup", "reconcile"}
Steps == {"idle", "startup", "drain", "drained", "rebound", "probe", "scan",
          "confirm", "complete", "block"}

LifecycleRow == [gen: Generations, pause: {"none", "backfill", "all"},
                 sys: {"awake", "sleeping"},
                 trans: {"steady", "draining", "reconciling", "blocked"},
                 source: {"unknown", "available", "unavailable"}]

LiveTasks == {t \in Tasks : Lane[t] = "live"}

Idle == [pc |-> "idle", cmd |-> "reconcile", gen |-> lc.gen, plan |-> {}]

\* The phase in which a finished startup command leaves the process.
Settled == IF phase = "starting"
             THEN IF co.cmd = "startup" THEN "recovering" ELSE "up"
             ELSE phase

\* Variant of Permits that forgets the transition: the sensitivity of
\* DrainedStaysQuiet.
PermitsWhileDraining(l, t) ==
  /\ l.gen = Gen[t]
  /\ l.sys = "awake" /\ l.source = "available"
  /\ Lane[t] = "live" \/ l.pause # "backfill"

(***************************************************************************)
(* Whether a row lets a task run: lifecyclePermitsTask in the store and     *)
(* schedulerLifecyclePermits in the worker.                                 *)
(***************************************************************************)
Permits(l, t) ==
  /\ l.gen = Gen[t]
  /\ l.sys = "awake" /\ l.trans = "steady" /\ l.source = "available"
  /\ l.pause # "all"
  /\ Lane[t] = "live" \/ l.pause # "backfill"

\* Variant of Quiet that waits for slices only.
QuietSlices(scope) ==
  act.task \notin {t \in Tasks : scope = "all" \/ Lane[t] = "backfill"}

\* Variant of Quiet that waits for the preflight only.
QuietPreflight(scope) == ~act.preflight

(***************************************************************************)
(* Service.Drain returns once no preflight is registered and the registered *)
(* task, if any, is outside the scope.                                      *)
(***************************************************************************)
Quiet(scope) ==
  /\ ~act.preflight
  /\ act.task \notin {t \in Tasks : scope = "all" \/ Lane[t] = "backfill"}

DrainScope(cmd) == IF cmd = "pauseBackfill" THEN "backfill" ELSE "all"

\* A command of the running process is accepted when the loop is idle.
Accept(e) == e \in Events /\ phase = "up" /\ co.pc = "idle"

Run(pc, cmd) == [pc |-> pc, cmd |-> cmd, gen |-> lc.gen, plan |-> {}]

\* reconcile: the intent row, then the reconciler.
ReconcileIntent(wake, resume, cmd) ==
  /\ lc' = [lc EXCEPT !.sys = IF wake THEN "awake" ELSE @,
                      !.pause = IF resume THEN "none" ELSE @,
                      !.source = "unknown", !.trans = "reconciling"]
  /\ co' = Run("probe", cmd)

-------------------------------------------------------------------------------
(* Commands. *)

Pause(scope) ==
  LET cmd == IF scope = "all" THEN "pauseAll" ELSE "pauseBackfill"
  IN  /\ Accept(cmd)
      /\ lc' = [lc EXCEPT !.pause = scope,
                          !.trans = IF scope = "all" THEN "draining" ELSE "steady"]
      /\ co' = Run("drain", cmd)
      /\ UNCHANGED <<act, home, phase>>

Resume ==
  /\ Accept("resume")
  /\ IF lc.sys = "sleeping"
       THEN /\ lc' = [lc EXCEPT !.pause = "none", !.trans = "steady"]
            /\ UNCHANGED co
       ELSE ReconcileIntent(FALSE, TRUE, "reconcile")
  /\ UNCHANGED <<act, home, phase>>

Sleep ==
  /\ Accept("sleep")
  /\ lc' = [lc EXCEPT !.sys = "sleeping", !.trans = "draining"]
  /\ co' = Run("drain", "sleep")
  /\ UNCHANGED <<act, home, phase>>

Wake ==
  /\ Accept("wake")
  /\ ReconcileIntent(TRUE, FALSE, "reconcile")
  /\ UNCHANGED <<act, home, phase>>

SourceUp ==
  /\ Accept("sourceUp")
  /\ IF lc.sys = "sleeping"
       THEN lc' = [lc EXCEPT !.source = "unknown"] /\ UNCHANGED co
       ELSE ReconcileIntent(FALSE, FALSE, "reconcile")
  /\ UNCHANGED <<act, home, phase>>

SourceDown ==
  /\ Accept("sourceDown")
  /\ lc' = [lc EXCEPT !.source = "unavailable", !.trans = "blocked"]
  /\ co' = Run("drain", "sourceDown")
  /\ UNCHANGED <<act, home, phase>>

\* homeChanged: the generation is the one the preferences file now confirms.
HomeChangedStep ==
  IF lc.gen = home
    THEN /\ ~(lc.trans = "steady" /\ (lc.sys = "sleeping" \/ lc.source = "available"))
         /\ ReconcileIntent(FALSE, FALSE, "reconcile")
    ELSE /\ lc' = [lc EXCEPT !.source = "unknown", !.trans = "draining"]
         /\ co' = [Run("drain", "home") EXCEPT !.gen = home]

HomeChanged ==
  /\ Accept("home")
  /\ HomeChangedStep
  /\ UNCHANGED <<act, home, phase>>
-------------------------------------------------------------------------------
(* The steps of a command after its first write. *)

\* Service.Drain returned; a backfill pause and a lost source end here.
DrainReturns ==
  /\ co.pc = "drain"
  /\ Quiet(DrainScope(co.cmd))
  /\ co' = IF co.cmd \in {"pauseBackfill", "sourceDown"} THEN Idle
           ELSE [co EXCEPT !.pc = "drained"]
  /\ UNCHANGED <<lc, act, home, phase>>

\* pause and sleep: the row becomes steady.
DrainComplete ==
  /\ co.pc = "drained" /\ co.cmd \in {"pauseAll", "sleep"}
  /\ lc' = [lc EXCEPT !.trans = "steady"]
  /\ co' = Idle
  /\ UNCHANGED <<act, home, phase>>

\* homeChanged: the generation moves, and the new Home is reconciled unless
\* the system sleeps.
Rebound ==
  /\ co.pc = "drained" /\ co.cmd = "home"
  /\ lc' = [lc EXCEPT !.gen = co.gen, !.source = "unknown", !.trans = "steady"]
  /\ IF lc.sys = "sleeping"
       THEN co' = [Idle EXCEPT !.gen = co.gen] /\ phase' = Settled
       ELSE co' = [co EXCEPT !.pc = "rebound"] /\ phase' = phase
  /\ UNCHANGED <<act, home>>

\* The reconcile that follows the generation write.
ReboundReconcile ==
  /\ co.pc = "rebound"
  /\ ReconcileIntent(FALSE, FALSE, "reconcile")
  /\ UNCHANGED <<act, home, phase>>

\* ConfirmedHomeReconciler reads the confirmed Home and probes its path, device
\* and inode, which may be gone at any time (ok).
Confirmed(ok) == ok /\ home = lc.gen
ProbeOutcomes == IF "probeFails" \in Events THEN BOOLEAN ELSE {TRUE}

\* The first check; the scan of the Home then plans the changed files it found.
Probe(plan, ok) ==
  /\ co.pc = "probe"
  /\ co' = IF Confirmed(ok) THEN [co EXCEPT !.pc = "scan", !.plan = plan]
           ELSE [co EXCEPT !.pc = "block"]
  /\ UNCHANGED <<lc, act, home, phase>>

\* The second check, after the scan admitted its plan.
Confirm(ok) ==
  /\ co.pc = "confirm"
  /\ co' = [co EXCEPT !.pc = IF Confirmed(ok) THEN "complete" ELSE "block"]
  /\ UNCHANGED <<lc, act, home, phase>>

Complete ==
  /\ co.pc = "complete"
  /\ lc' = [lc EXCEPT !.source = "available", !.trans = "steady"]
  /\ co' = Idle
  /\ phase' = Settled
  /\ UNCHANGED <<act, home>>

Block ==
  /\ co.pc = "block"
  /\ lc' = [lc EXCEPT !.source = "unavailable", !.trans = "blocked"]
  /\ co' = Idle
  /\ phase' = Settled
  /\ UNCHANGED <<act, home>>

\* The caller's context expires, or a write fails: the row stays as it is.
\* During startup this ends the process instead (Crash in module Scheduler).
Abandon ==
  /\ "abandon" \in Events
  /\ phase = "up" /\ co.pc # "idle"
  /\ co' = Idle
  /\ UNCHANGED <<lc, act, home, phase>>
-------------------------------------------------------------------------------
(* Startup: startApplicationLifecycle re-opens the stored row. *)

StartupWake ==
  /\ co.pc = "startup"
  /\ lc.gen = home
  /\ ReconcileIntent(TRUE, FALSE, "startup")
  /\ UNCHANGED <<act, home, phase>>

StartupHandoff ==
  /\ co.pc = "startup"
  /\ lc.gen # home
  /\ HomeChangedStep
  /\ UNCHANGED <<act, home, phase>>

\* The process dies: commands, worker and activity are lost, the row stays.
CoordCrash ==
  /\ phase' = "down"
  /\ co' = Idle
  /\ act' = [preflight |-> FALSE, task |-> None]
  /\ UNCHANGED <<lc, home>>

CoordRestart ==
  /\ phase = "down"
  /\ phase' = "starting"
  /\ co' = Run("startup", "startup")
  /\ UNCHANGED <<lc, act, home>>
-------------------------------------------------------------------------------
(* The environment: the preferences file. *)

\* A Home switch commits, or rolls back, another generation.  Startup reads
\* the preferences once, before the coordinator runs.
HomeCommitted(g) ==
  /\ "home" \in Events
  /\ phase \in {"down", "up"} /\ g # home
  /\ home' = g
  /\ UNCHANGED <<lc, co, act, phase>>

InitRow(g) == [gen |-> g, pause |-> "none", sys |-> "awake",
               trans |-> "steady", source |-> "available"]

\* Initialize wrote the row for the first confirmed Home.
CoordInit ==
  \E g \in Generations :
    /\ lc = InitRow(g)
    /\ home = g
    /\ co = [pc |-> "startup", cmd |-> "startup", gen |-> g, plan |-> {}]
    /\ act = [preflight |-> FALSE, task |-> None]
    /\ phase = "starting"

CommandRow == [pc: Steps, cmd: Commands, gen: Generations, plan: SUBSET LiveTasks]
Activity == [preflight: BOOLEAN, task: Tasks \cup {None}]

CoordTypeOK ==
  /\ lc \in LifecycleRow
  /\ co \in CommandRow
  /\ act \in Activity
  /\ home \in Generations
  /\ phase \in {"down", "starting", "recovering", "up"}
===============================================================================
