# Formal models of the Codex Pulse background runtime

Codex Pulse is a Go helper process (plus native clients and an optional central
server) that indexes local agent logs, keeps quota observations fresh and serves
queries from one SQLite database.  Its background runtime is where the hard
behaviour is: a durable task queue, one worker, a lifecycle coordinator with a
durable row, a crash journal in the preferences file, leased refresh claims, and
a process that may die between any two writes.  This directory models that
runtime in TLA+, checks it with TLC on small instances, and proves the most
important invariants with TLAPS for all instances.  The reporting protocol between
devices and the central server is modelled with both of its ends.

## 1. The system and its parts

| part | source (under `src/`) | state | operations |
| --- | --- | --- | --- |
| lifecycle coordinator | `internal/lifecycle`, `internal/store/lifecycle_repository.go` | the durable `scheduler_lifecycle` row (generation, pause scope, system state, transition, source state); the command in progress | HomeChanged, Pause, Resume, SystemWillSleep, SystemDidWake, SourceChanged, Recover |
| durable scheduler | `internal/scheduler` (worker, service, selector, queue), `internal/store/scheduler_repository.go` | `scheduler_tasks`, `scheduler_cycles`, `scheduler_retry_states`; `preflightActive` and `activityTask` in memory | Enqueue, Promote, Run, RunCycle, recovery, due retries, claim, slice, commit |
| targets | `internal/liveindex`, `internal/bootstrap` | `job_runs` attempts, file checkpoints | Start, RunSlice, Interrupt, Recover, Retry; Drain and Resume of a bootstrap |
| Home switch and settings | `internal/preferences` | the preferences file with its revision, `pending_switch`, `pending_resume`, `last_switch`; the switch lease | UpdateSettings, PlanSwitch, ConfirmSwitch, RecoverSwitch |
| quota refresh | `internal/scheduler/quota_refresh*.go`, `internal/store/source_refresh_schedule_repository.go` | one schedule row per source, claim rows with a lease, the global not-before fence, recorded attempts | RunDueCycle, RequestRefresh, ReconcilePreferences, RearmAfterHomeChange |
| light index | `internal/lightindex`, `internal/store/lightindex` | session rows with a metadata generation, scan rows with offsets; the pass in memory | metadata refresh, passes in slices, batches of a scan |
| ingest | `internal/indexer`, `internal/store/ingest_*.go` | source generations and checkpoints | commit of a parsed chunk, generation replacement |
| account binding | `internal/codex/accountbinding`, `internal/store/account_binding_repository.go` | binding generation, bound account | rebind, scope change |
| provider control | `internal/providercontrol`, `internal/providerrefresh` | enabled providers, running refreshes | enable, disable, refresh |
| reporting client, central server | `internal/reporting`, `server/internal/service`, `server/internal/repository` | durable outbox, checkpoints and cursor; stored sources, staged parts, publication jobs | export, upload, acknowledge, full sync; accept, arbitrate, publish, collect |
| core RPC and helper | `internal/core`, `internal/helper` | invalidation subscribers with bounded queues | publish, subscribe |
| queries, pricing, attribution, metrics, retention, health, privacy | the packages of these names | derived | read-only aggregation |
| clients | `app/macos`, `app/windows`, `server/web` | user interface | — |

How they interact.  `internal/app` opens the store, finishes a Home switch that
a crash interrupted, initialises the lifecycle row, wakes the coordinator for
the confirmed Home, recovers leftover tasks and starts the workers.  The
coordinator is the only writer of the lifecycle row.  Store transactions of the
scheduler (claim, rebind, requeue) read that row inside the transaction, which
fences a worker that read it earlier.  `Service.Drain` is the other half of the
fence: it lets the coordinator wait for work that was already under way.  A
reconcile scans the confirmed Home and admits live tasks.  A Home switch drains
the old bootstrap, writes the preferences file and starts the new one.
`PROJECT.json` lists every part with its status, and the hazards at their lines.

`app.go` runs the helper in light-index mode, where the durable worker's `Run` is
not started; the coordinator, the Home switch, the quota refresh and the provider
control are.  The scheduler is modelled as the code has it: it is the most
intricate concurrent part and the mode is a configuration of the same assembly.
## 2. The lifecycle coordinator and the scheduler

`LifecycleCoordinator.tla` is the coordinator, `Scheduler.tla` extends it with
the queue, the worker and the targets, and is the composition that is checked.

State and code:

| variable | code |
| --- | --- |
| `lc` | the `scheduler_lifecycle` row |
| `co` | where the coordinator's loop is in the command it executes |
| `act` | `preflightActive` and `activityTask` of `scheduler.Service` |
| `home` | the confirmed Home generation in the preferences file |
| `phase` | the helper process: down, starting, recovering, up |
| `tstate`, `interactive`, `retry` | `scheduler_tasks.state`, `.service_class`, `scheduler_retry_states` |
| `job` | the attempt a task is bound to, and the resumed attempt created for it but not yet bound |
| `work` | slices the target still needs; its checkpoints survive a crash |
| `ahead` | the order of `queue_order_ms`: `ahead[t]` are the queued tasks before `t` |
| `streak` | consecutive live cycles at the end of `scheduler_cycles` |
| `w` | the worker: step, task, tasks still to recover or retry, slice outcome, what its stamp is known to exceed |

A database transaction is one step, and so is each in-memory registration.
Between two of them every other actor may step, and the process may die.

Time is abstracted to the order it gives.  A stamp made by `afterMS` exceeds the
queue tail the worker has read, so a task is put behind the tasks of `w.tail`
and anywhere after them; a promotion that lands after the worker's read makes its
stamp possibly too old, recorded in `w.raced`.  `next_retry_at_ms` becomes the
step `RetryDue`.

Left out of these two modules, with the reason:

- revision and event ID of the lifecycle row: the loop is the only writer, and
  every caller passes a fresh event ID, so the CAS never loses and the replay
  branches are not taken;
- `coordinator.recover`'s branches for a row that is draining or reconciling: at
  startup `SystemDidWake` or `HomeChanged` runs first and leaves neither;
- the scheduler owner lock: there is one helper process; a second service cannot
  run while the first holds the lease;
- the Drain and Resume that a Home switch applies to a bootstrap: part of the
  Home switch (section 3);
- a target that reports success together with more than its budget (the task then
  fails while the attempt succeeded): an executor bug, not an interleaving;
- budgets, headroom of timestamps, cycle statistics and progress reports: data.

Events are switched on per instance (`Events`): commands, faults, crash,
promotion, changed files.  Everything else, in particular every worker step, is
always enabled.

### Runs

| run | instance | shows |
| --- | --- | --- |
| `sched_fence` | a live and a backfill task of one generation, a live task of the next; Home changes, lost sources, pauses, probe failures, abandoned commands, crash | nothing works for a generation the row does not carry (`NoForeignSlice`); a drain that returned is never followed by work it should have waited for (`DrainHonest`, `DrainedStaysQuiet`); the inductive invariant of the proof, by which a slice owns the only running row (`Fenced`) |
| `sched_targets` | a live and a backfill task; every fault of slice, store and worker, promotions, crash | types, `TargetAgrees` (task, attempt and retry fact agree), `RebaseOnce`, `RetryBudget`, `OneLiveAttempt` (no two live attempts of a target), `SucceededIsFinal` |
| `sched_serve` | slice failures, changed files, pauses, sleep, crash, under fairness | every admitted task is served in the end while the row permits the admitted tasks (`EveryTaskServed`); a due retry is accepted (`RetryAccepted`) |
| `sched_retry_fault` | violated | a store error inside a slice leaves an attempt that its own due retry refuses, which ends `Run` |

The violated run states what a document of the repository says; `findings` quotes
the line.  The model has three more behaviours that a reader of the documents may
not expect, and the properties above are stated so as not to exclude them:

- after the drain of a pause or sleep timed out, a later reconcile may write
  `steady` while the slice still runs (`coordinator.go:474`);
- a full live lane fails a reconcile and so blocks a Home that is present and
  unchanged (`queue_reconciler.go:104`);
- a backfill task left running by a crash keeps the live lane from being claimed
  for as long as backfill is paused (`scheduler_repository.go:561`).

Bounds.  Two tasks, one per lane, are enough for every claim, recovery and drain
interaction, since at most one task is in a slice and one waits; a third task of a
second generation is added for Home changes (`sched_fence`).  `MaxLiveBurst`, `MaxAttempts`,
`LaneCapacity` and `Slices` are 1: the forced backfill cycle, the exhausted retry,
the full lane and the second slice of a task all happen.  The proofs do not depend
on these values.

Fairness (`FairSpec`).  `Run` fires a burst every second while it is alive, so the
worker goroutine keeps taking steps (`WF` of `WorkerStep`), and the clock passes
every due time (`WF` of `RetryDue`).  Nothing is assumed of commands, crashes,
faults, reconciles or restarts.  Live tasks arrive only through a reconcile, which
closes the row meanwhile, so an endless stream of live work does not arise.

### Proofs (`SchedulerProofs.tla`)

For every set of tasks, lanes, generations and bounds:

- `TypeCorrect`: `Spec => []TypeOK`;
- `FenceHolds`: `Spec => []Fenced`;
- `ForeignSliceFree`, `SliceOwnership`, `DrainedQuiet`, `DrainIsHonest`: nothing works
  for a foreign generation, the slice owns the only running row, a drain that
  returned stays quiet and was honest;
- `RowsAgree`, `LiveAttemptUnique`, `BudgetKept`, `RebaseSuffices`, `SuccessFinal`:
  `TargetAgrees`, `OneLiveAttempt`, `RetryBudget`, `RebaseOnce` and the action property
  `SucceededIsFinal`;
- `RetryIsAccepted`: `RetryAccepted`, if `"storeFault"` is not one of `Events`.  With it
  the property does not hold, which is the violated run.

None of the first four is inductive.  `DrainHonest` needs that a worker which may touch a
target is registered: under the preflight while it recovers or retries, under its
task from before the claim to after the commit.  `DrainedStaysQuiet` needs that the
row stays closed (`draining`) from the intent to the completing write, so that the
claim's check in the transaction refuses what `Drain` did not see.
`NoForeignSlice` needs both, because the generation only moves after a drain.
`Fenced` is the conjunction of these facts; the proof has one lemma per group of
actions, `CoordinatorFenced` being the one where a drain returns.  The only
assumptions are the ones on the constants (`TaskConstants`, `SchedulerConstants`).

The rows of a task rest on a second invariant, `TaskInv`, on top of the fence.  The
rows alone do not determine each other between two transactions: a task that is
being recovered has an interrupted attempt and perhaps a new one that it is not yet
bound to, and a slice has recorded an outcome that the commit has not stored.
`WorkerAgrees` says, per step of the worker, what it may rely on (a task being
recovered is still unfinished, a retry concerns a failed task that is due, the
outcome in hand is what the target recorded), `RacedAgrees` that a promotion moves a
task at most once and only one that the worker holds, and `FailureRecorded` that a
failed slice has left a failed attempt unless the store failed.  The fence is needed
because a drain that is honest is what keeps the reconcile of another generation
from touching the rows of a slice.  `SucceededIsFinal` follows from `TaskInv` by
looking at the steps that write an attempt.

## 3. The Home switch and the settings

`HomeSwitch.tla` models `internal/preferences` together with the runtime that
`internal/app` binds to it.  `AtomicSwitch.tla` is what the switch promises.

| variable | code |
| --- | --- |
| `file` | the preferences snapshot on disk: revision, active Home, detached Homes, the journal (`pending_resume` or `pending_switch`), `last_switch`, all other settings as one value |
| `lease` | the cross-process switch execution lease |
| `proc` | per process: the step of the call its `Service` executes under its mutex, the plan kept in memory, the snapshot in hand, the snapshot it tried to write, whether a call has failed since the last one about the Home began |
| `work` | per process: what `deferredHomeRuntime` is bound to, the generation a starting worker was given, the one its lifecycle row carries, the one it serves (0: drained) |
| `boot` | per switch: the durable bootstrap job of its target |
| `outcomes` | history: every outcome ever written to `last_switch` |

Every compare-and-swap, every readback and every call of the Home runtime is one
action.  A compare-and-swap may succeed, lose against another revision, or report
an error before or after the replacement became visible (`Write`); the readback
that follows decides as the code does.  A process may die at any step, which frees
its lease.  A plan's id is the triple it is hashed from, an attempt's id is the
process that made it (a process has one live attempt, and the lease is held while
it lives), a data store key is the default one or the id of the plan that
allocated it.

The loop of `detachedWithoutDataStore` is a recursive function over the length of the
list.

The worker is in bootstrap mode, where the local Home runtime is
`bootstrap.Runtime`.  In light-index mode its calls do nothing and its status is
always `queued`, which is the behaviour of the steps that do not fail.
`BootstrapStatus` without a bound worker answers `not_started` in both modes.

`Races` names what nothing in the code prevents, and what the passing runs assume
the environment does not do when they check what the worker serves: starting a
worker beside a call, a wake between the drain and the publication of the target.
With either of the two `ServesActive` does not hold: the worker may open a
generation that the switch has just replaced.

### Runs

| run | instance | shows |
| --- | --- | --- |
| `home_one` | one process with a worker, three Homes, both strategies, two faults or crashes, under `RestartSpec` | the detailed switch implements `AtomicSwitch` (`Atomic`); the worker serves the generation the file names (`ServesActive`); a worker left drained is owed a Resume by the journal or was reported by an error (`ClosedIsReported`); a detached data store leaves the list only by becoming active (`DetachedKept`); both ways to resolve a pending switch stay valid (`Resolvable`); a journal is worked off in the end (`JournalSettles`) |
| `home_two` | two processes, one with a worker, both races, settings updates, a limit of no detached Homes | types and validity of the file; from its guard on a switch has the file to itself (`NobodyInterferes`); no write carries an old setting back (`NoLostUpdate`) |
| `home_unbound` | violated | a restart rolls back a switch whose bootstrap was started |

Besides the two races, instances with other constants show that

- a call that fails before it has a snapshot goes on with the zero snapshot
  (`lifecycle_runtime.go:699`);
- the switch beyond the limit of detached Homes is published but never finalized
  (`validation.go:63`: the limit is met by the final snapshot only), so
  `Resolvable` is checked below the limit;
- a worker start that failed after its bind blocks recovery until the application
  is restarted (`provider_control_runtime.go:699`), so `JournalSettles` is checked
  under `RestartSpec`.

Bounds.  Two Homes allow a switch and a switch back; three allow a detached Home
beside the two of the switch in progress, which is the only case in which the list
changes in the middle.  A switch takes at most four revisions (guard, pending,
rollback, audit), so `PlanSwitch` asks for four below `MaxRev`.  One fault makes a
call uncertain, a second one fails its recovery.

Fairness.  `Calm`: a call that runs takes its next step, a process that is down is
started again, and the user repeats the recovery while a journal is pending (the
client offers it for as long as the journal is reported).  `RestartSpec` adds that
the user does quit in the end.

### Proofs (`HomeSwitchProofs.tla`, `HomeServingProofs.tla`)

For any number of processes, Homes, settings, revisions and failures, and with both
races:

- `FileAlwaysValid`: `Spec => []TypeOK`, which includes `validatePreferences`;
- `NobodyElseWrites`: `Spec => []NobodyInterferes`;
- `UpdatesSurvive`, `DetachedHomesKept`: the action properties `NoLostUpdate` and
  `DetachedKept`;
- `SwitchIsAtomic`: `Spec => Atomic`, that is, `HomeSwitch` implements `AtomicSwitch`
  under the mapping that takes the journal away;
- `PendingIsResolvable`: `Resolvable` while the list of detached Homes is below its
  limit.  At the limit the final snapshot is refused; the rollback is valid even then
  (`RollbackAlwaysValid`).

`HomeInv` is the invariant behind all of them.  Its heart is `Knows(p)`: for each step
of a call, what the process may conclude about the file from the snapshot it read some
steps ago.  From the guard on it is the file itself, because the lease keeps other
switches out and the journal keeps settings updates out; before the guard, and for a
settings update, it is only that a file with the same revision is the same file
(`Current`), which is what makes the compare-and-swap safe; after an uncertain write
the file is the old snapshot or the one that was written.  `Sound` adds validity and
the room for revisions, `Audited` that the audits written so far belong to older plans
and never to the journal's own, which is what forbids that a switch both completes and
is rolled back, and `BaseKept` that the Home a pending switch would go back to is not
among the detached ones.  `HomeSwitchProofs` has the lemmas about the snapshots
(`PendingFact`, `FinalFact`, ...), about each replacement of the file (`GuardReplaced`,
..., `FinalReplaced`) and about the building blocks (`WriteFact`, `DoneFact`), then
one lemma per handler and the theorems.  What the filter of the
detached list returns (`FilterFact`: every kept Home, no other, in a list that is no
longer) is proved for lists of every length from a least prefix that would violate it
(`LeastNatural`).

For an application that is the only process on its file and without the two races:

- `OnlyActiveServed`: `Spec => []ServesActive`;
- `ClosedHomeReported`: `Spec => []ClosedIsReported`.

The hypotheses (`Races = {}` and a single element in `Procs`) are those of `home_one`;
with a race or with a second process that switches, the worker of the first serves the
old generation for a while, and the properties do not hold.  The invariant is
`ServingInv`: the worker stands still while a call runs unless the call moves it; its
Home is closed when the target is published and stays closed while the switch is
pending; the generation it starts or reopens with is read after the journal was
cleared; the Resume after a rollback opens the generation the file names.

The assumptions on the constants are those of `HomeSwitchAssumption`.

## 4. The quota refresh and the account binding

`RefreshPolicy.tla` is `RefreshPolicy.Plan` of `internal/codex/quota`: a pure
function, written as the set of decisions it may return.  `QuotaRefresh.tla` is the
coordinator of `internal/scheduler/quota_refresh.go` with its store, the bound fetch
services and the account runtime that replaces the account under it.

| variable | code |
| --- | --- |
| `binding`, `bound`, `ident` | the durable account binding with its generation; the copy the fetch services were given; where the account runtime is in a switch |
| `enabled` | the two online switches of the preferences |
| `rows` | per account and source: generation, due time, reason, claim with its trigger and lease, whether the claim has a durable attempt, last manual time |
| `states`, `newer` | the recorded outcome per instance; the accounts whose quota succeeded after the last attempt for Reset Credits |
| `fence` | the one global fence row, with the reason it was last raised for |
| `cyc` | the operation that holds `cycleMu`: its step, the preferences it loaded, the rows it has listed, the claim in hand and its descriptor, the answer, the ticks since it read the clock, whether its context is cancelled |
| `runner` | no runner, starting (Initialize not yet returned), up, or blocked by a permanent error |
| `owed` | history: what a completed 429 and the manual gaps promised, kept apart |

Time is what is left of it: a due time, a lease and a fence are the number of ticks
until they are over, and `Tick` lowers all of them.  An operation compares the fence
with the time it read at its start, so after `lag` ticks it sees the fence `lag`
ticks too high or its own writes that much too low; `Claimed` and `Raised` carry
this.  Ticks pass while no operation runs or while a request is under way.

| action | code |
| --- | --- |
| `BeginInit`, `BeginDue`, `BeginReconcile`, `BeginRearm` | Initialize, RunDueCycle, ReconcilePreferences, RearmAfterHomeChange take the mutex |
| `RearmAll`, `PlanAll`, `Credits` | rearm of both sources, replanning, `rearmResetCreditsAfterQuotaRecovery` |
| `Recover`, `Recovered`, `Refinish` | `recoverExpiredClaimsLocked` and what follows it |
| `Serve`, `Served`, `Request` | one due row; the end of the cycle; RequestRefreshResult up to its claim |
| `Answered`, `Mismatched`, `Record`, `RecordFails`, `Abandon`, `Finish`, `FinishFails` | `executeClaim` step by step |
| `Hide`, `Seal`, `Probe`, `GiveUp`, `Confirm`, `Publish` | the account runtime's switch |
| `Resume`, `Sleep`, `Cancelled` | ResumeGeneration, a drain, and the return of an operation it cancelled |
| `Die`, `Toggle`, `Tick` | process death with restart, a changed preference, time |

Whoever loads the descriptors also deactivates the rows of every other account and
abandons their claims (`Deactivated`).  Revisions and claim ids are left out: all
writers hold `cycleMu`, so a compare-and-swap cannot lose, and ids are fresh.  Who is
logged in is not a variable: any read may find anyone.

### Runs

| run | instance | shows |
| --- | --- | --- |
| `quota_accounts` | two accounts, one source, two generations, one fault, under `FairSpec` (361 thousand states) | stored decisions are in shape (`TypeOK`); no claim passes a fence (`FencesHold`); an outcome is stored only for the account that answered and is bound (`NoForeignOutcome`); a durable attempt is not sent again (`RecordedNotResent`); claims are finalized (`ClaimResolved`); due rows are claimed (`DueServed`) |
| `quota_sources` | one account, both sources, one tick of lag, four other triggers (2.4 million states) | `FencesHold` with companions and with operations whose time is past |
| `quota_blocked` | violated | the quota document says that everything recovers from the durable schedule after a process exit; a process that dies with a claim and cannot confirm that account at its restart ends Initialize with a permanent error, and no account is refreshed until the process is restarted |

Observed while modelling, without a run of their own:

- the same block has a second, narrow way in: the binding is hidden between the
  listing of due rows and the serving of one (`quota_refresh.go:443`).
  `ClaimResolved` and `DueServed` therefore exempt a blocked runner;
- a 429 that was recorded, but whose claim was abandoned because the account
  changed, raises no fence: only completion does, as the document says;
- the recorder, the policy and the tests accept `http_429` and `auth`; today's
  client of the App Server produces neither, and a migration can still leave a
  rate fence.  The violated run uses neither;
- fence rows of the old reason `network_backoff` count as no row in the code, and
  are not in the model.

Bounds.  Two accounts and two generations allow a switch there or a return of the
same account under a new generation.  One fault (death, drain, lost store error,
toggle, rearm) falls on any step.  `Gap`, `Lease`, cadence and backoff are one tick,
a retry-after is two: the fence of a 429 is then longer than every other wait, the
case in which merging the two reasons could shorten it.  Behaviours with two deaths
in a row, or three accounts, are not explored by TLC; the theorems cover them for
the safety properties.

Fairness.  Time passes; an operation that holds the mutex goes on, since each of its
calls has a deadline; the mutex is fair, so Initialize, the cron's cycle and
scheduled requests get their turn; a switch goes on or gives up.  That a drained
runner is resumed (`WF(Resume)`) is an assumption on the environment: after the
account runtime found nobody, the runner stays down until a wake or the next account.

### Proofs

`QuotaProofs.tla` proves, for all sets of accounts, intervals and bounds allowed by
`PolicyAssumption` and `RefreshAssumption`:

| theorem | states |
| --- | --- |
| `RefreshTypes` | `Spec => []TypeOK` |
| `FencesAlwaysHold` | `Spec => FencesHold` |
| `OutcomesAreOwn` | `Spec => NoForeignOutcome` |
| `RecordedOnce` | `Spec => RecordedNotResent` |

They rest on `RefreshInvariant`, `Spec => []IInv`, with
`IInv == TypeOK /\ FenceCovers /\ HandHolds`.  `FencesHold` speaks of two promises
and the store of one row, so induction needs `FenceCovers`: while a 429's time is
owed the row has reason `rate` and lasts at least as long, and while a manual gap is
owed there is a row that lasts at least as long.  `NoForeignOutcome` and
`RecordedNotResent` need `HandHolds`: from claim to end the instance in hand belongs
to the described account and is still claimed, and an answer waiting to be recorded
came from that account.  `TypeOK` holds the shape of stored decisions, which a plan
preserves only if the row it starts from has it.  The lemmas go bottom up: the types
of what the policy returns, what each row helper keeps, the effect of each group of
actions on the store, then one step per action.

## 5. Reporting: a device, its peers and the centre

| module | models |
| --- | --- |
| `Snapshots` | a snapshot cut into parts and put together (`api/.../reporting/v1/chunks.go`), and the arbitration between devices (`reporting_merge.go`), as operators |
| `ReportOutbox` | the client: sweeps over the index, `Enqueue`, the queue, the cursor, full syncs, settings, the cycle (`internal/reporting`) |
| `ReportCenter` | the server: `Accept`, staged parts, publication jobs under a lease, the short final transaction, both clean-ups (`reporting_srv`, `reporting_repo`) |
| `Reporting` | both, joined by uploads that are lost, answered late or handled after the client gave up; peers that report the same session |
| `ReportLog` | the promise: what is stored of a device is one of its exports, whole, and never an older one than before |
| `Disturbances` | the budget of disturbances, shared with the light index |
| `ReportingProofs`, `ReportDeliveryProofs`, `ReportCenterProofs` | the theorems |

One session of one device is followed.  Other sessions only make a page non-empty.
A digest is the snapshot itself.  A revision is the length of `log`, the history of
exports.  Cycles, settings and full syncs exclude each other in the code
(`r.operations`), so `Configure` and `FullSync` need an idle cycle; everything else
interleaves.

| variable | code |
| --- | --- |
| `local`, `indexed` | what the local index holds of the session; whether its pages are authoritative |
| `ckpt`, `outbox`, `cursor`, `fsync`, `mode` | `reporting_checkpoints`, `reporting_outbox`, `reporting_cursors`, `reporting_full_sync`, the settings |
| `cyc` | the running cycle: what it has to do next and what `again`, `returnErr` and `deferred` will be |
| `source`, `session`, `pub`, `usage` | the stored revision per device, the session row with its canonical snapshot, the publication pointer, the usage rows by generation |
| `chunks`, `jobs`, `receipts`, `work` | staged parts, publication jobs with their leases, confirmed batches, what each server's worker is doing |
| `late` | requests nobody waits for any more |
| `log`, `discarded`, `raced` | history |

| action | code |
| --- | --- |
| `ExportPage`, `EndSweep`, `SaveCursor`, `SkipExport`, `ExportFails` | `exportSessions`, up to its two separate transactions and with a full queue or an unreadable index |
| `UploadAnswered`, `UploadTimesOut`, `DeliverLate` | `drain`, `client.Upload` and `Accept` with its five outcomes |
| `CycleEnd`, `CycleStop` | the end of `cycle` with `finishFullSync`; a death, a cancellation, the minute that is over |
| `Configure`, `SyncNow`, `FullSync` | the operations of the settings page |
| `Claim`, `Read`, `Refuse`, `StageUsage`, `CommitPublication`, `GiveBack`, `Die`, `LeaseExpires` | `ProcessPublication` |
| `CleanupPublication`, `CollectSelect`, `CollectDelete` | the two clean-ups; the collector selects and deletes in two statements |
| `LocalChange`, `IndexComplete`, `SweepDue`, `RetryDue`, `PeerUpload` | the index, the clock, the other devices |

Run `reporting` (2 million states): one device and two peers, snapshots of one and of
two parts, a queue of three rows, one late request, two disturbances with one server or
one with two.  Every disturbance draws on the same budget, in any order; two are
enough for a lost answer followed by a death, a discard during a full sync, or an
expired lease and a second claim.  Steps that time alone brings about are free.

| property | says |
| --- | --- |
| `NoLoss` | the latest export is stored, or still queued or staged in full; what counts as acknowledged is stored |
| `NeverRejected` | no retry, reset or late request makes the device reuse a revision for another content, which would stop reporting |
| `Settled` | the projection is what the arbitration makes of the stored sources: a rebuild changes nothing, or takes a copy of the same facts with more prices |
| `PublishedKept` | the publication pointer names the canonical snapshot and all its usage rows are there |
| `EvidenceKept` | facts leave the projection only because the device they came from stored a newer complete snapshot or a deletion |
| `FullSyncHonest` | a full sync is "completed" only with the session exported again and stored |
| `StoresExports` | `Reporting` implements `ReportLog` |

`CHECK_DEADLOCK FALSE`: reporting may be switched off, and then nothing has to happen.

Proved, for any reports, devices, servers, chunk size, queue budget, number of late
requests and budget of disturbances, that is, all properties of the run:

| module | theorems |
| --- | --- |
| `ReportingProofs` | `ExportsStored` (`StoresExports`), `NoRejection` (`NeverRejected`), `PublicationKept` (`PublishedKept`), `SplitAssembles` |
| `ReportDeliveryProofs` | `LatestNotLost` (`NoLoss`), `FullSyncCompletes` (`FullSyncHonest`) |
| `ReportCenterProofs` | `JobsReadable`, `ProjectionSettled` (`Settled`), `EvidenceNotLost` (`EvidenceKept`) |

The assumptions: the followed device is a client and not one of its peers; the clients
come in a sequence (`OrderAssumption`); a report of a device or a peer is a record with
finitely many facts (`ReportsAssumption`, `PeersAssumption`) and a peer's revisions are
natural numbers; a part holds at least one row; `"none"` is not the name of a server.

- *Provenance* (`IInv`).  Neither `StoresExports` nor `NeverRejected` is inductive: what
  is stored comes from a worker, that from a job, that from staged parts, those from the
  queue or from a late request.  `IInv` says of each of these places that what it holds
  of the device is a part of one of its exports (`Exported`), and of a worker that has
  read its parts that it holds the export itself.  A part names the revision and the
  digest of its export, so two contents never meet under one revision.
- *Publications* (`PubInv`).  While a worker has its lease, all it will publish is staged or
  still to be staged, because the collector deletes nothing while a lease is held; and
  what a collector chose is not part of the publication, unless `raced`.
- *Delivery* (`HeldInv`, `QueuedInv`).  While the latest export is not stored, a part of
  it that was confirmed is staged, and at least one part is not confirmed.  This is the
  heart of the chunked upload: the part that completes the set becomes a job instead of
  being confirmed (a counting argument, `LastCompletes`), the job confirms it in the
  transaction that stores the snapshot, and the clean-up removes the parts of published
  jobs only.  A row leaves the queue when its part is confirmed, so the parts that are
  not confirmed are still queued, unless the queue was discarded.
- *Full sync* (`SyncInv`).  As long as a full sync has exported nothing and the session
  was not gone, the digest is forgotten, the sweep stands before the session, and the
  cycle is idle or has failed; such a cycle cannot complete the full sync.
- *Parts* (`SplitAssembles`).  For a snapshot of any length and any chunk size, the parts
  `SplitSnapshot` cuts pass every check of `AssembleSnapshot` and give the snapshot back:
  the facts of the first parts are a prefix of the snapshot's, ending where the next part
  begins (`PartsJoin`, for a least part at which they would differ).
- *Jobs* (`JobsInv`).  A job of the device is the last part of its export to arrive: all
  others are confirmed, so there is no second job of the export, and all are staged
  until it is published, because `DeleteChunks` spares the revisions of jobs that wait
  and the clean-up takes the parts of published ones.  So a job never fails because its
  parts are missing or do not fit together (`JobsReadable`); what is left to make it
  fail are budgets and the store.  No run states this one; TLC checked it, and
  `JobsInv`, on the instance of the run.
- *Arbitration*.  `DecideSnapshot` is a loop over the sources.  From one source to the
  next the facts of the selected snapshot only grow (`FactsGrow`), so at the end no
  candidate has more facts unless the correction fence is up (`NothingMissed`).  A
  rebuild starts from what the first decision selected (`Restarts`), behind the same
  fence (`FenceStays`); then a candidate can replace it only with the same facts and
  more prices (`SecondPass`).
- *Projection* (`ProjectionInv`).  Sources and session change only together (`Projects`),
  in an upload handled at once or in the final transaction of a worker, which checks
  that both are those it read.  Hence the session always comes from a decision over the
  sources that are stored, and a rebuild finds at most better prices (`Rebuilt`); and the
  source it was taken from is stored, not deleted, and, if complete, has all its facts
  (`Backed`).  As long as that is so a decision keeps the facts (`PlanKeepsFacts`), so what
  makes them go is a newer snapshot of that very device (`Retracted`).

`IInv`, `PubInv`, `HeldInv`, `QueuedInv`, `SyncInv`, `JobsInv` and `ProjectionInv` were also
checked with TLC on the instance of the run.

`Settled` first said that a rebuild changes nothing.  With a device and one peer that
is true; the proof failed for three copies, for the reason given below, and TLC
shows it on a larger budget of disturbances than the run has.  What holds for any number
of devices is stated now: facts never change in a rebuild, and a change brings more
prices, so rebuilds without uploads come to an end.

Observed while modelling, without a run of their own:

- `clearPending` forgets the digests so that everything is exported again
  (`state.go:349`), but `removed` only considers checkpoints that are not marked
  deleted (`state.go:318`): a deletion that was queued and discarded is never
  reported.  `NoLoss` asks after a discard only that the digest is forgotten;
- with two server instances `CollectVersions` (`payload.go:117`) can delete usage rows
  that another instance published between its two statements: they are chosen while
  unreferenced and no lease is held, then claimed, published and released, then
  deleted by key.  `docs/test/reporting-publications.md` (item 7) promises that
  published data is not collected.  `raced` marks this interleaving and
  `PublishedKept` exempts it;
- `exportReportingCodex` reads the scan row with `state = 'active'`
  (`store/reporting_export.go:121`), while an append of the light index turns the
  visible row to `building` in place: a page with such a session is not exported
  until the append is done;
- with three copies of a session, one pass of `DecideSnapshot` need not be the last
  word.  When the device the session was taken from deletes it, the pass starts with
  the first copy left and prefers a complete copy over a partial one
  (`reporting_merge.go:206`, only without an accepted snapshot), even when the partial
  one knows more prices; the next rebuild has an accepted snapshot and takes the
  priced copy (`RebuildMayMove` in `MCReporting` is the example).  So a first rebuild
  may report a change where nothing was uploaded.  It may go on while copies with more
  prices turn up, since `enrichable` is not transitive, but no longer: see `Settled`
  and its proof;
- a job that failed for good answers `failed` for ever: its row stays queued, and a
  full sync does not complete until the queue is cleared;
- `startFullSync` keeps the sweep's identity, so a session seen earlier in the sweep
  and deleted since gets its deletion only in the next sweep (`fsync.gone`);
- the last part of a superseded revision may be confirmed although that revision is
  never published.  This is safe: the newer one is queued by then.

Left out: batches of facts and device status, pairing and the change of partition it
brings, revoked clients, payload parts and their collection, the reconciliation of
Cursor dashboards, the limits of one drain (32 rows, 20 seconds).  Liveness is not
checked: at the size the safety run needs, the behaviour graph is too large.

## 6. The light index

`LightIndex.tla` is the resident worker of `internal/lightindex` with the transactions
of `internal/store/lightindex`: it follows the threads the App Server lists and counts
the tokens in their rollout files, which Codex goes on writing.

| variable | code |
| --- | --- |
| `file`, `threads` | the rollout files (path, inode, size, time, content) and the list of threads; both change at any time |
| `meta`, `gen`, `total` | `light_sessions` rows, the metadata generation and the state of the index |
| `scans` | `light_token_scans`: per session the visible generation and one being built, with identity, offset, parser and state |
| `parser` | the version of the running program's parser |
| `wk` | the worker: down, waiting for a tick, between slices, at a session's turn, or at a batch, with the continuation it keeps in memory |

A file is measured in half lines, so that it may end in the middle of one.  `ver` is
its content: growing keeps it, every other change starts a new one, and two contents
differ within the prefix that is compared.  `counted` is history: from which content,
by which parser, the lines of a row were counted.

| action | code |
| --- | --- |
| `Start`, `Wake`, `NextSlice`, `SliceEnds`, `PassEnds` | `Start`, `run`, `scanBudgetedSlice`, `FinishLightScanPass` |
| `NoRollout`, `SourceFails`, `Reuse`, `SessionGone`, `BeginScan` | one session's turn: `scanSession` with its reread after a conflict, `scanSessionData`, `scanExistingPending`, and the transaction chosen: `StartLightTokenRebuild`, `StartLightTokenAppend`, `UpdateLightTokenPendingIdentity`, `RestartLightTokenPendingRebuild` |
| `NoBudget`, `ChangedDuringScan`, `ScanBatch` | `scanPending`: `SnapshotReader.read` and `CommitLightTokenBatch` |
| `FileGrows`, `FileReplaced`, `FileTouched`, `FileMoved`, `FileRemoved`, `ListChanges`, `ListReturns`, `ListFollows`, `Crash` | the world around it |

What a session's turn does is decided from what the pass loaded (`Plan`), possibly
several slices and metadata refreshes ago, and admitted by what the transaction finds
(`Allowed`).  The retries of a conflict are one reread: only the worker changes the
store.

Run `lightindex` (670 thousand states, deadlock checked): three sessions, of which the
first and the last change, two disturbances, two lines.  With three sessions there are
two slice ends, and so two refreshes, between the loading of the last session and its
turn.

| property | says |
| --- | --- |
| `ScanRows` | the rows of a session are the visible generation and at most one being built, which is the visible one or its successor; otherwise `ListLightSessionScans` fails for ever |
| `OneContent` | a row's counts come from one content and one parser, and a complete row has counted all of it; no offset is past the end |
| `CompleteHonest` | "complete" means a complete visible generation and nothing left to scan |
| `VisibleKept` | what is shown is replaced only by a complete count and never goes down for the same content |
| `CatchesUp` | once files, list and program are left alone, every listed session whose file is in place is shown as complete with the count of that file, unlisted ones are gone, and the index says so |

Fairness is weak fairness of the worker (`Work`): its goroutine runs, its ticker ticks
and the program is started again.  The disturbances are bounded, which is what "left
alone" means; running out of budget before the first batch counts as one, since the
code's budget of a fresh slice is never exhausted for ever.

### Proved

`LightIndexProofs.tla` proves `ScanRows`, `OneContent`, `CompleteHonest` and
`VisibleKept` for any sessions, paths, lengths and number of disturbances, from
`LightAssumption` and `DisturbAssumption`.  None is inductive alone; `IInv` adds

- of the store: types, `Longer` (a generation built beside the visible one from the
  same content has at least its size), and `Recent`: contents are numbered by `ops`,
  and no row is longer than the file, where the file still has its content (`Covers`);
- of the worker: `TodoOK`, a pass has each session once, and a scan being
  built is still as it was loaded until its session's turn (`Cached`); and `Builds`, the row
  that is being read is of the snapshot in the worker's hand.

The proof that a step preserves `IInv` has one lemma per action; the four transactions
share lemmas on what `Put`, `NewScan` and `Grown` do to a consistent set of rows.
`CatchesUp` (liveness) is only model-checked.

Observed while modelling:

- a session that left the list between loading and turn ends the whole pass where
  `StartLightTokenAppend`, `UpdateLightTokenPendingIdentity`, `RestartLightTokenPendingRebuild`
  or the commit looks for it: they return the database's own not-found error, which
  `recoverableSessionScanError` does not know, while `StartLightTokenRebuild` returns
  `ErrNotFound`.  The next tick makes up for it;
- a file that grows while it is scanned is marked "failed" at every change, and keeps
  its progress.

Left out: the Home fence and the index of a Home switch, compressed rollouts, lines too
long for a batch and the doubling of batches, the one-shot `scanAll`, notices and the
deep index of one session.  A file that is truncated and grows again with the same
compared prefix, size and time is not told apart by the code, nor by the model.

## 7. What is not modelled, and why

- **What data means.**  Parsing of log lines, pricing, attribution, metrics, throughput,
  privacy rules, the shape of queries and the central statistics are transformations
  of rows without a protocol; the repository tests them with tables.
- **Operating system and transport.**  Sockets, the token pipe, gRPC, file permissions,
  directory walking, HTTP and pairing are I/O; models use their outcomes.
- **Ingest of the deep index.**  `CommitIngestBatch` moves a checkpoint and its facts in
  one transaction and replaces generations along lineages of superseded ones.  A model
  of the lineage rules small enough to check would leave out what makes them hard.
- **Generations of the quota runtime, admission of bootstrap attempts.**  Modelled as
  the coordinators meet them.  Composing them with the scheduler or the Home switch
  multiplies two state spaces that are each near what TLC finishes.
- **Light index beside reporting.**  Each runs in a model of its own; the one place
  where they meet that matters (`store/reporting_export.go:121`) is described above.
- **Other providers, API subscriptions, retention, health, invalidation, access.**  One
  replacing write, one read on demand, one delete by age, a critical section, one
  transaction: `components` in `PROJECT.json` has the reason for each.
- **Clients and the web dashboard.**  User interfaces in other languages.

## 8. Checked and proved

| | model-checked | proved for every instance |
| --- | --- | --- |
| scheduler and coordinator | everything in section 2 | `TypeOK`, `Fenced`, `NoForeignSlice`, `SliceOwnsRow`, `DrainedStaysQuiet`, `DrainHonest`, `TargetAgrees`, `OneLiveAttempt`, `RetryBudget`, `RebaseOnce`, `SucceededIsFinal`; `RetryAccepted` without store faults |
| Home switch | everything in section 3 | `TypeOK`, `NobodyInterferes`, `NoLostUpdate`, `DetachedKept`, `Atomic`; `Resolvable` below the limit; `ServesActive`, `ClosedIsReported` for a single process without races |
| quota refresh | everything in section 4 | `TypeOK`, `FencesHold`, `NoForeignOutcome`, `RecordedNotResent` |
| reporting | everything in section 5 | `NoLoss`, `NeverRejected`, `Settled`, `PublishedKept`, `EvidenceKept`, `FullSyncHonest`, `StoresExports`; parts assemble (`SplitAssembles`), jobs find them (`JobsReadable`) |
| light index | everything in section 6 | `ScanRows`, `OneContent`, `CompleteHonest`, `VisibleKept` |

Liveness (`EveryTaskServed`, `JournalSettles`, `ClaimResolved`, `DueServed`, `CatchesUp`)
is only model-checked: it is out of the prover's reach, as is `ENABLED`.  Every other
property of a passing run has a theorem; those named with a condition in the table are
proved under that condition, and sections 2 and 3 say why.  Induction over data is not
available as such; the loops and filters that had to be reasoned about (the list of
detached Homes, the arbitration, the assembly of parts) are proved from a least
counterexample instead.

## 9. Running

    tlc -workers 2 -config SchedFence.cfg MCScheduler
    tlc -workers 2 -config HomeOne.cfg HomeSwitch
    tlc -workers 2 -config QuotaAccounts.cfg QuotaRefresh
    tlc -workers 2 -config Reporting.cfg MCReporting
    tlc -workers 2 -config LightIndex.cfg MCLightIndex
    tlapm SchedulerProofs.tla
    tlapm HomeSwitchProofs.tla
    tlapm HomeServingProofs.tla
    tlapm QuotaProofs.tla
    tlapm LightIndexProofs.tla
    tlapm ReportingProofs.tla
    tlapm ReportDeliveryProofs.tla
    tlapm ReportCenterProofs.tla
