------------------------------ MODULE HomeSwitch ------------------------------
(***************************************************************************)
(* The switch of the active Codex Home.  internal/preferences keeps one    *)
(* snapshot in a private file, replaced by compare-and-swap on its         *)
(* revision.  A switch is a sequence of such replacements around calls of  *)
(* the Home runtime (drain the old generation, start the bootstrap of the  *)
(* new one), made durable by a journal: pending_resume while the old       *)
(* generation may be drained, pending_switch while the target is active    *)
(* and the bootstrap's fate is not yet recorded.                           *)
(*                                                                         *)
(* Every process of Procs runs one preferences.Service (its mutex makes    *)
(* the process one thread of control, its last plan lives in memory) and   *)
(* at most one Codex worker bound to the service as its Home runtime.      *)
(* Between any two steps of one process another may run, any process may   *)
(* die, and a call of the file store or of the runtime may fail, a         *)
(* replacement also after it became visible.                               *)
(***************************************************************************)
EXTENDS Integers, Sequences

CONSTANTS
    Procs,          \* the processes that share the preferences file
    Workers,        \* those of them in which Codex is enabled
    Homes,          \* the physical identities of Codex Home directories
    Settings,       \* the values of all the other preferences together
    Races,          \* what may happen beside a call: "start", "wake"
    DetachedLimit,  \* how many detached Homes validation accepts (64)
    MaxRev,         \* bound: revisions the file reaches
    MaxFaults       \* bound: failing calls and deaths of processes

ASSUME HomeSwitchAssumption ==
    /\ Workers \subseteq Procs
    /\ Races \subseteq {"start", "wake"}
    /\ DetachedLimit \in Nat
    /\ MaxRev \in Nat \ {0}
    /\ MaxFaults \in Nat
    /\ "none" \notin Homes
    /\ "none" \notin Procs

VARIABLES
    file,       \* the preferences snapshot on disk
    lease,      \* the process that holds the switch execution lease, or "none"
    proc,       \* per process: position, plan, snapshots in hand, last result
    work,       \* per process: is a worker bound, which generation it serves
    boot,       \* per switch id: the durable bootstrap of its target
    outcomes,   \* every (switch id, outcome) ever recorded as last_switch
    faults      \* failures so far

vars == <<file, lease, proc, work, boot, outcomes, faults>>

Strategies == {"independent", "rebuild"}

(* A plan's id is a hash of the revision it was made at and of the target. *)
NoId == <<0, "none", "none">>
Ids == {NoId} \cup ((1..MaxRev) \X Homes \X Strategies)

(* A data store key is the default one or derived from a plan's id.        *)
DefaultKey == NoId

NoHome == [src |-> "none", gen |-> 0, key |-> DefaultKey]

(* pending_resume and pending_switch exclude each other: one journal with  *)
(* a kind.  The target of pending_switch is the active Home.               *)
NoJournal == [kind |-> "none", id |-> NoId, att |-> "none",
              strat |-> "none", from |-> 0, prev |-> NoHome]

NoAudit == [id |-> NoId, out |-> "none"]

(* The zero snapshot a failing call returns.                               *)
NoFile == [rev |-> 0, home |-> NoHome, det |-> <<>>, j |-> NoJournal,
           last |-> NoAudit, set |-> "none"]

NoPlan == [id |-> NoId, rev |-> 0, from |-> NoHome, target |-> NoHome,
           strat |-> "none"]

(* Two Homes are the same directory: path, device and inode agree.         *)
SameSource(h, g) == h.src = g.src

-------------------------------------------------------------------------------
(* What a snapshot must satisfy to be written or read.                     *)

ValidSwitchJournal(s) ==
    /\ s.home.gen = s.j.from + 1
    /\ s.j.prev.gen = s.j.from
    /\ ~SameSource(s.j.prev, s.home)
    /\ (s.j.strat = "independent") <=> (s.home.key # s.j.prev.key)

ValidDetachedHomes(s) ==
    IF s.home = NoHome
    THEN s.det = <<>>
    ELSE /\ Len(s.det) <= DetachedLimit
         /\ \A i \in DOMAIN s.det :
               /\ s.det[i].gen < s.home.gen
               /\ s.det[i].key = s.home.key =>
                     s.j.kind = "switch" /\ SameSource(s.det[i], s.home)
               /\ \A k \in DOMAIN s.det : s.det[i].key = s.det[k].key => i = k

ValidatePreferences(s) ==
    /\ s.rev > 0
    /\ s.home = NoHome => s.j.kind = "none"
    /\ s.j.kind = "switch" => ValidSwitchJournal(s)
    /\ s.j.kind = "resume" => s.j.from = s.home.gen
    /\ ValidDetachedHomes(s)

-------------------------------------------------------------------------------
(* The snapshots the service writes, from the snapshot s it holds.         *)

Bump(s) == [s EXCEPT !.rev = @ + 1]

SettingsSnapshot(s, v) == [Bump(s) EXCEPT !.set = v]

InitialSnapshot(s, plan) ==
    [Bump(s) EXCEPT !.home = plan.target,
                    !.last = [id |-> plan.id, out |-> "completed"]]

ResumeGuardSnapshot(s, plan, p) ==
    [Bump(s) EXCEPT !.j = [kind |-> "resume", id |-> plan.id, att |-> p,
                           strat |-> plan.strat, from |-> s.home.gen,
                           prev |-> NoHome]]

PendingSnapshot(s, plan) ==
    [Bump(s) EXCEPT !.home = plan.target,
                    !.j = [s.j EXCEPT !.kind = "switch", !.prev = s.home]]

RollbackSnapshot(s) ==
    [Bump(s) EXCEPT !.home = s.j.prev,
                    !.j = [s.j EXCEPT !.kind = "resume", !.prev = NoHome]]

ResumedSnapshot(s) ==
    [Bump(s) EXCEPT !.j = NoJournal,
                    !.last = [id |-> s.j.id, out |-> "rolled_back"]]

(* Variant of DetachedWithoutDataStore that keeps the reactivated store.   *)
DetachedUnfiltered(det, key) == det

(* The loop copies what it keeps.                                          *)
DetachedWithoutDataStore(det, key) ==
    LET kept[n \in 0..Len(det)] ==
          IF n = 0 THEN <<>>
          ELSE IF det[n].key # key THEN Append(kept[n - 1], det[n])
          ELSE kept[n - 1]
    IN  kept[Len(det)]

(* Variants of FinalSnapshot: the audit is forgotten; the list is rebuilt. *)
FinalUnaudited(s) ==
    [Bump(s) EXCEPT
        !.j = NoJournal,
        !.det = IF s.j.strat = "independent"
                THEN Append(DetachedWithoutDataStore(@, s.home.key), s.j.prev)
                ELSE @]

FinalReplacesDetached(s) ==
    [Bump(s) EXCEPT !.j = NoJournal,
                    !.det = IF s.j.strat = "independent" THEN <<s.j.prev>> ELSE @,
                    !.last = [id |-> s.j.id, out |-> "completed"]]

FinalSnapshot(s) ==
    [Bump(s) EXCEPT
        !.j = NoJournal,
        !.det = IF s.j.strat = "independent"
                THEN Append(DetachedWithoutDataStore(@, s.home.key), s.j.prev)
                ELSE @,
        !.last = [id |-> s.j.id, out |-> "completed"]]

ResolvedSwitchMatches(s, home, id, out) ==
    /\ s.j.kind = "none"
    /\ s.home = home
    /\ s.last = [id |-> id, out |-> out]

ResumeGuardMatches(s, j) ==
    /\ s.j.kind = "resume"
    /\ s.j = j
    /\ s.home.gen = j.from

ResumeCompletedMatches(s, id) ==
    /\ s.j.kind = "none"
    /\ s.last = [id |-> id, out |-> "rolled_back"]

-------------------------------------------------------------------------------
(* The Home runtime of process p as its service sees it: none bound, a     *)
(* worker that is starting or attached, or what a failed start left bound: *)
(* its quota runtime is closed ("stale") and its coordinator too ("dead"). *)

Bindings == {"none", "starting", "attached", "stale", "dead"}

Drainable(p) == work[p].bind \in {"none", "attached"}

(* Variant of Resumable that needs a worker to resume.                     *)
ResumableAttached(p) == work[p].bind = "attached"

Resumable(p) == work[p].bind # "dead"

BootstrapStatus(p, id) ==
    IF work[p].bind = "none" THEN "not_started" ELSE boot[id]

(* Nothing in the code keeps a worker from starting beside a call that     *)
(* entered without one: unless it is one of Races, the environment does.   *)
MayCall(p) == "start" \in Races \/ (work[p].next = 0 /\ work[p].bind # "starting")

(* Does the process enter its calls through an attached worker?            *)
ViaWorker(p) == work[p].bind = "attached"

-------------------------------------------------------------------------------
Steps == {"down", "idle", "initial", "initRead", "initStart", "guard",
          "guardRead", "drain", "pend", "pendRead", "start", "freeze",
          "status", "back", "backRead", "resume", "clear", "clearRead",
          "final", "finalRead", "reopen", "set", "setRead"}

Fresh == [pc |-> "idle", plan |-> NoPlan, why |-> "call", view |-> NoFile,
          want |-> NoFile, err |-> FALSE]

Down == [Fresh EXCEPT !.pc = "down"]

Off == [bind |-> "none", next |-> 0, row |-> 0, open |-> 0]

Init ==
    /\ \E h \in Homes \cup {"none"}, v \in Settings :
          file = [NoFile EXCEPT
                    !.rev = 1, !.set = v,
                    !.home = IF h = "none" THEN NoHome
                             ELSE [NoHome EXCEPT !.src = h, !.gen = 1]]
    /\ lease = "none"
    /\ proc = [p \in Procs |-> Down]
    /\ work = [p \in Procs |-> Off]
    /\ boot = [id \in Ids |-> "not_started"]
    /\ outcomes = {}
    /\ faults = 0

-------------------------------------------------------------------------------
(* Building blocks.                                                        *)

Fault == faults < MaxFaults /\ faults' = faults + 1

NoFault == UNCHANGED faults

At(p, step) == proc[p].pc = step

Goto(p, step) == proc' = [proc EXCEPT ![p].pc = step]

GotoWith(p, step, s) == proc' = [proc EXCEPT ![p].pc = step, ![p].view = s]

Release(p) == lease' = IF lease = p THEN "none" ELSE lease

(* The service returns snapshot s and perhaps an error; err keeps whether  *)
(* a call failed since the last one about the Home began.  A start of the  *)
(* application ends with an error; a start of the worker goes on with the  *)
(* generation it was given; a call through the worker reopens the Home.    *)
Done(p, s, e) ==
    /\ Release(p)
    /\ LET back == [Fresh EXCEPT !.plan = proc[p].plan, !.err = e] IN
       CASE proc[p].why = "startup" ->
              /\ proc' = [proc EXCEPT ![p] = IF e THEN Down ELSE Fresh]
              /\ UNCHANGED work
         [] proc[p].why = "worker" ->
              /\ proc' = [proc EXCEPT ![p] = back]
              /\ work' = IF e \/ s.home = NoHome \/ s.j.kind # "none"
                         THEN work
                         ELSE [work EXCEPT ![p].next = s.home.gen]
         [] proc[p].why = "reopen" ->
              /\ proc' = [proc EXCEPT ![p] =
                            IF s.j.kind # "none" THEN back
                            ELSE [back EXCEPT !.pc = "reopen", !.view = s]]
              /\ UNCHANGED work
         [] OTHER -> proc' = [proc EXCEPT ![p] = back] /\ UNCHANGED work

(* Variants of Replace: the revision is not compared; the snapshot is not  *)
(* validated.                                                              *)
ReplaceBlind(p, next) ==
    /\ ValidatePreferences(next)
    /\ file' = next
    /\ outcomes' = outcomes \cup
          (IF next.last = file.last THEN {} ELSE {<<next.last.id, next.last.out>>})

ReplaceUnvalidated(p, next) ==
    /\ file.rev = proc[p].view.rev
    /\ file' = next
    /\ outcomes' = outcomes \cup
          (IF next.last = file.last THEN {} ELSE {<<next.last.id, next.last.out>>})

(* file_store.go CompareAndSwap: the revision must be the one in hand.     *)
Replace(p, next) ==
    /\ file.rev = proc[p].view.rev
    /\ ValidatePreferences(next)
    /\ file' = next
    /\ outcomes' = outcomes \cup
          (IF next.last = file.last THEN {} ELSE {<<next.last.id, next.last.out>>})

NoWrite == UNCHANGED <<file, outcomes>>

(* A compare-and-swap of next that succeeds, or one that reports an error: *)
(* for a revision that moved on, or for a fault before or after the        *)
(* replacement became visible.                                             *)
Write(p, next, ok, read) ==
    /\ \/ Replace(p, next) /\ NoFault /\ GotoWith(p, ok, next)
       \/ /\ \/ file.rev # proc[p].view.rev /\ NoWrite /\ NoFault
             \/ Fault /\ (NoWrite \/ Replace(p, next))
          /\ proc' = [proc EXCEPT ![p].pc = read, ![p].want = next]
    /\ UNCHANGED <<lease, work, boot>>

(* As Write, for the write that ends the call.                             *)
WriteAndReturn(p, next, read) ==
    \/ Replace(p, next) /\ NoFault /\ Done(p, next, proc[p].err) /\ UNCHANGED boot
    \/ /\ \/ file.rev # proc[p].view.rev /\ NoWrite /\ NoFault
          \/ Fault /\ (NoWrite \/ Replace(p, next))
       /\ proc' = [proc EXCEPT ![p].pc = read, ![p].want = next]
       /\ UNCHANGED <<lease, work, boot>>

(* A read of the file that finds it unreadable.                            *)
Unreadable(p, step, s) ==
    At(p, step) /\ Fault /\ Done(p, s, TRUE) /\ NoWrite /\ UNCHANGED boot

-------------------------------------------------------------------------------
(* UpdateSettings.                                                         *)

(* Variant of UpdateSettings that does not refuse while a journal exists.  *)
UpdateSettingsPending(p, v) ==
    /\ At(p, "idle")
    /\ file.set # v
    /\ file.rev < MaxRev
    /\ proc' = [proc EXCEPT ![p].pc = "set", ![p].view = file, ![p].why = "call",
                            ![p].want = SettingsSnapshot(file, v)]
    /\ UNCHANGED <<file, lease, work, boot, outcomes, faults>>

UpdateSettings(p, v) ==
    /\ At(p, "idle")
    /\ file.j.kind = "none"
    /\ file.set # v
    /\ file.rev < MaxRev
    /\ proc' = [proc EXCEPT ![p].pc = "set", ![p].view = file, ![p].why = "call",
                            ![p].want = SettingsSnapshot(file, v)]
    /\ UNCHANGED <<file, lease, work, boot, outcomes, faults>>

SettingsWrite(p) ==
    /\ At(p, "set")
    /\ WriteAndReturn(p, proc[p].want, "setRead")

ReadbackSettings(p) ==
    \/ Unreadable(p, "setRead", proc[p].view)
    \/ /\ At(p, "setRead")
       /\ Done(p, file, proc[p].err \/ file # proc[p].want)
       /\ NoWrite /\ NoFault /\ UNCHANGED boot

-------------------------------------------------------------------------------
(* PlanSwitch and ConfirmSwitch.                                           *)

HasDetached(det, h) == \E i \in DOMAIN det : det[i].src = h

DetachedDataStoreKey(det, h) ==
    LET first == CHOOSE i \in DOMAIN det :
                   det[i].src = h /\ \A k \in 1..(i - 1) : det[k].src # h
    IN  det[first].key

PlannedKey(s, id, h, strat) ==
    CASE s.home = NoHome /\ strat = "rebuild" -> DefaultKey
      [] strat = "rebuild"                    -> s.home.key
      [] HasDetached(s.det, h)                -> DetachedDataStoreKey(s.det, h)
      [] OTHER                                -> id

PlanSwitch(p, h, strat) ==
    /\ At(p, "idle")
    /\ file.j.kind = "none"
    /\ h # file.home.src
    /\ file.rev + 4 <= MaxRev
    /\ LET id == <<file.rev, h, strat>>
           plan == [id |-> id, rev |-> file.rev, from |-> file.home,
                    target |-> [src |-> h, gen |-> file.home.gen + 1,
                                key |-> PlannedKey(file, id, h, strat)],
                    strat |-> strat]
       IN  /\ proc[p].plan # plan
           /\ proc' = [proc EXCEPT ![p].plan = plan]
    /\ UNCHANGED <<file, lease, work, boot, outcomes, faults>>

Enter(p, step) ==
    /\ lease' = p
    /\ proc' = [proc EXCEPT ![p].pc = step, ![p].view = file, ![p].err = FALSE,
                            ![p].why = IF ViaWorker(p) THEN "reopen" ELSE "call"]

ConfirmSwitch(p) ==
    /\ At(p, "idle")
    /\ MayCall(p)
    /\ proc[p].plan # NoPlan
    /\ lease = "none"
    /\ file.j.kind = "none"
    /\ file.rev = proc[p].plan.rev
    /\ file.home = proc[p].plan.from
    /\ Enter(p, IF file.home = NoHome THEN "initial" ELSE "guard")
    /\ UNCHANGED <<file, work, boot, outcomes, faults>>

(* The file moved on since the plan was made: the call returns at once,    *)
(* with success when it finds its own switch completed.                    *)
ConfirmAgain(p) ==
    /\ At(p, "idle")
    /\ proc[p].plan # NoPlan
    /\ lease = "none"
    /\ file.j.kind = "none"
    /\ file.rev # proc[p].plan.rev \/ file.home # proc[p].plan.from
    /\ LET same == ResolvedSwitchMatches(file, proc[p].plan.target,
                                         proc[p].plan.id, "completed")
       IN  proc' = [proc EXCEPT
                     ![p].pc = IF ViaWorker(p) THEN "reopen" ELSE "idle",
                     ![p].view = IF ViaWorker(p) THEN file ELSE NoFile,
                     ![p].err = ~same]
    /\ UNCHANGED <<file, lease, work, boot, outcomes, faults>>

(* The lease, the context or the file fails before ConfirmSwitch or        *)
(* RecoverSwitch has a snapshot.                                           *)
CallFails(p) ==
    /\ At(p, "idle")
    /\ ViaWorker(p)
    /\ Fault
    /\ proc' = [proc EXCEPT ![p].pc = "reopen", ![p].view = NoFile, ![p].err = TRUE]
    /\ UNCHANGED <<file, lease, work, boot, outcomes>>

InitialWrite(p) ==
    /\ At(p, "initial")
    /\ Write(p, InitialSnapshot(proc[p].view, proc[p].plan), "initStart", "initRead")

InitialRead(p) ==
    \/ Unreadable(p, "initRead", proc[p].view)
    \/ /\ At(p, "initRead")
       /\ Done(p, file, ~ResolvedSwitchMatches(file, proc[p].want.home,
                                               proc[p].plan.id, "completed"))
       /\ NoWrite /\ NoFault /\ UNCHANGED boot

(* Without a Home no worker is bound, so nothing is started here.          *)
InitialStart(p) ==
    /\ At(p, "initStart")
    /\ Done(p, proc[p].view, FALSE)
    /\ NoWrite /\ NoFault /\ UNCHANGED boot

GuardWrite(p) ==
    /\ At(p, "guard")
    /\ Write(p, ResumeGuardSnapshot(proc[p].view, proc[p].plan, p), "drain", "guardRead")

GuardRead(p) ==
    \/ Unreadable(p, "guardRead", proc[p].view)
    \/ /\ At(p, "guardRead")
       /\ IF ResumeGuardMatches(file, proc[p].want.j)
          THEN GotoWith(p, "drain", file) /\ UNCHANGED <<lease, work>>
          ELSE Done(p, file, ~ResolvedSwitchMatches(file, proc[p].plan.target,
                                                    proc[p].plan.id, "completed"))
       /\ NoWrite /\ NoFault /\ UNCHANGED boot

(* Variant of Drain whose failure does not stop the switch.                *)
DrainFailureIgnored(p) ==
    /\ At(p, "drain")
    /\ \/ NoFault /\ Drainable(p) /\ work' = [work EXCEPT ![p].open = 0]
       \/ NoFault /\ ~Drainable(p) /\ UNCHANGED work
       \/ Fault /\ ViaWorker(p) /\ UNCHANGED work
    /\ Goto(p, "pend")
    /\ NoWrite /\ UNCHANGED <<lease, boot>>

(* runtime.Drain of the old generation.  A failure leaves it drained,      *)
(* running or half of both, and the guard is worked off at once.           *)
Drain(p) ==
    /\ At(p, "drain")
    /\ \/ /\ Drainable(p) /\ NoFault
          /\ work' = [work EXCEPT ![p].open = 0]
          /\ Goto(p, "pend")
       \/ /\ \/ ~Drainable(p) /\ NoFault /\ UNCHANGED work
             \/ /\ ViaWorker(p) /\ Fault
                /\ \/ UNCHANGED work
                   \/ work' = [work EXCEPT ![p].open = 0]
          /\ proc' = [proc EXCEPT ![p].pc = "resume", ![p].err = TRUE]
    /\ NoWrite /\ UNCHANGED <<lease, boot>>

PendingWrite(p) ==
    /\ At(p, "pend")
    /\ Write(p, PendingSnapshot(proc[p].view, proc[p].plan), "start", "pendRead")

PendingRead(p) ==
    \/ Unreadable(p, "pendRead", proc[p].view)
    \/ /\ At(p, "pendRead")
       /\ CASE file.j = proc[p].want.j /\ file.home = proc[p].want.home ->
                 GotoWith(p, "start", file) /\ UNCHANGED <<lease, work>>
            [] ResumeGuardMatches(file, proc[p].view.j) ->
                 /\ proc' = [proc EXCEPT ![p].pc = "resume", ![p].view = file,
                                         ![p].err = TRUE]
                 /\ UNCHANGED <<lease, work>>
            [] OTHER ->
                 Done(p, file, ~ResolvedSwitchMatches(file, proc[p].want.home,
                                                      proc[p].plan.id, "completed"))
       /\ NoWrite /\ NoFault /\ UNCHANGED boot

(* runtime.StartBootstrap: nothing without a worker, else a durable job    *)
(* whose plan is frozen in a second step.                                  *)
StartBootstrap(p) ==
    /\ At(p, "start")
    /\ \/ work[p].bind = "none" /\ Goto(p, "final") /\ NoFault /\ UNCHANGED boot
       \/ /\ work[p].bind # "none" /\ Goto(p, "freeze") /\ NoFault
          /\ boot' = [boot EXCEPT ![proc[p].plan.id] = "started"]
       \/ /\ work[p].bind # "none" /\ Fault /\ UNCHANGED boot
          /\ proc' = [proc EXCEPT ![p].pc = "status", ![p].err = TRUE]
    /\ NoWrite /\ UNCHANGED <<lease, work>>

FreezePlan(p) ==
    /\ At(p, "freeze")
    /\ \/ /\ Goto(p, "final") /\ NoFault
          /\ boot' = [boot EXCEPT ![proc[p].plan.id] = "ready"]
       \/ /\ Fault
          /\ boot' \in {boot, [boot EXCEPT ![proc[p].plan.id] = "failed"]}
          /\ proc' = [proc EXCEPT ![p].pc = "status", ![p].err = TRUE]
    /\ NoWrite /\ UNCHANGED <<lease, work>>

-------------------------------------------------------------------------------
(* RecoverSwitch, and what both calls do with a journal.                   *)

RecoverStep(s) ==
    CASE s.j.kind = "resume" -> "resume" [] s.j.kind = "switch" -> "status"

(* Called by the application's start, the worker's start or the user.      *)
RecoverSwitch(p, why) ==
    /\ lease = "none"
    /\ file.j.kind # "none"
    /\ lease' = p
    /\ proc' = [proc EXCEPT ![p].pc = RecoverStep(file), ![p].view = file,
                            ![p].why = why, ![p].err = FALSE]
    /\ UNCHANGED <<file, work, boot, outcomes, faults>>

(* startApplicationControlRuntime recovers before any worker exists.       *)
StartApplication(p) ==
    /\ At(p, "down")
    /\ \/ RecoverSwitch(p, "startup")
       \/ /\ lease = "none" /\ file.j.kind = "none"
          /\ proc' = [proc EXCEPT ![p] = Fresh]
          /\ UNCHANGED <<file, lease, work, boot, outcomes, faults>>

RecoverHomeSwitch(p) ==
    /\ At(p, "idle")
    /\ MayCall(p)
    /\ \/ RecoverSwitch(p, IF ViaWorker(p) THEN "reopen" ELSE "call")
       \/ /\ lease = "none" /\ file.j.kind = "none" /\ ViaWorker(p)
          /\ proc' = [proc EXCEPT ![p].pc = "reopen", ![p].view = file,
                                  ![p].err = FALSE]
          /\ UNCHANGED <<file, lease, work, boot, outcomes, faults>>

(* resolvePending.                                                         *)
ResolvePending(p) ==
    \/ Unreadable(p, "status", proc[p].view)
    \/ /\ At(p, "status")
       /\ IF BootstrapStatus(p, proc[p].view.j.id) \in {"not_started", "failed"}
          THEN Goto(p, "back")
          ELSE proc' = [proc EXCEPT ![p].pc = "final", ![p].err = FALSE]
       /\ NoWrite /\ NoFault /\ UNCHANGED <<lease, work, boot>>

RollbackPending(p) ==
    /\ At(p, "back")
    /\ Write(p, RollbackSnapshot(proc[p].view), "resume", "backRead")

PersistResumeMarker(p) ==
    \/ Unreadable(p, "backRead", NoFile)
    \/ /\ At(p, "backRead")
       /\ CASE file = proc[p].want ->
                 GotoWith(p, "resume", file) /\ UNCHANGED <<lease, work>>
            [] ResumeCompletedMatches(file, proc[p].want.j.id) ->
                 Done(p, file, proc[p].err)
            [] OTHER -> Done(p, file, TRUE)
       /\ NoWrite /\ NoFault /\ UNCHANGED boot

(* completePendingResume: runtime.Resume, then the audit.                  *)
Resume(p) ==
    /\ At(p, "resume")
    /\ \/ /\ Resumable(p) /\ NoFault
          /\ work' = IF ViaWorker(p) THEN [work EXCEPT ![p].open = proc[p].view.j.from]
                     ELSE work
          /\ Goto(p, "clear") /\ UNCHANGED lease
       \/ /\ IF Resumable(p) THEN ViaWorker(p) /\ Fault ELSE NoFault
          /\ Done(p, proc[p].view, TRUE)
    /\ NoWrite /\ UNCHANGED boot

ResumedWrite(p) ==
    /\ At(p, "clear")
    /\ WriteAndReturn(p, ResumedSnapshot(proc[p].view), "clearRead")

FinalizePending(p) ==
    /\ At(p, "final")
    /\ LET next == FinalSnapshot(proc[p].view)
       IN  \/ WriteAndReturn(p, next, "finalRead")
           \/ /\ ~ValidatePreferences(next)
              /\ Done(p, proc[p].view, TRUE)
              /\ NoWrite /\ NoFault /\ UNCHANGED boot

PersistResolution(p, step) ==
    \/ Unreadable(p, step, NoFile)
    \/ /\ At(p, step)
       /\ Done(p, file, IF /\ file.det = proc[p].want.det
                           /\ ResolvedSwitchMatches(file, proc[p].want.home,
                                 proc[p].want.last.id, proc[p].want.last.out)
                        THEN proc[p].err ELSE TRUE)
       /\ NoWrite /\ NoFault /\ UNCHANGED boot

-------------------------------------------------------------------------------
(* The worker around the service.                                          *)

Die(p) ==
    /\ proc' = [proc EXCEPT ![p] = Down]
    /\ work' = [work EXCEPT ![p] = Off]
    /\ Release(p)
    /\ NoWrite /\ UNCHANGED boot

(* Variant of Reopen that does not report its failure.                     *)
ReopenUnreported(p) ==
    /\ At(p, "reopen")
    /\ \/ NoFault
          /\ work' = IF ViaWorker(p) /\ file.home.gen = proc[p].view.home.gen
                     THEN [work EXCEPT ![p].open = file.home.gen] ELSE work
       \/ Fault /\ UNCHANGED work
    /\ proc' = [proc EXCEPT ![p] =
                  [Fresh EXCEPT !.plan = proc[p].plan, !.err = proc[p].err]]
    /\ NoWrite /\ UNCHANGED <<lease, boot>>

(* resumeCommittedQuotaGeneration.  The zero snapshot has no Home, and the *)
(* code dereferences it.                                                   *)
Reopen(p) ==
    /\ At(p, "reopen")
    /\ \/ proc[p].view.home = NoHome /\ NoFault /\ Die(p)
       \/ /\ proc[p].view.home # NoHome
          /\ LET g == proc[p].view.home.gen
                 ok == ViaWorker(p) /\ file.home.gen = g
             IN  \/ /\ ok /\ NoFault
                    /\ work' = [work EXCEPT ![p].open = g, ![p].row = g]
                    /\ proc' = [proc EXCEPT ![p] =
                         [Fresh EXCEPT !.plan = proc[p].plan, !.err = proc[p].err]]
                 \/ /\ IF ok THEN Fault ELSE NoFault
                    /\ UNCHANGED work
                    /\ proc' = [proc EXCEPT ![p] =
                         [Fresh EXCEPT !.plan = proc[p].plan, !.err = TRUE]]
          /\ NoWrite /\ UNCHANGED <<lease, boot>>

(* startApplicationLifecycleRuntime: RecoverSwitch, then, outside of the   *)
(* service's mutex, bind the Home runtime, then open the generation that   *)
(* RecoverSwitch returned, unless the file names another one by then.      *)
StartWorker(p) ==
    /\ At(p, "idle")
    /\ p \in Workers
    /\ work[p].bind \notin {"starting", "attached"}
    /\ work[p].next = 0
    /\ file.home # NoHome
    /\ \/ RecoverSwitch(p, "worker")
       \/ /\ lease = "none" /\ file.j.kind = "none"
          /\ work' = [work EXCEPT ![p].next = file.home.gen]
          /\ UNCHANGED <<file, lease, proc, boot, outcomes, faults>>

BindHomeRuntime(p) ==
    /\ work[p].next # 0
    /\ work[p].bind # "starting"
    /\ work' = [work EXCEPT ![p].bind = "starting"]
    /\ UNCHANGED <<file, lease, proc, boot, outcomes, faults>>

OpenWorker(p) ==
    /\ work[p].bind = "starting"
    /\ IF file.home.gen = work[p].next
       THEN \/ /\ NoFault
               /\ work' = [work EXCEPT ![p] =
                             [bind |-> "attached", next |-> 0,
                              row |-> work[p].next, open |-> work[p].next]]
            \/ /\ Fault
               /\ \E b \in {"stale", "dead"} :
                     work' = [work EXCEPT ![p] = [Off EXCEPT !.bind = b]]
       ELSE /\ NoFault
            /\ work' = [work EXCEPT ![p] = [Off EXCEPT !.bind = "dead"]]
    /\ NoWrite /\ UNCHANGED <<lease, proc, boot>>

(* A wake or a source check reconciles the Home the file names, if the     *)
(* lifecycle row carries its generation: it opens what Drain closed.       *)
Wake(p) ==
    /\ "wake" \in Races
    /\ ViaWorker(p)
    /\ work[p].open = 0
    /\ file.home.gen = work[p].row
    /\ work' = [work EXCEPT ![p].open = work[p].row]
    /\ UNCHANGED <<file, lease, proc, boot, outcomes, faults>>

StopWorker(p) ==
    /\ work[p].bind = "attached"
    /\ work' = [work EXCEPT ![p] = Off]
    /\ UNCHANGED <<file, lease, proc, boot, outcomes, faults>>

(* The process dies.                                                       *)
Crash(p) ==
    /\ ~At(p, "down")
    /\ Fault
    /\ Die(p)

(* The user quits the application between two calls.                       *)
Quit(p) ==
    /\ At(p, "idle")
    /\ Die(p) /\ NoFault

(* A bootstrap whose plan was never frozen ends without effect.            *)
BootstrapFails(id) ==
    /\ boot[id] = "started"
    /\ \A p \in Procs : At(p, "freeze") => proc[p].plan.id # id
    /\ boot' = [boot EXCEPT ![id] = "failed"]
    /\ UNCHANGED <<file, lease, proc, work, outcomes, faults>>

-------------------------------------------------------------------------------
Settle(p) ==
    \/ SettingsWrite(p) \/ ReadbackSettings(p)
    \/ InitialWrite(p) \/ InitialRead(p) \/ InitialStart(p)
    \/ GuardWrite(p) \/ GuardRead(p) \/ Drain(p)
    \/ PendingWrite(p) \/ PendingRead(p)
    \/ StartBootstrap(p) \/ FreezePlan(p)
    \/ ResolvePending(p) \/ RollbackPending(p) \/ PersistResumeMarker(p)
    \/ Resume(p) \/ ResumedWrite(p) \/ PersistResolution(p, "clearRead")
    \/ FinalizePending(p) \/ PersistResolution(p, "finalRead")
    \/ Reopen(p)

Next ==
    \/ \E p \in Procs :
          \/ \E v \in Settings : UpdateSettings(p, v)
          \/ \E h \in Homes, strat \in Strategies : PlanSwitch(p, h, strat)
          \/ ConfirmSwitch(p) \/ ConfirmAgain(p) \/ CallFails(p)
          \/ StartApplication(p) \/ RecoverHomeSwitch(p)
          \/ Settle(p)
          \/ StartWorker(p) \/ BindHomeRuntime(p) \/ OpenWorker(p)
          \/ Wake(p) \/ StopWorker(p)
          \/ Crash(p) \/ Quit(p)
    \/ \E id \in Ids : BootstrapFails(id)

Spec == Init /\ [][Next]_vars

-------------------------------------------------------------------------------
(* Properties.                                                             *)

(* The Home that a crash at this point and a recovery can still go back to.*)
SettledHome == IF file.j.kind = "switch" THEN file.j.prev ELSE file.home

(* The journal abstracted away: a Home counts as switched once its audit   *)
(* is written.                                                             *)
Promise == INSTANCE AtomicSwitch WITH home <- SettledHome, log <- outcomes

(* service.go: guard, pending, rollback and final snapshots, whoever writes*)
(* them and wherever a crash or an uncertain write cuts in, amount to one  *)
(* atomic step per switch: it completes, and the generation grows by one,  *)
(* or it is rolled back, and the Home is the old one; never both.          *)
Atomic == Promise!Spec

(* Types and bounds; validatePreferences holds of the file at every moment.*)
TypeOK ==
    /\ lease \in Procs \cup {"none"}
    /\ \A p \in Procs : proc[p].pc \in Steps /\ work[p].bind \in Bindings
    /\ \A id \in Ids : boot[id] \in {"not_started", "started", "ready", "failed"}
    /\ faults \in 0..MaxFaults
    /\ file.rev \in 1..MaxRev
    /\ ValidatePreferences(file)

(* The positions at which a call owns the switch in progress.              *)
Owning == {"drain", "pend", "start", "freeze", "status", "back", "resume",
           "clear", "final"}

(* AcquireSwitchLease and the refusal of UpdateSettings while a journal is *)
(* pending: from its guard on, a switch works on the snapshot on disk, in  *)
(* every interleaving with other processes.                                *)
NobodyInterferes == \A p \in Procs : proc[p].pc \in Owning => file = proc[p].view

(* applicationQuotaHomeRuntime and resumeCommittedQuotaGeneration: a worker*)
(* is left with its Home drained only if a journal still owes the Resume or*)
(* a call has failed since the last one about the Home began.              *)
ClosedIsReported ==
    \A p \in Procs :
      At(p, "idle") /\ ViaWorker(p) /\ work[p].open = 0 =>
        file.j.kind # "none" \/ proc[p].err

(* CompareAndSwap: the other preferences change only by an update of the   *)
(* settings, which leaves Home, journal and audit alone; no write of a     *)
(* switch carries an older value back.                                     *)
NoLostUpdate ==
    [][file'.set # file.set =>
         /\ \E p \in Procs : SettingsWrite(p)
         /\ file' = [file EXCEPT !.rev = @ + 1, !.set = file'.set]]_vars

(* finalizePending, detachedWithoutDataStore: a detached Home leaves the   *)
(* list only by becoming active again with its own data store.             *)
DetachedKept ==
    [][\A i \in DOMAIN file.det :
         \/ \E k \in DOMAIN file'.det : file'.det[k] = file.det[i]
         \/ file'.home.key = file.det[i].key /\ SameSource(file'.home, file.det[i])]_vars

(* PlanSwitch against validDetachedHomes: whatever sequence of switches led*)
(* here, the snapshots that resolve a pending switch are valid, so recovery*)
(* is never refused by its own validation.                                 *)
Resolvable ==
    file.j.kind = "switch" =>
      /\ ValidatePreferences(FinalSnapshot(file))
      /\ ValidatePreferences(RollbackSnapshot(file))

(* HomeRuntime.Drain and Resume: a worker serves no generation other than  *)
(* the one the file names as active.                                       *)
ServesActive ==
    \A p \in Procs : work[p].open # 0 => work[p].open = file.home.gen

(* resolvePending: a switch is rolled back only when its bootstrap was not *)
(* started or failed before its plan was ready.                            *)
RolledBackUnstarted ==
    \A id \in Ids : <<id, "rolled_back">> \in outcomes => boot[id] \in {"not_started", "failed"}

(* A process that runs takes its next step; a process that is down is      *)
(* started again; the user asks for recovery while a journal is pending.   *)
Calm ==
    \A p \in Procs :
      /\ WF_vars(Settle(p))
      /\ WF_vars(StartApplication(p))
      /\ WF_vars(RecoverHomeSwitch(p) /\ file.j.kind # "none")

FairSpec == Spec /\ Calm

(* In addition the user does not go on forever without a restart.          *)
RestartSpec == FairSpec /\ \A p \in Procs : SF_vars(Quit(p) /\ file.j.kind # "none")

(* RecoverSwitch: a journal that is left behind is eventually worked off.  *)
JournalSettles == file.j.kind # "none" ~> file.j.kind = "none"
===============================================================================
