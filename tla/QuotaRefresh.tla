------------------------------ MODULE QuotaRefresh ------------------------------
(***************************************************************************)
(* The refresh of Codex quota and Reset Credits (internal/scheduler, its   *)
(* schedule store and the bound fetch services).  Every account has one    *)
(* durable schedule row per source.  A request is first claimed on its row *)
(* (with a lease), then sent, its outcome recorded, and the claim          *)
(* completed with the next due time; one more row, the global fence, keeps *)
(* requests of all accounts apart.  All of this runs under the             *)
(* coordinator's cycleMu, one operation at a time.                         *)
(*                                                                         *)
(* Beside it move the account binding (hidden, confirmed and published by  *)
(* the account runtime as it finds someone logged in at the Codex Home),   *)
(* the preferences, the drains of sleep and of switches, the clock,        *)
(* failures of the store, and the death of the process, which leaves only  *)
(* what is durable: binding, rows, states and fence.                       *)
(***************************************************************************)
EXTENDS RefreshPolicy

CONSTANTS
    Accounts,       \* account scopes
    Sources,        \* the online sources: quota, Reset Credits
    Outcomes,       \* what an answered request may be recorded as
    Retries,        \* the retry-after times a 429 may name
    Triggers,       \* the triggers RequestRefresh is called with
    Gap,            \* manualRefreshMinimumInterval, in ticks
    Lease,          \* ClaimLease, in ticks
    MaxLag,         \* bound: ticks that pass while one operation runs
    MaxGen,         \* bound: binding generations
    MaxFaults       \* bound: deaths, drains of sleep, store failures, toggles

ASSUME RefreshAssumption ==
    /\ Sources \subseteq {"quota", "reset"}
    /\ Outcomes \subseteq {"ok", "network", "auth", "http_429", "schema"}
    /\ Triggers \subseteq {"manual", "foreground", "wake", "scheduled", "startup"}
    /\ Retries \subseteq Nat
    /\ Gap \in Nat \ {0} /\ Lease \in Nat \ {0}
    /\ MaxLag \in Nat /\ MaxGen \in Nat \ {0} /\ MaxFaults \in Nat
    /\ "nobody" \notin Accounts

Instances == Accounts \X Sources
NoInstance == <<"nobody", "none">>

VARIABLES
    binding,    \* the durable binding: its scope ("nobody": not confirmed)
    bound,      \* the binding the fetch services were given
    ident,      \* the account runtime: where it is in a switch
    enabled,    \* the sources switched on in the preferences
    rows,       \* the schedule rows
    states,     \* the recorded source states
    newer,      \* accounts whose quota succeeded since reset's last attempt
    fence,      \* the global fence row
    cyc,        \* the operation that holds cycleMu
    runner,     \* "down", "starting", "up" or "blocked"
    owed,       \* what the fences promised, kept apart
    faults      \* failures so far

vars == <<binding, bound, ident, enabled, rows, states, newer, fence,
          cyc, runner, owed, faults>>

store == <<rows, states, newer, fence, owed>>
account == <<binding, bound, ident>>

NoBinding == [scope |-> "nobody", gen |-> 0]
Bindings == [scope : Accounts \cup {"nobody"}, gen : 0..MaxGen]

NoFence == [left |-> 0, reason |-> "none"]

(* on: the preferences as loaded; todo: claims to recover or rows to serve; *)
(* unrec: released claims to plan again; due: inside runDueCycleLocked;    *)
(* cur, desc: the claim in hand and its descriptor; out, src: the answer   *)
(* and the account that gave it; lag: ticks since the operation read the   *)
(* clock.                                                                  *)
Idle == [op |-> "none", pc |-> "idle", due |-> FALSE, on |-> {}, todo |-> {},
         unrec |-> {}, cur |-> NoInstance, desc |-> NoBinding, out |-> Untried,
         src |-> "nobody", lag |-> 0, cancelled |-> FALSE, fatal |-> FALSE]

NothingOwed == [rate |-> 0, manual |-> [a \in Accounts |-> 0]]

(* At startup the account runtime probes first, unless every source is     *)
(* switched off.                                                           *)
Started == [pc |-> IF enabled = {} THEN "rest" ELSE "sealed", scope |-> "nobody"]

Init ==
    /\ binding = NoBinding
    /\ bound = NoBinding
    /\ enabled \in SUBSET Sources
    /\ ident = Started
    /\ rows = [i \in Instances |-> NoRow]
    /\ states = [i \in Instances |-> Untried]
    /\ newer = {}
    /\ fence = NoFence
    /\ cyc = Idle
    /\ runner = "down"
    /\ owed = NothingOwed
    /\ faults = 0

-------------------------------------------------------------------------------
(* The store.                                                              *)

Unclaimed(row) == [row EXCEPT !.claim = "none", !.lease = 0, !.rec = FALSE]

InactiveKeepsDue(row) == [Unclaimed(row) EXCEPT !.reason = "inactive"]

Inactive(row) == [Unclaimed(row) EXCEPT !.due = None, !.reason = "inactive"]

(* descriptors(): the rows of every other account are deactivated, their   *)
(* claims abandoned.  Only the confirmed account has descriptors.          *)
Deactivated ==
    [i \in Instances |->
        IF Exists(rows[i]) /\ i[1] # binding.scope THEN Inactive(rows[i])
                                                   ELSE rows[i]]

UpsertedOldGen(row, d, gen) ==
    IF row.claim = "none" /\ Valid(d)
    THEN [row EXCEPT !.due = d.due, !.reason = d.reason]
    ELSE row

(* UpsertSourceRefreshSchedule of a decision, as persistDecision calls it: *)
(* a claimed row and a decision out of shape are refused.                  *)
Upserted(row, d, gen) ==
    IF row.claim = "none" /\ Valid(d)
    THEN [row EXCEPT !.due = d.due, !.reason = d.reason, !.gen = gen]
    ELSE row

(* The other source of the same account was asked manually a moment ago.   *)
Companion(i) ==
    \E j \in Instances :
        /\ j[1] = i[1] /\ j # i
        /\ rows[j].manual + cyc.lag > 0

FenceAllowsAutomatic(i, trigger) ==
    trigger = "manual" => fence.left + cyc.lag <= 0

FenceAllowsCompanion(i, trigger) ==
    \/ fence.left + cyc.lag <= 0
    \/ trigger = "manual" /\ Companion(i)

(* What the fence row lets through: everything once its time is over (a    *)
(* row of the old reason network_backoff counts as no row), and a manual   *)
(* companion while only a manual interval holds.                           *)
FenceAllows(i, trigger) ==
    \/ fence.reason = "none"
    \/ fence.left + cyc.lag <= 0
    \/ fence.reason = "manual" /\ trigger = "manual" /\ Companion(i)

(* ClaimSourceRefresh, at the time the operation began: lag ticks ago.     *)
Claimable(i, row, trigger, gen) ==
    /\ row.gen = gen
    /\ row.claim = "none"
    /\ row.due = 0
    /\ FenceAllows(i, trigger)
    /\ trigger = "manual" => row.manual + cyc.lag <= 0

(* raiseSourceRefreshGlobalFence, at a time ago ticks past: the later of   *)
(* the two times, and a 429 that still holds keeps its reason.             *)
Raised(left, reason, ago) ==
    IF fence.reason = "none"
    THEN [left |-> left, reason |-> reason]
    ELSE [left |-> Max({fence.left, left}),
          reason |-> IF fence.left + ago > 0 /\ fence.reason = "rate"
                     THEN "rate" ELSE reason]

Claimed(row, trigger) ==
    [row EXCEPT !.claim = IF trigger = "manual" THEN "manual" ELSE "auto",
                !.lease = Max({Lease - cyc.lag, 0}),
                !.manual = IF trigger = "manual" THEN Gap - cyc.lag ELSE @]

(* A manual claim keeps every other account's manual requests away.        *)
OwedByManual(a) ==
    [owed EXCEPT !.manual = [b \in Accounts |->
        IF b = a THEN owed.manual[b] ELSE Max({owed.manual[b], Gap - cyc.lag})]]

ExpiredUnrecorded(r) ==
    {i \in Instances : r[i].claim # "none" /\ r[i].lease = 0 /\ ~r[i].rec}

(* ListExpiredSourceRefreshClaims and ListDueSourceRefreshSchedules        *)
Expired(r) == {i \in Instances : r[i].claim # "none" /\ r[i].lease = 0}
Due(r) == {i \in Instances : r[i].claim = "none" /\ r[i].due = 0}

(* triggerForRefreshReason                                                 *)
TriggerOf(row) == IF row.reason = "manual" THEN "manual" ELSE "scheduled"

-------------------------------------------------------------------------------
(* One operation under cycleMu.                                            *)

Free == cyc.op = "none" /\ runner \in {"starting", "up"}

Begin(op, pc, due) ==
    cyc' = [Idle EXCEPT !.op = op, !.pc = pc, !.due = due, !.on = enabled]

(* An operation that returns: a fatal error stops the runner for good when *)
(* the runner made the call; a cancelled operation ends a drain.           *)
End(fatal) ==
    LET mine == cyc.op \in {"init", "due"}
    IN  /\ cyc' = Idle
        /\ runner' \in
              IF fatal /\ mine
              THEN {"blocked"} \cup {x \in {"down"} : cyc.op = "due" /\ cyc.cancelled}
              ELSE IF cyc.cancelled THEN {"down"}
              ELSE IF cyc.op = "init" THEN {"up"} ELSE {runner}

Go(pc) == /\ cyc' = [cyc EXCEPT !.pc = pc]
          /\ UNCHANGED runner

At(pc) == cyc.pc = pc /\ ~cyc.cancelled

BeginInit ==
    /\ Free /\ runner = "starting"
    /\ cyc' = [Idle EXCEPT !.op = "init", !.pc = "expired", !.on = enabled,
                           !.todo = Expired(rows)]
    /\ UNCHANGED <<account, enabled, store, runner, faults>>

BeginDue ==
    /\ Free /\ runner = "up"
    /\ Begin("due", "credits", TRUE)
    /\ UNCHANGED <<account, enabled, store, runner, faults>>

BeginReconcile ==
    /\ Free
    /\ Begin("reconcile", "plan", FALSE)
    /\ UNCHANGED <<account, enabled, store, runner, faults>>

(* RearmAfterHomeChange clears the fence, then makes every enabled source  *)
(* of the account due.  What the fence promised ends here.                 *)
BeginRearm ==
    /\ Free
    /\ faults < MaxFaults
    /\ faults' = faults + 1
    /\ Begin("rearm", "rearm", FALSE)
    /\ fence' = NoFence
    /\ owed' = NothingOwed
    /\ UNCHANGED <<account, enabled, rows, states, newer, runner>>

RearmAll ==
    /\ At("rearm")
    /\ rows' = [i \in Instances |->
          IF i[1] # binding.scope \/ rows[i].claim # "none" THEN Deactivated[i]
          ELSE Upserted(rows[i],
                        IF i[2] \in cyc.on THEN Immediate("plain")
                                          ELSE Scheduled(None, "disabled"),
                        binding.gen)]
    /\ cyc' = [cyc EXCEPT !.pc = "credits", !.due = TRUE]
    /\ UNCHANGED <<account, enabled, states, newer, fence, owed, runner, faults>>

Ages(st) == IF st = Untried THEN {FALSE} ELSE BOOLEAN

(* planSource                                                              *)
Plans(i, trigger, on) ==
    UNION {Plan(trigger, i[2] \in on,
                Exists(rows[i]) /\ rows[i].gen # binding.gen,
                rows[i], states[i], young, stale) :
           young \in Ages(states[i]), stale \in Ages(states[i])}

ReplanTrigger(i) == IF i \in cyc.unrec THEN "recovery" ELSE "startup"

(* replanSource, for each of the instances in a set.                       *)
Replan(which) ==
    \E d \in [which -> UNION {Plans(i, ReplanTrigger(i), cyc.on) : i \in which}] :
        /\ \A i \in which : d[i] \in Plans(i, ReplanTrigger(i), cyc.on)
        /\ rows' = [i \in Instances |->
                      IF i \in which THEN Upserted(rows[i], d[i], binding.gen)
                                     ELSE Deactivated[i]]

Current == {i \in Instances : i[1] = binding.scope}

PlanAll ==
    /\ At("plan")
    /\ Replan(Current)
    /\ cyc' = [cyc EXCEPT !.pc = "credits", !.due = TRUE, !.unrec = {}]
    /\ UNCHANGED <<account, enabled, states, newer, fence, owed, runner, faults>>

(* rearmResetCreditsAfterQuotaRecovery                                     *)
Credits ==
    /\ At("credits")
    /\ LET r == <<binding.scope, "reset">>
           woken == /\ binding.scope # "nobody" /\ {"quota", "reset"} \subseteq cyc.on
                    /\ states[r].fail = "auth" /\ r[1] \in newer
                    /\ ~Exists(rows[r]) \/ rows[r].reason = "backoff"
       IN rows' = IF woken
                  THEN [Deactivated EXCEPT ![r] =
                          Upserted(@, Scheduled(0, "plain"), binding.gen)]
                  ELSE Deactivated
    /\ cyc' = [cyc EXCEPT !.pc = "expired", !.todo = Expired(rows')]
    /\ UNCHANGED <<account, enabled, states, newer, fence, owed, runner, faults>>

AttemptedNever(row) == FALSE

(* SourceAttempt of the row's claim is found.                              *)
Attempted(row) == row.rec

(* recoverExpiredClaimsLocked.  A claim of an account without descriptors  *)
(* ends the operation.  A claim whose attempt was recorded is completed,   *)
(* any other one is released: due at once, to be planned again.            *)
Recover(i) ==
    /\ At("expired") /\ i \in cyc.todo
    /\ IF i[1] # binding.scope
       THEN rows' = Deactivated /\ End(TRUE)
       ELSE IF Attempted(rows[i])
       THEN /\ rows' = Deactivated
            /\ cyc' = [cyc EXCEPT !.pc = "refinish", !.todo = @ \ {i},
                                  !.cur = i, !.desc = binding]
            /\ UNCHANGED runner
       ELSE /\ rows' = [Deactivated EXCEPT ![i] =
                          [Unclaimed(@) EXCEPT !.due = 0, !.reason = "plain"]]
            /\ cyc' = [cyc EXCEPT !.todo = @ \ {i}, !.unrec = @ \cup {i}]
            /\ UNCHANGED runner
    /\ UNCHANGED <<account, enabled, states, newer, fence, owed, faults>>

(* Recovery is over: Initialize goes on to plan both sources, the due      *)
(* cycle plans the released claims again and lists what is due.            *)
Recovered ==
    /\ At("expired") /\ cyc.todo = {}
    /\ IF ~cyc.due
       THEN Go("plan") /\ UNCHANGED rows
       ELSE IF cyc.unrec \subseteq Current
       THEN /\ Replan(cyc.unrec)
            /\ cyc' = [cyc EXCEPT !.pc = "next", !.unrec = {}, !.todo = Due(rows')]
            /\ UNCHANGED runner
       ELSE rows' = Deactivated /\ End(TRUE)
    /\ UNCHANGED <<account, enabled, states, newer, fence, owed, faults>>

(* ClaimSourceRefresh succeeds: the row is claimed, a manual claim raises  *)
(* the fence, and the request goes out.                                    *)
Claim(i, row, trigger) ==
    /\ rows' = [Deactivated EXCEPT ![i] = Claimed(row, trigger)]
    /\ fence' = IF trigger = "manual" THEN Raised(Gap - cyc.lag, "manual", cyc.lag) ELSE fence
    /\ owed' = IF trigger = "manual" THEN OwedByManual(i[1]) ELSE owed

(* One due row: its account may have lost its descriptors, its source may  *)
(* be switched off, its claim may be refused.                              *)
Serve(i) ==
    /\ At("next") /\ i \in cyc.todo
    /\ LET rest == [cyc EXCEPT !.todo = @ \ {i}]
           row == rows[i]
       IN IF i[1] # binding.scope
          THEN /\ rows' = Deactivated
               /\ cyc' = [rest EXCEPT !.fatal = TRUE]
               /\ UNCHANGED <<fence, owed>>
          ELSE IF i[2] \notin cyc.on /\ row.due = 0
          THEN /\ rows' = [Deactivated EXCEPT ![i] =
                             Upserted(@, Scheduled(None, "disabled"), binding.gen)]
               /\ cyc' = rest
               /\ UNCHANGED <<fence, owed>>
          ELSE IF i[2] \in cyc.on /\ Claimable(i, row, TriggerOf(row), binding.gen)
          THEN /\ Claim(i, row, TriggerOf(row))
               /\ cyc' = [rest EXCEPT !.pc = "fetch", !.cur = i, !.desc = binding]
          ELSE /\ rows' = Deactivated
               /\ cyc' = rest
               /\ UNCHANGED <<fence, owed>>
    /\ UNCHANGED <<account, enabled, states, newer, runner, faults>>

Served ==
    /\ At("next") /\ cyc.todo = {}
    /\ End(cyc.fatal)
    /\ UNCHANGED <<account, enabled, store, faults>>

(* RequestRefreshResult up to the request: plan, persist, claim.           *)
Request(s, trigger) ==
    /\ Free
    /\ LET i == <<binding.scope, s>>
       IN IF binding.scope = "nobody"
          THEN rows' = Deactivated /\ UNCHANGED <<fence, owed, cyc>>
          ELSE \E d \in Plans(i, trigger, enabled) :
            LET row == IF d.fetch \/ ~Exists(rows[i])
                       THEN Upserted(rows[i], d, binding.gen) ELSE rows[i]
            IN IF d.fetch /\ Claimable(i, row, trigger, binding.gen)
               THEN /\ Claim(i, row, trigger)
                    /\ cyc' = [Idle EXCEPT !.op = "request", !.pc = "fetch",
                                  !.on = enabled, !.cur = i, !.desc = binding]
               ELSE /\ rows' = [Deactivated EXCEPT ![i] = row]
                    /\ UNCHANGED <<fence, owed, cyc>>
    /\ UNCHANGED <<account, enabled, states, newer, runner, faults>>

(* The next row of the cycle, or the end of a single request.              *)
Continue ==
    IF cyc.op = "request" THEN End(FALSE)
    ELSE /\ cyc' = [cyc EXCEPT !.pc = "next", !.cur = NoInstance,
                               !.desc = NoBinding, !.out = Untried,
                               !.src = "nobody"]
         /\ UNCHANGED runner

(* Who is logged in at the Codex Home can change at any time, so a read    *)
(* may find anyone.  The client refuses another account's answer.          *)
FromAccount(login) == login = cyc.desc.scope

(* The bound read of the client: an answer counts only when it comes from  *)
(* the account it was asked for.  Failures before that are recorded as     *)
(* such, a cancelled request as cancelled.                                 *)
Answered ==
    /\ cyc.pc = "fetch"
    /\ \E login \in Accounts, fail \in Outcomes \cup {"cancelled"} :
       \E retry \in IF fail = "http_429" THEN Retries ELSE {None} :
          /\ fail = "cancelled" => cyc.cancelled
          /\ FromAccount(login)
          /\ cyc' = [cyc EXCEPT !.pc = "record",
                                !.out = [fail |-> fail, retry |-> retry],
                                !.src = IF fail = "ok" THEN login ELSE @]
    /\ UNCHANGED <<account, enabled, store, runner, faults>>

Mismatched ==
    /\ cyc.pc = "fetch"
    /\ Go("abandon")
    /\ UNCHANGED <<account, enabled, store, faults>>

(* AbandonSourceRefreshClaim runs on the operation's own context: once     *)
(* that is cancelled the claim stays for recovery.                         *)
Abandon ==
    /\ cyc.pc = "abandon"
    /\ rows' = IF cyc.cancelled THEN rows
               ELSE [rows EXCEPT ![cyc.cur] = Inactive(@)]
    /\ Continue
    /\ UNCHANGED <<account, enabled, states, newer, fence, owed, faults>>

AuthFailed(a) == "reset" \in Sources /\ states[<<a, "reset">>].fail = "auth"

Recording ==
    /\ states' = [states EXCEPT ![cyc.cur] = cyc.out]
    /\ rows' = [rows EXCEPT ![cyc.cur].rec = TRUE]
    /\ newer' = LET a == cyc.cur[1]
                IN  IF cyc.cur[2] = "reset" THEN newer \ {a}
                    ELSE IF cyc.out.fail = "ok" /\ AuthFailed(a)
                    THEN newer \cup {a} ELSE newer

RecordServiceOnly ==
    /\ cyc.pc = "record"
    /\ IF bound = cyc.desc
       THEN Recording /\ Go("finish")
       ELSE Go("abandon") /\ UNCHANGED <<rows, states, newer>>
    /\ UNCHANGED <<account, enabled, fence, owed, faults>>

(* FetchBound and RecordQuotaFetch: the services' binding and the durable  *)
(* one must both still be the request's.                                   *)
Record ==
    /\ cyc.pc = "record"
    /\ IF bound = cyc.desc /\ binding = cyc.desc
       THEN Recording /\ Go("finish")
       ELSE Go("abandon") /\ UNCHANGED <<rows, states, newer>>
    /\ UNCHANGED <<account, enabled, fence, owed, faults>>

(* A store error leaves unknown whether the attempt is durable.            *)
RecordFails ==
    /\ cyc.pc = "record"
    /\ faults < MaxFaults
    /\ faults' = faults + 1
    /\ \/ UNCHANGED <<rows, states, newer>>
       \/ bound = cyc.desc /\ binding = cyc.desc /\ Recording
    /\ Continue
    /\ UNCHANGED <<account, enabled, fence, owed>>

(* completeRecordedClaim, on a context of its own: the account may have    *)
(* changed; otherwise plan from the recorded outcome, raise the fence for  *)
(* a 429 and release the claim in one transaction.                         *)
Complete ==
    IF binding # cyc.desc
    THEN /\ rows' = [rows EXCEPT ![cyc.cur] = Inactive(@)]
         /\ UNCHANGED <<fence, owed>>
    ELSE \E d \in Plan("scheduled", cyc.cur[2] \in cyc.on, FALSE,
                       rows[cyc.cur], states[cyc.cur], FALSE, FALSE) :
         LET limited == states[cyc.cur].fail = "http_429" /\ d.due # None
         IN /\ rows' = [rows EXCEPT ![cyc.cur] =
                          [Unclaimed(@) EXCEPT !.due = d.due, !.reason = d.reason]]
            /\ fence' = IF limited THEN Raised(d.due, "rate", 0) ELSE fence
            /\ owed' = IF limited THEN [owed EXCEPT !.rate = Max({@, d.due})]
                       ELSE owed

Finish ==
    /\ cyc.pc = "finish"
    /\ Complete
    /\ Continue
    /\ UNCHANGED <<account, enabled, states, newer, faults>>

(* Recovery completes a claim too; a changed account ends its operation.   *)
Refinish ==
    /\ cyc.pc = "refinish"
    /\ Complete
    /\ IF binding # cyc.desc THEN End(FALSE)
       ELSE /\ cyc' = [cyc EXCEPT !.pc = "expired", !.cur = NoInstance,
                                  !.desc = NoBinding]
            /\ UNCHANGED runner
    /\ UNCHANGED <<account, enabled, states, newer, faults>>

FinishFails ==
    /\ cyc.pc = "finish"
    /\ faults < MaxFaults
    /\ faults' = faults + 1
    /\ Continue
    /\ UNCHANGED <<account, enabled, store>>

(* Every read and write of a cancelled operation fails, up to its return.  *)
Cancelled ==
    /\ cyc.cancelled
    /\ cyc.pc \in {"rearm", "plan", "credits", "expired", "next"}
    /\ End(cyc.fatal)
    /\ UNCHANGED <<account, enabled, store, faults>>

-------------------------------------------------------------------------------
(* The account runtime.                                                    *)

(* MarkCodexAccountBindingPending: a confirmed binding is left with a new   *)
(* generation.                                                             *)
Hidden == [scope |-> "nobody",
           gen |-> IF binding.scope = "nobody" THEN binding.gen ELSE binding.gen + 1]

(* A switch begins: the binding leaves "confirmed", with a new generation. *)
Hide ==
    /\ ident.pc = "rest"
    /\ binding.scope # "nobody" /\ binding.gen < MaxGen
    /\ binding' = Hidden
    /\ ident' = [pc |-> "seal", scope |-> "nobody"]
    /\ UNCHANGED <<bound, enabled, store, cyc, runner, faults>>

(* drainGeneration closes admission and cancels what runs.  It reports the *)
(* error of a blocked runner, which ends the switch.                       *)
Drained ==
    /\ runner' = IF cyc.op = "none" /\ runner # "blocked" THEN "down" ELSE runner
    /\ cyc' = IF cyc.op = "none" THEN cyc ELSE [cyc EXCEPT !.cancelled = TRUE]

Seal ==
    /\ ident.pc = "seal"
    /\ Drained
    /\ ident' = [ident EXCEPT !.pc = IF runner = "blocked" THEN "rest" ELSE "sealed"]
    /\ UNCHANGED <<binding, bound, enabled, store, faults>>

(* The probes agree on a login.  Without a binding this needs no seal.     *)
Probe ==
    /\ binding.scope = "nobody"
    /\ \/ ident.pc = "rest"
       \/ ident.pc = "sealed" /\ ~cyc.cancelled
    /\ \E login \in Accounts : ident' = [pc |-> "confirm", scope |-> login]
    /\ UNCHANGED <<binding, bound, enabled, store, cyc, runner, faults>>

(* No account, or no answer: the binding stays pending (from "unknown",    *)
(* with its first generation).                                             *)
GiveUp ==
    /\ ident.pc = "sealed" /\ ~cyc.cancelled
    /\ ident' = [pc |-> "rest", scope |-> "nobody"]
    /\ binding' = [binding EXCEPT !.gen = Max({@, 1})]
    /\ UNCHANGED <<bound, enabled, store, cyc, runner, faults>>

Confirm ==
    /\ ident.pc = "confirm"
    /\ binding' = [scope |-> ident.scope, gen |-> Max({binding.gen, 1})]
    /\ ident' = [pc |-> "publish", scope |-> "nobody"]
    /\ UNCHANGED <<bound, enabled, store, cyc, runner, faults>>

(* PublishBinding: the services learn the binding, the runner is resumed.  *)
Publish ==
    /\ ident.pc = "publish"
    /\ bound' = binding
    /\ ident' = [ident EXCEPT !.pc = "rest"]
    /\ runner' = IF runner = "down" THEN "starting" ELSE runner
    /\ UNCHANGED <<binding, enabled, store, cyc, faults>>

(* ResumeGeneration at startup, once the account runtime returned, and at  *)
(* wake.                                                                   *)
Resume ==
    /\ runner = "down" /\ ident.pc = "rest"
    /\ runner' = "starting"
    /\ UNCHANGED <<account, enabled, store, cyc, faults>>

-------------------------------------------------------------------------------
(* Sleep, preferences, death, time.                                        *)

Sleep ==
    /\ runner \in {"starting", "up"}
    /\ faults < MaxFaults
    /\ faults' = faults + 1
    /\ Drained
    /\ UNCHANGED <<account, enabled, store>>

Toggle ==
    /\ faults < MaxFaults
    /\ faults' = faults + 1
    /\ \E s \in Sources :
          enabled' = IF s \in enabled THEN enabled \ {s} ELSE enabled \cup {s}
    /\ UNCHANGED <<account, store, cyc, runner>>

(* The process dies and is started again: a confirmed binding is hidden    *)
(* first, if the account runtime is started.                               *)
Die ==
    /\ faults < MaxFaults
    /\ faults' = faults + 1
    /\ binding' = IF enabled = {} THEN binding ELSE Hidden
    /\ binding'.gen <= MaxGen
    /\ bound' = NoBinding
    /\ ident' = Started
    /\ cyc' = Idle
    /\ runner' = "down"
    /\ UNCHANGED <<enabled, store>>

Less(t) == IF t > 0 THEN t - 1 ELSE t

(* A manual time and the fence are still compared up to MaxLag ticks after *)
(* they are over.                                                          *)
Later(t) == IF t > 0 - MaxLag THEN t - 1 ELSE None

Tick ==
    /\ cyc.pc \in {"idle", "fetch"}
    /\ cyc.pc = "fetch" => cyc.lag < MaxLag
    /\ rows' = [i \in Instances |->
          [rows[i] EXCEPT !.due = Less(@), !.lease = Less(@), !.manual = Later(@)]]
    /\ states' = [i \in Instances |-> [states[i] EXCEPT !.retry = Less(@)]]
    /\ fence' = IF fence.reason = "none" \/ Later(fence.left) = None THEN NoFence
                ELSE [fence EXCEPT !.left = Later(@)]
    /\ owed' = [rate |-> Less(owed.rate),
                manual |-> [a \in Accounts |-> Less(owed.manual[a])]]
    /\ cyc' = IF cyc.pc = "fetch" THEN [cyc EXCEPT !.lag = @ + 1] ELSE cyc
    /\ UNCHANGED <<account, enabled, newer, runner, faults>>

-------------------------------------------------------------------------------
CycleStep ==
    \/ RearmAll \/ PlanAll \/ Credits \/ Recovered \/ Served
    \/ \E i \in Instances : Recover(i) \/ Serve(i)
    \/ Answered \/ Mismatched \/ Abandon \/ Record \/ Finish \/ Refinish
    \/ Cancelled

Switching == Seal \/ (ident.pc # "rest" /\ Probe) \/ Confirm \/ Publish

Next ==
    \/ BeginInit \/ BeginDue \/ BeginReconcile \/ BeginRearm
    \/ \E s \in Sources, t \in Triggers : Request(s, t)
    \/ CycleStep \/ RecordFails \/ FinishFails
    \/ Hide \/ Seal \/ Probe \/ GiveUp \/ Confirm \/ Publish \/ Resume
    \/ Sleep \/ Toggle \/ Die \/ Tick

Spec == Init /\ [][Next]_vars

(* Time passes; an operation that holds cycleMu goes on (each of its calls *)
(* has a deadline); the mutex is fair, so the cron's cycle, Initialize and *)
(* the scheduled requests of the refresh loop get their turn; a switch     *)
(* under way goes on or gives up.  A drained runner is resumed: by the     *)
(* caller that drained it, by a wake, or by the next account that is found. *)
Fairness ==
    /\ SF_vars(Tick)
    /\ WF_vars(CycleStep)
    /\ WF_vars(Switching \/ GiveUp)
    /\ WF_vars(Resume)
    /\ SF_vars(BeginInit)
    /\ SF_vars(BeginDue)
    /\ \A s \in Sources : SF_vars(Request(s, "scheduled"))

FairSpec == Spec /\ Fairness

-------------------------------------------------------------------------------
Rows == [gen : 0..MaxGen, due : Nat \cup {None}, reason : Reasons \cup {"absent"},
         claim : {"none", "manual", "auto"}, lease : Nat, rec : BOOLEAN,
         manual : Int]

States == [fail : {"untried", "ok", "network", "auth", "http_429", "schema",
                   "cancelled"},
           retry : Nat \cup {None}]

Cycles == [op : {"none", "init", "due", "reconcile", "rearm", "request"},
           pc : {"idle", "rearm", "plan", "credits", "expired", "next", "fetch",
                 "abandon", "record", "finish", "refinish"},
           due : BOOLEAN, on : SUBSET Sources, todo : SUBSET Instances,
           unrec : SUBSET Instances, cur : Instances \cup {NoInstance},
           desc : Bindings, out : States, src : Accounts \cup {"nobody"},
           lag : 0..MaxLag, cancelled : BOOLEAN, fatal : BOOLEAN]

(* Every variable has its type; a stored decision is in shape (a pause has *)
(* no due time, anything else has one), and only a claim is recorded.      *)
TypeOK ==
    /\ binding \in Bindings /\ bound \in Bindings
    /\ ident \in [pc : {"rest", "seal", "sealed", "confirm", "publish"},
                  scope : Accounts \cup {"nobody"}]
    /\ enabled \subseteq Sources
    /\ rows \in [Instances -> Rows]
    /\ \A i \in Instances : /\ Exists(rows[i]) => Valid(rows[i])
                            /\ rows[i].rec => rows[i].claim # "none"
    /\ states \in [Instances -> States]
    /\ newer \subseteq Accounts
    /\ fence \in [left : Int, reason : {"none", "manual", "rate"}]
    /\ cyc \in Cycles
    /\ runner \in {"down", "starting", "up", "blocked"}
    /\ owed \in [rate : Nat, manual : [Accounts -> Nat]]
    /\ faults \in 0..MaxFaults

ClaimStep(i) == rows[i].claim = "none" /\ rows'[i].claim # "none"

(* The store keeps one fence row for two reasons, and compares it with the *)
(* time an operation began.  Whatever the order of claims, completions,    *)
(* switches and restarts, no request of any account or source is claimed   *)
(* before the time a completed 429 named, and no manual request within the *)
(* gap after another account's, save as the companion of one of its own.   *)
FencesHold ==
    [][\A i \in Instances : ClaimStep(i) =>
          /\ owed.rate = 0
          /\ rows'[i].claim = "manual" => owed.manual[i[1]] = 0 \/ Companion(i)]_vars

(* What is recorded for an account was answered by that account, while it  *)
(* was the confirmed one, even when the login or the binding changed       *)
(* between the request and its answer.                                     *)
NoForeignOutcome ==
    [][\A i \in Instances : states'[i] # states[i] /\ cyc.pc = "record" =>
          /\ binding = cyc.desc /\ binding.scope = i[1]
          /\ cyc.out.fail = "ok" => cyc.src = i[1]]_vars

(* A request whose attempt is durable is never sent again by recovery: its *)
(* claim ends with a later due time or a pause, not with an immediate one. *)
RecordedNotResent ==
    [][\A i \in Instances :
          rows[i].rec /\ rows'[i].claim = "none" => rows'[i].due # 0]_vars

(* Every claim is finalized (completed, released or abandoned), whatever   *)
(* died, failed or was cancelled in between, unless the runner is blocked. *)
ClaimResolved ==
    \A i \in Instances :
        rows[i].claim # "none" ~> (rows[i].claim = "none" \/ runner = "blocked")

Live(i) == binding.scope = i[1] /\ i[2] \in enabled

(* A due source of the confirmed account is claimed, unless the account or *)
(* the preference changes, the fence is up or the runner is blocked.       *)
DueServed ==
    \A i \in Instances :
        (Live(i) /\ rows[i].due = 0)
            ~> (rows[i].claim # "none" \/ ~Live(i) \/ fence.reason # "none"
                 \/ rows[i].due # 0 \/ runner = "blocked")

(* Recovery from the durable schedule at the start of the runner, after a  *)
(* death, a cancellation or an expired claim, never leaves the runner      *)
(* blocked.                                                                *)
RecoveryNeverBlocks ==
    [][cyc.op = "init" /\ cyc.pc = "expired" => runner' # "blocked"]_vars

================================================================================
