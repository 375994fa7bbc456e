------------------------------- MODULE QuotaProofs -------------------------------
(***************************************************************************)
(* Proofs about QuotaRefresh for any accounts, intervals, leases and       *)
(* bounds: the types, the fences, and what recording and recovery may do.  *)
(***************************************************************************)
EXTENDS QuotaRefresh, TLAPS

\* A leaf that names no prover is tried with SMT, then with Zenon.
USE SMTT(30), ZenonT(30)

-------------------------------------------------------------------------------
(* Max, as the model uses it.                                              *)

\* The larger of two numbers is one of them and not below either.
LEMMA MaxPair ==
    ASSUME NEW m \in Int, NEW n \in Int
    PROVE  Max({m, n}) \in {m, n} /\ Max({m, n}) >= m /\ Max({m, n}) >= n
<1>1. \E x \in {m, n} : \A y \in {m, n} : x >= y
  <2>1. CASE m >= n
    BY <2>1
  <2>2. CASE ~(m >= n)
    BY <2>2
  <2> QED BY <2>1, <2>2
<1> QED BY <1>1 DEF Max

\* The largest of one or two numbers is one of them.
LEMMA MaxIn ==
    ASSUME NEW m \in Int, NEW n \in Int, NEW S \in SUBSET {m, n}, S # {}
    PROVE  Max(S) \in S
<1>1. \E x \in S : \A y \in S : x >= y
  <2>1. CASE m \in S /\ (n \notin S \/ m >= n)
    BY <2>1
  <2>2. CASE n \in S /\ (m \notin S \/ n >= m)
    BY <2>2
  <2>3. m \in S \/ n \in S
    BY Zenon
  <2> QED BY <2>1, <2>2, <2>3
<1> QED BY <1>1, Zenon DEF Max

-------------------------------------------------------------------------------
(* Decisions of the policy.                                                *)

Decisions == [due : Nat \cup {None}, reason : Reasons, fetch : BOOLEAN]

GoodRow(r) == /\ r \in Rows
              /\ Exists(r) => Valid(r)
              /\ r.rec => r.claim # "none"

\* The missing time is a number below every time.
LEMMA NoneInt == None \in Int /\ None < 0
BY DEF None

\* A scheduled time makes a valid decision.
LEMMA ScheduledType ==
    ASSUME NEW t \in Nat \ {0}, NEW why \in Reasons \ PausedReasons
    PROVE  LET d == Scheduled(t, why)
           IN  d \in Decisions /\ Valid(d) /\ d.due # 0
BY NoneInt DEF Scheduled, Decisions, Valid

\* So does a pause.
LEMMA PausedType ==
    ASSUME NEW why \in PausedReasons
    PROVE  LET d == Scheduled(None, why)
           IN  d \in Decisions /\ Valid(d) /\ d.due # 0
BY NoneInt DEF Scheduled, Decisions, Valid, Reasons

\* What follows an outcome is a valid decision and never due at once.
LEMMA NextDecisionsType ==
    ASSUME NEW st \in States
    PROVE  \A d \in NextDecisions(st) : d \in Decisions /\ Valid(d) /\ d.due # 0
<1> SUFFICES ASSUME NEW d \in NextDecisions(st)
             PROVE  d \in Decisions /\ Valid(d) /\ d.due # 0
    OBVIOUS
<1>1. "backoff" \in Reasons \ PausedReasons /\ "retry_after" \in Reasons \ PausedReasons
      /\ "plain" \in Reasons \ PausedReasons /\ "schema" \in PausedReasons
    BY DEF Reasons, PausedReasons
<1>2. CASE st.fail \in {"network", "auth"}
  <2>1. PICK b \in Backoff : d = Scheduled(b, "backoff")
    BY <1>2, Zenon DEF NextDecisions
  <2> QED BY <2>1, <1>1, PolicyAssumption, ScheduledType
<1>3. CASE st.fail = "http_429"
  <2>1. PICK b \in Backoff : d = IF st.retry > b THEN Scheduled(st.retry, "retry_after")
                                                 ELSE Scheduled(b, "backoff")
    BY <1>3 DEF NextDecisions
  <2>2. b \in Nat \ {0}
    BY PolicyAssumption
  <2>3. CASE st.retry > b
    <3>1. st.retry \in Nat \ {0}
      BY <2>2, <2>3, NoneInt DEF States
    <3> QED BY <2>1, <2>3, <3>1, <1>1, ScheduledType
  <2>4. CASE ~(st.retry > b)
    BY <2>1, <2>2, <2>4, <1>1, ScheduledType
  <2> QED BY <2>3, <2>4
<1>4. CASE st.fail = "schema"
  <2>1. d = Scheduled(None, "schema")
    BY <1>4 DEF NextDecisions
  <2> QED BY <2>1, <1>1, PausedType
<1>5. CASE st.fail \notin {"network", "auth", "http_429", "schema"}
  <2>1. PICK c \in Cadence : d = Scheduled(c, "plain")
    BY <1>5 DEF NextDecisions
  <2> QED BY <2>1, <1>1, PolicyAssumption, ScheduledType
<1> QED BY <1>2, <1>3, <1>4, <1>5

\* The decision a row holds is one.
LEMMA PreservedType ==
    ASSUME NEW r \in Rows
    PROVE  Preserved(r) \in Decisions
BY DEF Preserved, Scheduled, Decisions, Rows, Exists, Reasons, PausedReasons

\* The time a 429 named makes a decision.
LEMMA RetryAfterType ==
    ASSUME NEW r \in Rows, NEW st \in States, RetryFenced(r, st)
    PROVE  RetryAfter(r, st) \in Decisions
<1>1. RetryTimes(r, st) \in SUBSET {r.due, st.retry} /\ RetryTimes(r, st) # {}
    BY DEF RetryTimes, RetryFenced
<1>2. r.due \in Int /\ st.retry \in Int
    BY NoneInt DEF Rows, States
<1>3. Max(RetryTimes(r, st)) \in RetryTimes(r, st)
    BY <1>1, <1>2, MaxIn, Zenon
<1>4. Max(RetryTimes(r, st)) \in Nat
    BY <1>2, <1>3 DEF RetryTimes
<1> QED BY <1>4, PreservedType
        DEF RetryAfter, Scheduled, Decisions, Reasons, PausedReasons

\* The plan for a request is a decision.
LEMMA AskedPlanType ==
    ASSUME NEW r \in Rows, NEW st \in States, NEW held \in BOOLEAN,
           NEW why \in Reasons
    PROVE  AskedPlan(r, st, held, why) \in Decisions
BY RetryAfterType, PreservedType DEF AskedPlan, Immediate, Decisions

\* The plans after a restart are decisions.
LEMMA RestartType ==
    ASSUME NEW r \in Rows, NEW st \in States, NEW trigger
    PROVE  RestartDecisions(trigger, r, st) \subseteq Decisions
<1> DEFINE base == IF RetryFenced(r, st) THEN {RetryAfter(r, st)}
                   ELSE IF Waits(r) THEN {Preserved(r)}
                   ELSE {IF r.due # None /\ d.due # None /\ r.due < d.due
                               /\ ~PausesAutomatic(r)
                         THEN Preserved(r) ELSE d : d \in NextDecisions(st)}
           late(d) == [d EXCEPT !.fetch = TRUE,
                                !.reason = IF trigger = "recovery" THEN "plain"
                                                                   ELSE @]
<1>1. base \subseteq Decisions
  <2>1. CASE RetryFenced(r, st)
    BY <2>1, RetryAfterType
  <2>2. CASE ~RetryFenced(r, st) /\ Waits(r)
    BY <2>2, PreservedType
  <2>3. CASE ~RetryFenced(r, st) /\ ~Waits(r)
    BY <2>3, PreservedType, NextDecisionsType
  <2> QED BY <2>1, <2>2, <2>3
<1>2. ASSUME NEW d \in Decisions PROVE late(d) \in Decisions
    BY Zenon DEF Decisions, Reasons, PausedReasons
<1>3. RestartDecisions(trigger, r, st) = {IF d.due = 0 THEN late(d) ELSE d : d \in base}
    BY DEF RestartDecisions
<1> HIDE DEF base, late
<1> QED BY <1>1, <1>2, <1>3

TriggerNames == {"manual", "foreground", "wake", "startup", "recovery", "scheduled"}

\* The plans of every trigger are decisions.
LEMMA TriggerPlansType ==
    ASSUME NEW r \in Rows, NEW st \in States, NEW trigger \in TriggerNames,
           NEW young \in BOOLEAN, NEW stale \in BOOLEAN
    PROVE  TriggerPlans(trigger, r, st, young, stale) \subseteq Decisions
<1>0. "plain" \in Reasons /\ "manual" \in Reasons
    BY DEF Reasons, PausedReasons
<1>1. CASE trigger = "manual"
    BY <1>0, <1>1, PreservedType, AskedPlanType, Zenon DEF TriggerPlans
<1>2. CASE trigger \in {"foreground", "wake"}
  <2>1. (PausesAutomatic(r) \/ young) \in BOOLEAN /\ (PausesAutomatic(r) \/ ~stale) \in BOOLEAN
    OBVIOUS
  <2> QED BY <1>0, <1>2, <2>1, AskedPlanType, Zenon DEF TriggerPlans
<1>3. CASE trigger \in {"startup", "recovery"}
  <2>1. Immediate("plain") \in Decisions
    BY <1>0 DEF Immediate, Decisions
  <2> QED BY <1>3, <2>1, RestartType DEF TriggerPlans
<1>4. CASE trigger = "scheduled"
    BY <1>4, NextDecisionsType DEF TriggerPlans
<1> QED BY <1>1, <1>2, <1>3, <1>4 DEF TriggerNames

\* So is whatever the policy plans.
LEMMA PlanType ==
    ASSUME NEW r \in Rows, NEW st \in States, NEW trigger \in TriggerNames,
           NEW on \in BOOLEAN, NEW changed \in BOOLEAN,
           NEW young \in BOOLEAN, NEW stale \in BOOLEAN
    PROVE  Plan(trigger, on, changed, r, st, young, stale) \subseteq Decisions
<1>1. Scheduled(None, "disabled") \in Decisions
    BY PausedType DEF PausedReasons
<1>2. AskedPlan(r, st, FALSE, "plain") \in Decisions
    BY AskedPlanType, Zenon DEF Reasons
<1> QED BY <1>1, <1>2, PreservedType, TriggerPlansType, Zenon DEF Plan

(* The plan that completes a claim is in shape and never due at once: both *)
(* Cadence and Backoff are positive, and so is a retry-after it names.     *)
LEMMA CompletionType ==
    ASSUME NEW r, NEW st \in States, NEW on \in BOOLEAN,
           NEW d \in Plan("scheduled", on, FALSE, r, st, FALSE, FALSE)
    PROVE  d \in Decisions /\ Valid(d) /\ d.due # 0
<1>1. CASE on
  <2>1. d \in NextDecisions(st)
    BY <1>1 DEF Plan, TriggerPlans
  <2> QED BY <2>1, NextDecisionsType
<1>2. CASE ~on
    BY <1>2, PausedType DEF Plan, PausedReasons
<1> QED BY <1>1, <1>2

-------------------------------------------------------------------------------
(* Rows.                                                                   *)

(* What every write other than a claim does to a row.                      *)
Keeps(r, s) == /\ GoodRow(s)
               /\ r.claim = "none" => s.claim = "none"
               /\ r.rec /\ s.claim = "none" => s.due # 0

\* A row that stays is kept.
LEMMA SameKeeps ==
    ASSUME NEW r, GoodRow(r)
    PROVE  Keeps(r, r)
BY DEF Keeps, GoodRow

\* So is a row that is deactivated.
LEMMA InactiveKeeps ==
    ASSUME NEW r, GoodRow(r)
    PROVE  Keeps(r, Inactive(r))
<1> DEFINE s == Inactive(r)
<1>1. r \in Rows
    BY DEF GoodRow
<1>2. s \in Rows
    BY <1>1, Zenon DEF Inactive, Unclaimed, Rows, Reasons, PausedReasons
<1>3. s.due = None /\ s.reason = "inactive" /\ s.claim = "none" /\ ~s.rec
    BY <1>1 DEF Inactive, Unclaimed, Rows
<1> HIDE DEF s
<1>4. GoodRow(s)
    BY <1>2, <1>3 DEF GoodRow, Valid, PausedReasons
<1>5. Keeps(r, s)
    BY <1>3, <1>4, NoneInt DEF Keeps
<1> QED BY <1>5 DEF s

\* So is a row that is planned again, whatever the decision.
LEMMA UpsertedKeeps ==
    ASSUME NEW r, GoodRow(r), NEW d \in Decisions, NEW gen \in 0..MaxGen
    PROVE  Keeps(r, Upserted(r, d, gen))
<1>1. CASE r.claim = "none" /\ Valid(d)
    BY <1>1, Zenon DEF Keeps, GoodRow, Upserted, Rows, Valid, Exists, Decisions
<1>2. CASE ~(r.claim = "none" /\ Valid(d))
    BY <1>2, SameKeeps DEF Upserted
<1> QED BY <1>1, <1>2

\* So is a row whose claim is completed, as it is not due at once.
LEMMA CompletedKeeps ==
    ASSUME NEW r, GoodRow(r), NEW d \in Decisions, Valid(d), d.due # 0
    PROVE  Keeps(r, [Unclaimed(r) EXCEPT !.due = d.due, !.reason = d.reason])
BY Zenon DEF Keeps, GoodRow, Unclaimed, Rows, Valid, Exists, Decisions

\* A claim without a recorded attempt may be released as due at once.
LEMMA ReleasedKeeps ==
    ASSUME NEW r, GoodRow(r), ~r.rec
    PROVE  Keeps(r, [Unclaimed(r) EXCEPT !.due = 0, !.reason = "plain"])
<1> DEFINE s == [Unclaimed(r) EXCEPT !.due = 0, !.reason = "plain"]
<1>1. r \in Rows
    BY DEF GoodRow
<1>2. s \in Rows
    BY <1>1, Zenon DEF Unclaimed, Rows, Reasons
<1>3. s.due = 0 /\ s.reason = "plain" /\ s.claim = "none" /\ ~s.rec
    BY <1>1 DEF Unclaimed, Rows
<1> HIDE DEF s
<1>4. GoodRow(s)
    BY <1>2, <1>3, NoneInt DEF GoodRow, Valid, PausedReasons
<1>5. Keeps(r, s)
    BY <1>3, <1>4 DEF Keeps
<1> QED BY <1>5 DEF s

\* Recording the attempt of a claim keeps its row.
LEMMA RecordedKeeps ==
    ASSUME NEW r, GoodRow(r), r.claim # "none"
    PROVE  Keeps(r, [r EXCEPT !.rec = TRUE])
BY Zenon DEF Keeps, GoodRow, Rows, Valid, Exists

\* Time passing keeps a row and its claim.
LEMMA TickedKeeps ==
    ASSUME NEW r, GoodRow(r)
    PROVE  LET s == [r EXCEPT !.due = Less(@), !.lease = Less(@), !.manual = Later(@)]
           IN  Keeps(r, s) /\ s.claim = r.claim
<1>1. Less(r.due) \in Nat \cup {None} /\ (Less(r.due) = None <=> r.due = None)
    BY NoneInt DEF GoodRow, Rows, Less
<1>2. Less(r.lease) \in Nat
    BY DEF GoodRow, Rows, Less
<1>3. Later(r.manual) \in Int
    BY NoneInt, RefreshAssumption DEF GoodRow, Rows, Later
<1> DEFINE s == [r EXCEPT !.due = Less(@), !.lease = Less(@), !.manual = Later(@)]
<1>4. r \in Rows
    BY DEF GoodRow
<1>5. s \in Rows
    BY <1>1, <1>2, <1>3, <1>4, Zenon DEF Rows
<1>6. s.due = Less(r.due) /\ s.reason = r.reason /\ s.claim = r.claim /\ s.rec = r.rec
    BY <1>4 DEF Rows
<1> HIDE DEF s
<1>7. GoodRow(s)
    BY <1>1, <1>5, <1>6 DEF GoodRow, Valid, Exists
<1>8. Keeps(r, s)
    BY <1>6, <1>7 DEF Keeps, GoodRow
<1> QED BY <1>6, <1>8 DEF s

\* A claimed row is in shape and names who claimed it.
LEMMA ClaimedGood ==
    ASSUME NEW r, GoodRow(r), r.claim = "none", cyc \in Cycles, NEW trigger
    PROVE  /\ GoodRow(Claimed(r, trigger))
           /\ Claimed(r, trigger).claim = IF trigger = "manual" THEN "manual" ELSE "auto"
<1>1. cyc.lag \in Nat /\ Gap \in Nat /\ Lease \in Nat
    BY RefreshAssumption DEF Cycles
<1>2. Max({Lease - cyc.lag, 0}) \in Nat
  <2>1. ASSUME NEW m \in Int PROVE Max({m, 0}) \in Nat
    BY MaxPair
  <2>2. Lease - cyc.lag \in Int
    BY <1>1
  <2> QED BY <2>1, <2>2
<1> DEFINE s == Claimed(r, trigger)
<1>3. r \in Rows
    BY DEF GoodRow
<1>4. s \in Rows
  <2> DEFINE lease == Max({Lease - cyc.lag, 0})
             gap == Gap - cyc.lag
  <2>1. lease \in Nat /\ gap \in Int
    BY <1>1, <1>2
  <2>2. s = [r EXCEPT !.claim = IF trigger = "manual" THEN "manual" ELSE "auto",
                      !.lease = lease,
                      !.manual = IF trigger = "manual" THEN gap ELSE @]
    BY DEF Claimed
  <2> HIDE DEF lease, gap, s
  <2> QED BY <1>3, <2>1, <2>2, Zenon DEF Rows
<1>5. /\ s.due = r.due /\ s.reason = r.reason
      /\ s.claim = IF trigger = "manual" THEN "manual" ELSE "auto"
    BY <1>3 DEF Claimed, Rows
<1> HIDE DEF s
<1>6. GoodRow(s)
    BY <1>4, <1>5 DEF GoodRow, Valid, Exists
<1> QED BY <1>5, <1>6 DEF s

-------------------------------------------------------------------------------
(* The inductive invariant.                                                *)

(* The fence row covers what is owed.  Both promises share it, so a manual *)
(* claim must not shorten a 429, nor a 429 a manual interval.              *)
FenceCovers ==
    /\ owed.rate > 0 => fence.reason = "rate" /\ fence.left >= owed.rate
    /\ \A a \in Accounts :
          owed.manual[a] > 0 => fence.reason # "none" /\ fence.left >= owed.manual[a]

(* From the claim of a request to its end the operation has an instance in *)
(* hand: the described account's, still claimed.                           *)
InHand == cyc.pc \in {"fetch", "abandon", "record", "finish", "refinish"}

HandHolds ==
    /\ cyc.pc # "idle" => cyc.op # "none"
    /\ InHand => /\ cyc.cur \in Instances /\ cyc.cur[1] = cyc.desc.scope
                 /\ rows[cyc.cur].claim # "none"
    /\ cyc.pc = "record" /\ cyc.out.fail = "ok" => cyc.src = cyc.desc.scope

IInv == TypeOK /\ FenceCovers /\ HandHolds

\* The invariant holds at the start.
LEMMA InitIInv == Init => IInv
<1> SUFFICES ASSUME Init PROVE IInv
    OBVIOUS
<1> USE RefreshAssumption, NoneInt DEF Init
<1>1. NoBinding \in Bindings
    BY DEF NoBinding, Bindings
<1>2. NoRow \in Rows /\ ~Exists(NoRow) /\ ~NoRow.rec
    BY DEF NoRow, Rows, Exists
<1>3. Untried \in States
    BY DEF Untried, States
<1>4. Idle \in Cycles
    BY <1>1, <1>3 DEF Idle, Cycles
<1>5. NothingOwed \in [rate : Nat, manual : [Accounts -> Nat]]
    BY DEF NothingOwed
<1>6. TypeOK
    BY <1>1, <1>2, <1>3, <1>4, <1>5 DEF TypeOK, NoFence, Started
<1>7. FenceCovers
    BY DEF FenceCovers, NothingOwed
<1>8. HandHolds
    BY DEF HandHolds, InHand, Idle
<1> QED BY <1>6, <1>7, <1>8 DEF IInv

-------------------------------------------------------------------------------
(* What a step does to the rows: a claim, or writes that keep them.        *)

RowsKept ==
    /\ rows' = [i \in Instances |-> rows'[i]]
    /\ \A i \in Instances : Keeps(rows[i], rows'[i])

Claims(i, r, trigger) ==
    /\ GoodRow(r) /\ r.claim = "none" /\ rows[i].claim = "none"
    /\ FenceAllows(i, trigger)
    /\ Claim(i, r, trigger)

\* Every row is in shape.
LEMMA GoodRows ==
    ASSUME TypeOK, NEW i \in Instances
    PROVE  GoodRow(rows[i])
BY DEF TypeOK, GoodRow

\* Rows that stay are kept.
LEMMA UnchangedRows ==
    ASSUME TypeOK, UNCHANGED rows
    PROVE  RowsKept
BY GoodRows, SameKeeps DEF RowsKept, TypeOK

\* descriptors() keeps each row, and leaves those of the bound account.
LEMMA DeactivatedKeeps ==
    ASSUME TypeOK, NEW i \in Instances
    PROVE  Keeps(rows[i], Deactivated[i]) /\ (i[1] = binding.scope => Deactivated[i] = rows[i])
<1>1. GoodRow(rows[i])
    BY GoodRows
<1>2. Deactivated[i] = IF Exists(rows[i]) /\ i[1] # binding.scope THEN Inactive(rows[i])
                                                                 ELSE rows[i]
    BY DEF Deactivated
<1> QED BY <1>1, <1>2, SameKeeps, InactiveKeeps

\* So it keeps all rows.
LEMMA DeactivatedRows ==
    ASSUME TypeOK, rows' = Deactivated
    PROVE  RowsKept
<1>1. Deactivated = [i \in Instances |-> Deactivated[i]]
    BY DEF Deactivated
<1> QED BY <1>1, DeactivatedKeeps DEF RowsKept

\* It does so beside another write that keeps its row.
LEMMA DeactivatedExcept ==
    ASSUME TypeOK, NEW i \in Instances, NEW r, Keeps(rows[i], r),
           rows' = [Deactivated EXCEPT ![i] = r]
    PROVE  RowsKept
<1>1. rows' = [j \in Instances |-> IF j = i THEN r ELSE Deactivated[j]]
    BY Zenon DEF Deactivated
<1> QED BY <1>1, DeactivatedKeeps, Zenon DEF RowsKept

\* A write that keeps its row keeps all rows.
LEMMA RowsExcept ==
    ASSUME TypeOK, NEW i \in Instances, NEW r, Keeps(rows[i], r),
           rows' = [rows EXCEPT ![i] = r]
    PROVE  RowsKept
<1>1. rows' = [j \in Instances |-> IF j = i THEN r ELSE rows[j]]
    BY Zenon DEF TypeOK
<1> QED BY <1>1, GoodRows, SameKeeps, Zenon DEF RowsKept

\* A plan for an instance is a decision.
LEMMA PlansType ==
    ASSUME TypeOK, NEW i \in Instances, NEW trigger \in TriggerNames,
           NEW on \in SUBSET Sources, NEW d \in Plans(i, trigger, on)
    PROVE  d \in Decisions
<1>1. rows[i] \in Rows /\ states[i] \in States
    BY DEF TypeOK
<1> DEFINE off == i[2] \in on
           changed == Exists(rows[i]) /\ rows[i].gen # binding.gen
<1>2. PICK young \in Ages(states[i]), stale \in Ages(states[i]) :
         d \in Plan(trigger, off, changed, rows[i], states[i], young, stale)
    BY DEF Plans
<1>3. Ages(states[i]) \subseteq BOOLEAN
    BY Zenon DEF Ages
<1>4. off \in BOOLEAN /\ changed \in BOOLEAN
    OBVIOUS
<1> HIDE DEF off, changed
<1> QED BY <1>1, <1>2, <1>3, <1>4, PlanType

\* The generation of the binding is in its bound.
LEMMA BindingGen ==
    ASSUME TypeOK
    PROVE  binding.gen \in 0..MaxGen
BY DEF TypeOK, Bindings

\* Planning a set of instances anew keeps the rows.
LEMMA ReplanKeeps ==
    ASSUME TypeOK, NEW which \in SUBSET Instances, Replan(which)
    PROVE  RowsKept
<1>1. PICK d : /\ \A i \in which : d[i] \in Plans(i, ReplanTrigger(i), cyc.on)
               /\ rows' = [i \in Instances |->
                             IF i \in which THEN Upserted(rows[i], d[i], binding.gen)
                                            ELSE Deactivated[i]]
    BY DEF Replan
<1>2. cyc.on \in SUBSET Sources
    BY DEF TypeOK, Cycles
<1>3. ASSUME NEW i \in which
      PROVE  Keeps(rows[i], Upserted(rows[i], d[i], binding.gen))
  <2>1. ReplanTrigger(i) \in TriggerNames
    BY DEF ReplanTrigger, TriggerNames
  <2>2. d[i] \in Decisions
    BY <1>1, <1>2, <2>1, PlansType
  <2> QED BY <2>2, GoodRows, BindingGen, UpsertedKeeps
<1> QED BY <1>1, <1>3, DeactivatedKeeps DEF RowsKept

\* The rearming of every source keeps them.
LEMMA RearmAllKeeps ==
    ASSUME TypeOK, RearmAll
    PROVE  RowsKept
<1> DEFINE d(i) == IF i[2] \in cyc.on THEN Immediate("plain") ELSE Scheduled(None, "disabled")
<1>1. rows' = [i \in Instances |->
          IF i[1] # binding.scope \/ rows[i].claim # "none" THEN Deactivated[i]
          ELSE Upserted(rows[i], d(i), binding.gen)]
    BY DEF RearmAll
<1>2. Immediate("plain") \in Decisions
    BY DEF Immediate, Decisions, Reasons
<1>3. Scheduled(None, "disabled") \in Decisions
    BY PausedType DEF PausedReasons
<1>4. ASSUME NEW i \in Instances PROVE d(i) \in Decisions
    BY <1>2, <1>3
<1> HIDE DEF d
<1>5. ASSUME NEW i \in Instances
      PROVE  Keeps(rows[i], Upserted(rows[i], d(i), binding.gen))
    BY <1>4, GoodRows, BindingGen, UpsertedKeeps
<1> QED BY <1>1, <1>5, DeactivatedKeeps DEF RowsKept

\* Waking the reset source after a quota recovery keeps them.
LEMMA CreditsKeeps ==
    ASSUME TypeOK, Credits
    PROVE  RowsKept
<1> DEFINE r == <<binding.scope, "reset">>
           new == Upserted(Deactivated[r], Scheduled(0, "plain"), binding.gen)
<1>1. \/ rows' = Deactivated
      \/ /\ binding.scope # "nobody" /\ "reset" \in cyc.on
         /\ rows' = [Deactivated EXCEPT ![r] = new]
    BY DEF Credits
<1>2. CASE binding.scope # "nobody" /\ "reset" \in cyc.on
           /\ rows' = [Deactivated EXCEPT ![r] = new]
  <2>1. r \in Instances /\ r[1] = binding.scope
    BY <1>2 DEF TypeOK, Bindings, Instances, Cycles
  <2>2. Deactivated[r] = rows[r]
    BY <2>1, DeactivatedKeeps
  <2>3. Scheduled(0, "plain") \in Decisions
    BY DEF Scheduled, Decisions, Reasons
  <2>4. Keeps(rows[r], new)
    BY <2>1, <2>2, <2>3, GoodRows, BindingGen, UpsertedKeeps
  <2> HIDE DEF r, new
  <2> QED BY <1>2, <2>1, <2>4, DeactivatedExcept, Zenon
<1> QED BY <1>1, <1>2, DeactivatedRows

\* The recovery of an expired claim keeps them.
LEMMA RecoverKeeps ==
    ASSUME TypeOK, NEW i \in Instances, Recover(i)
    PROVE  RowsKept
<1> DEFINE new == [Unclaimed(Deactivated[i]) EXCEPT !.due = 0, !.reason = "plain"]
<1>1. \/ rows' = Deactivated
      \/ /\ i[1] = binding.scope /\ ~Attempted(rows[i])
         /\ rows' = [Deactivated EXCEPT ![i] = new]
    BY Zenon DEF Recover
<1>2. CASE i[1] = binding.scope /\ ~Attempted(rows[i])
           /\ rows' = [Deactivated EXCEPT ![i] = new]
  <2>1. Deactivated[i] = rows[i]
    BY <1>2, DeactivatedKeeps
  <2>2. Keeps(rows[i], new)
    BY <1>2, <2>1, GoodRows, ReleasedKeeps, Zenon DEF Attempted
  <2> HIDE DEF new
  <2> QED BY <1>2, <2>2, DeactivatedExcept, Zenon
<1> QED BY <1>1, <1>2, DeactivatedRows

\* The end of the recovery keeps them.
LEMMA RecoveredKeeps ==
    ASSUME TypeOK, Recovered
    PROVE  RowsKept
<1>1. cyc.unrec \in SUBSET Instances
    BY DEF TypeOK, Cycles
<1>2. UNCHANGED rows \/ Replan(cyc.unrec) \/ rows' = Deactivated
    BY Zenon DEF Recovered
<1> QED BY <1>1, <1>2, UnchangedRows, ReplanKeeps, DeactivatedRows

(* A due row is claimed, or kept with the fence and what is owed.          *)
LEMMA ServeEffect ==
    ASSUME TypeOK, NEW i \in Instances, Serve(i)
    PROVE  \/ RowsKept /\ UNCHANGED <<fence, owed>> /\ cyc'.pc = "next"
           \/ \E trigger : /\ Claims(i, rows[i], trigger)
                           /\ i[1] = binding.scope
                           /\ cyc' = [cyc EXCEPT !.todo = @ \ {i}, !.pc = "fetch",
                                                 !.cur = i, !.desc = binding]
<1> DEFINE new == Upserted(Deactivated[i], Scheduled(None, "disabled"), binding.gen)
           rest == [cyc EXCEPT !.todo = @ \ {i}]
<1>0. rest.pc = "next" /\ [rest EXCEPT !.fatal = TRUE].pc = "next"
    BY DEF Serve, At, TypeOK, Cycles
<1>1. CASE rows' = Deactivated /\ UNCHANGED <<fence, owed>> /\ cyc'.pc = "next"
    BY <1>1, DeactivatedRows
<1>2. CASE rows' = [Deactivated EXCEPT ![i] = new] /\ i[1] = binding.scope
           /\ UNCHANGED <<fence, owed>> /\ cyc'.pc = "next"
  <2>1. Deactivated[i] = rows[i]
    BY <1>2, DeactivatedKeeps
  <2>2. Scheduled(None, "disabled") \in Decisions
    BY PausedType DEF PausedReasons
  <2>3. Keeps(rows[i], new)
    BY <2>1, <2>2, GoodRows, BindingGen, UpsertedKeeps
  <2> HIDE DEF new
  <2> QED BY <1>2, <2>3, DeactivatedExcept, Zenon
<1>3. CASE /\ Claimable(i, rows[i], TriggerOf(rows[i]), binding.gen)
           /\ i[1] = binding.scope
           /\ Claim(i, rows[i], TriggerOf(rows[i]))
           /\ cyc' = [rest EXCEPT !.pc = "fetch", !.cur = i, !.desc = binding]
    BY <1>3, GoodRows DEF Claims, Claimable
<1>4. \/ rows' = Deactivated /\ UNCHANGED <<fence, owed>>
         /\ (cyc' = rest \/ cyc' = [rest EXCEPT !.fatal = TRUE])
      \/ rows' = [Deactivated EXCEPT ![i] = new] /\ i[1] = binding.scope
         /\ UNCHANGED <<fence, owed>> /\ cyc' = rest
      \/ /\ Claimable(i, rows[i], TriggerOf(rows[i]), binding.gen)
         /\ i[1] = binding.scope
         /\ Claim(i, rows[i], TriggerOf(rows[i]))
         /\ cyc' = [rest EXCEPT !.pc = "fetch", !.cur = i, !.desc = binding]
    BY DEF Serve
<1> HIDE DEF rest, new
<1> QED BY <1>0, <1>1, <1>2, <1>3, <1>4, Zenon

\* A request keeps the rows or claims one of the bound account.
LEMMA RequestEffect ==
    ASSUME TypeOK, NEW s \in Sources, NEW trigger \in Triggers, Request(s, trigger)
    PROVE  \/ RowsKept /\ UNCHANGED <<fence, owed, cyc>>
           \/ \E i \in Instances : \E r :
                 /\ Claims(i, r, trigger)
                 /\ i[1] = binding.scope
                 /\ cyc' = [Idle EXCEPT !.op = "request", !.pc = "fetch",
                                        !.on = enabled, !.cur = i, !.desc = binding]
<1>1. CASE binding.scope = "nobody"
    BY <1>1, DeactivatedRows DEF Request
<1>2. CASE binding.scope # "nobody"
  <2> DEFINE i == <<binding.scope, s>>
             row(d) == IF d.fetch \/ ~Exists(rows[i])
                       THEN Upserted(rows[i], d, binding.gen) ELSE rows[i]
  <2>1. i \in Instances /\ i[1] = binding.scope
    BY <1>2 DEF TypeOK, Bindings, Instances
  <2>2. PICK d \in Plans(i, trigger, enabled) :
           \/ /\ Claimable(i, row(d), trigger, binding.gen)
              /\ Claim(i, row(d), trigger)
              /\ cyc' = [Idle EXCEPT !.op = "request", !.pc = "fetch",
                                     !.on = enabled, !.cur = i, !.desc = binding]
           \/ /\ rows' = [Deactivated EXCEPT ![i] = row(d)]
              /\ UNCHANGED <<fence, owed, cyc>>
    BY <1>2 DEF Request
  <2>3. trigger \in TriggerNames /\ enabled \in SUBSET Sources
    BY RefreshAssumption DEF TypeOK, TriggerNames
  <2> HIDE DEF i
  <2>4. d \in Decisions
    BY <2>1, <2>3, PlansType
  <2>5. GoodRow(rows[i])
    BY <2>1, GoodRows
  <2>6. Keeps(rows[i], row(d))
    BY <2>4, <2>5, BindingGen, UpsertedKeeps, SameKeeps
  <2>7. row(d).claim = rows[i].claim
    BY <2>5 DEF GoodRow, Rows, Upserted
  <2> HIDE DEF row
  <2>8. CASE /\ Claimable(i, row(d), trigger, binding.gen)
             /\ Claim(i, row(d), trigger)
             /\ cyc' = [Idle EXCEPT !.op = "request", !.pc = "fetch",
                                    !.on = enabled, !.cur = i, !.desc = binding]
    <3>1. Claims(i, row(d), trigger)
      BY <2>6, <2>7, <2>8 DEF Claims, Claimable, Keeps
    <3> QED BY <2>1, <2>8, <3>1, Zenon
  <2>9. CASE rows' = [Deactivated EXCEPT ![i] = row(d)] /\ UNCHANGED <<fence, owed, cyc>>
    BY <2>1, <2>6, <2>9, DeactivatedExcept, Zenon
  <2> QED BY <2>2, <2>8, <2>9, Zenon
<1> QED BY <1>1, <1>2, Zenon

\* A completion keeps the rows and raises the fence only to what a 429 named.
LEMMA CompleteKeeps ==
    ASSUME TypeOK, cyc.cur \in Instances, Complete
    PROVE  /\ RowsKept
           /\ \/ UNCHANGED <<fence, owed>>
              \/ \E t \in Nat \ {0} : /\ fence' = Raised(t, "rate", 0)
                                      /\ owed' = [owed EXCEPT !.rate = Max({@, t})]
<1>0. GoodRow(rows[cyc.cur]) /\ states[cyc.cur] \in States
    BY GoodRows DEF TypeOK
<1>1. CASE binding # cyc.desc
    BY <1>0, <1>1, InactiveKeeps, RowsExcept DEF Complete
<1>2. CASE binding = cyc.desc
  <2> DEFINE on == cyc.cur[2] \in cyc.on
             new(d) == [Unclaimed(rows[cyc.cur]) EXCEPT !.due = d.due, !.reason = d.reason]
             limited(d) == states[cyc.cur].fail = "http_429" /\ d.due # None
  <2>1. PICK d \in Plan("scheduled", on, FALSE, rows[cyc.cur], states[cyc.cur],
                        FALSE, FALSE) :
           /\ rows' = [rows EXCEPT ![cyc.cur] = new(d)]
           /\ fence' = IF limited(d) THEN Raised(d.due, "rate", 0) ELSE fence
           /\ owed' = IF limited(d) THEN [owed EXCEPT !.rate = Max({@, d.due})] ELSE owed
    BY <1>2, Zenon DEF Complete
  <2>2. on \in BOOLEAN
    OBVIOUS
  <2> HIDE DEF on
  <2>3. d \in Decisions /\ Valid(d) /\ d.due # 0
    BY <1>0, <2>1, <2>2, CompletionType, Zenon
  <2>4. RowsKept
    BY <1>0, <2>1, <2>3, CompletedKeeps, RowsExcept, Zenon
  <2>5. limited(d) => d.due \in Nat \ {0}
    BY <2>3 DEF Decisions
  <2> QED BY <2>1, <2>4, <2>5
<1> QED BY <1>1, <1>2, Zenon

-------------------------------------------------------------------------------
(* The fence.                                                              *)

FenceTypes == /\ fence \in [left : Int, reason : {"none", "manual", "rate"}]
              /\ owed \in [rate : Nat, manual : [Accounts -> Nat]]

(* Raising the fence keeps it at least as high, and a 429 that is owed     *)
(* keeps its reason.                                                       *)
LEMMA RaisedHigher ==
    ASSUME FenceTypes, NEW t \in Int, NEW why \in {"manual", "rate"}, NEW ago \in Nat
    PROVE  LET f == Raised(t, why, ago)
           IN  /\ f \in [left : Int, reason : {"manual", "rate"}]
               /\ f.left >= t
               /\ fence.reason # "none" => f.left >= fence.left
               /\ fence.reason = "rate" /\ fence.left > 0 => f.reason = "rate"
               /\ why = "rate" => f.reason = "rate"
<1>1. fence.left \in Int /\ fence.reason \in {"none", "manual", "rate"}
    BY DEF FenceTypes
<1>2. /\ Max({fence.left, t}) \in Int
      /\ Max({fence.left, t}) >= fence.left /\ Max({fence.left, t}) >= t
    BY <1>1, MaxPair, Zenon
<1>3. CASE fence.reason = "none"
    BY <1>3 DEF Raised
<1>4. CASE fence.reason # "none"
  <2> DEFINE m == Max({fence.left, t})
             keep == fence.left + ago > 0 /\ fence.reason = "rate"
  <2>1. Raised(t, why, ago) = [left |-> m, reason |-> IF keep THEN "rate" ELSE why]
    BY <1>4 DEF Raised
  <2>2. fence.reason = "rate" /\ fence.left > 0 => keep
    BY <1>1
  <2> HIDE DEF keep, m
  <2> QED BY <1>2, <2>1, <2>2 DEF m
<1> QED BY <1>3, <1>4

\* After a 429 the fence covers it and what was owed before.
LEMMA RateFence ==
    ASSUME FenceTypes, FenceCovers, NEW t \in Nat \ {0},
           fence' = Raised(t, "rate", 0), owed' = [owed EXCEPT !.rate = Max({@, t})]
    PROVE  FenceTypes' /\ FenceCovers'
<1>1. owed.rate \in Nat /\ fence.left \in Int
    BY DEF FenceTypes
<1>2. Max({owed.rate, t}) \in {owed.rate, t}
    BY <1>1, MaxPair
<1>3. /\ fence' \in [left : Int, reason : {"manual", "rate"}]
      /\ fence'.left >= t /\ fence'.reason = "rate"
      /\ fence.reason # "none" => fence'.left >= fence.left
    BY RaisedHigher
<1>4. owed'.rate = Max({owed.rate, t}) /\ owed'.manual = owed.manual
    BY DEF FenceTypes
<1>5. FenceTypes'
    BY <1>1, <1>2, <1>3 DEF FenceTypes
<1>6. fence'.left >= owed'.rate
    BY <1>1, <1>2, <1>3, <1>4 DEF FenceCovers
<1>7. ASSUME NEW a \in Accounts, owed.manual[a] > 0
      PROVE  fence'.left >= owed.manual[a]
  <2>1. owed.manual[a] \in Nat
    BY DEF FenceTypes
  <2> QED BY <1>1, <1>3, <1>7, <2>1 DEF FenceCovers
<1> QED BY <1>3, <1>4, <1>5, <1>6, <1>7 DEF FenceCovers

\* After a manual claim the fence covers its gap and what was owed before.
LEMMA ManualFence ==
    ASSUME FenceTypes, FenceCovers, NEW a, NEW ago \in Nat, cyc.lag = ago,
           fence' = Raised(Gap - ago, "manual", ago), owed' = OwedByManual(a)
    PROVE  FenceTypes' /\ FenceCovers'
<1> DEFINE t == Gap - ago
<1>0. t \in Int
    BY RefreshAssumption
<1>1. fence.left \in Int /\ owed.rate \in Nat
    BY DEF FenceTypes
<1>2. fence' = Raised(t, "manual", ago)
    OBVIOUS
<1>3. owed'.rate = owed.rate
      /\ owed'.manual = [b \in Accounts |-> IF b = a THEN owed.manual[b]
                                            ELSE Max({owed.manual[b], t})]
      /\ owed' = [owed EXCEPT !.manual = owed'.manual]
  <2> DEFINE m == [b \in Accounts |-> IF b = a THEN owed.manual[b]
                                      ELSE Max({owed.manual[b], t})]
  <2>1. owed' = [owed EXCEPT !.manual = m]
    BY DEF OwedByManual
  <2> HIDE DEF m
  <2>2. owed'.manual = m /\ owed'.rate = owed.rate
    BY <2>1 DEF FenceTypes
  <2> QED BY <2>1, <2>2 DEF m
<1> HIDE DEF t
<1>4. /\ fence' \in [left : Int, reason : {"manual", "rate"}]
      /\ fence'.left >= t
      /\ fence.reason # "none" => fence'.left >= fence.left
      /\ fence.reason = "rate" /\ fence.left > 0 => fence'.reason = "rate"
  <2>1. "manual" \in {"manual", "rate"}
    OBVIOUS
  <2> DEFINE f == Raised(t, "manual", ago)
  <2>2. /\ f \in [left : Int, reason : {"manual", "rate"}]
        /\ f.left >= t
        /\ fence.reason # "none" => f.left >= fence.left
        /\ fence.reason = "rate" /\ fence.left > 0 => f.reason = "rate"
    BY ONLY FenceTypes, ago \in Nat, <1>0, <2>1, RaisedHigher
  <2> QED BY <1>2, <2>2
<1>5. ASSUME NEW b \in Accounts
      PROVE  /\ owed'.manual[b] \in Nat
             /\ owed'.manual[b] \in {owed.manual[b], t}
  <2>1. owed.manual[b] \in Nat
    BY DEF FenceTypes
  <2>2. /\ Max({owed.manual[b], t}) \in {owed.manual[b], t}
        /\ Max({owed.manual[b], t}) >= owed.manual[b]
    <3>1. ASSUME NEW m \in Int, NEW n \in Int
          PROVE  Max({m, n}) \in {m, n} /\ Max({m, n}) >= m
      BY MaxPair
    <3>2. owed.manual[b] \in Int
      BY <2>1
    <3> QED BY ONLY <1>0, <3>1, <3>2
  <2>3. owed'.manual[b] = owed.manual[b] \/ owed'.manual[b] = Max({owed.manual[b], t})
    BY <1>3
  <2> QED BY <1>0, <2>1, <2>2, <2>3
<1>6. FenceTypes'
  <2>1. owed'.manual \in [Accounts -> Nat]
    BY <1>3, <1>5, Zenon
  <2>2. owed' \in [rate : Nat, manual : [Accounts -> Nat]]
    BY <1>3, <2>1, Zenon DEF FenceTypes
  <2> QED BY <1>4, <2>2 DEF FenceTypes
<1>7. owed'.rate > 0 => fence'.reason = "rate" /\ fence'.left >= owed'.rate
    BY <1>1, <1>3, <1>4 DEF FenceCovers
<1>8. ASSUME NEW b \in Accounts, owed'.manual[b] > 0
      PROVE  fence'.left >= owed'.manual[b]
  <2>1. owed.manual[b] \in Nat
    BY DEF FenceTypes
  <2>2. CASE owed'.manual[b] = t
    BY <1>4, <2>2
  <2>3. CASE owed'.manual[b] = owed.manual[b]
    BY <1>1, <1>4, <1>8, <2>1, <2>3 DEF FenceCovers
  <2> QED BY <1>5, <2>2, <2>3
<1> QED BY <1>4, <1>6, <1>7, <1>8 DEF FenceCovers

\* It covers what is still owed as time passes.
LEMMA TickFence ==
    ASSUME FenceTypes, FenceCovers, Tick
    PROVE  FenceTypes' /\ FenceCovers'
<1>1. fence.left \in Int /\ owed.rate \in Nat /\ MaxLag \in Nat
    BY RefreshAssumption DEF FenceTypes
<1>2. /\ fence' = IF fence.reason = "none" \/ Later(fence.left) = None THEN NoFence
                  ELSE [fence EXCEPT !.left = Later(@)]
      /\ owed' = [rate |-> Less(owed.rate),
                  manual |-> [a \in Accounts |-> Less(owed.manual[a])]]
    BY Zenon DEF Tick
<1>3. ASSUME NEW n \in Nat PROVE Less(n) \in Nat /\ (Less(n) > 0 => n > 0 /\ Less(n) = n - 1)
    BY DEF Less
<1>4. Later(fence.left) \in Int
    BY <1>1, NoneInt DEF Later
<1>5. fence.left > 0 => Later(fence.left) = fence.left - 1 /\ Later(fence.left) # None
    BY <1>1, NoneInt DEF Later
<1> HIDE DEF Less, Later
<1>6. fence' \in [left : Int, reason : {"none", "manual", "rate"}]
    BY <1>2, <1>4 DEF FenceTypes, NoFence
<1>7. fence.left > 0 /\ fence.reason # "none" =>
         fence'.left = fence.left - 1 /\ fence'.reason = fence.reason
    BY <1>2, <1>5 DEF FenceTypes
<1>8. ASSUME NEW a \in Accounts
      PROVE  owed.manual[a] \in Nat /\ owed'.manual[a] = Less(owed.manual[a])
    BY <1>2 DEF FenceTypes
<1>9. owed' \in [rate : Nat, manual : [Accounts -> Nat]]
    BY <1>1, <1>2, <1>3, <1>8
<1>10. owed'.rate > 0 => fence'.reason = "rate" /\ fence'.left >= owed'.rate
  <2>1. owed'.rate = Less(owed.rate)
    BY <1>2
  <2> QED BY <1>1, <1>3, <1>7, <2>1 DEF FenceCovers
<1>11. ASSUME NEW a \in Accounts, owed'.manual[a] > 0
       PROVE  fence'.reason # "none" /\ fence'.left >= owed'.manual[a]
    BY <1>1, <1>3, <1>7, <1>8, <1>11 DEF FenceCovers
<1> QED BY <1>6, <1>9, <1>10, <1>11 DEF FenceTypes, FenceCovers

-------------------------------------------------------------------------------
(* What a step does to the rows and the fence.                             *)

FencesStep ==
    \A i \in Instances : ClaimStep(i) =>
        /\ owed.rate = 0
        /\ rows'[i].claim = "manual" => owed.manual[i[1]] = 0 \/ Companion(i)

ResentStep ==
    \A i \in Instances : rows[i].rec /\ rows'[i].claim = "none" => rows'[i].due # 0

RowsTypes == /\ rows' \in [Instances -> Rows]
             /\ \A i \in Instances : GoodRow(rows'[i])

StoreEffect == RowsTypes /\ FenceTypes' /\ FenceCovers' /\ FencesStep /\ ResentStep

\* Writes that keep the rows are no claim and no early resend.
LEMMA KeptEffect ==
    ASSUME RowsKept, FenceTypes', FenceCovers'
    PROVE  StoreEffect
<1>1. RowsTypes
    BY DEF RowsTypes, RowsKept, Keeps, GoodRow
<1>2. FencesStep
    BY DEF FencesStep, ClaimStep, RowsKept, Keeps
<1>3. ResentStep
    BY DEF ResentStep, RowsKept, Keeps
<1> QED BY <1>1, <1>2, <1>3 DEF StoreEffect

\* The fence has its type.
LEMMA FenceTyped ==
    ASSUME TypeOK
    PROVE  FenceTypes
BY DEF TypeOK, FenceTypes

\* A fence that stays covers what it did.
LEMMA SameFence ==
    ASSUME FenceTypes, FenceCovers, UNCHANGED <<fence, owed>>
    PROVE  FenceTypes' /\ FenceCovers'
BY DEF FenceTypes, FenceCovers

(* A claim goes out only when the fence lets it.                           *)
LEMMA ClaimEffect ==
    ASSUME TypeOK, FenceCovers, NEW i \in Instances, NEW r, NEW trigger,
           Claims(i, r, trigger)
    PROVE  StoreEffect /\ rows'[i].claim # "none"
<1>1. cyc \in Cycles /\ cyc.lag \in Nat /\ FenceTypes /\ i[1] \in Accounts
    BY FenceTyped, RefreshAssumption DEF TypeOK, Cycles, Instances
<1>2. GoodRow(r) /\ r.claim = "none" /\ FenceAllows(i, trigger) /\ Claim(i, r, trigger)
    BY DEF Claims
<1>3. /\ GoodRow(Claimed(r, trigger))
      /\ Claimed(r, trigger).claim = IF trigger = "manual" THEN "manual" ELSE "auto"
    BY <1>1, <1>2, ClaimedGood
<1>4. rows' = [j \in Instances |-> IF j = i THEN Claimed(r, trigger) ELSE Deactivated[j]]
    BY <1>2, Zenon DEF Claim, Deactivated
<1>5. \A j \in Instances \ {i} : Keeps(rows[j], rows'[j])
    BY <1>4, DeactivatedKeeps
<1>6. rows'[i] = Claimed(r, trigger)
    BY <1>4
<1>7. RowsTypes
    BY <1>3, <1>4, <1>5, <1>6 DEF RowsTypes, Keeps, GoodRow
<1>8. FenceTypes' /\ FenceCovers'
  <2>1. CASE trigger = "manual"
    BY <1>1, <1>2, <2>1, ManualFence DEF Claim
  <2>2. CASE trigger # "manual"
    BY <1>1, <1>2, <2>2, SameFence DEF Claim
  <2> QED BY <2>1, <2>2
<1>9. FencesStep
  <2>1. owed.rate \in Nat /\ owed.manual[i[1]] \in Nat /\ fence.left \in Int
    BY <1>1 DEF FenceTypes
  <2>2. owed.rate = 0
    BY <1>1, <1>2, <2>1 DEF FenceAllows, FenceCovers
  <2>3. owed.manual[i[1]] = 0 \/ Companion(i)
    BY <1>1, <1>2, <2>1 DEF FenceAllows, FenceCovers
  <2> QED BY <1>5, <2>2, <2>3 DEF FencesStep, ClaimStep, Keeps
<1>10. ResentStep
    BY <1>3, <1>5, <1>6 DEF ResentStep, Keeps
<1> QED BY <1>3, <1>6, <1>7, <1>8, <1>9, <1>10 DEF StoreEffect

\* Time passing keeps all rows and their claims.
LEMMA TickRows ==
    ASSUME TypeOK, Tick
    PROVE  RowsKept /\ \A i \in Instances : rows'[i].claim = rows[i].claim
<1> DEFINE new(i) == [rows[i] EXCEPT !.due = Less(@), !.lease = Less(@), !.manual = Later(@)]
<1>1. rows' = [i \in Instances |-> new(i)]
    BY ZenonT(60) DEF Tick
<1>2. ASSUME NEW i \in Instances
      PROVE  Keeps(rows[i], new(i)) /\ new(i).claim = rows[i].claim
    BY GoodRows, TickedKeeps, Zenon
<1> HIDE DEF new
<1> QED BY <1>1, <1>2 DEF RowsKept

\* Recording an attempt keeps the rows and the claim.
LEMMA RecordingRows ==
    ASSUME TypeOK, cyc.cur \in Instances, rows[cyc.cur].claim # "none", Recording
    PROVE  RowsKept /\ rows'[cyc.cur].claim # "none"
<1> DEFINE new == [rows[cyc.cur] EXCEPT !.rec = TRUE]
<1>1. rows' = [rows EXCEPT ![cyc.cur] = new]
    BY DEF Recording
<1>2. Keeps(rows[cyc.cur], new)
    BY GoodRows, RecordedKeeps
<1>3. new.claim = rows[cyc.cur].claim
    BY GoodRows DEF GoodRow, Rows
<1> HIDE DEF new
<1>4. rows'[cyc.cur] = new
    BY <1>1 DEF TypeOK
<1> QED BY <1>1, <1>2, <1>3, <1>4, RowsExcept, Zenon

(* Every step, by what it writes.                                          *)
LEMMA StoreStep ==
    ASSUME IInv, Next
    PROVE  StoreEffect
<1>0. TypeOK /\ FenceCovers /\ HandHolds /\ FenceTypes
    BY FenceTyped DEF IInv
<1>1. ASSUME RowsKept, UNCHANGED <<fence, owed>> PROVE StoreEffect
    BY <1>0, <1>1, KeptEffect, SameFence
<1>2. ASSUME UNCHANGED rows, UNCHANGED <<fence, owed>> PROVE StoreEffect
    BY <1>0, <1>1, <1>2, UnchangedRows
<1>3. ASSUME cyc.cur \in Instances, Complete PROVE StoreEffect
    BY <1>0, <1>1, <1>3, CompleteKeeps, RateFence, KeptEffect, Zenon
<1>4. CASE BeginInit \/ BeginDue \/ BeginReconcile \/ Served \/ Answered \/ Mismatched
           \/ Cancelled \/ FinishFails
    BY <1>2, <1>4, Zenon DEF BeginInit, BeginDue, BeginReconcile, Served, Answered, Mismatched,
                      Cancelled, FinishFails, store
<1>5. CASE Hide \/ Seal \/ Probe \/ GiveUp \/ Confirm \/ Publish \/ Resume \/ Sleep
           \/ Toggle \/ Die
    BY <1>2, <1>5 DEF Hide, Seal, Probe, GiveUp, Confirm, Publish, Resume, Sleep, Toggle,
                      Die, store
<1>6. CASE BeginRearm
  <2>1. FenceTypes' /\ FenceCovers'
    BY <1>6 DEF BeginRearm, FenceTypes, FenceCovers, NoFence, NothingOwed
  <2>2. RowsKept
    BY <1>0, <1>6, UnchangedRows DEF BeginRearm
  <2> QED BY <2>1, <2>2, KeptEffect
<1>7. CASE RearmAll
    BY <1>0, <1>1, <1>7, RearmAllKeeps DEF RearmAll
<1>8. CASE PlanAll
  <2>1. Current \in SUBSET Instances
    BY DEF Current
  <2> QED BY <1>0, <1>1, <1>8, <2>1, ReplanKeeps DEF PlanAll
<1>9. CASE Credits
    BY <1>0, <1>1, <1>9, CreditsKeeps DEF Credits
<1>10. CASE Recovered
    BY <1>0, <1>1, <1>10, RecoveredKeeps, ZenonT(60) DEF Recovered
<1>11. ASSUME NEW i \in Instances, Recover(i) PROVE StoreEffect
    BY <1>0, <1>1, <1>11, RecoverKeeps, Zenon DEF Recover
<1>12. ASSUME NEW i \in Instances, Serve(i) PROVE StoreEffect
    BY <1>0, <1>1, <1>12, ServeEffect, ClaimEffect, ZenonT(60)
<1>13. ASSUME NEW s \in Sources, NEW t \in Triggers, Request(s, t) PROVE StoreEffect
    BY <1>0, <1>1, <1>13, RequestEffect, ClaimEffect, Zenon
<1>14. CASE Abandon
  <2>1. cyc.cur \in Instances
    BY <1>0, <1>14 DEF Abandon, HandHolds, InHand
  <2>2. UNCHANGED rows \/ rows' = [rows EXCEPT ![cyc.cur] = Inactive(rows[cyc.cur])]
    BY <1>14 DEF Abandon
  <2>3. RowsKept
    BY <1>0, <2>1, <2>2, UnchangedRows, GoodRows, InactiveKeeps, RowsExcept
  <2> QED BY <1>1, <1>14, <2>3 DEF Abandon
<1>15. CASE Record \/ RecordFails
  <2>1. cyc.cur \in Instances /\ rows[cyc.cur].claim # "none"
    BY <1>0, <1>15 DEF Record, RecordFails, HandHolds, InHand
  <2>2. UNCHANGED rows \/ Recording
    BY <1>15 DEF Record, RecordFails
  <2>3. RowsKept
    BY <1>0, <2>1, <2>2, UnchangedRows, RecordingRows
  <2> QED BY <1>1, <1>15, <2>3 DEF Record, RecordFails
<1>16. CASE Finish \/ Refinish
    BY <1>0, <1>3, <1>16, Zenon DEF Finish, Refinish, HandHolds, InHand
<1>17. CASE Tick
    BY <1>0, <1>17, TickRows, TickFence, KeptEffect
<1> QED BY <1>4, <1>5, <1>6, <1>7, <1>8, <1>9, <1>10, <1>11, <1>12, <1>13, <1>14, <1>15,
           <1>16, <1>17 DEF Next, CycleStep

-------------------------------------------------------------------------------
(* The operation in hand.                                                  *)

Runners == {"down", "starting", "up", "blocked"}

CycleEffect == cyc' \in Cycles /\ runner' \in Runners /\ HandHolds'

\* The coordinator at rest has its type.
LEMMA IdleType == Idle \in Cycles /\ Idle.pc = "idle" /\ Idle.op = "none"
<1>1. NoBinding \in Bindings
    BY RefreshAssumption DEF NoBinding, Bindings
<1>2. Untried \in States
    BY DEF Untried, States
<1> QED BY <1>1, <1>2, RefreshAssumption DEF Idle, Cycles

\* An operation that ends leaves the coordinator at rest.
LEMMA IdleEffect ==
    ASSUME cyc' = Idle, runner' \in Runners
    PROVE  CycleEffect
BY IdleType DEF CycleEffect, HandHolds, InHand

\* So does one that ends early.
LEMMA EndEffect ==
    ASSUME TypeOK, NEW fatal, End(fatal)
    PROVE  CycleEffect
<1>1. runner' \in Runners
    BY DEF End, Runners, TypeOK
<1>2. cyc' = Idle
    BY DEF End
<1> QED BY <1>1, <1>2, IdleEffect

(* A step to a place without an instance in hand.                          *)
LEMMA EmptyHand ==
    ASSUME cyc' \in Cycles, runner' \in Runners, cyc'.op # "none",
           cyc'.pc \in {"rearm", "plan", "credits", "expired", "next"}
    PROVE  CycleEffect
BY DEF CycleEffect, HandHolds, InHand

\* An operation goes on to its next step.
LEMMA ContinueEffect ==
    ASSUME TypeOK, HandHolds, Continue, cyc.pc # "idle"
    PROVE  CycleEffect
<1>1. CASE cyc.op = "request"
    BY <1>1, EndEffect, Zenon DEF Continue
<1>2. CASE cyc.op # "request"
  <2>1. NoBinding \in Bindings /\ Untried \in States
    BY RefreshAssumption DEF NoBinding, Bindings, Untried, States
  <2>2. cyc \in Cycles
    BY DEF TypeOK
  <2>3. cyc' = [cyc EXCEPT !.pc = "next", !.cur = NoInstance, !.desc = NoBinding,
                           !.out = Untried, !.src = "nobody"]
    BY <1>2 DEF Continue
  <2>4. cyc' \in Cycles /\ cyc'.pc = "next" /\ cyc'.op = cyc.op
    BY <2>1, <2>2, <2>3, Zenon DEF Cycles
  <2>5. runner' \in Runners
    BY <1>2 DEF Continue, TypeOK, Runners
  <2> QED BY <2>4, <2>5, EmptyHand DEF HandHolds
<1> QED BY <1>1, <1>2

\* At a step there is an operation in progress.
LEMMA BusyOp ==
    ASSUME HandHolds, NEW pc \in {"rearm", "plan", "credits", "expired", "next"}, At(pc)
    PROVE  cyc.pc = pc /\ cyc.op # "none"
BY DEF HandHolds, At

(* What the account runtime and the environment leave of the operation.    *)
LEMMA SameHand ==
    ASSUME TypeOK, HandHolds, UNCHANGED rows, runner' \in Runners,
           NEW c \in BOOLEAN, cyc' = cyc \/ cyc' = [cyc EXCEPT !.cancelled = c]
    PROVE  CycleEffect
<1>0. cyc \in Cycles
    BY DEF TypeOK
<1>1. /\ cyc' \in Cycles /\ cyc'.pc = cyc.pc /\ cyc'.op = cyc.op /\ cyc'.cur = cyc.cur
      /\ cyc'.desc = cyc.desc /\ cyc'.out = cyc.out /\ cyc'.src = cyc.src
  <2>1. CASE cyc' = cyc
    BY <1>0, <2>1
  <2>2. CASE cyc' = [cyc EXCEPT !.cancelled = c]
    BY <1>0, <2>2 DEF Cycles
  <2> QED BY <2>1, <2>2
<1> QED BY <1>1 DEF CycleEffect, HandHolds, InHand

\* An operation that begins has nothing in hand.
LEMMA BeginEffect ==
    ASSUME TypeOK, UNCHANGED runner,
           BeginInit \/ BeginDue \/ BeginReconcile \/ BeginRearm
    PROVE  CycleEffect
<1>1. runner' \in Runners
    BY DEF TypeOK, Runners
<1>2. Expired(rows) \subseteq Instances /\ enabled \subseteq Sources
    BY DEF Expired, TypeOK
<1> HIDE DEF Expired
<1>3. CASE BeginInit
  <2>1. cyc' = [Idle EXCEPT !.op = "init", !.pc = "expired", !.on = enabled,
                            !.todo = Expired(rows)]
    BY <1>3 DEF BeginInit
  <2>2. cyc' \in Cycles /\ cyc'.op = "init" /\ cyc'.pc = "expired"
    BY <1>2, <2>1, IdleType, Zenon DEF Cycles
  <2> QED BY <1>1, <2>2, EmptyHand
<1>4. ASSUME NEW op \in {"due", "reconcile", "rearm"},
             NEW pc \in {"credits", "plan", "rearm"},
             NEW due \in BOOLEAN, Begin(op, pc, due)
      PROVE  CycleEffect
  <2>1. cyc' \in Cycles /\ cyc'.op = op /\ cyc'.pc = pc
    BY <1>2, <1>4, IdleType, Zenon DEF Begin, Cycles
  <2> QED BY <1>1, <2>1, EmptyHand
<1> QED BY <1>3, <1>4, Zenon DEF BeginDue, BeginReconcile, BeginRearm

\* Nor has one that is planning.
LEMMA PlanningEffect ==
    ASSUME TypeOK, HandHolds, RearmAll \/ PlanAll \/ Credits
    PROVE  CycleEffect
<1>1. runner' \in Runners
    BY DEF TypeOK, Runners, RearmAll, PlanAll, Credits
<1>2. cyc.op # "none"
    BY BusyOp DEF RearmAll, PlanAll, Credits
<1>3. Expired(rows') \subseteq Instances
    BY DEF Expired
<1> HIDE DEF Expired
<1>4. \/ cyc' = [cyc EXCEPT !.pc = "credits", !.due = TRUE]
      \/ cyc' = [cyc EXCEPT !.pc = "credits", !.due = TRUE, !.unrec = {}]
      \/ cyc' = [cyc EXCEPT !.pc = "expired", !.todo = Expired(rows')]
    BY DEF RearmAll, PlanAll, Credits
<1>5. cyc' \in Cycles /\ cyc'.op = cyc.op /\ cyc'.pc \in {"credits", "expired"}
    BY <1>3, <1>4, ZenonT(60) DEF TypeOK, Cycles
<1> QED BY <1>1, <1>2, <1>5, EmptyHand

\* Nor has one that is done with the recovery.
LEMMA RecoveredEffect ==
    ASSUME TypeOK, HandHolds, Recovered
    PROVE  CycleEffect
<1>1. cyc.op # "none" /\ cyc.pc = "expired"
    BY BusyOp DEF Recovered
<1>2. Due(rows') \subseteq Instances
    BY DEF Due
<1> HIDE DEF Due
<1>3. CASE End(TRUE)
    BY <1>3, EndEffect, Zenon
<1>4. CASE /\ UNCHANGED runner
           /\ \/ cyc' = [cyc EXCEPT !.pc = "plan"]
              \/ cyc' = [cyc EXCEPT !.pc = "next", !.unrec = {}, !.todo = Due(rows')]
  <2>1. cyc' \in Cycles /\ cyc'.op = cyc.op /\ cyc'.pc \in {"plan", "next"}
    BY <1>2, <1>4, ZenonT(60) DEF TypeOK, Cycles
  <2> QED BY <1>1, <1>4, <2>1, EmptyHand DEF TypeOK, Runners
<1> QED BY <1>3, <1>4, Zenon DEF Recovered, Go

(* A claim puts its instance in the operation's hand.                      *)
LEMMA ClaimedHand ==
    ASSUME TypeOK, NEW i \in Instances, i[1] = binding.scope, rows'[i].claim # "none",
           UNCHANGED runner, NEW base \in Cycles, base.op # "none",
           cyc' = [base EXCEPT !.pc = "fetch", !.cur = i, !.desc = binding]
    PROVE  CycleEffect
<1>1. binding \in Bindings
    BY DEF TypeOK
<1>2. cyc' \in Cycles /\ cyc'.pc = "fetch" /\ cyc'.cur = i /\ cyc'.desc = binding
      /\ cyc'.op = base.op
    BY <1>1, Zenon DEF Cycles
<1>3. runner' \in Runners
    BY DEF TypeOK, Runners
<1> QED BY <1>2, <1>3 DEF CycleEffect, HandHolds, InHand

\* A due source that is claimed is in hand.
LEMMA ServeHand ==
    ASSUME TypeOK, FenceCovers, HandHolds, NEW i \in Instances, Serve(i)
    PROVE  CycleEffect
<1> DEFINE rest == [cyc EXCEPT !.todo = @ \ {i}]
<1>1. cyc.op # "none" /\ cyc.pc = "next" /\ UNCHANGED runner /\ cyc \in Cycles
    BY BusyOp DEF Serve, TypeOK
<1>2. rest \in Cycles /\ rest.op = cyc.op /\ rest.pc = "next"
    BY <1>1 DEF Cycles
<1> HIDE DEF rest
<1>3. CASE cyc' = rest \/ cyc' = [rest EXCEPT !.fatal = TRUE]
  <2>1. cyc' \in Cycles /\ cyc'.op = rest.op /\ cyc'.pc = rest.pc
    <3>1. CASE cyc' = rest
      BY <1>2, <3>1
    <3>2. CASE cyc' = [rest EXCEPT !.fatal = TRUE]
      BY <1>2, <3>2, Zenon DEF Cycles
    <3> QED BY <1>3, <3>1, <3>2
  <2> QED BY <1>1, <1>2, <2>1, EmptyHand DEF TypeOK, Runners
<1>4. CASE /\ Claimable(i, rows[i], TriggerOf(rows[i]), binding.gen)
           /\ i[1] = binding.scope
           /\ Claim(i, rows[i], TriggerOf(rows[i]))
           /\ cyc' = [rest EXCEPT !.pc = "fetch", !.cur = i, !.desc = binding]
  <2>1. Claims(i, rows[i], TriggerOf(rows[i]))
    BY <1>4, GoodRows DEF Claims, Claimable
  <2>2. rows'[i].claim # "none"
    BY <2>1, ClaimEffect
  <2> QED BY <1>1, <1>2, <1>4, <2>2, ClaimedHand, Zenon
<1>5. \/ cyc' = rest \/ cyc' = [rest EXCEPT !.fatal = TRUE]
      \/ /\ Claimable(i, rows[i], TriggerOf(rows[i]), binding.gen)
         /\ i[1] = binding.scope
         /\ Claim(i, rows[i], TriggerOf(rows[i]))
         /\ cyc' = [rest EXCEPT !.pc = "fetch", !.cur = i, !.desc = binding]
    BY DEF Serve, rest
<1> QED BY <1>3, <1>4, <1>5

\* So is one that was asked for and claimed.
LEMMA RequestHand ==
    ASSUME TypeOK, FenceCovers, HandHolds,
           NEW s \in Sources, NEW trigger \in Triggers, Request(s, trigger)
    PROVE  CycleEffect
<1>1. UNCHANGED runner /\ cyc.op = "none" /\ cyc \in Cycles
    BY DEF Request, Free, TypeOK
<1>2. CASE UNCHANGED cyc
    BY <1>1, <1>2 DEF CycleEffect, HandHolds, InHand, TypeOK, Runners
<1>3. ASSUME NEW i \in Instances, NEW r, Claims(i, r, trigger), i[1] = binding.scope,
             cyc' = [Idle EXCEPT !.op = "request", !.pc = "fetch",
                                 !.on = enabled, !.cur = i, !.desc = binding]
      PROVE  CycleEffect
  <2> DEFINE base == [Idle EXCEPT !.op = "request", !.on = enabled]
  <2>1. base \in Cycles /\ base.op = "request"
    BY IdleType, Zenon DEF Cycles, TypeOK
  <2>2. cyc' = [base EXCEPT !.pc = "fetch", !.cur = i, !.desc = binding]
    BY <1>3, IdleType, Zenon DEF Cycles
  <2>3. rows'[i].claim # "none"
    BY <1>3, ClaimEffect
  <2> HIDE DEF base
  <2> QED BY <1>1, <1>3, <2>1, <2>2, <2>3, ClaimedHand, Zenon
<1> QED BY <1>2, <1>3, RequestEffect, Zenon

\* So is an expired claim that is to be completed.
LEMMA RecoverHand ==
    ASSUME TypeOK, HandHolds, NEW i \in Instances, Recover(i)
    PROVE  CycleEffect
<1>1. cyc.op # "none" /\ cyc.pc = "expired" /\ cyc \in Cycles
    BY BusyOp DEF Recover, TypeOK
<1>2. CASE End(TRUE)
    BY <1>2, EndEffect, Zenon
<1>3. CASE /\ cyc' = [cyc EXCEPT !.todo = @ \ {i}, !.unrec = @ \cup {i}]
           /\ UNCHANGED runner
  <2>1. cyc' \in Cycles /\ cyc'.op = cyc.op /\ cyc'.pc = "expired"
    BY <1>1, <1>3, Zenon DEF Cycles
  <2> QED BY <1>1, <1>3, <2>1, EmptyHand DEF TypeOK, Runners
<1>4. CASE /\ i[1] = binding.scope /\ Attempted(rows[i]) /\ rows' = Deactivated
           /\ cyc' = [cyc EXCEPT !.pc = "refinish", !.todo = @ \ {i},
                                 !.cur = i, !.desc = binding]
           /\ UNCHANGED runner
  <2>1. binding \in Bindings
    BY DEF TypeOK
  <2>2. cyc' \in Cycles /\ cyc'.pc = "refinish" /\ cyc'.cur = i /\ cyc'.desc = binding
        /\ cyc'.op = cyc.op
    BY <1>1, <1>4, <2>1, ZenonT(60) DEF Cycles
  <2>3. rows'[i].claim # "none"
    BY <1>4, DeactivatedKeeps DEF TypeOK, Attempted
  <2> QED BY <1>1, <1>4, <2>2, <2>3 DEF CycleEffect, HandHolds, InHand, TypeOK, Runners
<1> QED BY <1>2, <1>3, <1>4, Zenon DEF Recover

\* It stays in hand once the request is answered, and an answer is the account's own.
LEMMA AnsweredHand ==
    ASSUME TypeOK, HandHolds, Answered \/ Mismatched
    PROVE  CycleEffect
<1>1. cyc \in Cycles /\ cyc.pc = "fetch" /\ UNCHANGED rows /\ UNCHANGED runner
    BY Zenon DEF Answered, Mismatched, Go, store, TypeOK
<1>2. CASE Mismatched
  <2>1. cyc' = [cyc EXCEPT !.pc = "abandon"]
    BY <1>2 DEF Mismatched, Go
  <2>2. cyc' \in Cycles /\ cyc'.pc = "abandon" /\ cyc'.op = cyc.op
        /\ cyc'.cur = cyc.cur /\ cyc'.desc = cyc.desc
    BY <1>1, <2>1 DEF Cycles
  <2> QED BY <1>1, <2>2 DEF CycleEffect, HandHolds, InHand, TypeOK, Runners
<1>3. CASE Answered
  <2>1. PICK login \in Accounts, fail \in Outcomes \cup {"cancelled"} :
        \E retry \in IF fail = "http_429" THEN Retries ELSE {None} :
          /\ FromAccount(login)
          /\ cyc' = [cyc EXCEPT !.pc = "record",
                                !.out = [fail |-> fail, retry |-> retry],
                                !.src = IF fail = "ok" THEN login ELSE @]
    BY <1>3, ZenonT(60) DEF Answered
  <2>2. PICK retry \in Nat \cup {None} :
          cyc' = [cyc EXCEPT !.pc = "record",
                             !.out = [fail |-> fail, retry |-> retry],
                             !.src = IF fail = "ok" THEN login ELSE @]
    BY <2>1, RefreshAssumption, Zenon
  <2> DEFINE out == [fail |-> fail, retry |-> retry]
  <2>3. out \in States /\ out.fail = fail
    BY RefreshAssumption DEF States
  <2> HIDE DEF out
  <2>4. cyc' = [cyc EXCEPT !.pc = "record", !.out = out,
                           !.src = IF fail = "ok" THEN login ELSE @]
    BY <2>2 DEF out
  <2>5. /\ cyc' \in Cycles /\ cyc'.pc = "record" /\ cyc'.op = cyc.op
        /\ cyc'.cur = cyc.cur /\ cyc'.desc = cyc.desc /\ cyc'.out = out
        /\ fail = "ok" => cyc'.src = login
    BY <1>1, <2>3, <2>4, ZenonT(60) DEF Cycles
  <2> QED BY <1>1, <2>1, <2>3, <2>5
          DEF CycleEffect, HandHolds, InHand, TypeOK, Runners, FromAccount
<1> QED BY <1>2, <1>3

\* It stays in hand once the outcome is recorded.
LEMMA RecordHand ==
    ASSUME TypeOK, HandHolds, Record
    PROVE  CycleEffect
<1>1. cyc \in Cycles /\ cyc.pc = "record" /\ UNCHANGED runner
    BY DEF Record, Go, TypeOK
<1>2. cyc.cur \in Instances /\ rows[cyc.cur].claim # "none"
    BY <1>1 DEF HandHolds, InHand
<1>3. PICK pc \in {"finish", "abandon"} : cyc' = [cyc EXCEPT !.pc = pc]
    BY DEF Record, Go
<1>4. cyc' \in Cycles /\ cyc'.pc = pc /\ cyc'.op = cyc.op
      /\ cyc'.cur = cyc.cur /\ cyc'.desc = cyc.desc
    BY <1>1, <1>3 DEF Cycles
<1>5. UNCHANGED rows \/ Recording
    BY DEF Record
<1>6. rows'[cyc.cur].claim # "none"
    BY <1>2, <1>5, RecordingRows
<1> QED BY <1>1, <1>4, <1>6 DEF CycleEffect, HandHolds, InHand, TypeOK, Runners

\* It stays in hand as time passes.
LEMMA TickHand ==
    ASSUME TypeOK, HandHolds, Tick
    PROVE  CycleEffect
<1>1. cyc \in Cycles /\ UNCHANGED runner
    BY Zenon DEF Tick, TypeOK
<1>2. /\ cyc' \in Cycles /\ cyc'.pc = cyc.pc /\ cyc'.op = cyc.op
      /\ cyc'.cur = cyc.cur /\ cyc'.desc = cyc.desc
  <2>1. CASE cyc.pc = "fetch"
    <3> DEFINE lag == cyc.lag + 1
    <3>1. cyc.lag \in 0..MaxLag
      BY <1>1 DEF Cycles
    <3>2. cyc.lag < MaxLag /\ cyc' = [cyc EXCEPT !.lag = lag]
      BY <2>1, Zenon DEF Tick
    <3>3. lag \in 0..MaxLag
      BY <3>1, <3>2, RefreshAssumption
    <3> HIDE DEF lag
    <3> QED BY <1>1, <3>2, <3>3 DEF Cycles
  <2>2. CASE cyc.pc # "fetch"
    BY <1>1, <2>2, ZenonT(60) DEF Tick
  <2> QED BY <2>1, <2>2
<1>3. cyc.pc # "record"
    BY Zenon DEF Tick
<1> QED BY <1>1, <1>2, <1>3, TickRows DEF CycleEffect, HandHolds, InHand, TypeOK, Runners

\* Every step keeps what the operation in progress relies on.
LEMMA CycleStepEffect ==
    ASSUME IInv, Next
    PROVE  CycleEffect
<1>0. TypeOK /\ FenceCovers /\ HandHolds
    BY DEF IInv
<1>1. ASSUME UNCHANGED <<cyc, rows>>, runner' \in Runners PROVE CycleEffect
    BY <1>0, <1>1, SameHand, Zenon
<1>2. ASSUME Drained, UNCHANGED rows PROVE CycleEffect
  <2>1. runner' \in Runners
    BY <1>0, <1>2 DEF Drained, TypeOK, Runners
  <2> QED BY <1>0, <1>2, <2>1, SameHand, Zenon DEF Drained
<1>3. CASE BeginInit \/ BeginDue \/ BeginReconcile \/ BeginRearm
    BY <1>0, <1>3, BeginEffect, Zenon DEF BeginInit, BeginDue, BeginReconcile, BeginRearm
<1>4. CASE RearmAll \/ PlanAll \/ Credits
    BY <1>0, <1>4, PlanningEffect
<1>5. CASE Recovered
    BY <1>0, <1>5, RecoveredEffect
<1>6. CASE Served \/ Cancelled
    BY <1>0, <1>6, EndEffect DEF Served, Cancelled
<1>7. ASSUME NEW i \in Instances, Recover(i) \/ Serve(i) PROVE CycleEffect
    BY <1>0, <1>7, RecoverHand, ServeHand
<1>8. ASSUME NEW s \in Sources, NEW t \in Triggers, Request(s, t) PROVE CycleEffect
    BY <1>0, <1>8, RequestHand
<1>9. CASE Answered \/ Mismatched \/ Record
    BY <1>0, <1>9, AnsweredHand, RecordHand
<1>10. CASE Abandon \/ RecordFails \/ Finish \/ FinishFails
    BY <1>0, <1>10, ContinueEffect DEF Abandon, RecordFails, Finish, FinishFails
<1>11. CASE Refinish
  <2>1. CASE End(FALSE)
    BY <1>0, <2>1, EndEffect, Zenon
  <2>2. CASE /\ cyc' = [cyc EXCEPT !.pc = "expired", !.cur = NoInstance, !.desc = NoBinding]
             /\ UNCHANGED runner
    <3>1. NoBinding \in Bindings /\ cyc \in Cycles /\ cyc.op # "none"
      BY <1>0, <1>11, RefreshAssumption DEF NoBinding, Bindings, TypeOK, HandHolds, Refinish
    <3>2. cyc' \in Cycles /\ cyc'.pc = "expired" /\ cyc'.op = cyc.op
      BY <2>2, <3>1, Zenon DEF Cycles
    <3> QED BY <1>0, <2>2, <3>1, <3>2, EmptyHand DEF TypeOK, Runners
  <2> QED BY <1>11, <2>1, <2>2, Zenon DEF Refinish
<1>12. CASE Hide \/ Probe \/ GiveUp \/ Confirm \/ Publish \/ Resume \/ Toggle
    BY <1>0, <1>1, <1>12 DEF Hide, Probe, GiveUp, Confirm, Publish, Resume, Toggle, store,
                             TypeOK, Runners
<1>13. CASE Seal \/ Sleep
    BY <1>2, <1>13 DEF Seal, Sleep, store
<1>14. CASE Die
    BY <1>14, IdleEffect DEF Die, Runners
<1>15. CASE Tick
    BY <1>0, <1>15, TickHand
<1> QED BY <1>3, <1>4, <1>5, <1>6, <1>7, <1>8, <1>9, <1>10, <1>11, <1>12, <1>13, <1>14,
           <1>15 DEF Next, CycleStep

-------------------------------------------------------------------------------
(* The recorded states and the account runtime.                            *)

OutcomeStep ==
    \A i \in Instances : states'[i] # states[i] /\ cyc.pc = "record" =>
        /\ binding = cyc.desc /\ binding.scope = i[1]
        /\ cyc.out.fail = "ok" => cyc.src = i[1]

StatesEffect == /\ states' \in [Instances -> States]
                /\ newer' \subseteq Accounts
                /\ OutcomeStep

\* Recording stores the outcome under the bound account, an answer under its own.
LEMMA RecordingEffect ==
    ASSUME TypeOK, HandHolds, cyc.pc = "record", Recording,
           binding = cyc.desc
    PROVE  StatesEffect
<1>1. cyc.cur \in Instances /\ cyc.cur[1] = cyc.desc.scope /\ cyc.out \in States
    BY DEF HandHolds, InHand, TypeOK, Cycles
<1>2. states' = [states EXCEPT ![cyc.cur] = cyc.out]
    BY DEF Recording
<1>3. states' \in [Instances -> States]
    BY <1>1, <1>2 DEF TypeOK
<1>4. cyc.cur[1] \in Accounts
    BY <1>1 DEF Instances
<1>5. newer' \subseteq Accounts
    BY <1>4 DEF Recording, TypeOK
<1>6. \A i \in Instances : states'[i] # states[i] => i = cyc.cur
    BY <1>1, <1>2 DEF TypeOK
<1>7. OutcomeStep
    BY <1>1, <1>6 DEF OutcomeStep, HandHolds
<1> QED BY <1>3, <1>5, <1>7 DEF StatesEffect

\* Every step that stores an outcome does so.
LEMMA StatesStep ==
    ASSUME IInv, Next
    PROVE  StatesEffect
<1>0. TypeOK /\ HandHolds
    BY DEF IInv
<1>1. ASSUME UNCHANGED <<states, newer>> PROVE StatesEffect
    BY <1>0, <1>1 DEF StatesEffect, OutcomeStep, TypeOK
<1>2. CASE Record \/ RecordFails
  <2>1. \/ UNCHANGED <<states, newer>>
        \/ cyc.pc = "record" /\ Recording /\ binding = cyc.desc
    BY <1>2 DEF Record, RecordFails
  <2> QED BY <1>0, <1>1, <2>1, RecordingEffect
<1>3. CASE Tick
  <2> DEFINE new(i) == [states[i] EXCEPT !.retry = Less(@)]
  <2>1. states' = [i \in Instances |-> new(i)] /\ UNCHANGED newer /\ cyc.pc # "record"
    BY <1>3, Zenon DEF Tick
  <2>2. ASSUME NEW i \in Instances PROVE new(i) \in States
    <3>1. states[i] \in States
      BY <1>0 DEF TypeOK
    <3>2. Less(states[i].retry) \in Nat \cup {None}
      BY <3>1, NoneInt DEF States, Less
    <3> HIDE DEF Less
    <3> QED BY <3>1, <3>2 DEF States
  <2> HIDE DEF new
  <2> QED BY <1>0, <2>1, <2>2 DEF StatesEffect, OutcomeStep, TypeOK
<1>4. CASE BeginInit \/ BeginDue \/ BeginReconcile \/ BeginRearm
           \/ (\E s \in Sources, t \in Triggers : Request(s, t)) \/ FinishFails
    BY <1>1, <1>4, ZenonT(60) DEF BeginInit, BeginDue, BeginReconcile, BeginRearm, Request,
                      FinishFails, store
<1>5. CASE RearmAll \/ PlanAll \/ Credits \/ Recovered \/ Served
           \/ (\E i \in Instances : Recover(i) \/ Serve(i)) \/ Answered \/ Mismatched
           \/ Abandon \/ Finish \/ Refinish \/ Cancelled
    BY <1>1, <1>5, Zenon DEF RearmAll, PlanAll, Credits, Recovered, Served, Recover, Serve,
                      Answered, Mismatched, Abandon, Finish, Refinish, Cancelled, store
<1>6. CASE Hide \/ Seal \/ Probe \/ GiveUp \/ Confirm \/ Publish \/ Resume \/ Sleep
           \/ Toggle \/ Die
    BY <1>1, <1>6 DEF Hide, Seal, Probe, GiveUp, Confirm, Publish, Resume, Sleep, Toggle,
                      Die, store
<1> QED BY <1>2, <1>3, <1>4, <1>5, <1>6 DEF Next, CycleStep

AccountTypes ==
    /\ binding \in Bindings /\ bound \in Bindings
    /\ ident \in [pc : {"rest", "seal", "sealed", "confirm", "publish"},
                  scope : Accounts \cup {"nobody"}]
    /\ enabled \subseteq Sources
    /\ faults \in 0..MaxFaults

\* Binding, identity and settings keep their types.
LEMMA AccountStep ==
    ASSUME TypeOK, Next
    PROVE  AccountTypes'
<1>0. AccountTypes
    BY DEF TypeOK, AccountTypes
<1> USE RefreshAssumption
<1>1. ASSUME UNCHANGED account, UNCHANGED enabled, UNCHANGED faults PROVE AccountTypes'
    BY <1>0, <1>1 DEF AccountTypes, account
<1>2. ASSUME UNCHANGED account, UNCHANGED enabled, faults < MaxFaults, faults' = faults + 1
      PROVE  AccountTypes'
    BY <1>0, <1>2 DEF AccountTypes, account
<1>3. binding.gen \in 0..MaxGen /\ Max({binding.gen, 1}) \in 0..MaxGen
  <2>1. binding.gen \in 0..MaxGen
    BY <1>0 DEF AccountTypes, Bindings
  <2>2. Max({binding.gen, 1}) \in {binding.gen, 1}
    <3>1. ASSUME NEW m \in Int, NEW n \in Int PROVE Max({m, n}) \in {m, n}
      BY MaxPair, Zenon
    <3>2. binding.gen \in Int /\ 1 \in Int
      BY <2>1
    <3> QED BY ONLY <3>1, <3>2
  <2> QED BY <2>1, <2>2
<1>4. CASE Hide
  <2>1. Hidden \in Bindings
    BY <1>3, <1>4 DEF Hide, Hidden, Bindings
  <2> QED BY <1>0, <1>4, <2>1 DEF Hide, AccountTypes
<1>5. CASE Seal \/ Probe \/ Publish
    BY <1>0, <1>5 DEF Seal, Probe, Publish, AccountTypes
<1>6. CASE GiveUp
  <2> DEFINE g == Max({binding.gen, 1})
  <2>1. binding' = [binding EXCEPT !.gen = g] /\ ident' = [pc |-> "rest", scope |-> "nobody"]
        /\ UNCHANGED <<bound, enabled, faults>>
    BY <1>6 DEF GiveUp
  <2>2. g \in 0..MaxGen
    BY <1>3
  <2> HIDE DEF g
  <2> QED BY <1>0, <2>1, <2>2 DEF AccountTypes, Bindings
<1>7. CASE Confirm
  <2> DEFINE g == Max({binding.gen, 1})
  <2>1. binding' = [scope |-> ident.scope, gen |-> g]
        /\ ident' = [pc |-> "publish", scope |-> "nobody"] /\ UNCHANGED <<bound, enabled, faults>>
    BY <1>7 DEF Confirm
  <2>2. g \in 0..MaxGen
    BY <1>3
  <2> HIDE DEF g
  <2> QED BY <1>0, <2>1, <2>2 DEF AccountTypes, Bindings
<1>8. CASE Die
  <2>1. Hidden.gen <= MaxGen => Hidden \in Bindings
    BY <1>3 DEF Hidden, Bindings
  <2>2. binding' \in Bindings
    BY <1>0, <1>8, <2>1 DEF Die, AccountTypes
  <2>3. NoBinding \in Bindings
    BY DEF NoBinding, Bindings
  <2>4. /\ bound' = NoBinding /\ UNCHANGED enabled
        /\ ident' \in [pc : {"rest", "sealed"}, scope : {"nobody"}]
        /\ faults' = faults + 1 /\ faults < MaxFaults
    BY <1>8 DEF Die, Started
  <2> QED BY <1>0, <2>2, <2>3, <2>4 DEF AccountTypes
<1>9. CASE Toggle
    BY <1>0, <1>9 DEF Toggle, AccountTypes, account
<1>10. CASE BeginInit \/ BeginDue \/ BeginReconcile \/ Resume \/ Tick
           \/ \E s \in Sources, t \in Triggers : Request(s, t)
    BY <1>1, <1>10, ZenonT(60) DEF BeginInit, BeginDue, BeginReconcile, Resume, Tick, Request
<1>11. CASE RearmAll \/ PlanAll \/ Credits \/ Recovered \/ Served
           \/ (\E i \in Instances : Recover(i) \/ Serve(i)) \/ Answered \/ Mismatched
           \/ Abandon \/ Record \/ Finish \/ Refinish \/ Cancelled
    BY <1>1, <1>11, Zenon DEF RearmAll, PlanAll, Credits, Recovered, Served, Recover, Serve,
                       Answered, Mismatched, Abandon, Record, Finish, Refinish, Cancelled
<1>12. CASE BeginRearm \/ RecordFails \/ FinishFails \/ Sleep
    BY <1>2, <1>12, Zenon DEF BeginRearm, RecordFails, FinishFails, Sleep
<1> QED BY <1>4, <1>5, <1>6, <1>7, <1>8, <1>9, <1>10, <1>11, <1>12 DEF Next, CycleStep

-------------------------------------------------------------------------------
(* The theorems.                                                           *)

\* Every step keeps the invariant and is one the action properties allow.
LEMMA StepIInv ==
    ASSUME IInv, [Next]_vars
    PROVE  IInv' /\ (Next => FencesStep /\ ResentStep /\ OutcomeStep)
<1>1. CASE UNCHANGED vars
  <2>1. IInv'
    BY <1>1 DEF IInv, TypeOK, FenceCovers, HandHolds, InHand, vars
  <2>2. ASSUME Next PROVE StoreEffect /\ StatesEffect
    BY <2>2, StoreStep, StatesStep
  <2> QED BY <2>1, <2>2 DEF StoreEffect, StatesEffect
<1>2. CASE Next
  <2>1. StoreEffect /\ CycleEffect /\ StatesEffect /\ AccountTypes'
    BY <1>2, StoreStep, CycleStepEffect, StatesStep, AccountStep DEF IInv
  <2>2. TypeOK'
    BY <2>1 DEF StoreEffect, RowsTypes, FenceTypes, CycleEffect, StatesEffect, AccountTypes,
                Runners, GoodRow, TypeOK
  <2> QED BY <2>1, <2>2 DEF IInv, StoreEffect, StatesEffect, CycleEffect
<1> QED BY <1>1, <1>2

(* The types, the fence row and the claim in hand, together inductive.     *)
THEOREM RefreshInvariant == Spec => []IInv
<1>1. Init => IInv
    BY InitIInv
<1>2. IInv /\ [Next]_vars => IInv'
    BY StepIInv
<1> QED BY <1>1, <1>2, PTL DEF Spec

(* Every stored decision is in shape, and only a claim is recorded.        *)
THEOREM RefreshTypes == Spec => []TypeOK
<1>1. IInv => TypeOK
    BY DEF IInv
<1> QED BY <1>1, RefreshInvariant, PTL

(* ClaimSourceRefresh never lets a request through before the time a 429   *)
(* named, nor a manual one within the gap after another account's, for any *)
(* number of accounts, any intervals and any delay of the operation.       *)
THEOREM FencesAlwaysHold == Spec => FencesHold
<1>1. IInv /\ [Next]_vars => [FencesStep]_vars
    BY StepIInv
<1> QED BY <1>1, RefreshInvariant, PTL DEF Spec, FencesHold, FencesStep

(* RecordQuotaFetch stores for an account only what that account answered  *)
(* while it was bound.                                                     *)
THEOREM OutcomesAreOwn == Spec => NoForeignOutcome
<1>1. IInv /\ [Next]_vars => [OutcomeStep]_vars
    BY StepIInv
<1> QED BY <1>1, RefreshInvariant, PTL DEF Spec, NoForeignOutcome, OutcomeStep

(* Neither completion nor recovery makes a recorded request due at once.   *)
THEOREM RecordedOnce == Spec => RecordedNotResent
<1>1. IInv /\ [Next]_vars => [ResentStep]_vars
    BY StepIInv
<1> QED BY <1>1, RefreshInvariant, PTL DEF Spec, RecordedNotResent, ResentStep

================================================================================
