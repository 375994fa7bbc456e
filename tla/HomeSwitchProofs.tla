---------------------------- MODULE HomeSwitchProofs ----------------------------
(***************************************************************************)
(* Proofs about the Home switch for every set of processes, Homes and      *)
(* settings, with the races of the environment and with every limit.       *)
(***************************************************************************)
EXTENDS HomeSwitch, WellFoundedInduction, TLAPS

\* A leaf that names no prover is tried with SMT, then with Zenon.
USE SMTT(30), ZenonT(30)

(* The records the switch is made of.                                      *)
HomeT == [src: Homes \cup {"none"}, gen: Nat, key: Ids]

JournalT == [kind: {"none", "resume", "switch"}, id: Ids, att: Procs \cup {"none"},
             strat: Strategies \cup {"none"}, from: Nat, prev: HomeT]

AuditT == [id: Ids, out: {"none", "completed", "rolled_back"}]

FileT == [rev: Nat, home: HomeT, det: Seq(HomeT), j: JournalT, last: AuditT,
          set: Settings \cup {"none"}]

PlanT == [id: Ids, rev: Nat, from: HomeT, target: HomeT, strat: Strategies \cup {"none"}]

ProcT == [pc: Steps, plan: PlanT, why: {"call", "startup", "worker", "reopen"},
          view: FileT, want: FileT, err: BOOLEAN]

WorkT == [bind: Bindings, next: Nat, row: Nat, open: Nat]

Typed ==
    /\ file \in FileT
    /\ lease \in Procs \cup {"none"}
    /\ proc \in [Procs -> ProcT]
    /\ work \in [Procs -> WorkT]
    /\ boot \in [Ids -> {"not_started", "started", "ready", "failed"}]
    /\ faults \in 0..MaxFaults

(* The positions of a call that holds the lease.                           *)
Calling == {"initial", "initRead", "initStart", "guard", "guardRead", "drain", "pend",
            "pendRead", "start", "freeze", "status", "back", "backRead", "resume",
            "clear", "clearRead", "final", "finalRead"}

(* A plan names the revision it was made at and a target one generation on.*)
Planned(plan) ==
    /\ plan.id = <<plan.rev, plan.target.src, plan.strat>>
    /\ plan.rev >= 1 /\ plan.rev + 4 <= MaxRev
    /\ plan.target.src \in Homes
    /\ plan.target.src # plan.from.src
    /\ plan.target.gen = plan.from.gen + 1

(* A snapshot read before a call had the file to itself: the file has moved*)
(* on, or is still this snapshot.                                          *)
Current(s) == s.rev <= file.rev /\ (s.rev = file.rev => s = file)

(* What process p knows of the file at each of its positions.              *)
Knows(p) ==
    LET pc == proc[p].pc
        view == proc[p].view
        want == proc[p].want
        plan == proc[p].plan
    IN  /\ pc \in Calling => lease = p
        /\ pc \in {"set", "initial", "guard"} => Current(view) /\ view.j.kind = "none"
        /\ pc = "set" =>
             view.rev < MaxRev /\ \E v \in Settings : want = SettingsSnapshot(view, v)
        /\ pc \in {"initial", "guard"} =>
             /\ file.j.kind = "none"
             /\ Planned(plan) /\ plan.rev = view.rev /\ plan.from = view.home
        /\ pc = "initial" => view.home = NoHome
        /\ pc = "guardRead" =>
             /\ want = ResumeGuardSnapshot(view, plan, p) /\ view.rev + 4 <= MaxRev
             /\ file.j.kind = "none" \/ file = want
        /\ pc \in Owning => file = view
        /\ pc \in {"drain", "pend"} => view.rev + 3 <= MaxRev
        /\ pc \in {"drain", "pend", "resume", "clear", "pendRead"} => view.j.kind = "resume"
        /\ pc \in {"start", "freeze", "status", "back", "final", "backRead"} =>
             view.j.kind = "switch"
        /\ pc = "pendRead" =>
             /\ want = PendingSnapshot(view, plan) /\ view.rev + 3 <= MaxRev
             /\ file = view \/ file = want
        /\ pc = "backRead" =>
             /\ want = RollbackSnapshot(view) /\ view.rev + 2 <= MaxRev
             /\ file = view \/ file = want
        /\ plan = NoPlan \/ Planned(plan)

(* The file itself: valid, with room for the revisions that resolve its    *)
(* journal, and with ids that no outcome has used.                         *)
Sound ==
    /\ file.rev \in 1..MaxRev
    /\ ValidatePreferences(file)
    /\ file.j.kind = "resume" => file.rev + 1 <= MaxRev
    /\ file.j.kind = "switch" => file.rev + 2 <= MaxRev

Audited ==
    /\ \A e \in outcomes : e[1] \in Ids /\ e[1][1] < file.rev
    /\ file.j.kind # "none" =>
         file.j.id[1] < file.rev /\ \A e \in outcomes : e[1] # file.j.id
    /\ file.last = NoAudit \/ <<file.last.id, file.last.out>> \in outcomes

(* While a switch is pending, the list of detached Homes is the one that   *)
(* was valid for the Home to go back to.                                   *)
BaseKept ==
    file.j.kind = "switch" =>
      /\ file.j.prev # NoHome
      /\ \A i \in DOMAIN file.det :
            file.det[i].gen < file.j.prev.gen /\ file.det[i].key # file.j.prev.key

HomeInv == Typed /\ Sound /\ Audited /\ BaseKept /\ \A p \in Procs : Knows(p)

-------------------------------------------------------------------------------
(* What the invariant says of a process, and what makes it know the file.  *)

LEMMA Known ==
    ASSUME HomeInv, NEW p \in Procs
    PROVE  /\ Typed /\ Knows(p)
           /\ file \in FileT /\ proc \in [Procs -> ProcT] /\ work \in [Procs -> WorkT]
           /\ proc[p] \in ProcT /\ proc[p].pc \in Steps /\ proc[p].plan \in PlanT
           /\ proc[p].view \in FileT /\ proc[p].want \in FileT /\ proc[p].err \in BOOLEAN
<1>1. Typed /\ Knows(p)
  BY Zenon DEF HomeInv
<1>2. file \in FileT /\ proc \in [Procs -> ProcT] /\ work \in [Procs -> WorkT]
  BY <1>1, Zenon DEF Typed
<1>3. proc[p] \in ProcT
  BY <1>2, Zenon
<1>4. /\ proc[p].pc \in Steps /\ proc[p].plan \in PlanT
      /\ proc[p].view \in FileT /\ proc[p].want \in FileT /\ proc[p].err \in BOOLEAN
  BY <1>3, Zenon DEF ProcT
<1> QED BY <1>1, <1>2, <1>3, <1>4

(* A call has the lease, and from its guard on the file.                   *)
LEMMA KnownToCall ==
    ASSUME NEW p \in Procs, Knows(p)
    PROVE  /\ proc[p].pc \in Calling => lease = p
           /\ proc[p].pc \in Owning => file = proc[p].view
           /\ proc[p].pc \in {"drain", "pend", "pendRead"} => proc[p].view.rev + 3 <= MaxRev
           /\ proc[p].pc \in {"drain", "pend", "resume", "clear", "pendRead"} =>
                proc[p].view.j.kind = "resume"
           /\ proc[p].pc \in {"start", "freeze", "status", "back", "final", "backRead"} =>
                proc[p].view.j.kind = "switch"
           /\ proc[p].plan = NoPlan \/ Planned(proc[p].plan)
BY DEF Knows

(* A call that has nothing written yet has a plan for the file in hand.    *)
LEMMA KnownToPlan ==
    ASSUME NEW p \in Procs, Knows(p), proc[p].pc \in {"initial", "guard"}
    PROVE  /\ lease = p /\ file.j.kind = "none"
           /\ Planned(proc[p].plan)
           /\ proc[p].plan.rev = proc[p].view.rev /\ proc[p].plan.from = proc[p].view.home
BY DEF Knows, Calling

(* A call that reads back knows what it may find.                          *)
LEMMA KnownToReader ==
    ASSUME NEW p \in Procs, Knows(p)
    PROVE  /\ proc[p].pc \in {"guardRead", "pendRead", "backRead"} => lease = p
           /\ proc[p].pc = "guardRead" =>
                /\ proc[p].want = ResumeGuardSnapshot(proc[p].view, proc[p].plan, p)
                /\ proc[p].view.rev + 4 <= MaxRev
                /\ file.j.kind = "none" \/ file = proc[p].want
           /\ proc[p].pc = "pendRead" =>
                /\ proc[p].want = PendingSnapshot(proc[p].view, proc[p].plan)
                /\ proc[p].view.j.kind = "resume" /\ (file = proc[p].view \/ file = proc[p].want)
           /\ proc[p].pc = "backRead" => proc[p].want = RollbackSnapshot(proc[p].view)
BY DEF Knows, Calling

(* A call that has the file in hand knows what it needs to.                *)
LEMMA OwnerKnows ==
    ASSUME NEW p \in Procs, lease' = p, file' = proc'[p].view,
           proc'[p].plan = NoPlan \/ Planned(proc'[p].plan),
           \/ proc'[p].pc \in {"drain", "pend"} /\ file'.j.kind = "resume" /\ file'.rev + 3 <= MaxRev
           \/ proc'[p].pc \in {"resume", "clear"} /\ file'.j.kind = "resume"
           \/ proc'[p].pc \in {"start", "freeze", "status", "back", "final"} /\ file'.j.kind = "switch"
    PROVE  Knows(p)'
BY DEF Knows, Planned

-------------------------------------------------------------------------------
(* The snapshots the service writes.                                       *)

(* The constant records have their types.                                  *)
LEMMA Constants ==
    /\ NoId \in Ids /\ NoHome \in HomeT /\ NoJournal \in JournalT /\ NoAudit \in AuditT
    /\ NoPlan \in PlanT /\ NoFile \in FileT
    /\ NoJournal.kind = "none" /\ NoFile.j.kind = "none" /\ NoFile.home = NoHome
    /\ NoHome.gen = 0 /\ NoHome.src = "none"
<1>1. NoId \in Ids
  BY DEF Ids
<1>2. NoHome \in HomeT
  BY <1>1 DEF NoHome, HomeT, DefaultKey
<1>3. NoJournal \in JournalT
  BY <1>1, <1>2 DEF NoJournal, JournalT
<1>4. NoAudit \in AuditT
  BY <1>1 DEF NoAudit, AuditT
<1>5. NoPlan \in PlanT
  BY <1>1, <1>2 DEF NoPlan, PlanT
<1>6. << >> \in Seq(HomeT)
  OBVIOUS
<1>7. NoFile \in FileT
  BY <1>2, <1>3, <1>4, <1>6 DEF NoFile, FileT
<1>8. NoJournal.kind = "none" /\ NoFile.j.kind = "none" /\ NoFile.home = NoHome
  BY DEF NoFile, NoJournal
<1>9. NoHome.gen = 0 /\ NoHome.src = "none"
  BY DEF NoHome
<1> QED BY <1>1, <1>2, <1>3, <1>4, <1>5, <1>7, <1>8, <1>9

(* A process that has just started, or ended, is one.                      *)
LEMMA FreshTyped ==
    ASSUME NEW plan \in PlanT, NEW e \in BOOLEAN, NEW s \in FileT
    PROVE  /\ Fresh \in ProcT /\ Fresh.pc = "idle" /\ Fresh.plan = NoPlan
           /\ Down \in ProcT /\ Down.pc = "down" /\ Down.plan = NoPlan
           /\ [Fresh EXCEPT !.plan = plan, !.err = e] \in ProcT
           /\ [[Fresh EXCEPT !.plan = plan, !.err = e] EXCEPT !.pc = "reopen", !.view = s] \in ProcT
BY Constants, Zenon DEF Fresh, Down, ProcT, Steps

(* The next revision of a snapshot.                                        *)
LEMMA BumpFact ==
    ASSUME NEW s \in FileT
    PROVE  /\ Bump(s) \in FileT
           /\ Bump(s).rev = s.rev + 1 /\ Bump(s).home = s.home /\ Bump(s).det = s.det
           /\ Bump(s).j = s.j /\ Bump(s).last = s.last /\ Bump(s).set = s.set
<1>1. s.rev \in Nat /\ s.rev + 1 \in Nat
  BY DEF FileT
<1> QED BY <1>1 DEF Bump, FileT

(* An update of the settings.                                              *)
LEMMA SettingsFact ==
    ASSUME NEW s \in FileT, NEW v \in Settings
    PROVE  /\ SettingsSnapshot(s, v) \in FileT
           /\ SettingsSnapshot(s, v) = [s EXCEPT !.rev = @ + 1, !.set = v]
           /\ SettingsSnapshot(s, v).rev = s.rev + 1
           /\ SettingsSnapshot(s, v).home = s.home /\ SettingsSnapshot(s, v).det = s.det
           /\ SettingsSnapshot(s, v).j = s.j /\ SettingsSnapshot(s, v).last = s.last
<1>1. SettingsSnapshot(s, v) = [s EXCEPT !.rev = @ + 1, !.set = v]
  BY DEF SettingsSnapshot, Bump, FileT
<1> QED BY <1>1, BumpFact, Zenon DEF SettingsSnapshot, FileT

(* The first Home.                                                         *)
LEMMA InitialFact ==
    ASSUME NEW s \in FileT, NEW plan \in PlanT
    PROVE  /\ InitialSnapshot(s, plan) \in FileT
           /\ InitialSnapshot(s, plan).rev = s.rev + 1
           /\ InitialSnapshot(s, plan).home = plan.target
           /\ InitialSnapshot(s, plan).det = s.det /\ InitialSnapshot(s, plan).j = s.j
           /\ InitialSnapshot(s, plan).set = s.set
           /\ InitialSnapshot(s, plan).last = [id |-> plan.id, out |-> "completed"]
<1>1. [id |-> plan.id, out |-> "completed"] \in AuditT /\ plan.target \in HomeT
  BY DEF PlanT, AuditT
<1> QED BY <1>1, BumpFact, Zenon DEF InitialSnapshot, FileT

(* The guard before the drain.                                             *)
LEMMA GuardFact ==
    ASSUME NEW s \in FileT, NEW plan \in PlanT, NEW p \in Procs
    PROVE  /\ ResumeGuardSnapshot(s, plan, p) \in FileT
           /\ ResumeGuardSnapshot(s, plan, p).rev = s.rev + 1
           /\ ResumeGuardSnapshot(s, plan, p).home = s.home
           /\ ResumeGuardSnapshot(s, plan, p).det = s.det
           /\ ResumeGuardSnapshot(s, plan, p).last = s.last
           /\ ResumeGuardSnapshot(s, plan, p).set = s.set
           /\ ResumeGuardSnapshot(s, plan, p).j.kind = "resume"
           /\ ResumeGuardSnapshot(s, plan, p).j.id = plan.id
<1> DEFINE j == [kind |-> "resume", id |-> plan.id, att |-> p, strat |-> plan.strat,
                 from |-> s.home.gen, prev |-> NoHome]
<1>1. j \in JournalT /\ j.kind = "resume" /\ j.id = plan.id
  BY Constants DEF JournalT, PlanT, FileT, HomeT
<1>2. ResumeGuardSnapshot(s, plan, p) = [Bump(s) EXCEPT !.j = j]
  BY DEF ResumeGuardSnapshot
<1> HIDE DEF j
<1> QED BY <1>1, <1>2, BumpFact, Zenon DEF FileT

(* The target becomes active.                                              *)
LEMMA PendingFact ==
    ASSUME NEW s \in FileT, NEW plan \in PlanT
    PROVE  /\ PendingSnapshot(s, plan) \in FileT
           /\ PendingSnapshot(s, plan).rev = s.rev + 1
           /\ PendingSnapshot(s, plan).home = plan.target
           /\ PendingSnapshot(s, plan).det = s.det
           /\ PendingSnapshot(s, plan).last = s.last
           /\ PendingSnapshot(s, plan).set = s.set
           /\ PendingSnapshot(s, plan).j.kind = "switch"
           /\ PendingSnapshot(s, plan).j.id = s.j.id
           /\ PendingSnapshot(s, plan).j.prev = s.home
<1> DEFINE j == [s.j EXCEPT !.kind = "switch", !.prev = s.home]
<1>1. j \in JournalT /\ j.kind = "switch" /\ j.id = s.j.id /\ j.prev = s.home
  BY Zenon DEF JournalT, FileT
<1>2. PendingSnapshot(s, plan) = [Bump(s) EXCEPT !.home = plan.target, !.j = j]
  BY DEF PendingSnapshot
<1> HIDE DEF j
<1> QED BY <1>1, <1>2, BumpFact, Zenon DEF FileT, PlanT

(* The previous Home becomes active again.                                 *)
LEMMA RollbackFact ==
    ASSUME NEW s \in FileT
    PROVE  /\ RollbackSnapshot(s) \in FileT
           /\ RollbackSnapshot(s).rev = s.rev + 1
           /\ RollbackSnapshot(s).home = s.j.prev
           /\ RollbackSnapshot(s).det = s.det
           /\ RollbackSnapshot(s).last = s.last
           /\ RollbackSnapshot(s).set = s.set
           /\ RollbackSnapshot(s).j.kind = "resume"
           /\ RollbackSnapshot(s).j.id = s.j.id
           /\ RollbackSnapshot(s).j.from = s.j.from
<1> DEFINE j == [s.j EXCEPT !.kind = "resume", !.prev = NoHome]
<1>1. /\ j \in JournalT /\ j.kind = "resume" /\ j.id = s.j.id /\ j.from = s.j.from
      /\ s.j.prev \in HomeT
  BY Constants, Zenon DEF JournalT, FileT
<1>2. RollbackSnapshot(s) = [Bump(s) EXCEPT !.home = s.j.prev, !.j = j]
  BY DEF RollbackSnapshot
<1> HIDE DEF j
<1> QED BY <1>1, <1>2, BumpFact, Zenon DEF FileT

(* The audit of a rollback.                                                *)
LEMMA ResumedFact ==
    ASSUME NEW s \in FileT
    PROVE  /\ ResumedSnapshot(s) \in FileT
           /\ ResumedSnapshot(s).rev = s.rev + 1
           /\ ResumedSnapshot(s).home = s.home /\ ResumedSnapshot(s).det = s.det
           /\ ResumedSnapshot(s).j = NoJournal /\ ResumedSnapshot(s).set = s.set
           /\ ResumedSnapshot(s).last = [id |-> s.j.id, out |-> "rolled_back"]
<1>1. [id |-> s.j.id, out |-> "rolled_back"] \in AuditT
  BY DEF AuditT, FileT, JournalT
<1> QED BY <1>1, BumpFact, Constants, Zenon DEF ResumedSnapshot, FileT

-------------------------------------------------------------------------------
(* The list of detached Homes.                                             *)

(* The length and the elements of a list of Homes.                         *)
LEMMA LenFact ==
    ASSUME NEW s \in Seq(HomeT)
    PROVE  /\ Len(s) \in Nat /\ DOMAIN s = 1..Len(s)
           /\ \A i \in 1..Len(s) : s[i] \in HomeT
OBVIOUS

(* A Home at the end of the list.                                          *)
LEMMA AppendFact ==
    ASSUME NEW s \in Seq(HomeT), NEW h \in HomeT
    PROVE  /\ Append(s, h) \in Seq(HomeT) /\ Len(Append(s, h)) = Len(s) + 1
           /\ \A i \in 1..Len(s) : Append(s, h)[i] = s[i]
           /\ Append(s, h)[Len(s) + 1] = h
OBVIOUS

(* A set of naturals has a least element.                                  *)
LEMMA LeastNatural ==
    ASSUME NEW S, S \subseteq Nat, S # {}
    PROVE  \E i \in S : \A k \in S : i <= k
<1> DEFINE R == {ss \in Nat \X Nat : ss[1] < ss[2]}
<1>1. IsWellFoundedOn(R, Nat)
  <2>1. OpToRel(<, Nat) = R
    BY Zenon DEF OpToRel
  <2> QED BY <2>1, NatLessThanWellFounded, Zenon
<1>2. PICK i \in S : \A k \in S : ~(<<k, i>> \in R)
  BY <1>1, WFMin, Zenon
<1>3. ASSUME NEW k \in S PROVE i <= k
  <2>1. <<k, i>> \in Nat \X Nat /\ i \in Nat /\ k \in Nat
    OBVIOUS
  <2>2. ~(k < i)
    BY <1>2, <2>1
  <2> QED BY <2>1, <2>2
<1> QED BY <1>3

(* What the loop of detachedWithoutDataStore has copied after n entries.   *)
Copied(det, key, n, out) ==
    /\ out \in Seq(HomeT) /\ Len(out) <= n
    /\ \A i \in 1..Len(out) : out[i].key # key /\ \E k \in 1..n : out[i] = det[k]
    /\ \A k \in 1..n : det[k].key # key => \E i \in 1..Len(out) : out[i] = det[k]
    /\ (\A i, k \in DOMAIN det : det[i].key = det[k].key => i = k) =>
         \A i, k \in 1..Len(out) : out[i].key = out[k].key => i = k

(* One turn of the loop.                                                   *)
LEMMA CopyStep ==
    ASSUME NEW det \in Seq(HomeT), NEW key, NEW n \in 1..Len(det), NEW out,
           Copied(det, key, n - 1, out)
    PROVE  Copied(det, key, n, IF det[n].key # key THEN Append(out, det[n]) ELSE out)
<1> USE DEF Copied
<1>1. /\ Len(det) \in Nat /\ DOMAIN det = 1..Len(det) /\ n \in Nat /\ det[n] \in HomeT
      /\ out \in Seq(HomeT) /\ Len(out) \in Nat /\ Len(out) <= n - 1
  BY LenFact
<1>2. CASE det[n].key = key
  BY <1>1, <1>2
<1>3. CASE det[n].key # key
  <2> DEFINE new == Append(out, det[n])
  <2>1. /\ new \in Seq(HomeT) /\ Len(new) = Len(out) + 1
        /\ \A i \in 1..Len(out) : new[i] = out[i]
        /\ new[Len(out) + 1] = det[n]
    BY <1>1, AppendFact
  <2> HIDE DEF new
  <2>2. \A i \in 1..Len(new) : i \in 1..Len(out) \/ i = Len(out) + 1
    BY <1>1, <2>1
  <2>3. \A k \in 1..n : k \in 1..(n - 1) \/ k = n
    BY <1>1
  <2>4. \A k \in 1..(n - 1) : k \in 1..n /\ k # n /\ k \in DOMAIN det
    BY <1>1
  <2>5. \A i \in 1..Len(out) : i \in 1..Len(new)
    BY <1>1, <2>1
  <2>6. Len(new) <= n /\ n \in 1..n /\ Len(out) + 1 \in 1..Len(new)
    BY <1>1, <2>1
  <2>7. \A i \in 1..Len(new) : new[i].key # key /\ \E k \in 1..n : new[i] = det[k]
    BY <1>3, <2>1, <2>2, <2>4, <2>6
  <2>8. \A k \in 1..n : det[k].key # key => \E i \in 1..Len(new) : new[i] = det[k]
    BY <2>1, <2>3, <2>5, <2>6
  <2>9. ASSUME \A i, k \in DOMAIN det : det[i].key = det[k].key => i = k,
               NEW i \in 1..Len(new), NEW k \in 1..Len(new), new[i].key = new[k].key
        PROVE  i = k
    <3>1. \A m \in 1..Len(out) : out[m].key # det[n].key
      BY <1>1, <2>4, <2>9, ZenonT(60)
    <3>2. CASE i \in 1..Len(out) /\ k \in 1..Len(out)
      BY <2>1, <2>9, <3>2, Zenon
    <3>3. CASE i \in 1..Len(out) /\ k = Len(out) + 1
      BY <2>1, <2>9, <3>1, <3>3
    <3>4. CASE i = Len(out) + 1 /\ k \in 1..Len(out)
      BY <2>1, <2>9, <3>1, <3>4
    <3> QED BY <2>2, <3>2, <3>3, <3>4
  <2>10. Copied(det, key, n, new)
    BY <2>1, <2>6, <2>7, <2>8, <2>9
  <2> QED BY <1>3, <2>10, Zenon DEF new
<1> QED BY <1>2, <1>3

(* detachedWithoutDataStore keeps the other entries and their order.       *)
LEMMA FilterFact ==
    ASSUME NEW det \in Seq(HomeT), NEW key
    PROVE  Copied(det, key, Len(det), DetachedWithoutDataStore(det, key))
<1> DEFINE Turn(f, n) == IF n = 0 THEN << >>
                         ELSE IF det[n].key # key THEN Append(f[n - 1], det[n])
                         ELSE f[n - 1]
           Loop(f, m) == f = [n \in 0..m |-> Turn(f, n)]
<1>1. Len(det) \in Nat /\ DOMAIN det = 1..Len(det)
  BY LenFact
<1>2. ASSUME NEW m \in Nat PROVE \E f : Loop(f, m)
  <2> DEFINE S == {k \in Nat : ~\E f : Loop(f, k)}
  <2> SUFFICES ASSUME S # {} PROVE FALSE
    BY Zenon
  <2>1. S \subseteq Nat
    OBVIOUS
  <2>2. PICK l \in S : \A k \in S : l <= k
    BY <2>1, LeastNatural, Zenon
  <2>3. CASE l = 0
    <3>1. Loop([n \in 0..0 |-> << >>], 0)
      <4>1. \A n \in 0..0 : n = 0
        OBVIOUS
      <4> QED BY <4>1
    <3> QED BY <2>3, <3>1, Zenon
  <2>4. CASE l # 0
    <3>1. l \in Nat /\ l - 1 \in Nat /\ ~(l <= l - 1)
      BY <2>4
    <3>2. l - 1 \notin S
      BY <2>2, <3>1, Zenon
    <3>3. PICK f : Loop(f, l - 1)
      BY <3>1, <3>2, Zenon
    <3> DEFINE g == [n \in 0..l |-> IF n = l THEN Turn(f, l) ELSE f[n]]
    <3>4. ASSUME NEW n \in 0..l PROVE g[n] = Turn(g, n)
      <4>1. CASE n = l
        <5>1. l - 1 \in 0..l /\ l - 1 # l
          BY <3>1
        <5>2. g[l - 1] = f[l - 1]
          BY <5>1
        <5> QED BY <4>1, <5>2
      <4>2. CASE n # l
        <5>1. n \in 0..(l - 1) /\ n \in Nat
          BY <3>1, <4>2
        <5>2. g[n] = f[n] /\ f[n] = Turn(f, n)
          BY <3>3, <4>2, <5>1, Zenon
        <5>3. CASE n = 0
          BY <5>2, <5>3
        <5>4. CASE n # 0
          <6>1. n - 1 \in 0..l /\ n - 1 # l
            BY <3>1, <5>1, <5>4
          <6>2. g[n - 1] = f[n - 1]
            BY <6>1
          <6> QED BY <5>2, <5>4, <6>2
        <5> QED BY <5>3, <5>4
      <4> QED BY <4>1, <4>2
    <3> HIDE DEF Turn
    <3>5. Loop(g, l)
      BY <3>4
    <3> QED BY <2>2, <3>5, Zenon
  <2> QED BY <2>3, <2>4
<1> DEFINE kept == CHOOSE f : Loop(f, Len(det))
<1>3. DetachedWithoutDataStore(det, key) = kept[Len(det)]
  BY DEF DetachedWithoutDataStore
<1>4. Loop(kept, Len(det))
  BY <1>1, <1>2, Zenon
<1>5. \A n \in 0..Len(det) : kept[n] = Turn(kept, n)
  <2> HIDE DEF Turn
  <2> QED BY <1>4, Zenon
<1> HIDE DEF kept
<1>6. \A n \in 0..Len(det) : Copied(det, key, n, kept[n])
  <2> DEFINE S == {n \in 0..Len(det) : ~Copied(det, key, n, kept[n])}
  <2> SUFFICES ASSUME S # {} PROVE FALSE
    OBVIOUS
  <2>1. S \subseteq Nat
    BY <1>1
  <2>2. PICK l \in S : \A k \in S : l <= k
    BY <2>1, LeastNatural, Zenon
  <2>3. CASE l = 0
    <3>1. kept[0] = << >>
      BY <1>1, <1>5
    <3>2. Copied(det, key, 0, << >>)
      BY DEF Copied
    <3> QED BY <2>2, <2>3, <3>1, <3>2
  <2>4. CASE l # 0
    <3>1. l \in 1..Len(det) /\ l - 1 \in 0..Len(det) /\ ~(l <= l - 1) /\ l \in 0..Len(det)
      BY <1>1, <2>4
    <3>2. Copied(det, key, l - 1, kept[l - 1])
      BY <2>2, <3>1
    <3>3. kept[l] = IF det[l].key # key THEN Append(kept[l - 1], det[l]) ELSE kept[l - 1]
      BY <1>5, <2>4, <3>1
    <3>4. Copied(det, key, l, kept[l])
      BY <3>1, <3>2, <3>3, CopyStep
    <3> QED BY <2>2, <3>4
  <2> QED BY <2>3, <2>4
<1>7. Len(det) \in 0..Len(det)
  BY <1>1
<1> QED BY <1>3, <1>6, <1>7

(* The switch is completed.                                                *)
LEMMA FinalFact ==
    ASSUME NEW s \in FileT
    PROVE  /\ FinalSnapshot(s) \in FileT
           /\ FinalSnapshot(s).rev = s.rev + 1
           /\ FinalSnapshot(s).home = s.home
           /\ FinalSnapshot(s).j = NoJournal /\ FinalSnapshot(s).set = s.set
           /\ FinalSnapshot(s).last = [id |-> s.j.id, out |-> "completed"]
           /\ s.j.strat = "independent" =>
                FinalSnapshot(s).det = Append(DetachedWithoutDataStore(s.det, s.home.key), s.j.prev)
           /\ s.j.strat # "independent" => FinalSnapshot(s).det = s.det
<1> DEFINE filtered == DetachedWithoutDataStore(s.det, s.home.key)
           det == IF s.j.strat = "independent" THEN Append(filtered, s.j.prev) ELSE s.det
           last == [id |-> s.j.id, out |-> "completed"]
<1>1. last \in AuditT /\ s.det \in Seq(HomeT) /\ s.j.prev \in HomeT
  BY DEF AuditT, FileT, JournalT
<1>2. filtered \in Seq(HomeT)
  BY <1>1, FilterFact DEF Copied
<1> HIDE DEF filtered
<1>3. Append(filtered, s.j.prev) \in Seq(HomeT)
  BY <1>1, <1>2, AppendFact
<1>4. det \in Seq(HomeT)
  BY <1>1, <1>3
<1>5. Bump(s).det = s.det
  BY BumpFact
<1>6. FinalSnapshot(s) = [Bump(s) EXCEPT !.j = NoJournal, !.det = det, !.last = last]
  BY <1>5 DEF FinalSnapshot, filtered
<1>7. /\ s.j.strat = "independent" => det = Append(filtered, s.j.prev)
      /\ s.j.strat # "independent" => det = s.det
  OBVIOUS
<1> HIDE DEF det, last
<1>8. /\ FinalSnapshot(s) \in FileT
      /\ FinalSnapshot(s).rev = s.rev + 1
      /\ FinalSnapshot(s).home = s.home /\ FinalSnapshot(s).j = NoJournal
      /\ FinalSnapshot(s).set = s.set /\ FinalSnapshot(s).last = last
      /\ FinalSnapshot(s).det = det
  BY <1>1, <1>4, <1>6, BumpFact, Constants, ZenonT(60) DEF FileT
<1> QED BY <1>7, <1>8 DEF filtered, last

-------------------------------------------------------------------------------
(* The steps of a process.                                                 *)

(* A step of p leaves the other processes where they are.                  *)
Alone(p) == \A q \in Procs \ {p} : proc'[q] = proc[q]

(* Moving on with an error, or with a snapshot to look for on disk.        *)
GotoErr(p, step, e) == proc' = [proc EXCEPT ![p].pc = step, ![p].err = e]

GotoWant(p, step, s) == proc' = [proc EXCEPT ![p].pc = step, ![p].want = s]

(* Moving on.                                                              *)
LEMMA GotoFact ==
    ASSUME proc \in [Procs -> ProcT], NEW p \in Procs, NEW step \in Steps, Goto(p, step)
    PROVE  /\ proc' \in [Procs -> ProcT] /\ Alone(p)
           /\ proc'[p].pc = step /\ proc'[p].view = proc[p].view
           /\ proc'[p].want = proc[p].want /\ proc'[p].plan = proc[p].plan
           /\ proc'[p].why = proc[p].why /\ proc'[p].err = proc[p].err
BY DEF Goto, Alone, ProcT

(* Moving on with another snapshot in hand.                                *)
LEMMA GotoWithFact ==
    ASSUME proc \in [Procs -> ProcT], NEW p \in Procs, NEW step \in Steps, NEW s \in FileT,
           GotoWith(p, step, s)
    PROVE  /\ proc' \in [Procs -> ProcT] /\ Alone(p)
           /\ proc'[p].pc = step /\ proc'[p].view = s
           /\ proc'[p].want = proc[p].want /\ proc'[p].plan = proc[p].plan
           /\ proc'[p].why = proc[p].why /\ proc'[p].err = proc[p].err
BY Zenon DEF GotoWith, Alone, ProcT

(* Moving on with an error.                                                *)
LEMMA GotoErrFact ==
    ASSUME proc \in [Procs -> ProcT], NEW p \in Procs, NEW step \in Steps, NEW e \in BOOLEAN,
           GotoErr(p, step, e)
    PROVE  /\ proc' \in [Procs -> ProcT] /\ Alone(p)
           /\ proc'[p].pc = step /\ proc'[p].view = proc[p].view
           /\ proc'[p].want = proc[p].want /\ proc'[p].plan = proc[p].plan
           /\ proc'[p].why = proc[p].why /\ proc'[p].err = e
BY Zenon DEF GotoErr, Alone, ProcT

(* Moving on to read back.                                                 *)
LEMMA GotoWantFact ==
    ASSUME proc \in [Procs -> ProcT], NEW p \in Procs, NEW step \in Steps, NEW s \in FileT,
           GotoWant(p, step, s)
    PROVE  /\ proc' \in [Procs -> ProcT] /\ Alone(p)
           /\ proc'[p].pc = step /\ proc'[p].view = proc[p].view
           /\ proc'[p].want = s /\ proc'[p].plan = proc[p].plan
           /\ proc'[p].why = proc[p].why /\ proc'[p].err = proc[p].err
BY Zenon DEF GotoWant, Alone, ProcT

(* A call that returns leaves no position of the switch behind.            *)
LEMMA DoneFact ==
    ASSUME Typed, NEW p \in Procs, NEW s \in FileT, NEW e \in BOOLEAN, Done(p, s, e)
    PROVE  /\ proc' \in [Procs -> ProcT] /\ Alone(p)
           /\ work' \in [Procs -> WorkT] /\ \A q \in Procs \ {p} : work'[q] = work[q]
           /\ lease' \in Procs \cup {"none"} /\ (lease # p => lease' = lease)
           /\ proc'[p].pc \in {"down", "idle", "reopen"}
           /\ proc'[p].plan \in {NoPlan, proc[p].plan}
<1> DEFINE back == [Fresh EXCEPT !.plan = proc[p].plan, !.err = e]
           open == [back EXCEPT !.pc = "reopen", !.view = s]
<1>1. proc \in [Procs -> ProcT] /\ work \in [Procs -> WorkT] /\ proc[p].plan \in PlanT
  BY DEF Typed, ProcT
<1>2. /\ back \in ProcT /\ back.pc = "idle" /\ back.plan = proc[p].plan
      /\ open \in ProcT /\ open.pc = "reopen" /\ open.plan = proc[p].plan
  BY <1>1, FreshTyped, ZenonT(60) DEF Fresh, ProcT
<1>3. /\ Down \in ProcT /\ Down.pc = "down" /\ Down.plan = NoPlan
      /\ Fresh \in ProcT /\ Fresh.pc = "idle" /\ Fresh.plan = NoPlan
  BY <1>1, FreshTyped, Zenon
<1>4. lease' \in Procs \cup {"none"} /\ (lease # p => lease' = lease)
  BY DEF Done, Release, Typed
<1>5. CASE proc[p].why = "startup"
  BY <1>1, <1>3, <1>4, <1>5 DEF Done, Alone
<1>6. CASE proc[p].why = "worker"
  <2>1. proc' = [proc EXCEPT ![p] = back]
    BY <1>6 DEF Done
  <2>2. work' = work \/ work' = [work EXCEPT ![p].next = s.home.gen]
    BY <1>6 DEF Done
  <2>3. s.home.gen \in Nat
    BY DEF FileT, HomeT
  <2>4. work' \in [Procs -> WorkT] /\ \A q \in Procs \ {p} : work'[q] = work[q]
    BY <1>1, <2>2, <2>3 DEF WorkT
  <2> HIDE DEF back
  <2> QED BY <1>1, <1>2, <1>4, <2>1, <2>4, Zenon DEF Alone
<1>7. CASE proc[p].why = "reopen"
  <2>1. (proc' = [proc EXCEPT ![p] = back] \/ proc' = [proc EXCEPT ![p] = open]) /\ work' = work
    BY <1>7 DEF Done
  <2> HIDE DEF back, open
  <2> QED BY <1>1, <1>2, <1>4, <2>1 DEF Alone
<1>8. CASE proc[p].why \notin {"startup", "worker", "reopen"}
  <2>1. proc' = [proc EXCEPT ![p] = back] /\ work' = work
    BY <1>8 DEF Done
  <2> HIDE DEF back
  <2> QED BY <1>1, <1>2, <1>4, <2>1 DEF Alone
<1> QED BY <1>5, <1>6, <1>7, <1>8

-------------------------------------------------------------------------------
(* What a step of p leaves the others.                                     *)

(* The lease changes hands only from or to the process that steps.         *)
LeaseStep(p) == lease' = lease \/ lease = p \/ lease = "none"

(* The file is left alone, replaced under the lease, or replaced while no  *)
(* switch is in progress.                                                  *)
FileStep(p) ==
    \/ UNCHANGED file
    \/ /\ file'.rev = file.rev + 1
       /\ lease = p \/ (file.j.kind = "none" /\ file'.j.kind = "none")

(* Another process keeps its knowledge: without the lease it knows only    *)
(* which revision it read.                                                 *)
LEMMA OthersKnow ==
    ASSUME HomeInv, NEW p \in Procs, NEW q \in Procs \ {p}, Alone(p), LeaseStep(p), FileStep(p)
    PROVE  Knows(q)'
<1>1. /\ proc'[q] = proc[q] /\ Knows(q) /\ file \in FileT
      /\ proc[q].view \in FileT /\ proc[q].plan \in PlanT /\ proc[q].want \in FileT
  BY DEF HomeInv, Typed, Alone, ProcT
<1>2. lease = q => lease' = q
  BY HomeSwitchAssumption DEF LeaseStep
<1>3. file.rev \in Nat /\ proc[q].view.rev \in Nat
  BY <1>1 DEF FileT
<1>4. CASE UNCHANGED file
  BY <1>1, <1>2, <1>4 DEF Knows, Current
<1>5. CASE file'.rev = file.rev + 1 /\ lease = p
  <2>1. proc[q].pc \notin Calling
    BY <1>1, <1>5 DEF Knows
  <2>2. Current(proc[q].view) => Current(proc[q].view)'
    BY <1>1, <1>3, <1>5 DEF Current
  <2> QED BY <1>1, <2>1, <2>2 DEF Knows, Calling, Owning
<1>6. CASE file'.rev = file.rev + 1 /\ file.j.kind = "none" /\ file'.j.kind = "none"
  <2>1. proc[q].pc \notin Owning \cup {"pendRead", "backRead"}
    BY <1>1, <1>6, PendingFact, RollbackFact DEF Knows, Owning
  <2>2. Current(proc[q].view) => Current(proc[q].view)'
    BY <1>1, <1>3, <1>6 DEF Current
  <2> QED BY <1>1, <1>2, <1>6, <2>1, <2>2 DEF Knows, Owning
<1> QED BY <1>4, <1>5, <1>6 DEF FileStep

(* A process at rest knows its plan and nothing else.                      *)
LEMMA RestKnows ==
    ASSUME NEW p \in Procs, Knows(p), proc'[p].plan \in {NoPlan, proc[p].plan},
           proc'[p].pc \in {"down", "idle", "reopen", "setRead"}
    PROVE  Knows(p)'
BY DEF Knows, Calling, Owning, Planned

(* A step that leaves the file alone keeps all that is said about it.      *)
LEMMA QuietStep ==
    ASSUME HomeInv, NEW p \in Procs, UNCHANGED <<file, outcomes>>, Typed', Alone(p), LeaseStep(p),
           Knows(p)'
    PROVE  HomeInv'
<1>1. (Sound /\ Audited /\ BaseKept)'
  BY DEF HomeInv, Sound, Audited, BaseKept
<1>2. \A q \in Procs \ {p} : Knows(q)'
  BY OthersKnow DEF FileStep
<1> QED BY <1>1, <1>2 DEF HomeInv

(* A replacement keeps it too, if it keeps the file sound.                 *)
LEMMA LoudStep ==
    ASSUME HomeInv, NEW p \in Procs, Typed', Alone(p), LeaseStep(p), FileStep(p), Knows(p)',
           (Sound /\ Audited /\ BaseKept)'
    PROVE  HomeInv'
<1>1. \A q \in Procs \ {p} : Knows(q)'
  BY OthersKnow
<1> QED BY <1>1 DEF HomeInv

-------------------------------------------------------------------------------
(* The replacements of the file.                                           *)

(* A fault is counted.                                                     *)
LEMMA FaultTyped ==
    ASSUME Typed, Fault \/ NoFault
    PROVE  faults' \in 0..MaxFaults
BY HomeSwitchAssumption DEF Typed, Fault, NoFault

(* A replacement finds the snapshot in hand on disk.                       *)
LEMMA ReplaceFact ==
    ASSUME HomeInv, NEW p \in Procs, NEW next \in FileT, Replace(p, next),
           proc[p].pc \in {"set", "initial", "guard", "pend", "back", "clear", "final"},
           next.rev = proc[p].view.rev + 1
    PROVE  /\ file = proc[p].view /\ file' = next /\ file' \in FileT
           /\ file'.rev = file.rev + 1 /\ file.rev \in Nat
           /\ ValidatePreferences(file')
           /\ outcomes' = outcomes \cup (IF file'.last = file.last THEN {}
                                         ELSE {<<file'.last.id, file'.last.out>>})
<1>1. Knows(p) /\ file \in FileT
  BY Known, Zenon
<1>2. file = proc[p].view
  BY <1>1 DEF Knows, Current, Owning, Replace
<1> QED BY <1>1, <1>2 DEF Replace, FileT

(* An id starts with the revision its plan was made at.                    *)
LEMMA IdRev ==
    ASSUME NEW id \in Ids
    PROVE  id[1] \in Nat
BY HomeSwitchAssumption DEF Ids, NoId

(* An audit that stays keeps the outcomes; a journal's id stays unused.    *)
LEMMA AuditKept ==
    ASSUME HomeInv, file' \in FileT, file'.rev = file.rev + 1, file.rev \in Nat,
           outcomes' = outcomes, file'.last = file.last,
           \/ file'.j.kind = "none"
           \/ file.j.kind # "none" /\ file'.j.id = file.j.id
           \/ file'.j.id[1] = file.rev
    PROVE  Audited'
<1>1. file.j.id \in Ids
  BY DEF HomeInv, Typed, FileT, JournalT
<1>2. Audited
  BY DEF HomeInv
<1>3. ASSUME NEW e \in outcomes PROVE e[1][1] < file'.rev
  BY <1>2, IdRev DEF Audited
<1>4. file'.j.kind # "none" =>
        file'.j.id[1] < file'.rev /\ \A e \in outcomes : e[1] # file'.j.id
  <2>1. CASE file'.j.id[1] = file.rev
    BY <1>2, <2>1, IdRev DEF Audited
  <2>2. CASE file.j.kind # "none" /\ file'.j.id = file.j.id
    BY <1>1, <1>2, <2>2, IdRev DEF Audited
  <2> QED BY <2>1, <2>2
<1> QED BY <1>2, <1>3, <1>4 DEF Audited

(* A new audit is one of an id that no outcome has used.                   *)
LEMMA AuditAdded ==
    ASSUME HomeInv, file' \in FileT, file'.rev = file.rev + 1, file.rev \in Nat,
           file'.j.kind = "none", NEW id \in Ids, id[1] <= file.rev,
           \A e \in outcomes : e[1] # id,
           NEW out \in {"completed", "rolled_back"}, file'.last = [id |-> id, out |-> out],
           outcomes' = outcomes \cup (IF file'.last = file.last THEN {}
                                      ELSE {<<file'.last.id, file'.last.out>>})
    PROVE  Audited' /\ outcomes' = outcomes \cup {<<id, out>>} /\ <<id, out>> \notin outcomes
<1>1. Audited /\ id[1] \in Nat
  BY IdRev DEF HomeInv
<1>2. <<id, out>> \notin outcomes
  OBVIOUS
<1>3. file'.last.id = id /\ file'.last.out = out
  OBVIOUS
<1>4. file'.last # file.last
  BY <1>1, <1>2, <1>3 DEF Audited, NoAudit
<1>5. outcomes' = outcomes \cup {<<id, out>>}
  BY <1>3, <1>4
<1>6. ASSUME NEW e \in outcomes' PROVE e[1] \in Ids /\ e[1][1] < file'.rev
  <2>1. CASE e = <<id, out>>
    BY <1>1, <2>1
  <2>2. CASE e \in outcomes
    BY <1>1, <2>2, IdRev DEF Audited
  <2> QED BY <1>5, <2>1, <2>2
<1> QED BY <1>2, <1>3, <1>5, <1>6 DEF Audited

(* A step as the abstract switch sees it.                                  *)
PromiseStep == Promise!Next \/ UNCHANGED <<SettledHome, outcomes>>

(* What DetachedKept says of a step.                                       *)
DetachedStep ==
    \A i \in DOMAIN file.det :
       \/ \E k \in DOMAIN file'.det : file'.det[k] = file.det[i]
       \/ file'.home.key = file.det[i].key /\ SameSource(file'.home, file.det[i])

(* What NoLostUpdate says of a replacement by process p.                   *)
SettingsStep(p) ==
    file'.set # file.set =>
      At(p, "set") /\ file' = [file EXCEPT !.rev = @ + 1, !.set = file'.set]

(* A replacement that keeps the file sound and the promises.               *)
Replaced(p) ==
    /\ file' \in FileT /\ FileStep(p)
    /\ (Sound /\ Audited /\ BaseKept)'
    /\ PromiseStep /\ DetachedStep /\ SettingsStep(p)

(* A list that stays keeps its entries.                                    *)
LEMMA SameDetached ==
    ASSUME file'.det = file.det
    PROVE  DetachedStep
BY DEF DetachedStep

(* An update of the settings.                                              *)
LEMMA SettingsReplaced ==
    ASSUME HomeInv, NEW p \in Procs, At(p, "set"), Replace(p, proc[p].want)
    PROVE  Replaced(p)
<1> DEFINE view == proc[p].view
           next == proc[p].want
<1>1. Knows(p) /\ view \in FileT /\ next \in FileT /\ proc[p].pc = "set"
  BY Known DEF At
<1>2. view.rev < MaxRev /\ view.j.kind = "none"
  BY <1>1 DEF Knows
<1>3. PICK v \in Settings : next = SettingsSnapshot(view, v)
  BY <1>1 DEF Knows
<1>4. /\ next = [view EXCEPT !.rev = @ + 1, !.set = v] /\ next.rev = view.rev + 1
      /\ next.home = view.home /\ next.det = view.det
      /\ next.j = view.j /\ next.last = view.last
  <2> HIDE DEF view, next
  <2> QED BY <1>1, <1>3, SettingsFact, Zenon
<1>5. /\ file = view /\ file' = next /\ file'.rev = file.rev + 1 /\ file.rev \in Nat
      /\ ValidatePreferences(file')
      /\ outcomes' = outcomes \cup (IF file'.last = file.last THEN {}
                                    ELSE {<<file'.last.id, file'.last.out>>})
  BY <1>1, <1>4, ReplaceFact, Zenon
<1> HIDE DEF view, next
<1>6. outcomes' = outcomes /\ file'.last = file.last /\ file'.j.kind = "none" /\ file.j.kind = "none"
  BY <1>2, <1>4, <1>5
<1>7. Audited'
  BY <1>1, <1>5, <1>6, AuditKept
<1>8. FileStep(p) /\ BaseKept'
  BY <1>5, <1>6 DEF FileStep, BaseKept
<1>9. file'.rev \in 1..MaxRev
  BY <1>2, <1>5, HomeSwitchAssumption
<1>10. Sound'
  BY <1>5, <1>6, <1>9 DEF Sound
<1>11. DetachedStep /\ UNCHANGED <<SettledHome, outcomes>>
  BY <1>4, <1>5, <1>6, SameDetached DEF SettledHome
<1>12. SettingsStep(p)
  <2>1. file \in FileT
    BY <1>1, <1>5
  <2>2. file'.set = v
    BY <1>4, <1>5, <2>1 DEF FileT
  <2> QED BY <1>1, <1>4, <1>5, <2>2 DEF SettingsStep, At
<1> QED BY <1>1, <1>5, <1>7, <1>8, <1>10, <1>11, <1>12 DEF Replaced, PromiseStep

(* The first Home becomes active.                                          *)
LEMMA InitialReplaced ==
    ASSUME HomeInv, NEW p \in Procs, At(p, "initial"),
           Replace(p, InitialSnapshot(proc[p].view, proc[p].plan))
    PROVE  Replaced(p)
<1> DEFINE view == proc[p].view
           plan == proc[p].plan
           next == InitialSnapshot(view, plan)
<1>1. Knows(p) /\ view \in FileT /\ plan \in PlanT /\ proc[p].pc = "initial"
  BY Known DEF At
<1>2. /\ lease = p /\ file.j.kind = "none" /\ plan.rev = view.rev /\ plan.from = view.home
      /\ plan.id = <<plan.rev, plan.target.src, plan.strat>>
      /\ plan.rev + 4 <= MaxRev /\ plan.target.src # plan.from.src
      /\ plan.target.gen = plan.from.gen + 1
  BY <1>1, KnownToPlan DEF Planned
<1>3. /\ next \in FileT /\ next.rev = view.rev + 1
      /\ next.home = plan.target /\ next.det = view.det
      /\ next.j = view.j /\ next.last = [id |-> plan.id, out |-> "completed"]
      /\ next.set = view.set
  BY <1>1, InitialFact
<1>4. /\ file = view /\ file' = next /\ file'.rev = file.rev + 1 /\ file.rev \in Nat
      /\ ValidatePreferences(file')
      /\ outcomes' = outcomes \cup (IF file'.last = file.last THEN {}
                                    ELSE {<<file'.last.id, file'.last.out>>})
  BY <1>1, <1>3, ReplaceFact
<1> HIDE DEF view, next
<1>5. file'.j.kind = "none" /\ plan.id \in Ids /\ plan.id[1] = file.rev
  BY <1>1, <1>2, <1>3, <1>4 DEF PlanT
<1>6. \A e \in outcomes : e[1] # plan.id
  BY <1>4, <1>5, IdRev DEF HomeInv, Audited
<1>7. /\ Audited' /\ outcomes' = outcomes \cup {<<plan.id, "completed">>}
      /\ <<plan.id, "completed">> \notin outcomes
  <2> HIDE DEF plan
  <2>1. file' \in FileT /\ file'.last = [id |-> plan.id, out |-> "completed"] /\ plan.id[1] <= file.rev
    BY <1>3, <1>4, <1>5
  <2> QED BY <1>4, <1>5, <1>6, <2>1, AuditAdded, Zenon
<1>8. FileStep(p) /\ BaseKept'
  BY <1>2, <1>4, <1>5 DEF FileStep, BaseKept
<1>9. file'.rev \in 1..MaxRev
  BY <1>2, <1>4, HomeSwitchAssumption
<1>10. Sound'
  BY <1>4, <1>5, <1>9 DEF Sound
<1>11. DetachedStep /\ SettingsStep(p)
  BY <1>3, <1>4, SameDetached DEF SettingsStep
<1>12. SettledHome' = plan.target /\ SettledHome = plan.from
  BY <1>2, <1>3, <1>4, <1>5 DEF SettledHome
<1>13. Promise!Complete(plan.id, SettledHome')
  BY <1>2, <1>6, <1>7, <1>12 DEF Promise!Complete, Promise!Fresh
<1>14. Promise!Next
  BY <1>7, <1>13 DEF Promise!Next
<1> QED BY <1>3, <1>4, <1>7, <1>8, <1>10, <1>11, <1>14 DEF Replaced, PromiseStep

(* The guard is set before the drain.                                     *)
LEMMA GuardReplaced ==
    ASSUME HomeInv, NEW p \in Procs, At(p, "guard"),
           Replace(p, ResumeGuardSnapshot(proc[p].view, proc[p].plan, p))
    PROVE  Replaced(p)
<1> DEFINE view == proc[p].view
           plan == proc[p].plan
           next == ResumeGuardSnapshot(view, plan, p)
<1>1. Knows(p) /\ view \in FileT /\ plan \in PlanT /\ proc[p].pc = "guard"
  BY Known DEF At
<1>2. /\ lease = p /\ file.j.kind = "none" /\ plan.rev = view.rev /\ plan.rev + 4 <= MaxRev
      /\ plan.id = <<plan.rev, plan.target.src, plan.strat>>
  BY <1>1, KnownToPlan DEF Planned
<1>3. /\ next \in FileT /\ next.rev = view.rev + 1
      /\ next.home = view.home /\ next.det = view.det /\ next.last = view.last
      /\ next.set = view.set /\ next.j.kind = "resume" /\ next.j.id = plan.id
  BY <1>1, GuardFact
<1>4. /\ file = view /\ file' = next /\ file'.rev = file.rev + 1 /\ file.rev \in Nat
      /\ ValidatePreferences(file')
      /\ outcomes' = outcomes \cup (IF file'.last = file.last THEN {}
                                    ELSE {<<file'.last.id, file'.last.out>>})
  BY <1>1, <1>3, ReplaceFact
<1> HIDE DEF view, next
<1>5. /\ file'.j.kind = "resume" /\ file'.j.id[1] = file.rev /\ outcomes' = outcomes
      /\ file'.last = file.last
  BY <1>2, <1>3, <1>4
<1>6. Audited'
  BY <1>3, <1>4, <1>5, AuditKept
<1>7. FileStep(p) /\ BaseKept'
  BY <1>2, <1>4, <1>5 DEF FileStep, BaseKept
<1>8. file'.rev \in 1..MaxRev /\ file'.rev + 1 <= MaxRev
  BY <1>2, <1>4, HomeSwitchAssumption
<1>9. Sound'
  BY <1>4, <1>5, <1>8 DEF Sound
<1>10. DetachedStep /\ SettingsStep(p)
  BY <1>3, <1>4, SameDetached DEF SettingsStep
<1>11. UNCHANGED <<SettledHome, outcomes>>
  BY <1>2, <1>3, <1>4, <1>5 DEF SettledHome
<1> QED BY <1>3, <1>4, <1>6, <1>7, <1>9, <1>10, <1>11 DEF Replaced, PromiseStep

(* The target becomes active, and the old Home is kept to go back to.     *)
LEMMA PendingReplaced ==
    ASSUME HomeInv, NEW p \in Procs, At(p, "pend"),
           Replace(p, PendingSnapshot(proc[p].view, proc[p].plan))
    PROVE  Replaced(p)
<1> DEFINE view == proc[p].view
           plan == proc[p].plan
           next == PendingSnapshot(view, plan)
<1>1. Knows(p) /\ view \in FileT /\ plan \in PlanT /\ proc[p].pc = "pend"
  BY Known DEF At
<1>2. lease = p /\ view.j.kind = "resume" /\ file = view /\ view.rev + 3 <= MaxRev
  BY <1>1, KnownToCall DEF Calling, Owning
<1>3. /\ next \in FileT /\ next.rev = view.rev + 1
      /\ next.det = view.det /\ next.last = view.last /\ next.set = view.set
      /\ next.j.kind = "switch" /\ next.j.id = view.j.id /\ next.j.prev = view.home
  BY <1>1, PendingFact
<1>4. /\ file = view /\ file' = next /\ file'.rev = file.rev + 1 /\ file.rev \in Nat
      /\ ValidatePreferences(file')
      /\ outcomes' = outcomes \cup (IF file'.last = file.last THEN {}
                                    ELSE {<<file'.last.id, file'.last.out>>})
  BY <1>1, <1>3, ReplaceFact
<1> HIDE DEF view, next
<1>5. /\ file'.j.kind = "switch" /\ file'.j.id = file.j.id /\ outcomes' = outcomes
      /\ file'.last = file.last /\ file.j.kind = "resume" /\ file'.j.prev = file.home
  BY <1>2, <1>3, <1>4
<1>6. Audited'
  BY <1>3, <1>4, <1>5, AuditKept
<1>7. FileStep(p)
  BY <1>2, <1>4 DEF FileStep
<1>8. BaseKept'
  <2>1. ValidatePreferences(file)
    BY DEF HomeInv, Sound
  <2>2. file.home # NoHome /\ ValidDetachedHomes(file)
    BY <1>5, <2>1 DEF ValidatePreferences
  <2>3. \A i \in DOMAIN file.det :
           file.det[i].gen < file.home.gen /\ file.det[i].key # file.home.key
    BY <1>5, <2>2 DEF ValidDetachedHomes
  <2> QED BY <1>3, <1>4, <1>5, <2>2, <2>3 DEF BaseKept
<1>9. file'.rev \in 1..MaxRev /\ file'.rev + 2 <= MaxRev
  BY <1>2, <1>4, HomeSwitchAssumption
<1>10. Sound'
  BY <1>4, <1>5, <1>9 DEF Sound
<1>11. DetachedStep /\ SettingsStep(p)
  BY <1>3, <1>4, SameDetached DEF SettingsStep
<1>12. UNCHANGED <<SettledHome, outcomes>>
  BY <1>5 DEF SettledHome
<1> QED BY <1>3, <1>4, <1>6, <1>7, <1>8, <1>10, <1>11, <1>12 DEF Replaced, PromiseStep

(* The old Home becomes active again, and the resume is still owed.       *)
LEMMA RollbackReplaced ==
    ASSUME HomeInv, NEW p \in Procs, At(p, "back"),
           Replace(p, RollbackSnapshot(proc[p].view))
    PROVE  Replaced(p)
<1> DEFINE view == proc[p].view
           next == RollbackSnapshot(view)
<1>1. Knows(p) /\ view \in FileT /\ proc[p].pc = "back"
  BY Known DEF At
<1>2. lease = p /\ view.j.kind = "switch" /\ file = view
  BY <1>1, KnownToCall DEF Calling, Owning
<1>3. /\ next \in FileT /\ next.rev = view.rev + 1 /\ next.home = view.j.prev
      /\ next.det = view.det /\ next.last = view.last /\ next.set = view.set
      /\ next.j.kind = "resume" /\ next.j.id = view.j.id
  BY <1>1, RollbackFact
<1>4. /\ file = view /\ file' = next /\ file'.rev = file.rev + 1 /\ file.rev \in Nat
      /\ ValidatePreferences(file')
      /\ outcomes' = outcomes \cup (IF file'.last = file.last THEN {}
                                    ELSE {<<file'.last.id, file'.last.out>>})
  BY <1>1, <1>3, ReplaceFact
<1> HIDE DEF view, next
<1>5. /\ file'.j.kind = "resume" /\ file'.j.id = file.j.id /\ outcomes' = outcomes
      /\ file'.last = file.last /\ file.j.kind = "switch" /\ file'.home = file.j.prev
  BY <1>2, <1>3, <1>4
<1>6. Audited'
  BY <1>3, <1>4, <1>5, AuditKept
<1>7. FileStep(p) /\ BaseKept'
  BY <1>2, <1>4, <1>5 DEF FileStep, BaseKept
<1>8. file.rev + 2 <= MaxRev
  BY <1>5 DEF HomeInv, Sound
<1>9. file'.rev \in 1..MaxRev /\ file'.rev + 1 <= MaxRev
  BY <1>4, <1>8, HomeSwitchAssumption
<1>10. Sound'
  BY <1>4, <1>5, <1>9 DEF Sound
<1>11. DetachedStep /\ SettingsStep(p)
  BY <1>3, <1>4, SameDetached DEF SettingsStep
<1>12. UNCHANGED <<SettledHome, outcomes>>
  BY <1>5 DEF SettledHome
<1> QED BY <1>3, <1>4, <1>6, <1>7, <1>10, <1>11, <1>12 DEF Replaced, PromiseStep

(* The rollback is recorded.                                              *)
LEMMA ResumedReplaced ==
    ASSUME HomeInv, NEW p \in Procs, At(p, "clear"),
           Replace(p, ResumedSnapshot(proc[p].view))
    PROVE  Replaced(p)
<1> DEFINE view == proc[p].view
           next == ResumedSnapshot(view)
<1>1. Knows(p) /\ view \in FileT /\ proc[p].pc = "clear"
  BY Known DEF At
<1>2. lease = p /\ view.j.kind = "resume" /\ file = view
  BY <1>1, KnownToCall DEF Calling, Owning
<1>3. /\ next \in FileT /\ next.rev = view.rev + 1 /\ next.home = view.home
      /\ next.det = view.det /\ next.set = view.set /\ next.j = NoJournal
      /\ next.last = [id |-> view.j.id, out |-> "rolled_back"]
  BY <1>1, ResumedFact
<1>4. /\ file = view /\ file' = next /\ file'.rev = file.rev + 1 /\ file.rev \in Nat
      /\ ValidatePreferences(file')
      /\ outcomes' = outcomes \cup (IF file'.last = file.last THEN {}
                                    ELSE {<<file'.last.id, file'.last.out>>})
  BY <1>1, <1>3, ReplaceFact
<1> HIDE DEF view, next
<1>5. /\ file'.j.kind = "none" /\ file.j.id \in Ids
      /\ file'.last = [id |-> file.j.id, out |-> "rolled_back"]
  BY <1>1, <1>3, <1>4, Constants DEF FileT, JournalT
<1>6. file.j.id[1] <= file.rev /\ \A e \in outcomes : e[1] # file.j.id
  BY <1>2, <1>4, <1>5, IdRev DEF HomeInv, Audited
<1>7. /\ Audited' /\ outcomes' = outcomes \cup {<<file.j.id, "rolled_back">>}
      /\ <<file.j.id, "rolled_back">> \notin outcomes
  BY <1>3, <1>4, <1>5, <1>6, AuditAdded, Zenon
<1>8. FileStep(p) /\ BaseKept'
  BY <1>2, <1>4, <1>5 DEF FileStep, BaseKept
<1>9. file.rev + 1 <= MaxRev
  BY <1>2, <1>4, HomeSwitchAssumption DEF HomeInv, Sound
<1>10. file'.rev \in 1..MaxRev
  BY <1>4, <1>9, HomeSwitchAssumption
<1>11. Sound'
  BY <1>4, <1>5, <1>10 DEF Sound
<1>12. DetachedStep /\ SettingsStep(p)
  BY <1>3, <1>4, SameDetached DEF SettingsStep
<1>13. UNCHANGED SettledHome
  BY <1>2, <1>3, <1>4, <1>5 DEF SettledHome
<1>14. Promise!RollBack(file.j.id)
  BY <1>6, <1>7, <1>13 DEF Promise!RollBack, Promise!Fresh
<1>15. Promise!Next
  BY <1>7, <1>14 DEF Promise!Next
<1> QED BY <1>3, <1>4, <1>7, <1>8, <1>11, <1>12, <1>15 DEF Replaced, PromiseStep

(* Finalizing drops from the list only the Home that is active again.      *)
LEMMA FinalDetached ==
    ASSUME file \in FileT, ValidatePreferences(file), file.j.kind = "switch",
           file' = FinalSnapshot(file)
    PROVE  DetachedStep
<1> DEFINE filtered == DetachedWithoutDataStore(file.det, file.home.key)
<1>1. /\ file.det \in Seq(HomeT) /\ DOMAIN file.det = 1..Len(file.det) /\ Len(file.det) \in Nat
      /\ file.j.prev \in HomeT
  BY LenFact DEF FileT, JournalT
<1>2. Copied(file.det, file.home.key, Len(file.det), filtered)
  BY <1>1, FilterFact
<1> HIDE DEF filtered
<1>3. CASE file.j.strat # "independent"
  BY <1>3, FinalFact, SameDetached, Zenon
<1>4. CASE file.j.strat = "independent"
  <2>1. file'.home = file.home /\ file'.det = Append(filtered, file.j.prev)
    BY <1>4, FinalFact, Zenon DEF filtered
  <2>2. filtered \in Seq(HomeT) /\ Len(filtered) \in Nat
    BY <1>2, LenFact DEF Copied
  <2>3. /\ DOMAIN file'.det = 1..(Len(filtered) + 1)
        /\ \A i \in 1..Len(filtered) : i \in DOMAIN file'.det /\ file'.det[i] = filtered[i]
    BY <1>1, <2>1, <2>2, AppendFact, LenFact
  <2>4. SUFFICES ASSUME NEW i \in DOMAIN file.det, file.det[i].key # file.home.key
                 PROVE  \E k \in DOMAIN file'.det : file'.det[k] = file.det[i]
    <3>1. file.home # NoHome /\ ValidDetachedHomes(file)
      BY DEF ValidatePreferences
    <3>2. \A i \in DOMAIN file.det : file.det[i].key = file.home.key => SameSource(file.det[i], file.home)
      BY <3>1 DEF ValidDetachedHomes
    <3> QED BY <2>1, <3>2 DEF DetachedStep, SameSource
  <2>5. PICK k \in 1..Len(filtered) : filtered[k] = file.det[i]
    BY <1>1, <1>2, <2>4 DEF Copied
  <2> QED BY <2>3, <2>5
<1> QED BY <1>3, <1>4

(* The switch is recorded as completed.                                   *)
LEMMA FinalReplaced ==
    ASSUME HomeInv, NEW p \in Procs, At(p, "final"),
           Replace(p, FinalSnapshot(proc[p].view))
    PROVE  Replaced(p)
<1> DEFINE view == proc[p].view
           next == FinalSnapshot(view)
<1>1. Knows(p) /\ view \in FileT /\ proc[p].pc = "final"
  BY Known DEF At
<1>2. lease = p /\ view.j.kind = "switch" /\ file = view
  BY <1>1, KnownToCall DEF Calling, Owning
<1>3. /\ next \in FileT /\ next.rev = view.rev + 1 /\ next.home = view.home
      /\ next.set = view.set /\ next.j = NoJournal
      /\ next.last = [id |-> view.j.id, out |-> "completed"]
  BY <1>1, FinalFact
<1>4. /\ file = view /\ file' = next /\ file'.rev = file.rev + 1 /\ file.rev \in Nat
      /\ ValidatePreferences(file')
      /\ outcomes' = outcomes \cup (IF file'.last = file.last THEN {}
                                    ELSE {<<file'.last.id, file'.last.out>>})
  BY <1>1, <1>3, ReplaceFact
<1> HIDE DEF view, next
<1>5. /\ file'.j.kind = "none" /\ file.j.id \in Ids
      /\ file'.last = [id |-> file.j.id, out |-> "completed"]
  BY <1>1, <1>3, <1>4, Constants, ZenonT(60) DEF FileT, JournalT
<1>6. file.j.id[1] <= file.rev /\ \A e \in outcomes : e[1] # file.j.id
  BY <1>2, <1>4, <1>5, IdRev DEF HomeInv, Audited
<1>7. /\ Audited' /\ outcomes' = outcomes \cup {<<file.j.id, "completed">>}
      /\ <<file.j.id, "completed">> \notin outcomes
  BY <1>3, <1>4, <1>5, <1>6, AuditAdded, Zenon
<1>8. FileStep(p) /\ BaseKept'
  BY <1>2, <1>4, <1>5 DEF FileStep, BaseKept
<1>9. file.rev + 1 <= MaxRev
  BY <1>2, <1>4, HomeSwitchAssumption DEF HomeInv, Sound
<1>10. file'.rev \in 1..MaxRev
  BY <1>4, <1>9, HomeSwitchAssumption
<1>11. Sound'
  BY <1>4, <1>5, <1>10 DEF Sound
<1>12. ValidatePreferences(file) /\ file.j.kind = "switch" /\ file \in FileT
  BY <1>1, <1>2 DEF HomeInv, Sound
<1>13. DetachedStep
  BY <1>4, <1>12, FinalDetached DEF next, view
<1>14. SettingsStep(p)
  BY <1>3, <1>4 DEF SettingsStep
<1>15. SettledHome' = file.home /\ SettledHome = file.j.prev
  BY <1>2, <1>3, <1>4, <1>5 DEF SettledHome
<1>16. file.home.src # file.j.prev.src /\ file.home.gen = file.j.prev.gen + 1
  BY <1>12 DEF ValidatePreferences, ValidSwitchJournal, SameSource
<1>17. Promise!Complete(file.j.id, SettledHome')
  BY <1>6, <1>7, <1>15, <1>16 DEF Promise!Complete, Promise!Fresh
<1>18. Promise!Next
  BY <1>7, <1>17 DEF Promise!Next
<1> QED BY <1>3, <1>4, <1>7, <1>8, <1>11, <1>13, <1>14, <1>18 DEF Replaced, PromiseStep

(* What a step of process p leaves behind, but for p's own knowledge.      *)
Moved(p) == Typed' /\ Alone(p) /\ LeaseStep(p) /\ Replaced(p)

(* A step that leaves the file alone replaces nothing.                     *)
LEMMA NothingReplaced ==
    ASSUME HomeInv, NEW p \in Procs, NoWrite
    PROVE  Replaced(p) /\ file' = file
<1>1. file' = file /\ outcomes' = outcomes
  BY DEF NoWrite
<1>2. (Sound /\ Audited /\ BaseKept)'
  BY <1>1 DEF HomeInv, Sound, Audited, BaseKept
<1>3. PromiseStep
  BY <1>1 DEF PromiseStep, SettledHome
<1>4. DetachedStep /\ SettingsStep(p) /\ FileStep(p)
  BY <1>1, SameDetached DEF SettingsStep, FileStep
<1> QED BY <1>1, <1>2, <1>3, <1>4, Known DEF Replaced

(* A write of the switch that goes on, or has to read back.                *)
LEMMA WriteFact ==
    ASSUME HomeInv, NEW p \in Procs, NEW next \in FileT, NEW ok \in Steps, NEW read \in Steps,
           Write(p, next, ok, read), Replace(p, next) => Replaced(p)
    PROVE  /\ Moved(p) /\ lease' = lease
           /\ proc'[p].plan = proc[p].plan
           /\ \/ /\ proc'[p].pc = ok /\ proc'[p].view = next /\ file' = next
                 /\ Replace(p, next)
              \/ /\ proc'[p].pc = read /\ proc'[p].want = next /\ proc'[p].view = proc[p].view
                 /\ file' = file \/ (Replace(p, next) /\ file' = next)
<1>1. proc \in [Procs -> ProcT] /\ UNCHANGED <<lease, work, boot>> /\ Typed
  BY Known DEF Write
<1>2. CASE Replace(p, next) /\ NoFault /\ GotoWith(p, ok, next)
  <2>1. Replaced(p) /\ file' = next /\ faults' \in 0..MaxFaults
    BY <1>1, <1>2, FaultTyped DEF Replace
  <2> QED BY <1>1, <1>2, <2>1, GotoWithFact DEF Moved, Typed, LeaseStep, Replaced
<1>3. CASE /\ \/ file.rev # proc[p].view.rev /\ NoWrite /\ NoFault
              \/ Fault /\ (NoWrite \/ Replace(p, next))
           /\ proc' = [proc EXCEPT ![p].pc = read, ![p].want = next]
  <2>1. Replaced(p) /\ faults' \in 0..MaxFaults /\ (file' = file \/ (Replace(p, next) /\ file' = next))
    BY <1>1, <1>3, FaultTyped, NothingReplaced DEF Replace
  <2>2. GotoWant(p, read, next)
    BY <1>3 DEF GotoWant
  <2>3. /\ proc' \in [Procs -> ProcT] /\ Alone(p)
        /\ proc'[p].pc = read /\ proc'[p].view = proc[p].view
        /\ proc'[p].want = next /\ proc'[p].plan = proc[p].plan
    BY <1>1, <2>2, GotoWantFact
  <2>4. UNCHANGED <<lease, work, boot>>
    BY <1>1, <1>3
  <2> QED BY <1>1, <2>1, <2>3, <2>4 DEF Moved, Typed, LeaseStep, Replaced
<1> QED BY <1>2, <1>3 DEF Write

(* A call that returns without touching the bootstraps.                    *)
LEMMA ReturnFact ==
    ASSUME HomeInv, NEW p \in Procs, NEW s \in FileT, NEW e \in BOOLEAN, Done(p, s, e),
           Replaced(p), Fault \/ NoFault, UNCHANGED boot
    PROVE  Moved(p) /\ Knows(p)'
<1>1. Typed /\ Knows(p)
  BY DEF HomeInv
<1>2. /\ proc' \in [Procs -> ProcT] /\ Alone(p) /\ work' \in [Procs -> WorkT]
      /\ lease' \in Procs \cup {"none"} /\ (lease # p => lease' = lease)
      /\ proc'[p].pc \in {"down", "idle", "reopen"}
      /\ proc'[p].plan \in {NoPlan, proc[p].plan}
  BY <1>1, DoneFact
<1>3. Typed'
  BY <1>1, <1>2, FaultTyped DEF Typed, Replaced
<1> QED BY <1>1, <1>2, <1>3, RestKnows DEF Moved, LeaseStep

(* A write that ends the call.                                             *)
LEMMA WriteAndReturnFact ==
    ASSUME HomeInv, NEW p \in Procs, NEW next \in FileT, NEW read \in Steps,
           WriteAndReturn(p, next, read), Replace(p, next) => Replaced(p)
    PROVE  /\ Moved(p)
           /\ \/ Knows(p)'
              \/ /\ lease' = lease /\ proc'[p].plan = proc[p].plan
                 /\ proc'[p].pc = read /\ proc'[p].want = next
<1>1. proc \in [Procs -> ProcT] /\ Typed /\ proc[p].err \in BOOLEAN
  BY Known, Zenon
<1>2. CASE Replace(p, next) /\ NoFault /\ Done(p, next, proc[p].err) /\ UNCHANGED boot
  BY <1>1, <1>2, ReturnFact
<1>3. CASE /\ \/ file.rev # proc[p].view.rev /\ NoWrite /\ NoFault
              \/ Fault /\ (NoWrite \/ Replace(p, next))
           /\ proc' = [proc EXCEPT ![p].pc = read, ![p].want = next]
           /\ UNCHANGED <<lease, work, boot>>
  <2>1. Replaced(p) /\ faults' \in 0..MaxFaults
    BY <1>1, <1>3, FaultTyped, NothingReplaced
  <2>2. GotoWant(p, read, next)
    BY <1>3 DEF GotoWant
  <2>3. /\ proc' \in [Procs -> ProcT] /\ Alone(p)
        /\ proc'[p].pc = read /\ proc'[p].view = proc[p].view
        /\ proc'[p].want = next /\ proc'[p].plan = proc[p].plan
    BY <1>1, <2>2, GotoWantFact
  <2>4. UNCHANGED <<lease, work, boot>>
    BY <1>1, <1>3
  <2> QED BY <1>1, <2>1, <2>3, <2>4 DEF Moved, Typed, LeaseStep, Replaced
<1> QED BY <1>2, <1>3 DEF WriteAndReturn

(* A read that fails ends the call.                                        *)
LEMMA UnreadableFact ==
    ASSUME HomeInv, NEW p \in Procs, NEW step, NEW s \in FileT, Unreadable(p, step, s)
    PROVE  Moved(p) /\ Knows(p)' /\ file' = file
BY NothingReplaced, ReturnFact, Zenon DEF Unreadable

(* A step that moves only p's position, and writes nothing.                *)
LEMMA MoveFact ==
    ASSUME HomeInv, NEW p \in Procs, NoWrite, proc' \in [Procs -> ProcT], Alone(p),
           lease' \in Procs \cup {"none"}, LeaseStep(p), work' \in [Procs -> WorkT],
           boot' \in [Ids -> {"not_started", "started", "ready", "failed"}],
           Fault \/ NoFault
    PROVE  Moved(p) /\ file' = file /\ file \in FileT
<1>1. Typed
  BY DEF HomeInv
<1>2. faults' \in 0..MaxFaults /\ Replaced(p) /\ file' = file
  BY <1>1, FaultTyped, NothingReplaced
<1> QED BY <1>1, <1>2 DEF Moved, Typed

(* A step of the worker alone.                                             *)
LEMMA WorkerMoves ==
    ASSUME HomeInv, NEW p \in Procs,
           BindHomeRuntime(p) \/ OpenWorker(p) \/ Wake(p) \/ StopWorker(p)
    PROVE  Moved(p) /\ Knows(p)' /\ file' = file
<1> USE DEF BindHomeRuntime, OpenWorker, Wake, StopWorker
<1>1. NoWrite /\ UNCHANGED <<lease, proc, boot>> /\ (Fault \/ NoFault)
  BY DEF NoWrite, NoFault
<1>2. Typed /\ Knows(p)
  BY DEF HomeInv
<1>3. work \in [Procs -> WorkT] /\ work[p].next \in Nat /\ work[p].row \in Nat
  BY <1>2 DEF Typed, WorkT
<1>4. work' \in [Procs -> WorkT]
  <2>1. CASE BindHomeRuntime(p)
    BY <1>3, <2>1 DEF WorkT, Bindings
  <2>2. CASE OpenWorker(p)
    BY <1>3, <2>2 DEF WorkT, Bindings, Off
  <2>3. CASE Wake(p)
    BY <1>3, <2>3 DEF WorkT
  <2>4. CASE StopWorker(p)
    BY <1>3, <2>4 DEF WorkT, Bindings, Off
  <2> QED BY <2>1, <2>2, <2>3, <2>4
<1>5. Moved(p) /\ file' = file
  BY <1>1, <1>2, <1>4, MoveFact DEF Typed, Alone, LeaseStep
<1> HIDE DEF BindHomeRuntime, OpenWorker, Wake, StopWorker
<1>6. Knows(p)'
  BY <1>1, <1>2, <1>5, ZenonT(60) DEF Knows, Current
<1> QED BY <1>5, <1>6

(* The process ends.                                                       *)
LEMMA DeathMoves ==
    ASSUME HomeInv, NEW p \in Procs, Die(p), Fault \/ NoFault
    PROVE  Moved(p) /\ Knows(p)' /\ file' = file
<1>1. Typed /\ Knows(p)
  BY DEF HomeInv
<1>2. /\ proc' \in [Procs -> ProcT] /\ Alone(p) /\ work' \in [Procs -> WorkT]
      /\ proc'[p].pc = "down" /\ proc'[p].plan = NoPlan
  <2>1. Down \in ProcT /\ Down.pc = "down" /\ Down.plan = NoPlan /\ Off \in WorkT
    BY Constants, FreshTyped, Zenon DEF Off, WorkT, Bindings
  <2> QED BY <1>1, <2>1 DEF Typed, Die, Alone
<1>3. lease' \in Procs \cup {"none"} /\ LeaseStep(p) /\ NoWrite /\ UNCHANGED boot
  BY <1>1 DEF Typed, Die, Release, LeaseStep
<1>4. Moved(p) /\ file' = file
  BY <1>1, <1>2, <1>3, MoveFact DEF Typed
<1> QED BY <1>1, <1>2, <1>4, RestKnows

(* An update of the settings begins.                                       *)
LEMMA UpdateMoves ==
    ASSUME HomeInv, NEW p \in Procs, NEW v \in Settings, UpdateSettings(p, v)
    PROVE  Moved(p) /\ Knows(p)' /\ file' = file
<1> DEFINE next == SettingsSnapshot(file, v)
<1>1. Typed /\ Knows(p) /\ file \in FileT /\ next \in FileT
  BY SettingsFact, Known, Zenon
<1> HIDE DEF next
<1>2. /\ file.j.kind = "none" /\ file.rev < MaxRev /\ file.rev \in Nat
      /\ proc' = [proc EXCEPT ![p].pc = "set", ![p].view = file, ![p].why = "call", ![p].want = next]
      /\ NoWrite /\ UNCHANGED <<lease, work, boot>> /\ NoFault
  BY <1>1 DEF UpdateSettings, next, NoWrite, NoFault, FileT
<1>3. /\ proc' \in [Procs -> ProcT] /\ Alone(p)
      /\ proc'[p].pc = "set" /\ proc'[p].view = file /\ proc'[p].want = next
      /\ proc'[p].plan = proc[p].plan
  <2> DEFINE r == [proc[p] EXCEPT !.pc = "set", !.view = file, !.why = "call", !.want = next]
  <2>1. proc \in [Procs -> ProcT] /\ proc[p] \in ProcT
    BY <1>1 DEF Typed
  <2>2. proc' = [proc EXCEPT ![p] = r]
    BY <1>2, <2>1, Zenon DEF ProcT
  <2>3. /\ r \in ProcT /\ r.pc = "set" /\ r.view = file /\ r.want = next
        /\ r.plan = proc[p].plan
    BY <1>1, <2>1, Zenon DEF ProcT, Steps
  <2> HIDE DEF r
  <2> QED BY <2>1, <2>2, <2>3 DEF Alone
<1>4. Moved(p) /\ file' = file
  BY <1>1, <1>2, <1>3, MoveFact DEF Typed, LeaseStep
<1>5. Knows(p)'
  BY <1>1, <1>2, <1>3, <1>4 DEF Knows, Current, Calling, Owning, next
<1> QED BY <1>4, <1>5

(* A detached Home brings its own data store back.                         *)
LEMMA KeyTyped ==
    ASSUME NEW s \in FileT, NEW id \in Ids, NEW h \in Homes, NEW strat \in Strategies
    PROVE  PlannedKey(s, id, h, strat) \in Ids
<1>1. s.home.key \in Ids /\ DefaultKey \in Ids
  BY Constants DEF FileT, HomeT, DefaultKey
<1>2. ASSUME HasDetached(s.det, h) PROVE DetachedDataStoreKey(s.det, h) \in Ids
  <2> DEFINE S == {i \in DOMAIN s.det : s.det[i].src = h}
             first == CHOOSE i \in DOMAIN s.det :
                        s.det[i].src = h /\ \A k \in 1..(i - 1) : s.det[k].src # h
  <2>1. /\ s.det \in Seq(HomeT) /\ DOMAIN s.det = 1..Len(s.det) /\ Len(s.det) \in Nat
    BY LenFact DEF FileT
  <2>2. S \subseteq Nat /\ S # {}
    BY <1>2, <2>1 DEF HasDetached
  <2>3. PICK i \in S : \A k \in S : i <= k
    BY <2>2, LeastNatural, Zenon
  <2>4. \A k \in 1..(i - 1) : s.det[k].src # h
    <3>1. SUFFICES ASSUME NEW k \in 1..(i - 1) PROVE k \notin S /\ k \in DOMAIN s.det
      OBVIOUS
    <3>2. i \in 1..Len(s.det) /\ ~(i <= k)
      BY <2>1, <2>3
    <3> QED BY <2>1, <2>3, <3>2
  <2>5. first \in DOMAIN s.det
    BY <2>3, <2>4
  <2> HIDE DEF first
  <2>6. s.det[first] \in HomeT
    BY <2>1, <2>5, LenFact
  <2>7. DetachedDataStoreKey(s.det, h) = s.det[first].key
    BY DEF DetachedDataStoreKey, first
  <2> QED BY <2>6, <2>7 DEF HomeT
<1> QED BY <1>1, <1>2 DEF PlannedKey

(* A plan is made.                                                         *)
LEMMA PlanMoves ==
    ASSUME HomeInv, NEW p \in Procs, NEW h \in Homes, NEW strat \in Strategies,
           PlanSwitch(p, h, strat)
    PROVE  Moved(p) /\ Knows(p)' /\ file' = file
<1> DEFINE id == <<file.rev, h, strat>>
           target == [src |-> h, gen |-> file.home.gen + 1, key |-> PlannedKey(file, id, h, strat)]
           plan == [id |-> id, rev |-> file.rev, from |-> file.home, target |-> target,
                    strat |-> strat]
<1>1. Typed /\ Knows(p) /\ file \in FileT /\ proc[p].pc = "idle"
  BY Known DEF PlanSwitch, At
<1>2. file.rev \in 1..MaxRev /\ file.rev + 4 <= MaxRev /\ h # file.home.src
  BY DEF HomeInv, Sound, PlanSwitch
<1>3. id \in Ids
  BY <1>2 DEF Ids
<1>4. target \in HomeT /\ target.src = h /\ target.gen = file.home.gen + 1
  <2>1. file.home.gen + 1 \in Nat
    BY <1>1 DEF HomeT, FileT
  <2>2. PlannedKey(file, id, h, strat) \in Ids
    BY <1>1, <1>3, KeyTyped
  <2> QED BY <2>1, <2>2 DEF HomeT
<1>5. /\ proc' = [proc EXCEPT ![p].plan = plan]
      /\ NoWrite /\ UNCHANGED <<lease, work, boot>> /\ NoFault
  BY ZenonT(60) DEF PlanSwitch, NoWrite, NoFault
<1> HIDE DEF target
<1>6. plan \in PlanT /\ Planned(plan)
  <2>1. id = <<plan.rev, plan.target.src, plan.strat>>
    BY <1>4
  <2>2. plan \in PlanT
    BY <1>1, <1>2, <1>3, <1>4 DEF PlanT, FileT
  <2> QED BY <1>2, <1>4, <2>1, <2>2 DEF Planned
<1> HIDE DEF plan
<1>7. proc' \in [Procs -> ProcT] /\ Alone(p) /\ proc'[p].pc = "idle" /\ proc'[p].plan = plan
  BY <1>1, <1>5, <1>6 DEF Typed, ProcT, Alone
<1>8. Moved(p) /\ file' = file
  BY <1>1, <1>5, <1>7, MoveFact DEF Typed, LeaseStep
<1>9. Knows(p)'
  BY <1>6, <1>7 DEF Knows, Calling, Owning, Planned
<1> QED BY <1>8, <1>9

-----------------------------------------------------------------------------
(* The other handlers, one lemma each, and the theorems that follow from   *)
(* the invariant.                                                          *)

(* A call begins with a snapshot.                                          *)
Entered(p, step, s, why, e) ==
    proc' = [proc EXCEPT ![p] = [proc[p] EXCEPT !.pc = step, !.view = s, !.err = e, !.why = why]]

(* What a process that begins a call has in hand.                          *)
LEMMA EnteredFact ==
    ASSUME proc \in [Procs -> ProcT], NEW p \in Procs, NEW step \in Steps, NEW s \in FileT,
           NEW why \in {"call", "startup", "worker", "reopen"}, NEW e \in BOOLEAN,
           Entered(p, step, s, why, e)
    PROVE  /\ proc' \in [Procs -> ProcT] /\ Alone(p)
           /\ proc'[p].pc = step /\ proc'[p].view = s /\ proc'[p].plan = proc[p].plan
           /\ proc'[p].why = why /\ proc'[p].err = e
<1> DEFINE r == [proc[p] EXCEPT !.pc = step, !.view = s, !.err = e, !.why = why]
<1>1. /\ r \in ProcT /\ r.pc = step /\ r.view = s /\ r.plan = proc[p].plan
      /\ r.why = why /\ r.err = e
  BY Zenon DEF ProcT
<1>2. proc' = [proc EXCEPT ![p] = r]
  BY DEF Entered
<1> HIDE DEF r
<1> QED BY <1>1, <1>2 DEF Alone

(* A switch is confirmed.                                                  *)
LEMMA ConfirmMoves ==
    ASSUME HomeInv, NEW p \in Procs, ConfirmSwitch(p)
    PROVE  Moved(p) /\ Knows(p)' /\ file' = file
<1> DEFINE step == IF file.home = NoHome THEN "initial" ELSE "guard"
           why == IF ViaWorker(p) THEN "reopen" ELSE "call"
           plan == proc[p].plan
<1>1. Typed /\ Knows(p) /\ proc \in [Procs -> ProcT] /\ file \in FileT
  BY Known, Zenon
<1>2. /\ plan # NoPlan /\ lease = "none" /\ file.j.kind = "none"
      /\ file.rev = plan.rev /\ file.home = plan.from
      /\ lease' = p /\ UNCHANGED <<work, boot>> /\ NoFault /\ NoWrite
  BY DEF ConfirmSwitch, Enter, NoFault, NoWrite
<1>3. PICK e \in BOOLEAN : Entered(p, step, file, why, e)
  BY <1>1, Zenon DEF ConfirmSwitch, Enter, Entered, ProcT
<1>4. step \in Steps /\ why \in {"call", "startup", "worker", "reopen"}
  BY DEF Steps
<1>5. /\ proc' \in [Procs -> ProcT] /\ Alone(p)
      /\ proc'[p].pc = step /\ proc'[p].view = file /\ proc'[p].plan = proc[p].plan
  <2> HIDE DEF step, why
  <2> QED BY <1>1, <1>3, <1>4, EnteredFact
<1>6. Moved(p) /\ file' = file
  BY <1>1, <1>2, <1>5, MoveFact DEF Typed, LeaseStep
<1>7. Planned(plan)
  BY <1>1, <1>2 DEF Knows
<1>8. Current(proc[p].view)'
  BY <1>1, <1>5, <1>6 DEF Current, FileT
<1>9. step \in {"initial", "guard"} /\ (step = "initial" => file.home = NoHome)
  OBVIOUS
<1> HIDE DEF step
<1>10. Planned(plan)' /\ plan' = plan
  BY <1>5, <1>7 DEF Planned
<1>11. Knows(p)'
  BY <1>2, <1>5, <1>6, <1>8, <1>9, <1>10 DEF Knows, Owning
<1> QED BY <1>6, <1>11

(* A journal is found, and the call works it off.                          *)
LEMMA RecoverMoves ==
    ASSUME HomeInv, NEW p \in Procs, NEW why \in {"call", "startup", "worker", "reopen"},
           RecoverSwitch(p, why)
    PROVE  Moved(p) /\ Knows(p)' /\ file' = file
<1> DEFINE step == RecoverStep(file)
<1>1. Typed /\ Knows(p) /\ proc \in [Procs -> ProcT] /\ file \in FileT
  BY Known, Zenon
<1>2. /\ lease = "none" /\ file.j.kind # "none"
      /\ lease' = p /\ UNCHANGED <<work, boot>> /\ NoFault /\ NoWrite
  BY DEF RecoverSwitch, NoFault, NoWrite
<1>3. \/ file.j.kind = "resume" /\ step = "resume"
      \/ file.j.kind = "switch" /\ step = "status"
  BY <1>1, <1>2 DEF RecoverStep, FileT, JournalT
<1>4. PICK e \in BOOLEAN : Entered(p, step, file, why, e)
  BY <1>1, Zenon DEF RecoverSwitch, Entered, ProcT
<1>5. step \in Steps
  BY <1>3 DEF Steps
<1> HIDE DEF step
<1>6. /\ proc' \in [Procs -> ProcT] /\ Alone(p)
      /\ proc'[p].pc = step /\ proc'[p].view = file /\ proc'[p].plan = proc[p].plan
  BY <1>1, <1>4, <1>5, EnteredFact
<1>7. Moved(p) /\ file' = file
  BY <1>1, <1>2, <1>6, MoveFact DEF Typed, LeaseStep
<1>8. Knows(p)'
  BY <1>1, <1>2, <1>3, <1>6, <1>7, ZenonT(60) DEF Knows, Planned
<1> QED BY <1>7, <1>8

(* A process that is at rest after the step.                               *)
LEMMA RestMoves ==
    ASSUME HomeInv, NEW p \in Procs, NoWrite, Alone(p), UNCHANGED <<lease, boot>>,
           proc' \in [Procs -> ProcT], proc'[p].pc \in {"down", "idle", "reopen"},
           proc'[p].plan \in {NoPlan, proc[p].plan},
           work' \in [Procs -> WorkT], Fault \/ NoFault
    PROVE  Moved(p) /\ Knows(p)' /\ file' = file
<1>1. Typed /\ Knows(p)
  BY DEF HomeInv
<1>2. Moved(p) /\ file' = file
  BY <1>1, MoveFact DEF Typed, LeaseStep
<1> QED BY <1>1, <1>2, RestKnows, ZenonT(60)

(* The file moved on since the plan was made.                              *)
LEMMA AgainMoves ==
    ASSUME HomeInv, NEW p \in Procs, ConfirmAgain(p)
    PROVE  Moved(p) /\ Knows(p)' /\ file' = file
<1>1. Typed /\ proc \in [Procs -> ProcT] /\ file \in FileT /\ proc[p] \in ProcT
  BY Known, Zenon
<1>2. NoWrite /\ UNCHANGED <<lease, work, boot>> /\ NoFault
  BY ZenonT(60) DEF ConfirmAgain, NoFault, NoWrite
<1>3. PICK step \in {"idle", "reopen"}, s \in FileT, e \in BOOLEAN :
         proc' = [proc EXCEPT ![p] = [proc[p] EXCEPT !.pc = step, !.view = s, !.err = e]]
  <2> DEFINE step == IF ViaWorker(p) THEN "reopen" ELSE "idle"
             s == IF ViaWorker(p) THEN file ELSE NoFile
             same == ResolvedSwitchMatches(file, proc[p].plan.target, proc[p].plan.id, "completed")
  <2>1. step \in {"idle", "reopen"} /\ s \in FileT /\ (~same) \in BOOLEAN
    BY <1>1, Constants DEF ResolvedSwitchMatches
  <2>2. proc' = [proc EXCEPT ![p].pc = step, ![p].view = s, ![p].err = ~same]
    BY DEF ConfirmAgain
  <2> HIDE DEF step, s, same
  <2>3. PICK e \in BOOLEAN : proc' = [proc EXCEPT ![p].pc = step, ![p].view = s, ![p].err = e]
    BY <2>1, <2>2, Zenon
  <2>4. proc' = [proc EXCEPT ![p] = [proc[p] EXCEPT !.pc = step, !.view = s, !.err = e]]
    BY <1>1, <2>3, Zenon DEF ProcT
  <2> QED BY <2>1, <2>4, Zenon
<1>4. /\ proc' \in [Procs -> ProcT] /\ Alone(p)
      /\ proc'[p].pc \in {"idle", "reopen"} /\ proc'[p].plan = proc[p].plan
  BY <1>1, <1>3, Zenon DEF ProcT, Steps, Alone
<1> QED BY <1>1, <1>2, <1>4, RestMoves DEF Typed

(* A call fails before it has a snapshot.                                  *)
LEMMA CallFailsMoves ==
    ASSUME HomeInv, NEW p \in Procs, CallFails(p)
    PROVE  Moved(p) /\ Knows(p)' /\ file' = file
<1>1. Typed /\ proc \in [Procs -> ProcT] /\ proc[p] \in ProcT
  BY Known, Zenon
<1>2. NoWrite /\ UNCHANGED <<lease, work, boot>> /\ Fault
  BY DEF CallFails, NoWrite
<1>3. /\ proc' \in [Procs -> ProcT] /\ Alone(p)
      /\ proc'[p].pc = "reopen" /\ proc'[p].plan = proc[p].plan
  BY <1>1, Constants, Zenon DEF CallFails, ProcT, Steps, Alone
<1> QED BY <1>1, <1>2, <1>3, RestMoves DEF Typed

(* The application starts.                                                 *)
LEMMA StartMoves ==
    ASSUME HomeInv, NEW p \in Procs, StartApplication(p)
    PROVE  Moved(p) /\ Knows(p)' /\ file' = file
<1>1. Typed /\ proc \in [Procs -> ProcT] /\ proc[p] \in ProcT
  BY Known, Zenon
<1>2. CASE RecoverSwitch(p, "startup")
  BY <1>2, RecoverMoves
<1>3. CASE proc' = [proc EXCEPT ![p] = Fresh] /\ UNCHANGED <<file, lease, work, boot, outcomes, faults>>
  <2>1. proc' \in [Procs -> ProcT] /\ Alone(p) /\ proc'[p].pc = "idle" /\ proc'[p].plan = NoPlan
    BY <1>1, <1>3, Constants, FreshTyped, Zenon DEF Alone
  <2> QED BY <1>1, <1>3, <2>1, RestMoves DEF Typed, NoWrite, NoFault
<1> QED BY <1>2, <1>3 DEF StartApplication

(* The user asks for recovery.                                             *)
LEMMA RecoverHomeMoves ==
    ASSUME HomeInv, NEW p \in Procs, RecoverHomeSwitch(p)
    PROVE  Moved(p) /\ Knows(p)' /\ file' = file
<1>1. Typed /\ proc \in [Procs -> ProcT] /\ proc[p] \in ProcT /\ file \in FileT
  BY Known, Zenon
<1>2. CASE RecoverSwitch(p, IF ViaWorker(p) THEN "reopen" ELSE "call")
  BY <1>2, RecoverMoves
<1>3. CASE /\ proc' = [proc EXCEPT ![p].pc = "reopen", ![p].view = file, ![p].err = FALSE]
           /\ UNCHANGED <<file, lease, work, boot, outcomes, faults>>
  <2>1. /\ proc' \in [Procs -> ProcT] /\ Alone(p) /\ proc'[p].pc = "reopen"
        /\ proc'[p].plan = proc[p].plan
    BY <1>1, <1>3, Zenon DEF ProcT, Steps, Alone
  <2> QED BY <1>1, <1>3, <2>1, RestMoves DEF Typed, NoWrite, NoFault
<1> QED BY <1>2, <1>3 DEF RecoverHomeSwitch

(* The worker's start.                                                     *)
LEMMA StartWorkerMoves ==
    ASSUME HomeInv, NEW p \in Procs, StartWorker(p)
    PROVE  Moved(p) /\ Knows(p)' /\ file' = file
<1>1. /\ Typed /\ proc \in [Procs -> ProcT] /\ work \in [Procs -> WorkT] /\ proc[p].pc = "idle"
      /\ file.home.gen \in Nat
  BY DEF HomeInv, Typed, StartWorker, At, FileT, HomeT
<1>2. CASE RecoverSwitch(p, "worker")
  BY <1>2, RecoverMoves
<1>3. CASE /\ work' = [work EXCEPT ![p].next = file.home.gen]
           /\ UNCHANGED <<file, lease, proc, boot, outcomes, faults>>
  <2>1. work' \in [Procs -> WorkT]
    BY <1>1, <1>3 DEF WorkT
  <2> QED BY <1>1, <1>3, <2>1, RestMoves DEF NoWrite, NoFault, Alone
<1> QED BY <1>2, <1>3 DEF StartWorker

(* A call through the worker reopens the Home, or ends the process.        *)
LEMMA ReopenMoves ==
    ASSUME HomeInv, NEW p \in Procs, Reopen(p)
    PROVE  Moved(p) /\ Knows(p)' /\ file' = file
<1> DEFINE g == proc[p].view.home.gen
           back(e) == [Fresh EXCEPT !.plan = proc[p].plan, !.err = e]
<1>1. /\ Typed /\ proc \in [Procs -> ProcT] /\ work \in [Procs -> WorkT] /\ g \in Nat
      /\ proc[p].plan \in PlanT /\ proc[p].err \in BOOLEAN
  BY ZenonT(60) DEF HomeInv, Typed, ProcT, FileT, HomeT
<1>2. CASE NoFault /\ Die(p)
  BY <1>2, DeathMoves
<1>3. CASE /\ \/ work' = [work EXCEPT ![p].open = g, ![p].row = g]
              \/ work' = work
           /\ \E e \in BOOLEAN : proc' = [proc EXCEPT ![p] = back(e)]
           /\ NoWrite /\ UNCHANGED <<lease, boot>> /\ (Fault \/ NoFault)
  <2>1. PICK e \in BOOLEAN : proc' = [proc EXCEPT ![p] = back(e)]
    BY <1>3, Zenon
  <2>2. back(e) \in ProcT /\ back(e).pc = "idle" /\ back(e).plan = proc[p].plan
    BY <1>1, FreshTyped, Constants, Zenon DEF Fresh
  <2>3. work' \in [Procs -> WorkT]
    BY <1>1, <1>3 DEF WorkT
  <2> HIDE DEF back
  <2>4. proc' \in [Procs -> ProcT] /\ Alone(p) /\ proc'[p].pc = "idle" /\ proc'[p].plan = proc[p].plan
    BY <1>1, <2>1, <2>2 DEF Alone
  <2> QED BY <1>1, <1>3, <2>3, <2>4, RestMoves
<1> QED BY <1>1, <1>2, <1>3, Zenon DEF Reopen

(* A call that returns without a write.                                    *)
LEMMA ReturnMoves ==
    ASSUME HomeInv, NEW p \in Procs, NEW s \in FileT, \E e \in BOOLEAN : Done(p, s, e),
           NoWrite, Fault \/ NoFault, UNCHANGED boot
    PROVE  Moved(p) /\ Knows(p)' /\ file' = file
<1>1. PICK e \in BOOLEAN : Done(p, s, e)
  OBVIOUS
<1> QED BY <1>1, ReturnFact, NothingReplaced

(* The update of the settings is written, or read back.                    *)
LEMMA SettingsMoves ==
    ASSUME HomeInv, NEW p \in Procs, SettingsWrite(p) \/ ReadbackSettings(p)
    PROVE  Moved(p) /\ Knows(p)'
<1>1. /\ Knows(p) /\ file \in FileT /\ proc[p].view \in FileT /\ proc[p].want \in FileT
      /\ proc[p].err \in BOOLEAN
  BY Known, Zenon
<1>2. CASE SettingsWrite(p)
  <2>1. /\ WriteAndReturn(p, proc[p].want, "setRead")
        /\ Replace(p, proc[p].want) => Replaced(p)
    BY <1>2, SettingsReplaced DEF SettingsWrite
  <2>2. "setRead" \in Steps
    BY DEF Steps
  <2>3. /\ Moved(p)
        /\ Knows(p)' \/ (proc'[p].plan = proc[p].plan /\ proc'[p].pc = "setRead")
    BY <1>1, <2>1, <2>2, WriteAndReturnFact
  <2> QED BY <1>1, <2>3, RestKnows
<1>3. CASE Unreadable(p, "setRead", proc[p].view)
  BY <1>1, <1>3, UnreadableFact
<1>4. CASE /\ Done(p, file, proc[p].err \/ file # proc[p].want)
           /\ NoWrite /\ NoFault /\ UNCHANGED boot
  <2>1. (proc[p].err \/ file # proc[p].want) \in BOOLEAN
    OBVIOUS
  <2>2. \E e \in BOOLEAN : Done(p, file, e)
    BY <1>4, <2>1, Zenon
  <2> QED BY <1>1, <1>4, <2>2, ReturnMoves
<1> QED BY <1>2, <1>3, <1>4 DEF ReadbackSettings

(* The first Home is written, read back, or returned.                      *)
LEMMA InitialMoves ==
    ASSUME HomeInv, NEW p \in Procs, InitialWrite(p) \/ InitialRead(p) \/ InitialStart(p)
    PROVE  Moved(p) /\ Knows(p)'
<1>1. /\ Knows(p) /\ file \in FileT /\ proc[p].view \in FileT /\ proc[p].plan \in PlanT
  BY Known, Zenon
<1>2. CASE InitialWrite(p)
  <2> DEFINE next == InitialSnapshot(proc[p].view, proc[p].plan)
  <2>1. /\ Write(p, next, "initStart", "initRead") /\ (Replace(p, next) => Replaced(p))
        /\ next \in FileT
    BY <1>1, <1>2, InitialReplaced, InitialFact, Zenon DEF InitialWrite
  <2>2. "initStart" \in Steps /\ "initRead" \in Steps
    BY DEF Steps
  <2> HIDE DEF next
  <2>3. /\ Moved(p) /\ lease' = lease /\ proc'[p].plan = proc[p].plan
        /\ proc'[p].pc \in {"initStart", "initRead"}
    BY <2>1, <2>2, WriteFact, ZenonT(60)
  <2>4. lease = p
    BY <1>1, <1>2, KnownToCall, Zenon DEF InitialWrite, At, Calling
  <2> QED BY <1>1, <2>3, <2>4, Zenon DEF Knows, Owning, Planned
<1>3. CASE Unreadable(p, "initRead", proc[p].view)
  BY <1>1, <1>3, UnreadableFact
<1>4. CASE /\ NoWrite /\ NoFault /\ UNCHANGED boot
           /\ \E s \in FileT, e \in BOOLEAN : Done(p, s, e)
  BY <1>4, ReturnMoves
<1>5. CASE InitialStart(p)
  <2>1. \E s \in FileT, e \in BOOLEAN : Done(p, s, e)
    BY <1>1, <1>5, Zenon DEF InitialStart
  <2> QED BY <1>4, <1>5, <2>1 DEF InitialStart
<1>6. CASE InitialRead(p) /\ ~Unreadable(p, "initRead", proc[p].view)
  <2> DEFINE X == ResolvedSwitchMatches(file, proc[p].want.home, proc[p].plan.id, "completed")
  <2>1. Done(p, file, ~X) /\ NoWrite /\ NoFault /\ UNCHANGED boot
    BY <1>6 DEF InitialRead
  <2>2. (~X) \in BOOLEAN
    BY DEF ResolvedSwitchMatches
  <2> HIDE DEF X
  <2>3. \E s \in FileT, e \in BOOLEAN : Done(p, s, e)
    BY <1>1, <2>1, <2>2, Zenon
  <2> QED BY <1>4, <2>1, <2>3
<1> QED BY <1>2, <1>3, <1>5, <1>6

(* The guard is written, or read back.                                     *)
LEMMA GuardMoves ==
    ASSUME HomeInv, NEW p \in Procs, GuardWrite(p) \/ GuardRead(p)
    PROVE  Moved(p) /\ Knows(p)'
<1> DEFINE view == proc[p].view
           plan == proc[p].plan
           next == ResumeGuardSnapshot(view, plan, p)
<1>1. /\ Knows(p) /\ file \in FileT /\ view \in FileT /\ plan \in PlanT
      /\ proc \in [Procs -> ProcT] /\ Typed
  BY Known, Zenon
<1>2. next \in FileT /\ next.rev = view.rev + 1 /\ next.j.kind = "resume" /\ view.rev \in Nat
  BY <1>1, GuardFact DEF FileT
<1>3. CASE GuardWrite(p)
  <2>1. Write(p, next, "drain", "guardRead") /\ (Replace(p, next) => Replaced(p))
    BY <1>3, GuardReplaced DEF GuardWrite
  <2>2. "drain" \in Steps /\ "guardRead" \in Steps
    BY DEF Steps
  <2>3. lease = p /\ file.j.kind = "none" /\ Planned(plan) /\ plan.rev = view.rev
    BY <1>1, <1>3, KnownToPlan DEF GuardWrite, At
  <2>4. view.rev + 4 <= MaxRev /\ next.rev + 3 <= MaxRev
    BY <1>2, <2>3, HomeSwitchAssumption DEF Planned
  <2>5. /\ Moved(p) /\ lease' = lease /\ plan' = plan
        /\ \/ proc'[p].pc = "drain" /\ view' = next /\ file' = next
           \/ /\ proc'[p].pc = "guardRead" /\ proc'[p].want = next /\ view' = view
              /\ file' = file \/ file' = next
    <3> HIDE DEF next
    <3> QED BY <1>2, <2>1, <2>2, WriteFact
  <2>6. CASE proc'[p].pc = "drain" /\ view' = next /\ file' = next
    <3> HIDE DEF next
    <3> QED BY <1>2, <2>3, <2>4, <2>5, <2>6, OwnerKnows
  <2>7. CASE /\ proc'[p].pc = "guardRead" /\ proc'[p].want = next /\ view' = view
             /\ file' = file \/ file' = next
    <3>1. next = ResumeGuardSnapshot(view, plan, p)' /\ Planned(plan)'
      BY <2>3, <2>5, <2>7 DEF Planned
    <3> HIDE DEF next
    <3>2. Knows(p)'
      BY <2>3, <2>4, <2>5, <2>7, <3>1, Zenon DEF Knows, Owning
    <3> QED BY <2>5, <3>2
  <2> QED BY <2>5, <2>6, <2>7
<1>4. CASE Unreadable(p, "guardRead", view)
  BY <1>1, <1>4, UnreadableFact
<1>5. CASE /\ At(p, "guardRead") /\ ResumeGuardMatches(file, proc[p].want.j)
           /\ GotoWith(p, "drain", file) /\ UNCHANGED <<lease, work, boot>> /\ NoWrite /\ NoFault
  <2>1. lease = p /\ file = next /\ view.rev + 4 <= MaxRev
    BY <1>1, <1>5, KnownToReader DEF At, ResumeGuardMatches
  <2>2. file.j.kind = "resume" /\ file.rev + 3 <= MaxRev
    BY <1>2, <2>1, HomeSwitchAssumption
  <2>3. "drain" \in Steps
    BY DEF Steps
  <2>4. /\ proc' \in [Procs -> ProcT] /\ Alone(p) /\ proc'[p].pc = "drain"
        /\ proc'[p].view = file /\ proc'[p].plan = plan
    BY <1>1, <1>5, <2>3, GotoWithFact
  <2>5. Moved(p) /\ file' = file
    BY <1>1, <1>5, <2>4, MoveFact DEF Typed, LeaseStep
  <2>6. Knows(p)'
    BY <1>1, <1>5, <2>1, <2>2, <2>4, <2>5, KnownToCall, OwnerKnows, Zenon
  <2> QED BY <2>5, <2>6
<1>6. CASE /\ GuardRead(p) /\ ~Unreadable(p, "guardRead", view)
           /\ ~ResumeGuardMatches(file, proc[p].want.j)
  <2> DEFINE X == ResolvedSwitchMatches(file, plan.target, plan.id, "completed")
  <2>1. Done(p, file, ~X) /\ NoWrite /\ NoFault /\ UNCHANGED boot
    BY <1>6 DEF GuardRead
  <2>2. (~X) \in BOOLEAN
    BY DEF ResolvedSwitchMatches
  <2> HIDE DEF X
  <2>3. \E e \in BOOLEAN : Done(p, file, e)
    BY <1>1, <2>1, <2>2, ZenonT(60)
  <2> QED BY <1>1, <2>1, <2>3, ReturnMoves
<1> QED BY <1>3, <1>4, <1>5, <1>6 DEF GuardRead

(* A call that owns the switch goes on without a write.                    *)
LEMMA OwnMoves ==
    ASSUME HomeInv, NEW p \in Procs, NoWrite, UNCHANGED lease, lease = p,
           proc' \in [Procs -> ProcT], Alone(p), proc'[p].plan = proc[p].plan,
           proc'[p].view = file,
           \/ proc'[p].pc \in {"drain", "pend"} /\ file.j.kind = "resume" /\ file.rev + 3 <= MaxRev
           \/ proc'[p].pc \in {"resume", "clear"} /\ file.j.kind = "resume"
           \/ proc'[p].pc \in {"start", "freeze", "status", "back", "final"} /\ file.j.kind = "switch",
           work' \in [Procs -> WorkT],
           boot' \in [Ids -> {"not_started", "started", "ready", "failed"}],
           Fault \/ NoFault
    PROVE  Moved(p) /\ Knows(p)' /\ file' = file
<1>1. Knows(p) /\ Typed
  BY DEF HomeInv
<1>2. Moved(p) /\ file' = file
  BY <1>1, MoveFact DEF Typed, LeaseStep
<1>3. Knows(p)'
  BY <1>1, <1>2, KnownToCall, OwnerKnows
<1> QED BY <1>2, <1>3

(* The old generation is drained, or the guard is worked off.              *)
LEMMA DrainMoves ==
    ASSUME HomeInv, NEW p \in Procs, Drain(p)
    PROVE  Moved(p) /\ Knows(p)' /\ file' = file
<1>1. /\ Knows(p) /\ Typed /\ proc \in [Procs -> ProcT] /\ work \in [Procs -> WorkT]
      /\ proc[p].pc = "drain" /\ NoWrite /\ UNCHANGED <<lease, boot>>
  BY Known DEF Drain, At
<1>2. /\ lease = p /\ file = proc[p].view /\ file.j.kind = "resume" /\ file.rev + 3 <= MaxRev
  BY <1>1, KnownToCall DEF Calling, Owning
<1>3. \E e \in BOOLEAN, step \in {"pend", "resume"} : GotoErr(p, step, e)
  <2>1. CASE Goto(p, "pend")
    <3>1. GotoErr(p, "pend", proc[p].err) /\ proc[p].err \in BOOLEAN
      BY <1>1, <2>1, Zenon DEF Goto, GotoErr, ProcT
    <3> QED BY <3>1
  <2>2. CASE proc' = [proc EXCEPT ![p].pc = "resume", ![p].err = TRUE]
    <3>1. GotoErr(p, "resume", TRUE)
      BY <2>2 DEF GotoErr
    <3> QED BY <3>1, Zenon
  <2> QED BY <2>1, <2>2 DEF Drain
<1>4. PICK e \in BOOLEAN, step \in {"pend", "resume"} : GotoErr(p, step, e)
  BY <1>3
<1>5. step \in Steps
  BY DEF Steps
<1>6. /\ proc' \in [Procs -> ProcT] /\ Alone(p) /\ proc'[p].pc = step
      /\ proc'[p].view = proc[p].view /\ proc'[p].plan = proc[p].plan
  BY <1>1, <1>4, <1>5, GotoErrFact
<1>7. work' \in [Procs -> WorkT] /\ (Fault \/ NoFault)
  <2>1. work' = work \/ work' = [work EXCEPT ![p].open = 0]
    BY DEF Drain
  <2> QED BY <1>1, <2>1 DEF WorkT, Drain
<1> QED BY <1>1, <1>2, <1>6, <1>7, OwnMoves DEF Typed

(* The pending switch is written, or read back.                            *)
LEMMA PendingMoves ==
    ASSUME HomeInv, NEW p \in Procs, PendingWrite(p) \/ PendingRead(p)
    PROVE  Moved(p) /\ Knows(p)'
<1> DEFINE view == proc[p].view
           plan == proc[p].plan
           next == PendingSnapshot(view, plan)
<1>1. /\ Knows(p) /\ file \in FileT /\ view \in FileT /\ plan \in PlanT
      /\ proc \in [Procs -> ProcT] /\ Typed
  BY Known, Zenon
<1>2. next \in FileT /\ next.j.kind = "switch"
  BY <1>1, PendingFact
<1>3. CASE PendingWrite(p)
  <2>1. Write(p, next, "start", "pendRead") /\ (Replace(p, next) => Replaced(p))
    BY <1>3, PendingReplaced DEF PendingWrite
  <2>2. "start" \in Steps /\ "pendRead" \in Steps
    BY DEF Steps
  <2>3. lease = p /\ file = view /\ view.rev + 3 <= MaxRev /\ view.j.kind = "resume"
    BY <1>1, <1>3, KnownToCall DEF PendingWrite, At, Calling, Owning
  <2>4. /\ Moved(p) /\ lease' = lease /\ plan' = plan
        /\ \/ proc'[p].pc = "start" /\ view' = next /\ file' = next
           \/ /\ proc'[p].pc = "pendRead" /\ proc'[p].want = next /\ view' = view
              /\ file' = file \/ file' = next
    <3> HIDE DEF next
    <3> QED BY <1>2, <2>1, <2>2, WriteFact
  <2>5. CASE proc'[p].pc = "start" /\ view' = next /\ file' = next
    <3> HIDE DEF next
    <3> QED BY <1>1, <1>2, <2>3, <2>4, <2>5, KnownToCall, OwnerKnows
  <2>6. CASE /\ proc'[p].pc = "pendRead" /\ proc'[p].want = next /\ view' = view
             /\ file' = file \/ file' = next
    <3>1. next = PendingSnapshot(view, plan)'
      BY <2>4, <2>6
    <3> HIDE DEF next
    <3>2. Knows(p)'
      BY <1>1, <2>3, <2>4, <2>6, <3>1, Zenon DEF Knows, Owning, Planned
    <3> QED BY <2>4, <3>2
  <2> QED BY <2>4, <2>5, <2>6
<1>4. CASE Unreadable(p, "pendRead", view)
  BY <1>1, <1>4, UnreadableFact
<1>5. CASE At(p, "pendRead") /\ PendingRead(p) /\ ~Unreadable(p, "pendRead", view)
  <2>1. /\ lease = p /\ proc[p].want = next /\ view.j.kind = "resume"
        /\ file = view \/ file = next
    BY <1>1, <1>5, KnownToReader, Zenon DEF At
  <2>2. NoWrite /\ NoFault /\ UNCHANGED boot
    BY <1>5 DEF PendingRead
  <2>3. CASE GotoWith(p, "start", file) /\ UNCHANGED <<lease, work>> /\ file.j = proc[p].want.j
    <3>1. file.j.kind = "switch"
      BY <1>2, <2>1, <2>3
    <3>2. "start" \in Steps
      BY DEF Steps
    <3>3. /\ proc' \in [Procs -> ProcT] /\ Alone(p) /\ proc'[p].pc = "start"
          /\ proc'[p].view = file /\ proc'[p].plan = plan
      BY <1>1, <2>3, <3>2, GotoWithFact
    <3> QED BY <1>1, <2>1, <2>2, <2>3, <3>1, <3>3, OwnMoves DEF Typed
  <2>4. CASE /\ proc' = [proc EXCEPT ![p].pc = "resume", ![p].view = file, ![p].err = TRUE]
             /\ UNCHANGED <<lease, work>> /\ ResumeGuardMatches(file, proc[p].view.j)
    <3>1. file.j.kind = "resume"
      BY <2>4 DEF ResumeGuardMatches
    <3>2. /\ proc' \in [Procs -> ProcT] /\ Alone(p) /\ proc'[p].pc = "resume"
          /\ proc'[p].view = file /\ proc'[p].plan = plan
      <4> DEFINE r == [proc[p] EXCEPT !.pc = "resume", !.view = file, !.err = TRUE]
      <4>1. proc' = [proc EXCEPT ![p] = r]
        BY <1>1, <2>4, Zenon DEF ProcT
      <4>2. r \in ProcT /\ r.pc = "resume" /\ r.view = file /\ r.plan = plan
        BY <1>1, Zenon DEF ProcT, Steps
      <4> HIDE DEF r
      <4> QED BY <1>1, <4>1, <4>2 DEF Alone
    <3> QED BY <1>1, <2>1, <2>2, <2>4, <3>1, <3>2, OwnMoves DEF Typed
  <2> DEFINE X == ResolvedSwitchMatches(file, proc[p].want.home, plan.id, "completed")
  <2>5. CASE Done(p, file, ~X)
    <3>1. (~X) \in BOOLEAN
      BY DEF ResolvedSwitchMatches
    <3> HIDE DEF X
    <3>2. \E e \in BOOLEAN : Done(p, file, e)
      BY <2>5, <3>1, Zenon
    <3> QED BY <1>1, <2>2, <3>2, ReturnMoves
  <2> QED BY <1>5, <2>3, <2>4, <2>5 DEF PendingRead
<1> QED BY <1>3, <1>4, <1>5 DEF PendingRead

(* The bootstrap is started, and its plan frozen.                          *)
LEMMA BootstrapMoves ==
    ASSUME HomeInv, NEW p \in Procs, StartBootstrap(p) \/ FreezePlan(p)
    PROVE  Moved(p) /\ Knows(p)' /\ file' = file
<1>1. /\ Knows(p) /\ Typed /\ proc \in [Procs -> ProcT] /\ proc[p].plan.id \in Ids
      /\ NoWrite /\ UNCHANGED <<lease, work>> /\ (Fault \/ NoFault)
  BY DEF HomeInv, Typed, StartBootstrap, FreezePlan, ProcT, PlanT
<1>2. lease = p /\ file = proc[p].view /\ file.j.kind = "switch"
  BY <1>1, KnownToCall DEF StartBootstrap, FreezePlan, At, Calling, Owning
<1>3. \E e \in BOOLEAN, step \in {"final", "freeze", "status"} : GotoErr(p, step, e)
  <2>1. ASSUME NEW step \in {"final", "freeze"}, Goto(p, step)
        PROVE  \E e \in BOOLEAN : GotoErr(p, step, e)
    <3>1. GotoErr(p, step, proc[p].err) /\ proc[p].err \in BOOLEAN
      BY <1>1, <2>1, Zenon DEF Goto, GotoErr, ProcT
    <3> QED BY <3>1
  <2>2. CASE proc' = [proc EXCEPT ![p].pc = "status", ![p].err = TRUE]
    <3>1. GotoErr(p, "status", TRUE)
      BY <2>2 DEF GotoErr
    <3> QED BY <3>1, Zenon
  <2> QED BY <2>1, <2>2 DEF StartBootstrap, FreezePlan
<1>4. PICK e \in BOOLEAN, step \in {"final", "freeze", "status"} : GotoErr(p, step, e)
  BY <1>3
<1>5. step \in Steps
  BY DEF Steps
<1>6. /\ proc' \in [Procs -> ProcT] /\ Alone(p) /\ proc'[p].pc = step
      /\ proc'[p].view = proc[p].view /\ proc'[p].plan = proc[p].plan
  BY <1>1, <1>4, <1>5, GotoErrFact
<1>7. boot' \in [Ids -> {"not_started", "started", "ready", "failed"}]
  BY <1>1 DEF Typed, StartBootstrap, FreezePlan
<1> QED BY <1>1, <1>2, <1>6, <1>7, OwnMoves DEF Typed

(* The bootstrap's fate decides about the pending switch.                  *)
LEMMA ResolveMoves ==
    ASSUME HomeInv, NEW p \in Procs, ResolvePending(p)
    PROVE  Moved(p) /\ Knows(p)' /\ file' = file
<1>1. /\ Knows(p) /\ Typed /\ proc \in [Procs -> ProcT] /\ proc[p].view \in FileT
  BY Known, Zenon
<1>2. CASE Unreadable(p, "status", proc[p].view)
  BY <1>1, <1>2, UnreadableFact
<1>3. CASE ResolvePending(p) /\ ~Unreadable(p, "status", proc[p].view)
  <2>1. proc[p].pc = "status" /\ NoWrite /\ NoFault /\ UNCHANGED <<lease, work, boot>>
    BY <1>3 DEF ResolvePending, At
  <2>2. lease = p /\ file = proc[p].view /\ file.j.kind = "switch"
    BY <1>1, <2>1, KnownToCall DEF Calling, Owning
  <2>3. \E e \in BOOLEAN, step \in {"back", "final"} : GotoErr(p, step, e)
    <3>1. CASE Goto(p, "back")
      <4>1. GotoErr(p, "back", proc[p].err) /\ proc[p].err \in BOOLEAN
        BY <1>1, <3>1, Zenon DEF Goto, GotoErr, ProcT
      <4> QED BY <4>1
    <3>2. CASE proc' = [proc EXCEPT ![p].pc = "final", ![p].err = FALSE]
      <4>1. GotoErr(p, "final", FALSE)
        BY <3>2 DEF GotoErr
      <4> QED BY <4>1, Zenon
    <3> QED BY <1>3, <3>1, <3>2 DEF ResolvePending
  <2>4. PICK e \in BOOLEAN, step \in {"back", "final"} : GotoErr(p, step, e)
    BY <2>3
  <2>5. step \in Steps
    BY DEF Steps
  <2>6. /\ proc' \in [Procs -> ProcT] /\ Alone(p) /\ proc'[p].pc = step
        /\ proc'[p].view = proc[p].view /\ proc'[p].plan = proc[p].plan
    BY <1>1, <2>4, <2>5, GotoErrFact
  <2> QED BY <1>1, <2>1, <2>2, <2>6, OwnMoves DEF Typed
<1> QED BY <1>2, <1>3

(* The rollback is written, or read back.                                  *)
LEMMA RollbackMoves ==
    ASSUME HomeInv, NEW p \in Procs, RollbackPending(p) \/ PersistResumeMarker(p)
    PROVE  Moved(p) /\ Knows(p)'
<1> DEFINE view == proc[p].view
           next == RollbackSnapshot(view)
<1>1. /\ Knows(p) /\ file \in FileT /\ view \in FileT
      /\ proc \in [Procs -> ProcT] /\ Typed /\ proc[p].err \in BOOLEAN
  BY Known, Zenon
<1>2. next \in FileT /\ next.j.kind = "resume"
  BY <1>1, RollbackFact
<1>3. CASE RollbackPending(p)
  <2>1. Write(p, next, "resume", "backRead") /\ (Replace(p, next) => Replaced(p))
    BY <1>3, RollbackReplaced DEF RollbackPending
  <2>2. "resume" \in Steps /\ "backRead" \in Steps
    BY ZenonT(60) DEF Steps
  <2>3. lease = p /\ file = view /\ view.j.kind = "switch"
    BY <1>1, <1>3, KnownToCall DEF RollbackPending, At, Calling, Owning
  <2>4. view.rev + 2 <= MaxRev
    BY <2>3 DEF HomeInv, Sound
  <2>5. /\ Moved(p) /\ lease' = lease /\ proc'[p].plan = proc[p].plan
        /\ \/ proc'[p].pc = "resume" /\ view' = next /\ file' = next
           \/ /\ proc'[p].pc = "backRead" /\ proc'[p].want = next /\ view' = view
              /\ file' = file \/ file' = next
    <3> HIDE DEF next
    <3> QED BY <1>2, <2>1, <2>2, WriteFact
  <2>6. CASE proc'[p].pc = "resume" /\ view' = next /\ file' = next
    <3> HIDE DEF next
    <3> QED BY <1>1, <1>2, <2>3, <2>5, <2>6, KnownToCall, OwnerKnows
  <2>7. CASE /\ proc'[p].pc = "backRead" /\ proc'[p].want = next /\ view' = view
             /\ file' = file \/ file' = next
    <3>1. next = RollbackSnapshot(view)'
      BY <2>7
    <3> HIDE DEF next
    <3>2. Knows(p)'
      BY <1>1, <2>3, <2>4, <2>5, <2>7, <3>1, ZenonT(60) DEF Knows, Owning, Planned
    <3> QED BY <2>5, <3>2
  <2> QED BY <2>5, <2>6, <2>7
<1>4. CASE Unreadable(p, "backRead", NoFile)
  BY <1>4, Constants, UnreadableFact
<1>5. CASE PersistResumeMarker(p) /\ ~Unreadable(p, "backRead", NoFile)
  <2>1. proc[p].pc = "backRead" /\ NoWrite /\ NoFault /\ UNCHANGED boot
    BY <1>5, ZenonT(60) DEF PersistResumeMarker, At
  <2>2. lease = p /\ proc[p].want = next
    BY <1>1, <2>1, KnownToReader
  <2>3. CASE file = proc[p].want /\ GotoWith(p, "resume", file) /\ UNCHANGED <<lease, work>>
    <3>1. file.j.kind = "resume"
      BY <1>2, <2>2, <2>3
    <3>2. "resume" \in Steps
      BY DEF Steps
    <3>3. /\ proc' \in [Procs -> ProcT] /\ Alone(p) /\ proc'[p].pc = "resume"
          /\ proc'[p].view = file /\ proc'[p].plan = proc[p].plan
      BY <1>1, <2>3, <3>2, GotoWithFact
    <3> QED BY <1>1, <2>1, <2>2, <2>3, <3>1, <3>3, OwnMoves DEF Typed
  <2>4. CASE Done(p, file, proc[p].err)
    BY <1>1, <2>1, <2>4, ReturnMoves
  <2>5. CASE Done(p, file, TRUE)
    <3>1. \E e \in BOOLEAN : Done(p, file, e)
      BY <2>5, Zenon
    <3> QED BY <1>1, <2>1, <3>1, ReturnMoves
  <2> QED BY <1>5, <2>3, <2>4, <2>5, Zenon DEF PersistResumeMarker
<1> QED BY <1>3, <1>4, <1>5

(* The old generation is resumed, or the call returns with the debt.       *)
LEMMA ResumeMoves ==
    ASSUME HomeInv, NEW p \in Procs, Resume(p)
    PROVE  Moved(p) /\ Knows(p)' /\ file' = file
<1>1. /\ Knows(p) /\ Typed /\ proc \in [Procs -> ProcT] /\ proc[p].view \in FileT
      /\ work \in [Procs -> WorkT] /\ proc[p].pc = "resume" /\ NoWrite /\ UNCHANGED boot
  BY Known DEF Resume, At
<1>2. lease = p /\ file = proc[p].view /\ file.j.kind = "resume"
  BY <1>1, KnownToCall DEF Calling, Owning
<1>3. CASE /\ NoFault /\ Goto(p, "clear") /\ UNCHANGED lease
           /\ work' = IF ViaWorker(p) THEN [work EXCEPT ![p].open = proc[p].view.j.from] ELSE work
  <2>1. "clear" \in Steps /\ proc[p].view.j.from \in Nat
    BY <1>1 DEF Steps, FileT, JournalT
  <2>2. work' \in [Procs -> WorkT]
    BY <1>1, <1>3, <2>1 DEF WorkT
  <2>3. /\ proc' \in [Procs -> ProcT] /\ Alone(p) /\ proc'[p].pc = "clear"
        /\ proc'[p].view = proc[p].view /\ proc'[p].plan = proc[p].plan
    BY <1>1, <1>3, <2>1, GotoFact
  <2> QED BY <1>1, <1>2, <1>3, <2>2, <2>3, OwnMoves DEF Typed
<1>4. CASE Done(p, proc[p].view, TRUE) /\ (Fault \/ NoFault)
  <2>1. \E e \in BOOLEAN : Done(p, proc[p].view, e)
    BY <1>4, Zenon
  <2> QED BY <1>1, <1>4, <2>1, ReturnMoves
<1> QED BY <1>3, <1>4, Zenon DEF Resume

(* The rollback is recorded.                                               *)
LEMMA ResumedMoves ==
    ASSUME HomeInv, NEW p \in Procs, ResumedWrite(p)
    PROVE  Moved(p) /\ Knows(p)'
<1> DEFINE next == ResumedSnapshot(proc[p].view)
<1>1. Knows(p) /\ proc[p].view \in FileT /\ proc[p].pc = "clear"
  BY Known DEF ResumedWrite, At
<1>2. /\ WriteAndReturn(p, next, "clearRead") /\ (Replace(p, next) => Replaced(p))
      /\ next \in FileT
  BY <1>1, ResumedReplaced, ResumedFact, Zenon DEF ResumedWrite
<1>3. "clearRead" \in Steps /\ lease = p
  BY <1>1, KnownToCall DEF Steps, Calling
<1> HIDE DEF next
<1>4. /\ Moved(p)
      /\ \/ Knows(p)'
         \/ lease' = lease /\ proc'[p].plan = proc[p].plan /\ proc'[p].pc = "clearRead"
  BY <1>2, <1>3, WriteAndReturnFact
<1> QED BY <1>1, <1>3, <1>4, Zenon DEF Knows, Owning, Planned

(* The switch is completed, or its last snapshot is refused.               *)
LEMMA FinalMoves ==
    ASSUME HomeInv, NEW p \in Procs, FinalizePending(p)
    PROVE  Moved(p) /\ Knows(p)'
<1> DEFINE next == FinalSnapshot(proc[p].view)
<1>1. Knows(p) /\ proc[p].view \in FileT /\ proc[p].pc = "final"
  BY Known DEF FinalizePending, At
<1>2. CASE WriteAndReturn(p, next, "finalRead")
  <2>1. (Replace(p, next) => Replaced(p)) /\ next \in FileT
    BY <1>1, FinalReplaced, FinalFact, Zenon DEF At
  <2>2. "finalRead" \in Steps /\ lease = p
    BY <1>1, KnownToCall DEF Steps, Calling
  <2> HIDE DEF next
  <2>3. /\ Moved(p)
        /\ \/ Knows(p)'
           \/ lease' = lease /\ proc'[p].plan = proc[p].plan /\ proc'[p].pc = "finalRead"
    BY <1>2, <2>1, <2>2, WriteAndReturnFact
  <2> QED BY <1>1, <2>2, <2>3, ZenonT(60) DEF Knows, Owning, Planned
<1>3. CASE Done(p, proc[p].view, TRUE) /\ NoWrite /\ NoFault /\ UNCHANGED boot
  <2>1. \E e \in BOOLEAN : Done(p, proc[p].view, e)
    BY <1>3, Zenon
  <2> QED BY <1>1, <1>3, <2>1, ReturnMoves
<1> QED BY <1>2, <1>3, Zenon DEF FinalizePending

(* The last write of a switch is read back.                                *)
LEMMA ResolutionMoves ==
    ASSUME HomeInv, NEW p \in Procs, NEW step, PersistResolution(p, step)
    PROVE  Moved(p) /\ Knows(p)' /\ file' = file
<1> DEFINE e == IF /\ file.det = proc[p].want.det
                   /\ ResolvedSwitchMatches(file, proc[p].want.home,
                         proc[p].want.last.id, proc[p].want.last.out)
                THEN proc[p].err ELSE TRUE
<1>1. file \in FileT /\ proc[p].err \in BOOLEAN
  BY Known, Zenon
<1>2. CASE Unreadable(p, step, NoFile)
  BY <1>2, Constants, UnreadableFact
<1>3. CASE Done(p, file, e) /\ NoWrite /\ NoFault /\ UNCHANGED boot
  <2>1. e \in BOOLEAN
    BY <1>1, Zenon
  <2> HIDE DEF e
  <2>2. \E x \in BOOLEAN : Done(p, file, x)
    BY <1>3, <2>1, Zenon
  <2> QED BY <1>1, <1>3, <2>2, ReturnMoves
<1> QED BY <1>2, <1>3, Zenon DEF PersistResolution

(* The initial file is sound, and nobody is in a call.                     *)
LEMMA InitHome == Init => HomeInv
<1> SUFFICES ASSUME Init PROVE HomeInv
  OBVIOUS
<1>1. PICK h \in Homes \cup {"none"}, v \in Settings :
         file = [NoFile EXCEPT
                   !.rev = 1, !.set = v,
                   !.home = IF h = "none" THEN NoHome
                            ELSE [NoHome EXCEPT !.src = h, !.gen = 1]]
  BY Zenon DEF Init
<1> DEFINE home == IF h = "none" THEN NoHome ELSE [NoHome EXCEPT !.src = h, !.gen = 1]
<1>2. home \in HomeT
  BY Constants, Zenon DEF HomeT
<1> HIDE DEF home
<1>3. /\ file \in FileT /\ file.rev = 1 /\ file.home = home /\ file.det = << >>
      /\ file.j = NoJournal /\ file.last = NoAudit
  <2>1. file = [NoFile EXCEPT !.rev = 1, !.set = v, !.home = home]
    BY <1>1 DEF home
  <2>2. /\ NoFile \in FileT /\ NoFile.det = << >> /\ NoFile.j = NoJournal
        /\ NoFile.last = NoAudit
    BY Constants DEF NoFile
  <2> QED BY <1>2, <2>1, <2>2, Zenon DEF FileT
<1>4. file.j.kind = "none"
  BY <1>3, Constants
<1>5. Typed
  <2>1. Down \in ProcT /\ Off \in WorkT
    BY Constants, FreshTyped, Zenon DEF Off, WorkT, Bindings
  <2>2. faults \in 0..MaxFaults
    BY HomeSwitchAssumption DEF Init
  <2> QED BY <1>3, <2>1, <2>2 DEF Init, Typed
<1>6. ValidatePreferences(file)
  <2>1. Len(file.det) <= DetachedLimit /\ DOMAIN file.det = {}
    BY <1>3, HomeSwitchAssumption
  <2>2. ValidDetachedHomes(file)
    BY <1>3, <2>1 DEF ValidDetachedHomes
  <2> QED BY <1>3, <1>4, <2>2 DEF ValidatePreferences
<1>7. Sound
  BY <1>3, <1>4, <1>6, HomeSwitchAssumption DEF Sound
<1>8. Audited /\ BaseKept
  BY <1>3, <1>4 DEF Init, Audited, BaseKept
<1>9. ASSUME NEW p \in Procs PROVE Knows(p)
  <2>1. proc[p].pc = "down" /\ proc[p].plan = NoPlan
    BY Constants, FreshTyped, ZenonT(60) DEF Init
  <2> QED BY <2>1 DEF Knows, Calling, Owning
<1> QED BY <1>5, <1>7, <1>8, <1>9 DEF HomeInv

(* A step of a process, and the writes it may be.                          *)
LEMMA ProcessMoves ==
    ASSUME HomeInv, NEW p \in Procs,
           \/ \E v \in Settings : UpdateSettings(p, v)
           \/ \E h \in Homes, strat \in Strategies : PlanSwitch(p, h, strat)
           \/ ConfirmSwitch(p) \/ ConfirmAgain(p) \/ CallFails(p)
           \/ StartApplication(p) \/ RecoverHomeSwitch(p)
           \/ Settle(p)
           \/ StartWorker(p) \/ BindHomeRuntime(p) \/ OpenWorker(p)
           \/ Wake(p) \/ StopWorker(p)
           \/ Crash(p) \/ Quit(p)
    PROVE  /\ Moved(p) /\ Knows(p)'
           /\ file' = file \/ proc[p].pc # "set" \/ SettingsWrite(p)
<1>1. CASE \E v \in Settings : UpdateSettings(p, v)
  BY <1>1, UpdateMoves, ZenonT(60)
<1>2. CASE \E h \in Homes, strat \in Strategies : PlanSwitch(p, h, strat)
  BY <1>2, PlanMoves, ZenonT(60)
<1>3. CASE ConfirmSwitch(p) \/ ConfirmAgain(p) \/ CallFails(p)
  BY <1>3, ConfirmMoves, AgainMoves, CallFailsMoves, ZenonT(60)
<1>4. CASE StartApplication(p) \/ RecoverHomeSwitch(p) \/ StartWorker(p)
  BY <1>4, StartMoves, RecoverHomeMoves, StartWorkerMoves, ZenonT(60)
<1>5. CASE BindHomeRuntime(p) \/ OpenWorker(p) \/ Wake(p) \/ StopWorker(p)
  BY <1>5, WorkerMoves, ZenonT(60)
<1>6. CASE Crash(p) \/ Quit(p)
  BY <1>6, DeathMoves DEF Crash, Quit
<1>7. CASE Settle(p)
  <2>1. CASE SettingsWrite(p)
    BY <2>1, SettingsMoves, ZenonT(60)
  <2>2. CASE ReadbackSettings(p)
    BY <2>2, SettingsMoves, ZenonT(60) DEF ReadbackSettings, Unreadable, At
  <2>3. CASE InitialWrite(p) \/ InitialRead(p) \/ InitialStart(p)
    BY <2>3, InitialMoves, Zenon DEF InitialWrite, InitialRead, InitialStart, Unreadable, At
  <2>4. CASE GuardWrite(p) \/ GuardRead(p)
    BY <2>4, GuardMoves, Zenon DEF GuardWrite, GuardRead, Unreadable, At
  <2>5. CASE PendingWrite(p) \/ PendingRead(p)
    BY <2>5, PendingMoves, Zenon DEF PendingWrite, PendingRead, Unreadable, At
  <2>6. CASE RollbackPending(p) \/ PersistResumeMarker(p)
    BY <2>6, RollbackMoves, ZenonT(60) DEF RollbackPending, PersistResumeMarker, Unreadable, At
  <2>7. CASE ResumedWrite(p)
    BY <2>7, ResumedMoves DEF ResumedWrite, At
  <2>8. CASE FinalizePending(p)
    BY <2>8, FinalMoves, Zenon DEF FinalizePending, At
  <2>9. CASE Drain(p) \/ StartBootstrap(p) \/ FreezePlan(p) \/ ResolvePending(p)
    BY <2>9, DrainMoves, BootstrapMoves, ResolveMoves, ZenonT(60)
  <2>10. CASE \/ Resume(p) \/ PersistResolution(p, "clearRead")
              \/ PersistResolution(p, "finalRead") \/ Reopen(p)
    BY <2>10, ResumeMoves, ResolutionMoves, ReopenMoves, ZenonT(60)
  <2> QED BY <1>7, <2>1, <2>2, <2>3, <2>4, <2>5, <2>6, <2>7, <2>8, <2>9, <2>10, ZenonT(60) DEF Settle
<1> QED BY <1>1, <1>2, <1>3, <1>4, <1>5, <1>6, <1>7, ZenonT(60)

(* What NoLostUpdate says of a step.                                       *)
UpdateStep ==
    file'.set # file.set =>
      /\ \E p \in Procs : SettingsWrite(p)
      /\ file' = [file EXCEPT !.rev = @ + 1, !.set = file'.set]

(* Every step keeps the invariant and the three promises about steps.      *)
LEMMA HomeStep ==
    ASSUME HomeInv, [Next]_vars
    PROVE  HomeInv' /\ PromiseStep /\ DetachedStep /\ UpdateStep
<1>1. CASE UNCHANGED vars
  <2>1. UNCHANGED <<file, lease, proc, work, boot, outcomes, faults>>
    BY <1>1 DEF vars
  <2>2. (Typed /\ Sound /\ Audited /\ BaseKept)'
    BY <2>1 DEF HomeInv, Typed, Sound, Audited, BaseKept
  <2>3. \A p \in Procs : Knows(p)'
    BY <2>1, ZenonT(60) DEF HomeInv, Knows, Current
  <2>4. PromiseStep /\ DetachedStep /\ UpdateStep
    BY <2>1 DEF PromiseStep, SettledHome, DetachedStep, UpdateStep
  <2> QED BY <2>2, <2>3, <2>4 DEF HomeInv
<1>2. CASE \E id \in Ids : BootstrapFails(id)
  <2>1. UNCHANGED <<file, lease, proc, work, outcomes, faults>>
    BY <1>2, ZenonT(60) DEF BootstrapFails
  <2>2. (Typed /\ Sound /\ Audited /\ BaseKept)'
    BY <1>2, <2>1 DEF HomeInv, Typed, Sound, Audited, BaseKept, BootstrapFails
  <2>3. \A p \in Procs : Knows(p)'
    BY <2>1, ZenonT(60) DEF HomeInv, Knows, Current
  <2>4. PromiseStep /\ DetachedStep /\ UpdateStep
    BY <2>1 DEF PromiseStep, SettledHome, DetachedStep, UpdateStep
  <2> QED BY <2>2, <2>3, <2>4 DEF HomeInv
<1>3. CASE \E p \in Procs :
             /\ Moved(p) /\ Knows(p)'
             /\ file' = file \/ proc[p].pc # "set" \/ SettingsWrite(p)
  <2>1. PICK p \in Procs : /\ Moved(p) /\ Knows(p)'
                           /\ file' = file \/ proc[p].pc # "set" \/ SettingsWrite(p)
    BY <1>3
  <2>2. HomeInv'
    BY <2>1, LoudStep DEF Moved, Replaced
  <2>3. PromiseStep /\ DetachedStep
    BY <2>1 DEF Moved, Replaced
  <2>4. UpdateStep
    BY <2>1 DEF Moved, Replaced, SettingsStep, UpdateStep, At
  <2> QED BY <2>2, <2>3, <2>4
<1> QED BY <1>1, <1>2, <1>3, ProcessMoves, Zenon DEF Next

(* The inductive invariant of the switch: the file is valid, has room to   *)
(* resolve its journal, and every process knows of it what its position in *)
(* service.go relies on.                                                   *)
THEOREM HomeInvariant == Spec => []HomeInv
<1>1. HomeInv /\ [Next]_vars => HomeInv'
  BY HomeStep
<1> QED BY InitHome, <1>1, PTL DEF Spec

(* Types and bounds; validatePreferences holds of the file at every moment.*)
THEOREM FileAlwaysValid == Spec => []TypeOK
<1>1. HomeInv => TypeOK
  BY ZenonT(60) DEF HomeInv, Typed, Sound, TypeOK, ProcT, WorkT
<1> QED BY HomeInvariant, <1>1, PTL

(* From its guard on, a switch works on the snapshot on disk.              *)
THEOREM NobodyElseWrites == Spec => []NobodyInterferes
<1>1. HomeInv => NobodyInterferes
  BY DEF HomeInv, Knows, NobodyInterferes
<1> QED BY HomeInvariant, <1>1, PTL

(* The other preferences change only by an update of the settings.         *)
THEOREM UpdatesSurvive == Spec => NoLostUpdate
<1>1. HomeInv /\ [Next]_vars =>
        [file'.set # file.set =>
           /\ \E p \in Procs : SettingsWrite(p)
           /\ file' = [file EXCEPT !.rev = @ + 1, !.set = file'.set]]_vars
  BY HomeStep DEF UpdateStep
<1> QED BY HomeInvariant, <1>1, PTL DEF Spec, NoLostUpdate

(* A detached Home leaves the list only by becoming active again.          *)
THEOREM DetachedHomesKept == Spec => DetachedKept
<1>1. HomeInv /\ [Next]_vars =>
        [\A i \in DOMAIN file.det :
           \/ \E k \in DOMAIN file'.det : file'.det[k] = file.det[i]
           \/ file'.home.key = file.det[i].key /\ SameSource(file'.home, file.det[i])]_vars
  BY HomeStep DEF DetachedStep
<1> QED BY HomeInvariant, <1>1, PTL DEF Spec, DetachedKept

(* The journaled switch implements the atomic one.                         *)
THEOREM SwitchIsAtomic == Spec => Atomic
<1>1. Init => Promise!Init
  <2>1. Init => SettledHome.gen \in {0, 1}
    <3> SUFFICES ASSUME Init PROVE SettledHome.gen \in {0, 1}
      OBVIOUS
    <3>1. file.home.gen \in {0, 1} /\ file.j.kind = "none"
      BY DEF Init, NoFile, NoHome, NoJournal
    <3> QED BY <3>1 DEF SettledHome
  <2> QED BY <2>1, Zenon DEF Init, Promise!Init
<1>2. HomeInv /\ [Next]_vars => [Promise!Next]_<<SettledHome, outcomes>>
  BY HomeStep DEF PromiseStep
<1> QED BY HomeInvariant, <1>1, <1>2, PTL DEF Spec, Atomic, Promise!Spec

(* Going back from a pending switch is always a valid snapshot.            *)
LEMMA RollbackValid ==
    ASSUME HomeInv, file.j.kind = "switch"
    PROVE  ValidatePreferences(RollbackSnapshot(file))
<1> DEFINE next == RollbackSnapshot(file)
<1>1. file \in FileT /\ ValidatePreferences(file) /\ BaseKept /\ file.rev \in Nat
  BY DEF HomeInv, Typed, Sound, FileT
<1>2. /\ next.rev = file.rev + 1 /\ next.home = file.j.prev /\ next.det = file.det
      /\ next.j.kind = "resume" /\ next.j.from = file.j.from
  BY <1>1, RollbackFact
<1> HIDE DEF next
<1>3. file.home # NoHome /\ ValidSwitchJournal(file) /\ ValidDetachedHomes(file)
  BY <1>1 DEF ValidatePreferences
<1>4. file.j.prev # NoHome /\ file.j.prev.gen = file.j.from
  BY <1>1, <1>3 DEF BaseKept, ValidSwitchJournal
<1>5. ValidDetachedHomes(next)
  BY <1>1, <1>2, <1>3, <1>4 DEF ValidDetachedHomes, BaseKept
<1> QED BY <1>1, <1>2, <1>4, <1>5 DEF ValidatePreferences, next

(* Completing it is one while the list of detached Homes has room.         *)
LEMMA FinalValid ==
    ASSUME HomeInv, file.j.kind = "switch", Len(file.det) < DetachedLimit
    PROVE  ValidatePreferences(FinalSnapshot(file))
<1> DEFINE next == FinalSnapshot(file)
           filtered == DetachedWithoutDataStore(file.det, file.home.key)
<1>1. /\ file \in FileT /\ ValidatePreferences(file) /\ BaseKept /\ file.rev \in Nat
      /\ file.home \in HomeT /\ file.j.prev \in HomeT
  BY ZenonT(60) DEF HomeInv, Typed, Sound, FileT, JournalT
<1>2. /\ next.rev = file.rev + 1 /\ next.home = file.home /\ next.j.kind = "none"
      /\ file.j.strat = "independent" => next.det = Append(filtered, file.j.prev)
      /\ file.j.strat # "independent" => next.det = file.det
  BY <1>1, FinalFact, Constants, Zenon
<1>3. /\ file.det \in Seq(HomeT) /\ DOMAIN file.det = 1..Len(file.det) /\ Len(file.det) \in Nat
  BY <1>1, LenFact DEF FileT
<1>4. Copied(file.det, file.home.key, Len(file.det), filtered)
  BY <1>3, FilterFact
<1> HIDE DEF next, filtered
<1>5. file.home # NoHome /\ ValidSwitchJournal(file) /\ ValidDetachedHomes(file)
  BY <1>1 DEF ValidatePreferences
<1>6. /\ \A i \in DOMAIN file.det : file.det[i].gen < file.home.gen
      /\ \A i, k \in DOMAIN file.det : file.det[i].key = file.det[k].key => i = k
      /\ \A i \in DOMAIN file.det : file.det[i].key # file.j.prev.key
  BY <1>1, <1>5 DEF ValidDetachedHomes, BaseKept
<1>7. ValidDetachedHomes(next)
  <2>1. CASE file.j.strat # "independent"
    <3>1. file.home.key = file.j.prev.key
      BY <1>5, <2>1 DEF ValidSwitchJournal
    <3> QED BY <1>2, <1>3, <1>5, <1>6, <2>1, <3>1, HomeSwitchAssumption DEF ValidDetachedHomes
  <2>2. CASE file.j.strat = "independent"
    <3>1. file.home.key # file.j.prev.key /\ file.j.prev.gen < file.home.gen
      BY <1>1, <1>5, <2>2 DEF ValidSwitchJournal, HomeT
    <3>2. filtered \in Seq(HomeT) /\ Len(filtered) \in Nat /\ Len(filtered) <= Len(file.det)
      BY <1>4, LenFact DEF Copied
    <3>3. /\ Len(next.det) = Len(filtered) + 1 /\ DOMAIN next.det = 1..(Len(filtered) + 1)
          /\ \A i \in 1..Len(filtered) : next.det[i] = filtered[i]
          /\ next.det[Len(filtered) + 1] = file.j.prev
      BY <1>1, <1>2, <2>2, <3>2, AppendFact, LenFact
    <3>4. \A i \in DOMAIN next.det : i \in 1..Len(filtered) \/ i = Len(filtered) + 1
      BY <3>2, <3>3
    <3>5. \A i \in 1..Len(filtered) :
             /\ filtered[i].key # file.home.key /\ filtered[i].key # file.j.prev.key
             /\ filtered[i].gen < file.home.gen
      <4> TAKE i \in 1..Len(filtered)
      <4>1. PICK k \in DOMAIN file.det : filtered[i] = file.det[k]
        BY <1>3, <1>4, Zenon DEF Copied
      <4>2. filtered[i].key # file.home.key
        BY <1>4 DEF Copied
      <4> QED BY <1>6, <4>1, <4>2
    <3>6. \A i, k \in 1..Len(filtered) : filtered[i].key = filtered[k].key => i = k
      BY <1>4, <1>6 DEF Copied
    <3>7. \A i \in DOMAIN next.det :
             next.det[i].gen < file.home.gen /\ next.det[i].key # file.home.key
      BY <3>1, <3>3, <3>4, <3>5
    <3>8. \A i, k \in DOMAIN next.det : next.det[i].key = next.det[k].key => i = k
      BY <3>3, <3>4, <3>5, <3>6
    <3>9. Len(next.det) <= DetachedLimit
      BY <1>3, <3>2, <3>3, HomeSwitchAssumption
    <3> QED BY <1>2, <1>5, <3>7, <3>8, <3>9 DEF ValidDetachedHomes
  <2> QED BY <2>1, <2>2
<1> QED BY <1>1, <1>2, <1>5, <1>7 DEF ValidatePreferences, next

(* While the list of detached Homes has room, both snapshots that resolve  *)
(* a pending switch are valid, whatever switches led here.                 *)
THEOREM PendingIsResolvable == Spec => [](Len(file.det) < DetachedLimit => Resolvable)
<1>1. HomeInv => (Len(file.det) < DetachedLimit => Resolvable)
  BY RollbackValid, FinalValid DEF Resolvable
<1> QED BY HomeInvariant, <1>1, PTL

(* The way back is open even when the list is full.                        *)
THEOREM RollbackAlwaysValid ==
    Spec => [](file.j.kind = "switch" => ValidatePreferences(RollbackSnapshot(file)))
<1>1. HomeInv => (file.j.kind = "switch" => ValidatePreferences(RollbackSnapshot(file)))
  BY RollbackValid
<1> QED BY HomeInvariant, <1>1, PTL

=============================================================================
