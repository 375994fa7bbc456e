-------------------------- MODULE HomeServingProofs --------------------------
(***************************************************************************)
(* Proofs about the worker beside the switch, for an application that runs *)
(* in one process and is spared the races with a start or a wake: it serves*)
(* the active Home only, and a Home left closed is owed or reported.       *)
(***************************************************************************)
EXTENDS HomeSwitchProofs

\* A leaf that names no prover is tried with SMT, then with Zenon.
USE SMTT(30), ZenonT(30)

(* A Home that is configured has a generation.                             *)
Numbered(h) == h = NoHome \/ h.gen >= 1

(* What the one process of the application knows of its worker.            *)
Serves(p) ==
    LET pc == proc[p].pc
        kind == file.j.kind
        w == work[p]
    IN  /\ w.open # 0 => w.open = file.home.gen
        /\ kind = "switch" \/ pc \in {"pend", "pendRead"} => w.open = 0
        /\ pc \in Calling => w.next = 0 /\ w.bind # "starting"
        /\ w.next # 0 \/ w.bind = "starting" => kind # "switch"
        /\ w.bind = "starting" => w.next # 0
        /\ pc \in {"initRead", "initStart"} => kind = "none"
        /\ pc = "initStart" => proc[p].view.j.kind = "none"
        /\ pc = "reopen" => proc[p].view.home = NoHome \/ kind # "switch"
        /\ pc = "down" \/ (pc \in Calling /\ proc[p].why = "startup") => w = Off
        /\ pc \in {"set", "setRead"} => proc[p].why = "call"
        /\ pc \in Calling /\ w.bind = "attached" => proc[p].why = "reopen"
        /\ w.bind = "attached" /\ w.open = 0 =>
             pc \in Calling \cup {"reopen"} \/ kind # "none" \/ proc[p].err
        /\ Numbered(proc[p].view.home)

ServingInv ==
    /\ \A p \in Procs : Serves(p)
    /\ Numbered(file.home)
    /\ file.j.kind = "switch" => Numbered(file.j.prev)

(* The file after a step fits p's worker before it.                        *)
Fits(p) ==
    /\ work[p].open # 0 => work[p].open = file'.home.gen
    /\ file'.j.kind = "switch" => work[p].open = 0 /\ Numbered(file'.j.prev)
    /\ Numbered(file'.home)

-------------------------------------------------------------------------------
(* The replacements of the file.                                           *)

(* A file that stays fits.                                                 *)
LEMMA SameFits ==
    ASSUME ServingInv, NEW p \in Procs, file' = file
    PROVE  Fits(p)
BY DEF ServingInv, Serves, Fits

(* So does one with the same Home and no pending switch.                   *)
LEMMA SameHomeFits ==
    ASSUME ServingInv, NEW p \in Procs, file'.home = file.home, file'.j.kind # "switch"
    PROVE  Fits(p)
BY DEF ServingInv, Serves, Fits

(* An update of the settings leaves Home and journal alone.                *)
LEMMA SettingsFits ==
    ASSUME HomeInv, ServingInv, NEW p \in Procs, At(p, "set"), Replace(p, proc[p].want)
    PROVE  Fits(p) /\ file'.j = file.j
<1>1. /\ Knows(p) /\ proc[p].view \in FileT /\ proc[p].want \in FileT /\ file \in FileT
      /\ proc[p].pc = "set"
  BY Known DEF At
<1>2. PICK v \in Settings : proc[p].want = SettingsSnapshot(proc[p].view, v)
  BY <1>1 DEF Knows
<1>3. file = proc[p].view
  BY <1>1 DEF Knows, Current, Replace
<1>4. file'.home = file.home /\ file'.j = file.j /\ file.j.kind = "none"
  BY <1>1, <1>2, <1>3, SettingsFact, ZenonT(60) DEF Replace, Knows
<1> QED BY <1>4, SameHomeFits

(* Nothing is open before there is a Home.                                 *)
LEMMA InitialFits ==
    ASSUME HomeInv, ServingInv, NEW p \in Procs, At(p, "initial"),
           Replace(p, InitialSnapshot(proc[p].view, proc[p].plan))
    PROVE  Fits(p) /\ file'.j.kind = "none"
<1> DEFINE view == proc[p].view
           plan == proc[p].plan
<1>1. Knows(p) /\ view \in FileT /\ plan \in PlanT /\ proc[p].pc = "initial" /\ file \in FileT
  BY Known DEF At
<1>2. file = view
  BY <1>1 DEF Knows, Current, Replace
<1>3. view.home = NoHome /\ view.j.kind = "none" /\ Planned(plan)
  BY <1>1 DEF Knows
<1>4. file'.home = plan.target /\ file'.j = view.j
  BY <1>1, InitialFact, Zenon DEF Replace
<1>5. work[p].open = 0
  BY <1>2, <1>3, Constants DEF ServingInv, Serves
<1>6. plan.target.gen >= 1
  BY <1>1, <1>3 DEF Planned, PlanT, HomeT
<1> QED BY <1>3, <1>4, <1>5, <1>6 DEF Fits, Numbered

(* The guard keeps the Home.                                               *)
LEMMA GuardFits ==
    ASSUME HomeInv, ServingInv, NEW p \in Procs, At(p, "guard"),
           Replace(p, ResumeGuardSnapshot(proc[p].view, proc[p].plan, p))
    PROVE  Fits(p)
<1> DEFINE view == proc[p].view
<1>1. /\ Knows(p) /\ view \in FileT /\ proc[p].plan \in PlanT /\ proc[p].pc = "guard"
      /\ file \in FileT
  BY Known DEF At
<1>2. file = view
  BY <1>1 DEF Knows, Current, Replace
<1>3. file'.home = view.home /\ file'.j.kind = "resume"
  BY <1>1, GuardFact DEF Replace
<1> QED BY <1>2, <1>3, SameHomeFits

(* The target becomes active when the old generation is closed.            *)
LEMMA PendingFits ==
    ASSUME HomeInv, ServingInv, NEW p \in Procs, At(p, "pend"),
           Replace(p, PendingSnapshot(proc[p].view, proc[p].plan))
    PROVE  Fits(p)
<1> DEFINE view == proc[p].view
           plan == proc[p].plan
<1>1. Knows(p) /\ view \in FileT /\ plan \in PlanT /\ proc[p].pc = "pend" /\ file \in FileT
  BY Known DEF At
<1>2. file = view
  BY <1>1, KnownToCall DEF Owning
<1>3. file'.home = plan.target /\ file'.j.prev = view.home
  BY <1>1, PendingFact DEF Replace
<1>4. work[p].open = 0 /\ Numbered(file.home)
  BY <1>1 DEF ServingInv, Serves
<1>5. Numbered(plan.target)
  BY <1>1 DEF Knows, Planned, PlanT, HomeT, Numbered, NoPlan
<1> QED BY <1>2, <1>3, <1>4, <1>5 DEF Fits

(* A pending switch, whichever way it ends, ends with the Home closed.     *)
LEMMA ResolvedFits ==
    ASSUME HomeInv, ServingInv, NEW p \in Procs,
           \/ At(p, "back") /\ Replace(p, RollbackSnapshot(proc[p].view))
           \/ At(p, "final") /\ Replace(p, FinalSnapshot(proc[p].view))
    PROVE  Fits(p)
<1> DEFINE view == proc[p].view
<1>1. Knows(p) /\ view \in FileT /\ proc[p].pc \in {"back", "final"}
  BY Known DEF At
<1>2. file = view /\ file.j.kind = "switch"
  BY <1>1, KnownToCall DEF Owning
<1>3. work[p].open = 0 /\ Numbered(file.home) /\ Numbered(file.j.prev)
  BY <1>2 DEF ServingInv, Serves
<1>4. file'.j.kind # "switch" /\ (file'.home = view.home \/ file'.home = view.j.prev)
  <2>1. CASE Replace(p, RollbackSnapshot(view))
    BY <1>1, <2>1, RollbackFact DEF Replace
  <2>2. CASE Replace(p, FinalSnapshot(view))
    BY <1>1, <2>2, FinalFact, Constants, Zenon DEF Replace
  <2> QED BY <2>1, <2>2
<1> QED BY <1>2, <1>3, <1>4 DEF Fits

(* The audit of a rollback keeps the Home.                                 *)
LEMMA ResumedFits ==
    ASSUME HomeInv, ServingInv, NEW p \in Procs, At(p, "clear"),
           Replace(p, ResumedSnapshot(proc[p].view))
    PROVE  Fits(p)
<1> DEFINE view == proc[p].view
<1>1. Knows(p) /\ view \in FileT /\ proc[p].pc = "clear"
  BY Known DEF At
<1>2. file = view
  BY <1>1, KnownToCall DEF Owning
<1>3. file'.home = view.home /\ file'.j.kind = "none"
  BY <1>1, ResumedFact, Constants, Zenon DEF Replace
<1> QED BY <1>2, <1>3, SameHomeFits

-------------------------------------------------------------------------------
(* The steps of the process.                                               *)

(* How a call returns, by the reason it was made for.                      *)
LEMMA DoneCases ==
    ASSUME Typed, NEW p \in Procs, NEW s \in FileT, NEW e \in BOOLEAN, Done(p, s, e)
    PROVE  \/ /\ proc[p].why = "startup" /\ work' = work
              /\ proc'[p].pc \in {"down", "idle"} /\ proc'[p].view = NoFile
           \/ /\ proc[p].why = "worker" /\ proc'[p].pc = "idle" /\ proc'[p].view = NoFile
              /\ \/ work' = work
                 \/ /\ work' = [work EXCEPT ![p].next = s.home.gen]
                    /\ s.home # NoHome /\ s.j.kind = "none"
           \/ /\ proc[p].why = "reopen" /\ work' = work
              /\ s.j.kind # "none" /\ proc'[p].pc = "idle" /\ proc'[p].view = NoFile
              /\ e => proc'[p].err
           \/ /\ proc[p].why = "reopen" /\ work' = work
              /\ s.j.kind = "none" /\ proc'[p].pc = "reopen" /\ proc'[p].view = s
           \/ /\ proc[p].why = "call" /\ work' = work
              /\ proc'[p].pc = "idle" /\ proc'[p].view = NoFile
              /\ e => proc'[p].err
<1> DEFINE back == [Fresh EXCEPT !.plan = proc[p].plan, !.err = e]
           open == [back EXCEPT !.pc = "reopen", !.view = s]
<1>1. proc \in [Procs -> ProcT] /\ proc[p].why \in {"call", "startup", "worker", "reopen"}
  BY DEF Typed, ProcT
<1>2. /\ back.pc = "idle" /\ back.view = NoFile /\ (e => back.err)
      /\ open.pc = "reopen" /\ open.view = s
  BY DEF Fresh
<1>3. /\ Fresh.pc = "idle" /\ Fresh.view = NoFile /\ Down.pc = "down" /\ Down.view = NoFile
  BY DEF Fresh, Down
<1> HIDE DEF open
<1>4. CASE proc[p].why = "startup"
  BY <1>1, <1>3, <1>4 DEF Done
<1>5. CASE proc[p].why = "worker"
  <2>1. /\ proc' = [proc EXCEPT ![p] = back]
        /\ \/ work' = work
           \/ /\ work' = [work EXCEPT ![p].next = s.home.gen]
              /\ s.home # NoHome /\ s.j.kind = "none"
    BY <1>5 DEF Done
  <2> HIDE DEF back
  <2> QED BY <1>1, <1>2, <1>5, <2>1
<1>6. CASE proc[p].why = "reopen"
  <2>1. /\ work' = work
        /\ s.j.kind # "none" => proc' = [proc EXCEPT ![p] = back]
        /\ s.j.kind = "none" => proc' = [proc EXCEPT ![p] = open]
    BY <1>6 DEF Done, open
  <2> HIDE DEF back
  <2> QED BY <1>1, <1>2, <1>6, <2>1
<1>7. CASE proc[p].why = "call"
  <2>1. proc' = [proc EXCEPT ![p] = back] /\ work' = work
    BY <1>7 DEF Done
  <2> HIDE DEF back
  <2> QED BY <1>1, <1>2, <1>7, <2>1
<1> QED BY <1>1, <1>4, <1>5, <1>6, <1>7

(* A call about the Home returns: a snapshot without a journal is returned *)
(* only when none is pending, one with a journal only if it is pending or  *)
(* with an error.                                                          *)
LEMMA ReturnServes ==
    ASSUME HomeInv, ServingInv, NEW p \in Procs, NEW s \in FileT, NEW e \in BOOLEAN,
           Done(p, s, e), proc[p].pc \in Calling, Fits(p), Numbered(s.home),
           s.j.kind = "none" /\ s.home # NoHome => file'.j.kind # "switch",
           s.j.kind # "none" => e \/ file'.j.kind # "none"
    PROVE  Serves(p)'
<1>1. Typed /\ Serves(p) /\ work \in [Procs -> WorkT]
  BY Known DEF ServingInv
<1>2. /\ work[p].next = 0 /\ work[p].bind # "starting"
      /\ work[p].bind = "attached" => proc[p].why = "reopen"
      /\ proc[p].why = "startup" => work[p] = Off
  BY <1>1 DEF Serves
<1>3. Off.open = 0 /\ Off.next = 0 /\ Off.bind = "none"
  BY DEF Off
<1>4. NoFile.home = NoHome
  BY Constants
<1>5. CASE /\ proc[p].why = "startup" /\ work' = work
           /\ proc'[p].pc \in {"down", "idle"} /\ proc'[p].view = NoFile
  BY <1>2, <1>3, <1>4, <1>5 DEF Serves, Numbered, Calling
<1>6. CASE /\ proc[p].why = "worker" /\ proc'[p].pc = "idle" /\ proc'[p].view = NoFile
           /\ \/ work' = work
              \/ /\ work' = [work EXCEPT ![p].next = s.home.gen]
                 /\ s.home # NoHome /\ s.j.kind = "none"
  <2>1. /\ work'[p].open = work[p].open /\ work'[p].bind = work[p].bind
        /\ work'[p].next # 0 => file'.j.kind # "switch"
    BY <1>1, <1>2, <1>6 DEF WorkT
  <2> QED BY <1>2, <1>4, <1>6, <2>1 DEF Serves, Numbered, Calling, Fits
<1>7. CASE /\ proc[p].why = "reopen" /\ work' = work
           /\ s.j.kind # "none" /\ proc'[p].pc = "idle" /\ proc'[p].view = NoFile
           /\ e => proc'[p].err
  BY <1>2, <1>4, <1>7 DEF Serves, Numbered, Calling, Fits
<1>8. CASE /\ proc[p].why = "reopen" /\ work' = work
           /\ s.j.kind = "none" /\ proc'[p].pc = "reopen" /\ proc'[p].view = s
  BY <1>2, <1>8 DEF Serves, Calling, Fits
<1>9. CASE /\ proc[p].why = "call" /\ work' = work
           /\ proc'[p].pc = "idle" /\ proc'[p].view = NoFile
           /\ e => proc'[p].err
  BY <1>2, <1>4, <1>9 DEF Serves, Numbered, Calling, Fits
<1> QED BY <1>1, <1>5, <1>6, <1>7, <1>8, <1>9, DoneCases

(* An update of the settings returns: it forgets no earlier error.         *)
LEMMA SettingsReturnServes ==
    ASSUME HomeInv, ServingInv, NEW p \in Procs, NEW s \in FileT, NEW e \in BOOLEAN,
           Done(p, s, e), proc[p].pc \in {"set", "setRead"}, Fits(p), file'.j = file.j,
           proc[p].err => e
    PROVE  Serves(p)'
<1>1. Typed /\ Serves(p) /\ proc[p].pc \notin Calling \cup {"reopen"}
  BY DEF HomeInv, ServingInv, Calling
<1>2. proc[p].why = "call"
  BY <1>1 DEF Serves
<1>3. /\ work' = work /\ proc'[p].pc = "idle" /\ proc'[p].view = NoFile
      /\ e => proc'[p].err
  BY <1>1, <1>2, DoneCases
<1>4. NoFile.home = NoHome
  BY Constants
<1> QED BY <1>1, <1>3, <1>4 DEF Serves, Numbered, Calling, Fits

(* A call goes on.                                                         *)
LEMMA CallServes ==
    ASSUME ServingInv, NEW p \in Procs, proc[p].pc \in Calling, proc'[p].pc \in Calling,
           proc'[p].why = proc[p].why, work'[p] = work[p], Fits(p),
           Numbered(proc'[p].view.home),
           proc'[p].pc \in {"pend", "pendRead"} => work[p].open = 0,
           proc'[p].pc \in {"initRead", "initStart"} => file'.j.kind = "none",
           proc'[p].pc = "initStart" => proc'[p].view.j.kind = "none"
    PROVE  Serves(p)'
<1>1. Serves(p)
  BY DEF ServingInv
<1>2. proc'[p].pc \notin {"reopen", "down", "set", "setRead"}
  BY DEF Calling
<1> QED BY <1>1, <1>2 DEF Serves, Fits

(* A call writes and goes on, or has to read back.                         *)
LEMMA WriteServes ==
    ASSUME HomeInv, ServingInv, NEW p \in Procs, NEW next \in FileT,
           NEW ok \in Calling \ {"pend", "pendRead"}, NEW read \in Calling,
           proc[p].pc \in Calling, Write(p, next, ok, read), Replace(p, next) => Fits(p),
           read = "pendRead" => work[p].open = 0, read # "pend",
           read = "initRead" \/ ok = "initStart" =>
             file.j.kind = "none" /\ (Replace(p, next) => file'.j.kind = "none"),
           read # "initStart", ok # "initRead"
    PROVE  Serves(p)' /\ Fits(p)
<1>1. /\ proc \in [Procs -> ProcT] /\ UNCHANGED work /\ Serves(p)
      /\ ok \in Steps /\ read \in Steps
  BY Known DEF ServingInv, Write, Calling, Steps
<1>2. CASE Replace(p, next) /\ GotoWith(p, ok, next)
  <2>1. proc'[p].pc = ok /\ proc'[p].view = next /\ proc'[p].why = proc[p].why
    BY <1>1, <1>2, GotoWithFact
  <2>2. file' = next /\ Fits(p)
    BY <1>2 DEF Replace
  <2>3. Numbered(proc'[p].view.home)
    BY <2>1, <2>2 DEF Fits
  <2> QED BY <1>1, <1>2, <2>1, <2>2, <2>3, CallServes
<1>3. CASE (NoWrite \/ Replace(p, next)) /\ GotoWant(p, read, next)
  <2>1. proc'[p].pc = read /\ proc'[p].view = proc[p].view /\ proc'[p].why = proc[p].why
    BY <1>1, <1>3, GotoWantFact
  <2>2. Fits(p) /\ (file' = file \/ Replace(p, next))
    BY <1>3, SameFits DEF NoWrite
  <2>3. Numbered(proc'[p].view.home)
    BY <1>1, <2>1 DEF Serves
  <2> QED BY <1>1, <1>3, <2>1, <2>2, <2>3, CallServes
<1> QED BY <1>2, <1>3 DEF Write, GotoWant

(* A call writes the audit and returns, or has to read back.               *)
LEMMA AuditServes ==
    ASSUME HomeInv, ServingInv, NEW p \in Procs, NEW next \in FileT,
           NEW read \in {"clearRead", "finalRead"}, next.j.kind = "none",
           proc[p].pc \in Calling, WriteAndReturn(p, next, read), Replace(p, next) => Fits(p)
    PROVE  Serves(p)' /\ Fits(p)
<1>1. /\ proc \in [Procs -> ProcT] /\ Serves(p) /\ read \in Steps /\ read \in Calling
      /\ proc[p].err \in BOOLEAN
  BY Known DEF ServingInv, Calling, Steps
<1>2. CASE Replace(p, next) /\ Done(p, next, proc[p].err)
  <2>1. file' = next /\ Fits(p) /\ Numbered(next.home)
    BY <1>2 DEF Replace, Fits
  <2> QED BY <1>1, <1>2, <2>1, ReturnServes
<1>3. CASE (NoWrite \/ Replace(p, next)) /\ GotoWant(p, read, next) /\ UNCHANGED work
  <2>1. proc'[p].pc = read /\ proc'[p].view = proc[p].view /\ proc'[p].why = proc[p].why
    BY <1>1, <1>3, GotoWantFact
  <2>2. Fits(p)
    BY <1>3, SameFits DEF NoWrite
  <2>3. Numbered(proc'[p].view.home)
    BY <1>1, <2>1 DEF Serves
  <2> QED BY <1>1, <1>3, <2>1, <2>2, <2>3, CallServes
<1> QED BY <1>2, <1>3 DEF WriteAndReturn, GotoWant

(* A call returns the file, the snapshot in hand or none, without a write. *)
LEMMA LeaveServes ==
    ASSUME HomeInv, ServingInv, NEW p \in Procs, proc[p].pc \in Calling, NoWrite,
           NEW e \in BOOLEAN,
           \/ Done(p, file, e)
           \/ Done(p, NoFile, e)
           \/ /\ Done(p, proc[p].view, e)
              /\ \/ proc[p].view.j.kind # "none" /\ e
                 \/ proc[p].view.j.kind = "none" /\ file.j.kind # "switch"
    PROVE  Serves(p)' /\ Fits(p)
<1>1. /\ file' = file /\ file \in FileT /\ proc[p].view \in FileT /\ NoFile \in FileT
      /\ NoFile.home = NoHome /\ NoFile.j.kind = "none"
  BY Constants, Known DEF NoWrite
<1>2. Fits(p) /\ Numbered(file.home) /\ Numbered(proc[p].view.home) /\ Numbered(NoFile.home)
  BY <1>1, SameFits DEF ServingInv, Serves, Numbered
<1>3. CASE Done(p, file, e)
  <2>1. /\ file.j.kind = "none" /\ file.home # NoHome => file'.j.kind # "switch"
        /\ file.j.kind # "none" => e \/ file'.j.kind # "none"
    BY <1>1
  <2> QED BY <1>1, <1>2, <1>3, <2>1, ReturnServes
<1>4. CASE Done(p, NoFile, e)
  BY <1>1, <1>2, <1>4, ReturnServes
<1>5. CASE /\ Done(p, proc[p].view, e)
           /\ \/ proc[p].view.j.kind # "none" /\ e
              \/ proc[p].view.j.kind = "none" /\ file.j.kind # "switch"
  BY <1>1, <1>2, <1>5, ReturnServes
<1> QED BY <1>3, <1>4, <1>5

(* The update of the settings is written, or read back.                    *)
LEMMA SettingsServes ==
    ASSUME HomeInv, ServingInv, NEW p \in Procs, SettingsWrite(p) \/ ReadbackSettings(p)
    PROVE  Serves(p)' /\ Fits(p)
<1>1. /\ Serves(p) /\ file \in FileT /\ proc[p].view \in FileT /\ proc[p].want \in FileT
      /\ proc[p].err \in BOOLEAN /\ proc \in [Procs -> ProcT]
  BY Known DEF ServingInv
<1>2. CASE SettingsWrite(p)
  <2>1. At(p, "set") /\ WriteAndReturn(p, proc[p].want, "setRead") /\ proc[p].pc = "set"
    BY <1>2 DEF SettingsWrite, At
  <2>2. CASE Replace(p, proc[p].want) /\ Done(p, proc[p].want, proc[p].err)
    <3>1. Fits(p) /\ file'.j = file.j
      BY <2>1, <2>2, SettingsFits
    <3> QED BY <1>1, <2>1, <2>2, <3>1, SettingsReturnServes
  <2>3. CASE /\ NoWrite \/ Replace(p, proc[p].want)
             /\ GotoWant(p, "setRead", proc[p].want) /\ UNCHANGED work
    <3>1. Fits(p) /\ file'.j = file.j
      BY <2>1, <2>3, SettingsFits, SameFits DEF NoWrite
    <3>2. "setRead" \in Steps
      BY DEF Steps
    <3>3. /\ proc'[p].pc = "setRead" /\ proc'[p].view = proc[p].view
          /\ proc'[p].why = proc[p].why /\ proc'[p].err = proc[p].err
      BY <1>1, <2>3, <3>2, GotoWantFact
    <3> QED BY <1>1, <2>1, <2>3, <3>1, <3>3 DEF Serves, Fits, Calling
  <2> QED BY <2>1, <2>2, <2>3 DEF WriteAndReturn, GotoWant
<1>3. CASE Unreadable(p, "setRead", proc[p].view)
  <2>1. Fits(p) /\ file'.j = file.j /\ proc[p].pc = "setRead"
    BY <1>3, SameFits DEF Unreadable, NoWrite, At
  <2>2. \E e \in BOOLEAN : e /\ Done(p, proc[p].view, e)
    BY <1>3, Zenon DEF Unreadable
  <2>3. PICK e \in BOOLEAN : e /\ Done(p, proc[p].view, e)
    BY <2>2, Zenon
  <2> QED BY <1>1, <2>1, <2>3, SettingsReturnServes, Zenon
<1>4. CASE /\ At(p, "setRead") /\ NoWrite
           /\ Done(p, file, proc[p].err \/ file # proc[p].want)
  <2>1. Fits(p) /\ file'.j = file.j /\ proc[p].pc = "setRead"
    BY <1>4, SameFits DEF NoWrite, At
  <2>2. (proc[p].err \/ file # proc[p].want) \in BOOLEAN
    OBVIOUS
  <2>3. \E e \in BOOLEAN : (proc[p].err => e) /\ Done(p, file, e)
    BY <1>4, <2>2, Zenon
  <2>4. PICK e \in BOOLEAN : (proc[p].err => e) /\ Done(p, file, e)
    BY <2>3
  <2> QED BY <1>1, <2>1, <2>4, SettingsReturnServes
<1> QED BY <1>2, <1>3, <1>4 DEF ReadbackSettings

(* A read fails.                                                           *)
LEMMA UnreadableServes ==
    ASSUME HomeInv, ServingInv, NEW p \in Procs, NEW step \in Calling,
           \/ Unreadable(p, step, NoFile)
           \/ /\ Unreadable(p, step, proc[p].view)
              /\ proc[p].view.j.kind # "none" \/ file.j.kind # "switch"
    PROVE  Serves(p)' /\ Fits(p)
<1>1. proc[p].pc \in Calling /\ NoWrite
  BY Zenon DEF Unreadable, At
<1>2. CASE Unreadable(p, step, NoFile)
  <2>1. \E e \in BOOLEAN : Done(p, NoFile, e)
    BY <1>2, Zenon DEF Unreadable
  <2> QED BY <1>1, <2>1, LeaveServes
<1>3. CASE /\ Unreadable(p, step, proc[p].view)
           /\ proc[p].view.j.kind # "none" \/ file.j.kind # "switch"
  <2>1. \E e \in BOOLEAN : e /\ Done(p, proc[p].view, e)
    BY <1>3, Zenon DEF Unreadable
  <2>2. PICK e \in BOOLEAN : e /\ Done(p, proc[p].view, e)
    BY <2>1, Zenon
  <2> QED BY <1>1, <1>3, <2>2, LeaveServes, Zenon
<1> QED BY <1>2, <1>3

(* The first Home is written, read back, or returned.                      *)
LEMMA InitialServes ==
    ASSUME HomeInv, ServingInv, NEW p \in Procs,
           InitialWrite(p) \/ InitialRead(p) \/ InitialStart(p)
    PROVE  Serves(p)' /\ Fits(p)
<1>1. /\ Serves(p) /\ Knows(p) /\ file \in FileT /\ proc[p].view \in FileT
      /\ proc[p].plan \in PlanT
  BY Known DEF ServingInv
<1>2. CASE InitialWrite(p)
  <2> DEFINE next == InitialSnapshot(proc[p].view, proc[p].plan)
  <2>1. /\ Write(p, next, "initStart", "initRead") /\ next \in FileT
        /\ Replace(p, next) => Fits(p) /\ file'.j.kind = "none"
    BY <1>1, <1>2, InitialFits, InitialFact, Zenon DEF InitialWrite
  <2>2. proc[p].pc \in Calling /\ file.j.kind = "none"
    BY <1>1, <1>2, KnownToPlan DEF InitialWrite, At, Calling
  <2>3. "initStart" \in Calling \ {"pend", "pendRead"} /\ "initRead" \in Calling
    BY DEF Calling
  <2> HIDE DEF next
  <2> QED BY <2>1, <2>2, <2>3, WriteServes
<1>3. CASE InitialStart(p)
  <2>1. /\ proc[p].pc \in Calling /\ NoWrite
        /\ proc[p].view.j.kind = "none" /\ file.j.kind # "switch"
    BY <1>1, <1>3 DEF InitialStart, At, Calling, Serves
  <2>2. \E e \in BOOLEAN : Done(p, proc[p].view, e)
    BY <1>3, Zenon DEF InitialStart
  <2> QED BY <2>1, <2>2, LeaveServes
<1>4. CASE InitialRead(p)
  <2>1. proc[p].pc = "initRead" /\ file.j.kind # "switch" /\ "initRead" \in Calling /\ NoWrite
    BY <1>1, <1>4, Zenon DEF InitialRead, Unreadable, At, Serves, Calling
  <2>2. CASE Unreadable(p, "initRead", proc[p].view)
    BY <2>1, <2>2, UnreadableServes
  <2> DEFINE X == ResolvedSwitchMatches(file, proc[p].want.home, proc[p].plan.id, "completed")
  <2>3. CASE Done(p, file, ~X)
    <3>1. (~X) \in BOOLEAN
      BY DEF ResolvedSwitchMatches
    <3> HIDE DEF X
    <3>2. \E e \in BOOLEAN : Done(p, file, e)
      BY <2>3, <3>1, Zenon
    <3> QED BY <2>1, <3>2, LeaveServes
  <2> QED BY <1>4, <2>2, <2>3 DEF InitialRead
<1> QED BY <1>2, <1>3, <1>4

(* The guard is written, or read back.                                     *)
LEMMA GuardServes ==
    ASSUME HomeInv, ServingInv, NEW p \in Procs, GuardWrite(p) \/ GuardRead(p)
    PROVE  Serves(p)' /\ Fits(p)
<1>1. /\ Serves(p) /\ Knows(p) /\ file \in FileT /\ proc[p].view \in FileT
      /\ proc[p].plan \in PlanT /\ proc \in [Procs -> ProcT] /\ Numbered(file.home)
  BY Known DEF ServingInv
<1>2. CASE GuardWrite(p)
  <2> DEFINE next == ResumeGuardSnapshot(proc[p].view, proc[p].plan, p)
  <2>1. /\ Write(p, next, "drain", "guardRead") /\ next \in FileT
        /\ Replace(p, next) => Fits(p)
    BY <1>1, <1>2, GuardFits, GuardFact DEF GuardWrite
  <2>2. proc[p].pc \in Calling
    BY <1>2 DEF GuardWrite, At, Calling
  <2>3. "drain" \in Calling \ {"pend", "pendRead"} /\ "guardRead" \in Calling
    BY DEF Calling
  <2> HIDE DEF next
  <2> QED BY <2>1, <2>2, <2>3, WriteServes
<1>3. CASE GuardRead(p)
  <2>1. proc[p].pc = "guardRead" /\ "guardRead" \in Calling /\ NoWrite
    BY <1>3, Zenon DEF GuardRead, Unreadable, At, Calling
  <2>2. file.j.kind # "switch"
    BY <1>1, <2>1, GuardFact, KnownToReader
  <2>3. CASE Unreadable(p, "guardRead", proc[p].view)
    BY <2>1, <2>2, <2>3, UnreadableServes
  <2>4. CASE GotoWith(p, "drain", file) /\ UNCHANGED work
    <3>1. "drain" \in Steps /\ "drain" \in Calling
      BY DEF Steps, Calling
    <3>2. proc'[p].pc = "drain" /\ proc'[p].view = file /\ proc'[p].why = proc[p].why
      BY <1>1, <2>4, <3>1, GotoWithFact
    <3>3. Fits(p)
      BY <2>1, SameFits DEF NoWrite
    <3> QED BY <1>1, <2>1, <2>4, <3>1, <3>2, <3>3, CallServes
  <2> DEFINE X == ResolvedSwitchMatches(file, proc[p].plan.target, proc[p].plan.id, "completed")
  <2>5. CASE Done(p, file, ~X)
    <3>1. (~X) \in BOOLEAN
      BY DEF ResolvedSwitchMatches
    <3> HIDE DEF X
    <3>2. \E e \in BOOLEAN : Done(p, file, e)
      BY <2>5, <3>1, Zenon
    <3> QED BY <2>1, <3>2, LeaveServes
  <2> QED BY <1>3, <2>3, <2>4, <2>5 DEF GuardRead
<1> QED BY <1>2, <1>3

(* The old generation is drained, or the guard is worked off.              *)
LEMMA DrainServes ==
    ASSUME HomeInv, ServingInv, NEW p \in Procs, Drain(p)
    PROVE  Serves(p)' /\ Fits(p)
<1>1. /\ Serves(p) /\ Knows(p) /\ proc \in [Procs -> ProcT] /\ work \in [Procs -> WorkT]
      /\ proc[p].pc = "drain" /\ file' = file
  BY Known DEF ServingInv, Drain, At, NoWrite
<1>2. Fits(p) /\ proc[p].pc \in Calling
  BY <1>1, SameFits DEF Calling
<1>3. /\ proc'[p].pc \in {"pend", "resume"} /\ proc'[p].why = proc[p].why
      /\ proc'[p].view = proc[p].view
  <2>1. CASE Goto(p, "pend")
    BY <1>1, <2>1, GotoFact DEF Steps
  <2>2. CASE proc' = [proc EXCEPT ![p].pc = "resume", ![p].err = TRUE]
    BY <1>1, <2>2 DEF ProcT
  <2> QED BY <2>1, <2>2 DEF Drain
<1>4. \/ work'[p] = work[p] /\ proc'[p].pc = "resume"
      \/ work' = [work EXCEPT ![p].open = 0]
  BY <1>1 DEF Drain, Goto, ProcT
<1>5. proc'[p].pc \in Calling
  BY <1>3 DEF Calling
<1>6. CASE work'[p] = work[p] /\ proc'[p].pc = "resume"
  BY <1>1, <1>2, <1>3, <1>5, <1>6, CallServes DEF Serves
<1>7. CASE work' = [work EXCEPT ![p].open = 0]
  <2>1. /\ work'[p].open = 0 /\ work'[p].bind = work[p].bind
        /\ work'[p].next = work[p].next /\ (work[p] = Off => work'[p] = Off)
    BY <1>1, <1>7 DEF WorkT, Off
  <2>2. Serves(p)'
    BY <1>1, <1>2, <1>3, <1>5, <2>1 DEF Serves, Calling
  <2> QED BY <1>2, <2>2
<1> QED BY <1>4, <1>6, <1>7

(* A step of a call that neither writes nor touches the worker.            *)
LEMMA StepServes ==
    ASSUME ServingInv, NEW p \in Procs, proc[p].pc \in Calling, NoWrite, UNCHANGED work,
           proc'[p].pc \in Calling \ {"pend", "pendRead", "initRead", "initStart"},
           proc'[p].why = proc[p].why, Numbered(proc'[p].view.home)
    PROVE  Serves(p)' /\ Fits(p)
<1>1. Fits(p)
  BY SameFits DEF NoWrite
<1> QED BY <1>1, CallServes

(* The switch is journaled, or the journal is read back.                   *)
LEMMA PendingServes ==
    ASSUME HomeInv, ServingInv, NEW p \in Procs, PendingWrite(p) \/ PendingRead(p)
    PROVE  Serves(p)' /\ Fits(p)
<1>1. /\ Serves(p) /\ Knows(p) /\ file \in FileT /\ proc[p].view \in FileT
      /\ proc[p].plan \in PlanT /\ proc \in [Procs -> ProcT] /\ Numbered(file.home)
  BY Known DEF ServingInv
<1>2. CASE PendingWrite(p)
  <2> DEFINE next == PendingSnapshot(proc[p].view, proc[p].plan)
  <2>1. /\ Write(p, next, "start", "pendRead") /\ next \in FileT
        /\ Replace(p, next) => Fits(p)
    BY <1>1, <1>2, PendingFits, PendingFact DEF PendingWrite
  <2>2. proc[p].pc \in Calling /\ work[p].open = 0
    BY <1>1, <1>2 DEF PendingWrite, At, Calling, Serves
  <2>3. "start" \in Calling \ {"pend", "pendRead"} /\ "pendRead" \in Calling
    BY DEF Calling
  <2> HIDE DEF next
  <2> QED BY <2>1, <2>2, <2>3, WriteServes
<1>3. CASE PendingRead(p)
  <2>1. proc[p].pc = "pendRead" /\ proc[p].pc \in Calling /\ NoWrite
    BY <1>3, Zenon DEF PendingRead, Unreadable, At, Calling
  <2>2. proc[p].view.j.kind = "resume"
    BY <1>1, <2>1, KnownToCall
  <2>3. CASE Unreadable(p, "pendRead", proc[p].view)
    BY <2>1, <2>2, <2>3, UnreadableServes
  <2>4. CASE GotoWith(p, "start", file) /\ UNCHANGED work
    <3>1. "start" \in Steps /\ "start" \in Calling
      BY DEF Steps, Calling
    <3>2. proc'[p].pc = "start" /\ proc'[p].view = file /\ proc'[p].why = proc[p].why
      BY <1>1, <2>4, <3>1, GotoWithFact
    <3> QED BY <1>1, <2>1, <2>4, <3>1, <3>2, StepServes
  <2>5. CASE /\ proc' = [proc EXCEPT ![p].pc = "resume", ![p].view = file, ![p].err = TRUE]
             /\ UNCHANGED work
    <3>1. proc'[p].pc = "resume" /\ proc'[p].view = file /\ proc'[p].why = proc[p].why
      BY <1>1, <2>5 DEF ProcT
    <3>2. "resume" \in Calling
      BY DEF Calling
    <3> QED BY <1>1, <2>1, <2>5, <3>1, <3>2, StepServes
  <2> DEFINE X == ResolvedSwitchMatches(file, proc[p].want.home, proc[p].plan.id, "completed")
  <2>6. CASE Done(p, file, ~X)
    <3>1. (~X) \in BOOLEAN
      BY DEF ResolvedSwitchMatches
    <3> HIDE DEF X
    <3>2. \E e \in BOOLEAN : Done(p, file, e)
      BY <2>6, <3>1, Zenon
    <3> QED BY <2>1, <3>2, LeaveServes
  <2> QED BY <1>3, <2>3, <2>4, <2>5, <2>6 DEF PendingRead
<1> QED BY <1>2, <1>3

(* The bootstrap is started, and its plan frozen.                          *)
LEMMA BootstrapServes ==
    ASSUME HomeInv, ServingInv, NEW p \in Procs, StartBootstrap(p) \/ FreezePlan(p)
    PROVE  Serves(p)' /\ Fits(p)
<1>1. /\ Serves(p) /\ proc \in [Procs -> ProcT] /\ proc[p].pc \in Calling
      /\ NoWrite /\ UNCHANGED work
  BY Known DEF ServingInv, StartBootstrap, FreezePlan, At, Calling
<1>2. /\ proc'[p].pc \in {"final", "freeze", "status"} /\ proc'[p].why = proc[p].why
      /\ proc'[p].view = proc[p].view
  BY <1>1 DEF StartBootstrap, FreezePlan, Goto, ProcT
<1>3. proc'[p].pc \in Calling \ {"pend", "pendRead", "initRead", "initStart"}
  BY <1>2 DEF Calling
<1>4. Numbered(proc'[p].view.home)
  BY <1>1, <1>2 DEF Serves
<1> QED BY <1>1, <1>2, <1>3, <1>4, StepServes

(* The fate of the bootstrap is read.                                      *)
LEMMA ResolveServes ==
    ASSUME HomeInv, ServingInv, NEW p \in Procs, ResolvePending(p)
    PROVE  Serves(p)' /\ Fits(p)
<1>1. /\ Serves(p) /\ Knows(p) /\ proc \in [Procs -> ProcT] /\ proc[p].pc = "status"
      /\ proc[p].pc \in Calling /\ NoWrite
  BY Known, Zenon DEF ServingInv, ResolvePending, Unreadable, At, Calling
<1>2. proc[p].view.j.kind = "switch"
  BY <1>1, KnownToCall
<1>3. CASE Unreadable(p, "status", proc[p].view)
  BY <1>1, <1>2, <1>3, UnreadableServes
<1>4. CASE ~Unreadable(p, "status", proc[p].view)
  <2>1. /\ proc'[p].pc \in {"back", "final"} /\ proc'[p].why = proc[p].why
        /\ proc'[p].view = proc[p].view /\ UNCHANGED work
    BY <1>1, <1>4 DEF ResolvePending, Goto, ProcT
  <2>2. proc'[p].pc \in Calling \ {"pend", "pendRead", "initRead", "initStart"}
    BY <2>1 DEF Calling
  <2>3. Numbered(proc'[p].view.home)
    BY <1>1, <2>1 DEF Serves
  <2> QED BY <1>1, <2>1, <2>2, <2>3, StepServes
<1> QED BY <1>3, <1>4

(* The rollback is journaled, or its journal read back.                    *)
LEMMA RollbackServes ==
    ASSUME HomeInv, ServingInv, NEW p \in Procs, RollbackPending(p) \/ PersistResumeMarker(p)
    PROVE  Serves(p)' /\ Fits(p)
<1>1. /\ Serves(p) /\ file \in FileT /\ proc[p].view \in FileT
      /\ proc \in [Procs -> ProcT] /\ Numbered(file.home) /\ proc[p].err \in BOOLEAN
  BY Known DEF ServingInv
<1>2. CASE RollbackPending(p)
  <2> DEFINE next == RollbackSnapshot(proc[p].view)
  <2>1. /\ Write(p, next, "resume", "backRead") /\ next \in FileT
        /\ Replace(p, next) => Fits(p)
    BY <1>1, <1>2, ResolvedFits, RollbackFact DEF RollbackPending
  <2>2. proc[p].pc \in Calling
    BY <1>2 DEF RollbackPending, At, Calling
  <2>3. "resume" \in Calling \ {"pend", "pendRead"} /\ "backRead" \in Calling
    BY DEF Calling
  <2> HIDE DEF next
  <2> QED BY <2>1, <2>2, <2>3, WriteServes
<1>3. CASE PersistResumeMarker(p)
  <2>1. "backRead" \in Calling /\ proc[p].pc \in Calling /\ NoWrite
    BY <1>3, Zenon DEF PersistResumeMarker, Unreadable, At, Calling
  <2>2. CASE Unreadable(p, "backRead", NoFile)
    BY <2>1, <2>2, UnreadableServes
  <2>3. CASE GotoWith(p, "resume", file) /\ UNCHANGED work
    <3>1. "resume" \in Steps /\ "resume" \in Calling
      BY DEF Steps, Calling
    <3>2. proc'[p].pc = "resume" /\ proc'[p].view = file /\ proc'[p].why = proc[p].why
      BY <1>1, <2>3, <3>1, GotoWithFact
    <3> QED BY <1>1, <2>1, <2>3, <3>1, <3>2, StepServes
  <2>4. CASE Done(p, file, proc[p].err)
    BY <1>1, <2>1, <2>4, LeaveServes
  <2>5. CASE Done(p, file, TRUE)
    <3>1. \E e \in BOOLEAN : Done(p, file, e)
      BY <2>5, Zenon
    <3> QED BY <2>1, <3>1, LeaveServes
  <2> QED BY <1>3, <2>2, <2>3, <2>4, <2>5, Zenon DEF PersistResumeMarker
<1> QED BY <1>2, <1>3

(* The old generation is resumed: it is the Home's own.                    *)
LEMMA ResumeServes ==
    ASSUME HomeInv, ServingInv, NEW p \in Procs, Resume(p)
    PROVE  Serves(p)' /\ Fits(p)
<1>1. /\ Serves(p) /\ Knows(p) /\ proc \in [Procs -> ProcT] /\ work \in [Procs -> WorkT]
      /\ proc[p].pc = "resume" /\ proc[p].pc \in Calling /\ NoWrite
      /\ file \in FileT /\ proc[p].view \in FileT
  BY Known DEF ServingInv, Resume, At, Calling
<1>2. file = proc[p].view /\ proc[p].view.j.kind = "resume" /\ ValidatePreferences(file)
  BY <1>1, KnownToCall DEF Owning, HomeInv, Sound
<1>3. proc[p].view.j.from = file.home.gen
  BY <1>2 DEF ValidatePreferences
<1>4. CASE Done(p, proc[p].view, TRUE)
  <2>1. \E e \in BOOLEAN : e /\ Done(p, proc[p].view, e)
    BY <1>4, Zenon
  <2>2. PICK e \in BOOLEAN : e /\ Done(p, proc[p].view, e)
    BY <2>1, Zenon
  <2> QED BY <1>1, <1>2, <2>2, LeaveServes, Zenon
<1>5. CASE /\ Goto(p, "clear")
           /\ work' = IF ViaWorker(p) THEN [work EXCEPT ![p].open = proc[p].view.j.from]
                      ELSE work
  <2>1. proc'[p].pc = "clear" /\ proc'[p].why = proc[p].why /\ proc'[p].view = proc[p].view
    BY <1>1, <1>5 DEF Goto, ProcT
  <2>2. "clear" \in Calling \ {"pend", "pendRead", "initRead", "initStart"}
    BY DEF Calling
  <2>3. Numbered(proc'[p].view.home)
    BY <1>1, <2>1 DEF Serves
  <2>4. CASE work' = work
    BY <1>1, <2>1, <2>2, <2>3, <2>4, StepServes
  <2>5. CASE /\ work[p].bind = "attached"
             /\ work' = [work EXCEPT ![p].open = proc[p].view.j.from]
    <3>1. /\ work'[p].open = file.home.gen /\ work'[p].bind = work[p].bind
          /\ work'[p].next = work[p].next /\ work[p] # Off
      BY <1>1, <1>3, <2>5 DEF WorkT, Off
    <3>2. Fits(p) /\ file' = file
      BY <1>1, SameFits DEF NoWrite
    <3>3. Serves(p)'
      BY <1>1, <1>2, <2>1, <2>2, <2>3, <3>1, <3>2, ZenonT(60) DEF Serves, Calling
    <3> QED BY <3>2, <3>3
  <2> QED BY <1>5, <2>4, <2>5 DEF ViaWorker
<1> QED BY <1>4, <1>5, Zenon DEF Resume

(* The audit of a rollback is written.                                     *)
LEMMA ResumedServes ==
    ASSUME HomeInv, ServingInv, NEW p \in Procs, ResumedWrite(p)
    PROVE  Serves(p)' /\ Fits(p)
<1> DEFINE next == ResumedSnapshot(proc[p].view)
<1>1. proc[p].view \in FileT /\ At(p, "clear") /\ proc[p].pc \in Calling
  BY Known DEF ResumedWrite, At, Calling
<1>2. /\ WriteAndReturn(p, next, "clearRead") /\ next \in FileT /\ next.j.kind = "none"
      /\ Replace(p, next) => Fits(p)
  BY <1>1, ResumedFits, ResumedFact, Constants, Zenon DEF ResumedWrite
<1> HIDE DEF next
<1> QED BY <1>1, <1>2, AuditServes

(* The audit of a completed switch is written, or refused as invalid.      *)
LEMMA FinalServes ==
    ASSUME HomeInv, ServingInv, NEW p \in Procs, FinalizePending(p)
    PROVE  Serves(p)' /\ Fits(p)
<1> DEFINE next == FinalSnapshot(proc[p].view)
<1>1. /\ proc[p].view \in FileT /\ At(p, "final") /\ proc[p].pc \in Calling
      /\ proc[p].view.j.kind = "switch"
  BY Known, KnownToCall DEF FinalizePending, At, Calling
<1>2. CASE WriteAndReturn(p, next, "finalRead")
  <2>1. /\ next \in FileT /\ next.j.kind = "none"
        /\ Replace(p, next) => Fits(p)
    BY <1>1, ResolvedFits, FinalFact, Constants, Zenon
  <2> HIDE DEF next
  <2> QED BY <1>1, <1>2, <2>1, AuditServes
<1>3. CASE Done(p, proc[p].view, TRUE) /\ NoWrite
  <2>1. \E e \in BOOLEAN : e /\ Done(p, proc[p].view, e)
    BY <1>3, Zenon
  <2>2. PICK e \in BOOLEAN : e /\ Done(p, proc[p].view, e)
    BY <2>1, Zenon
  <2> QED BY <1>1, <1>3, <2>2, LeaveServes, Zenon
<1> QED BY <1>2, <1>3, ZenonT(60) DEF FinalizePending

(* An audit is read back.                                                  *)
LEMMA ResolutionServes ==
    ASSUME HomeInv, ServingInv, NEW p \in Procs, NEW step \in {"clearRead", "finalRead"},
           PersistResolution(p, step)
    PROVE  Serves(p)' /\ Fits(p)
<1>1. step \in Calling /\ proc[p].pc \in Calling /\ NoWrite /\ proc[p].err \in BOOLEAN
  BY Known, Zenon DEF PersistResolution, Unreadable, At, Calling
<1>2. CASE Unreadable(p, step, NoFile)
  BY <1>1, <1>2, UnreadableServes
<1> DEFINE E == IF /\ file.det = proc[p].want.det
                   /\ ResolvedSwitchMatches(file, proc[p].want.home,
                         proc[p].want.last.id, proc[p].want.last.out)
                THEN proc[p].err ELSE TRUE
<1>3. CASE Done(p, file, E)
  <2>1. E \in BOOLEAN
    BY <1>1, Zenon
  <2> HIDE DEF E
  <2> QED BY <1>1, <1>3, <2>1, LeaveServes
<1> QED BY <1>2, <1>3, Zenon DEF PersistResolution

(* A process that died serves nothing.                                     *)
LEMMA DeathServes ==
    ASSUME HomeInv, ServingInv, NEW p \in Procs, Die(p)
    PROVE  Serves(p)' /\ Fits(p)
<1>1. proc \in [Procs -> ProcT] /\ work \in [Procs -> WorkT]
  BY Known, Zenon
<1>2. proc'[p] = Down /\ work'[p] = Off /\ Fits(p)
  BY <1>1, SameFits DEF Die, NoWrite
<1>3. /\ Down.pc = "down" /\ Down.view = NoFile /\ NoFile.home = NoHome
      /\ Off.open = 0 /\ Off.next = 0 /\ Off.bind = "none"
  BY Constants DEF Down, Fresh, Off
<1> QED BY <1>2, <1>3 DEF Serves, Calling, Numbered

(* The call through the worker reopens the Home that the service returned. *)
LEMMA ReopenServes ==
    ASSUME HomeInv, ServingInv, NEW p \in Procs, Reopen(p)
    PROVE  Serves(p)' /\ Fits(p)
<1>1. /\ Serves(p) /\ proc \in [Procs -> ProcT] /\ work \in [Procs -> WorkT]
      /\ proc[p].pc = "reopen" /\ proc[p].view \in FileT
  BY Known DEF ServingInv, Reopen, At
<1>2. CASE Die(p)
  BY <1>2, DeathServes
<1>3. CASE proc[p].view.home # NoHome /\ ~Die(p)
  <2> DEFINE g == proc[p].view.home.gen
             good == [Fresh EXCEPT !.plan = proc[p].plan, !.err = proc[p].err]
             bad == [Fresh EXCEPT !.plan = proc[p].plan, !.err = TRUE]
  <2>1. /\ file' = file /\ Fits(p) /\ g >= 1 /\ g \in Nat /\ file.j.kind # "switch"
    BY <1>1, <1>3, SameFits DEF Reopen, NoWrite, Serves, Numbered, FileT, HomeT
  <2>2. /\ good.pc = "idle" /\ good.view = NoFile
        /\ bad.pc = "idle" /\ bad.view = NoFile /\ bad.err = TRUE
        /\ NoFile.home = NoHome
    BY Constants DEF Fresh
  <2>3. CASE /\ file.home.gen = g /\ work' = [work EXCEPT ![p].open = g, ![p].row = g]
             /\ proc' = [proc EXCEPT ![p] = good]
    <3>1. proc'[p] = good
      BY <1>1, <2>3
    <3>2. /\ work'[p].open = g /\ work'[p].bind = work[p].bind /\ work'[p].next = work[p].next
      BY <1>1, <2>1, <2>3 DEF WorkT
    <3> HIDE DEF good
    <3>3. Serves(p)'
      BY <1>1, <2>1, <2>2, <2>3, <3>1, <3>2 DEF Serves, Calling, Numbered
    <3> QED BY <2>1, <3>3
  <2>4. CASE UNCHANGED work /\ proc' = [proc EXCEPT ![p] = bad]
    <3>1. proc'[p] = bad
      BY <1>1, <2>4
    <3> HIDE DEF bad
    <3>2. Serves(p)'
      BY <1>1, <2>1, <2>2, <2>4, <3>1 DEF Serves, Calling, Numbered
    <3> QED BY <2>1, <3>2
  <2> QED BY <1>3, <2>3, <2>4 DEF Reopen
<1> QED BY <1>2, <1>3 DEF Reopen

-------------------------------------------------------------------------------
(* What happens between the calls.  With no second process and no race the *)
(* worker stands still while a call is in progress.                        *)

(* A process that waits starts nothing, or an update of the settings.      *)
LEMMA IdleServes ==
    ASSUME HomeInv, ServingInv, NEW p \in Procs,
           \/ \E v \in Settings : UpdateSettings(p, v)
           \/ \E h \in Homes, strat \in Strategies : PlanSwitch(p, h, strat)
    PROVE  Serves(p)' /\ Fits(p)
<1>1. Serves(p) /\ proc \in [Procs -> ProcT] /\ proc[p].pc = "idle" /\ Numbered(file.home)
  BY Known, Zenon DEF ServingInv, UpdateSettings, PlanSwitch, At
<1>2. file' = file /\ work' = work /\ Fits(p)
  BY SameFits, ZenonT(60) DEF UpdateSettings, PlanSwitch
<1>3. CASE \E v \in Settings : UpdateSettings(p, v)
  <2>1. PICK v \in Settings : UpdateSettings(p, v)
    BY <1>3
  <2> DEFINE r == [proc[p] EXCEPT !.pc = "set", !.view = file, !.why = "call",
                                  !.want = SettingsSnapshot(file, v)]
  <2>2. r.pc = "set" /\ r.why = "call" /\ r.err = proc[p].err /\ r.view = file
    BY <1>1 DEF ProcT
  <2>3. proc' = [proc EXCEPT ![p] = r]
    BY <1>1, <2>1, Zenon DEF UpdateSettings
  <2> HIDE DEF r
  <2>4. /\ proc'[p].pc = "set" /\ proc'[p].why = "call" /\ proc'[p].err = proc[p].err
        /\ proc'[p].view = file
    BY <1>1, <2>2, <2>3
  <2> QED BY <1>1, <1>2, <2>4 DEF Serves, Calling
<1>4. CASE \E h \in Homes, strat \in Strategies : PlanSwitch(p, h, strat)
  <2>1. \E plan : proc' = [proc EXCEPT ![p].plan = plan]
    BY <1>4, ZenonT(60) DEF PlanSwitch
  <2>2. /\ proc'[p].pc = "idle" /\ proc'[p].why = proc[p].why /\ proc'[p].err = proc[p].err
        /\ proc'[p].view = proc[p].view
    BY <1>1, <2>1 DEF ProcT
  <2> QED BY <1>1, <1>2, <2>2 DEF Serves, Calling
<1> QED BY <1>3, <1>4

(* A call begins.                                                          *)
LEMMA EnterServes ==
    ASSUME HomeInv, ServingInv, NEW p \in Procs, NEW why,
           file' = file, work' = work, work[p].next = 0, work[p].bind # "starting",
           proc'[p].pc \in {"initial", "guard", "resume", "status"},
           proc'[p].view = file, proc'[p].why = why,
           why = "startup" => work[p] = Off, work[p].bind = "attached" => why = "reopen"
    PROVE  Serves(p)' /\ Fits(p)
<1>1. Serves(p) /\ Numbered(file.home) /\ Fits(p)
  BY SameFits DEF ServingInv
<1>2. /\ proc'[p].pc \in Calling
      /\ proc'[p].pc \notin {"pend", "pendRead", "initRead", "initStart", "reopen", "down",
                             "set", "setRead"}
  BY DEF Calling
<1> QED BY <1>1, <1>2, ZenonT(60) DEF Serves

(* ConfirmSwitch begins.                                                   *)
LEMMA ConfirmServes ==
    ASSUME HomeInv, ServingInv, Races = {}, NEW p \in Procs, ConfirmSwitch(p)
    PROVE  Serves(p)' /\ Fits(p)
<1> DEFINE why == IF ViaWorker(p) THEN "reopen" ELSE "call"
<1>1. /\ proc \in [Procs -> ProcT] /\ work[p].next = 0 /\ work[p].bind # "starting"
      /\ file' = file /\ work' = work
  BY Known DEF ConfirmSwitch, MayCall
<1>2. PICK step \in {"initial", "guard"} : Enter(p, step)
  BY DEF ConfirmSwitch
<1>3. proc'[p].pc = step /\ proc'[p].view = file /\ proc'[p].why = why
  BY <1>1, <1>2 DEF Enter, ProcT
<1>4. why # "startup" /\ (work[p].bind = "attached" => why = "reopen")
  BY DEF ViaWorker
<1> HIDE DEF why
<1> QED BY <1>1, <1>3, <1>4, EnterServes

(* RecoverSwitch begins.                                                   *)
LEMMA RecoverServes ==
    ASSUME HomeInv, ServingInv, NEW p \in Procs, NEW why, RecoverSwitch(p, why),
           work[p].next = 0, work[p].bind # "starting",
           why = "startup" => work[p] = Off, work[p].bind = "attached" => why = "reopen"
    PROVE  Serves(p)' /\ Fits(p)
<1>1. /\ proc \in [Procs -> ProcT] /\ file \in FileT /\ file.j.kind # "none"
      /\ file' = file /\ work' = work
  BY Known DEF RecoverSwitch
<1>2. RecoverStep(file) \in {"resume", "status"}
  BY <1>1 DEF RecoverStep, FileT, JournalT
<1>3. proc'[p].pc = RecoverStep(file) /\ proc'[p].view = file /\ proc'[p].why = why
  BY <1>1 DEF RecoverSwitch, ProcT
<1> QED BY <1>1, <1>2, <1>3, EnterServes

(* A call that ends at once leaves the process at rest or reopening.       *)
LEMMA AtOnceServes ==
    ASSUME HomeInv, ServingInv, NEW p \in Procs, file' = file, work' = work,
           \/ proc'[p].pc = "idle" /\ work[p].bind # "attached"
           \/ proc'[p].pc = "reopen",
           \/ proc'[p].view = NoFile
           \/ proc'[p].view = file /\ file.j.kind = "none"
    PROVE  Serves(p)' /\ Fits(p)
<1>1. Serves(p) /\ Numbered(file.home) /\ Fits(p)
  BY SameFits DEF ServingInv
<1>2. NoFile.home = NoHome
  BY Constants
<1> QED BY <1>1, <1>2 DEF Serves, Calling, Numbered

(* ConfirmSwitch finds the file moved on, or fails before it read it.      *)
LEMMA AgainServes ==
    ASSUME HomeInv, ServingInv, NEW p \in Procs, ConfirmAgain(p) \/ CallFails(p)
    PROVE  Serves(p)' /\ Fits(p)
<1>1. proc \in [Procs -> ProcT] /\ file' = file /\ work' = work
  BY Known DEF ConfirmAgain, CallFails
<1>2. CASE ConfirmAgain(p)
  <2>1. /\ file.j.kind = "none"
        /\ proc'[p].pc = IF ViaWorker(p) THEN "reopen" ELSE "idle"
        /\ proc'[p].view = IF ViaWorker(p) THEN file ELSE NoFile
    BY <1>1, <1>2 DEF ConfirmAgain, ProcT
  <2> QED BY <1>1, <2>1, AtOnceServes DEF ViaWorker
<1>3. CASE CallFails(p)
  <2>1. proc'[p].pc = "reopen" /\ proc'[p].view = NoFile
    BY <1>1, <1>3 DEF CallFails, ProcT
  <2> QED BY <1>1, <2>1, AtOnceServes
<1> QED BY <1>2, <1>3

(* The application, the recovery and the worker are started.               *)
LEMMA StartServes ==
    ASSUME HomeInv, ServingInv, Races = {}, NEW p \in Procs,
           StartApplication(p) \/ RecoverHomeSwitch(p) \/ StartWorker(p)
    PROVE  Serves(p)' /\ Fits(p)
<1>1. Serves(p) /\ proc \in [Procs -> ProcT] /\ work \in [Procs -> WorkT] /\ Numbered(file.home)
  BY Known DEF ServingInv
<1>2. Off.next = 0 /\ Off.bind = "none" /\ Off.open = 0
  BY DEF Off
<1>3. CASE StartApplication(p)
  <2>1. proc[p].pc = "down" /\ work[p] = Off
    BY <1>1, <1>3 DEF StartApplication, At, Serves
  <2>2. CASE RecoverSwitch(p, "startup")
    BY <1>2, <2>1, <2>2, RecoverServes
  <2>3. CASE proc' = [proc EXCEPT ![p] = Fresh] /\ UNCHANGED <<file, work>>
    <3>1. proc'[p] = Fresh /\ Fresh.pc = "idle" /\ Fresh.view = NoFile
      BY <1>1, <2>3 DEF Fresh
    <3> QED BY <1>2, <2>1, <2>3, <3>1, AtOnceServes
  <2> QED BY <1>3, <2>2, <2>3 DEF StartApplication
<1>4. CASE RecoverHomeSwitch(p)
  <2> DEFINE why == IF ViaWorker(p) THEN "reopen" ELSE "call"
  <2>1. work[p].next = 0 /\ work[p].bind # "starting"
    BY <1>4 DEF RecoverHomeSwitch, MayCall
  <2>2. why # "startup" /\ (work[p].bind = "attached" => why = "reopen")
    BY DEF ViaWorker
  <2>3. CASE RecoverSwitch(p, why)
    <3> HIDE DEF why
    <3> QED BY <2>1, <2>2, <2>3, RecoverServes
  <2>4. CASE /\ proc' = [proc EXCEPT ![p].pc = "reopen", ![p].view = file, ![p].err = FALSE]
             /\ UNCHANGED <<file, work>> /\ file.j.kind = "none"
    <3>1. proc'[p].pc = "reopen" /\ proc'[p].view = file
      BY <1>1, <2>4 DEF ProcT
    <3> QED BY <2>4, <3>1, AtOnceServes, Zenon
  <2> QED BY <1>4, <2>3, <2>4 DEF RecoverHomeSwitch
<1>5. CASE StartWorker(p)
  <2>1. /\ work[p].next = 0 /\ work[p].bind \notin {"starting", "attached"}
        /\ proc[p].pc = "idle"
    BY <1>5 DEF StartWorker, At
  <2>2. CASE RecoverSwitch(p, "worker")
    BY <2>1, <2>2, RecoverServes
  <2>3. CASE /\ work' = [work EXCEPT ![p].next = file.home.gen] /\ file.j.kind = "none"
             /\ UNCHANGED <<file, proc>>
    <3>1. work'[p].bind = work[p].bind /\ work'[p].open = work[p].open
      BY <1>1, <2>3 DEF WorkT
    <3>2. Fits(p)
      BY <2>3, SameFits
    <3>3. Serves(p)'
      BY <1>1, <2>1, <2>3, <3>1 DEF Serves, Calling
    <3> QED BY <3>2, <3>3
  <2> QED BY <1>5, <2>2, <2>3 DEF StartWorker
<1> QED BY <1>3, <1>4, <1>5

(* The worker is bound, opened and stopped; no call is in progress before  *)
(* it is attached.                                                         *)
LEMMA WorkerServes ==
    ASSUME HomeInv, ServingInv, Races = {}, NEW p \in Procs,
           BindHomeRuntime(p) \/ OpenWorker(p) \/ Wake(p) \/ StopWorker(p)
    PROVE  Serves(p)' /\ Fits(p)
<1>1. /\ Serves(p) /\ work \in [Procs -> WorkT] /\ file' = file /\ proc' = proc
      /\ file \in FileT
  BY Known DEF ServingInv, BindHomeRuntime, OpenWorker, Wake, StopWorker, NoWrite
<1>2. Fits(p) /\ file.home.gen \in Nat
  BY <1>1, SameFits DEF FileT, HomeT
<1>3. CASE BindHomeRuntime(p)
  <2>1. /\ work[p].next # 0 /\ work'[p].next = work[p].next /\ work'[p].open = work[p].open
        /\ work'[p].bind = "starting"
    BY <1>1, <1>3 DEF BindHomeRuntime, WorkT
  <2>2. work[p] # Off
    BY <2>1 DEF Off
  <2>3. Serves(p)'
    BY <1>1, <2>1, <2>2, ZenonT(60) DEF Serves
  <2> QED BY <1>2, <2>3
<1>4. CASE OpenWorker(p)
  <2>1. work[p].bind = "starting" /\ work[p].next # 0 /\ work[p] # Off
    BY <1>1, <1>4 DEF OpenWorker, Serves, Off
  <2>2. proc[p].pc \notin Calling /\ proc[p].pc # "down" /\ file.j.kind # "switch"
    BY <1>1, <2>1 DEF Serves
  <2>3. \/ /\ work'[p].bind = "attached" /\ work'[p].next = 0
           /\ work'[p].open = work[p].next /\ work[p].next = file.home.gen
        \/ work'[p].bind \in {"stale", "dead"} /\ work'[p].next = 0 /\ work'[p].open = 0
    BY <1>1, <1>4 DEF OpenWorker, Off
  <2>4. proc[p].pc \notin {"pend", "pendRead", "initRead", "initStart"}
    BY <2>2 DEF Calling
  <2>5. Serves(p)'
    BY <1>1, <2>1, <2>2, <2>3, <2>4, ZenonT(60) DEF Serves
  <2> QED BY <1>2, <2>5
<1>5. CASE StopWorker(p)
  <2>1. work'[p] = Off /\ Off.next = 0 /\ Off.bind = "none" /\ Off.open = 0
    BY <1>1, <1>5 DEF StopWorker, Off
  <2>2. Serves(p)'
    BY <1>1, <2>1 DEF Serves
  <2> QED BY <1>2, <2>2
<1>6. ~Wake(p)
  BY DEF Wake
<1> QED BY <1>3, <1>4, <1>5, <1>6

-------------------------------------------------------------------------------
(* The inductive invariant.                                                *)

(* At the start no worker serves and the Home, if any, has generation one. *)
LEMMA InitServing == Init => ServingInv
<1> SUFFICES ASSUME Init PROVE ServingInv
  BY ZenonT(60)
<1>1. PICK h \in Homes \cup {"none"}, v \in Settings :
        file = [NoFile EXCEPT !.rev = 1, !.set = v,
                              !.home = IF h = "none" THEN NoHome
                                       ELSE [NoHome EXCEPT !.src = h, !.gen = 1]]
  BY Zenon DEF Init
<1>2. /\ file.home = IF h = "none" THEN NoHome ELSE [NoHome EXCEPT !.src = h, !.gen = 1]
      /\ file.j.kind = "none"
  BY <1>1 DEF NoFile, NoJournal
<1>3. [NoHome EXCEPT !.src = h, !.gen = 1].gen = 1
  BY DEF NoHome
<1>4. Numbered(file.home)
  BY <1>2, <1>3 DEF Numbered
<1>5. ASSUME NEW p \in Procs PROVE Serves(p)
  <2>1. proc[p] = Down /\ work[p] = Off
    BY DEF Init
  <2>2. /\ Down.pc = "down" /\ Down.view = NoFile /\ NoFile.home = NoHome
        /\ Off.open = 0 /\ Off.next = 0 /\ Off.bind = "none"
    BY Constants DEF Down, Fresh, Off
  <2> QED BY <1>2, <2>1, <2>2 DEF Serves, Calling, Numbered
<1> QED BY <1>2, <1>4, <1>5 DEF ServingInv

(* Every action of a process keeps what it knows of its worker.            *)
LEMMA ProcessServes ==
    ASSUME HomeInv, ServingInv, Races = {}, NEW p \in Procs,
           \/ \E v \in Settings : UpdateSettings(p, v)
           \/ \E h \in Homes, strat \in Strategies : PlanSwitch(p, h, strat)
           \/ ConfirmSwitch(p) \/ ConfirmAgain(p) \/ CallFails(p)
           \/ StartApplication(p) \/ RecoverHomeSwitch(p)
           \/ Settle(p)
           \/ StartWorker(p) \/ BindHomeRuntime(p) \/ OpenWorker(p)
           \/ Wake(p) \/ StopWorker(p)
           \/ Crash(p) \/ Quit(p)
    PROVE  Serves(p)' /\ Fits(p)
<1>1. CASE \/ \E v \in Settings : UpdateSettings(p, v)
           \/ \E h \in Homes, strat \in Strategies : PlanSwitch(p, h, strat)
  BY <1>1, IdleServes
<1>2. CASE ConfirmSwitch(p)
  BY <1>2, ConfirmServes
<1>3. CASE ConfirmAgain(p) \/ CallFails(p)
  BY <1>3, AgainServes
<1>4. CASE StartApplication(p) \/ RecoverHomeSwitch(p) \/ StartWorker(p)
  BY <1>4, StartServes
<1>5. CASE BindHomeRuntime(p) \/ OpenWorker(p) \/ Wake(p) \/ StopWorker(p)
  BY <1>5, WorkerServes
<1>6. CASE Crash(p) \/ Quit(p)
  BY <1>6, DeathServes DEF Crash, Quit
<1>7. CASE Settle(p)
  <2>1. CASE SettingsWrite(p) \/ ReadbackSettings(p)
    BY <2>1, SettingsServes
  <2>2. CASE InitialWrite(p) \/ InitialRead(p) \/ InitialStart(p)
    BY <2>2, InitialServes
  <2>3. CASE GuardWrite(p) \/ GuardRead(p)
    BY <2>3, GuardServes
  <2>4. CASE Drain(p)
    BY <2>4, DrainServes
  <2>5. CASE PendingWrite(p) \/ PendingRead(p)
    BY <2>5, PendingServes
  <2>6. CASE StartBootstrap(p) \/ FreezePlan(p)
    BY <2>6, BootstrapServes
  <2>7. CASE ResolvePending(p)
    BY <2>7, ResolveServes
  <2>8. CASE RollbackPending(p) \/ PersistResumeMarker(p)
    BY <2>8, RollbackServes
  <2>9. CASE Resume(p)
    BY <2>9, ResumeServes
  <2>10. CASE ResumedWrite(p)
    BY <2>10, ResumedServes
  <2>11. CASE FinalizePending(p)
    BY <2>11, FinalServes
  <2>12. CASE PersistResolution(p, "clearRead") \/ PersistResolution(p, "finalRead")
    BY <2>12, ResolutionServes
  <2>13. CASE Reopen(p)
    BY <2>13, ReopenServes
  <2> QED BY <1>7, <2>1, <2>2, <2>3, <2>4, <2>5, <2>6, <2>7, <2>8, <2>9, <2>10, <2>11,
             <2>12, <2>13 DEF Settle
<1> QED BY <1>1, <1>2, <1>3, <1>4, <1>5, <1>6, <1>7

(* One step of an application that runs alone.                             *)
LEMMA ServingStep ==
    ASSUME Races = {}, \A p, q \in Procs : p = q, HomeInv, ServingInv, [Next]_vars
    PROVE  ServingInv'
<1>1. CASE UNCHANGED <<file, proc, work>>
  BY <1>1 DEF ServingInv, Serves
<1>2. CASE \E p \in Procs : Serves(p)' /\ Fits(p)
  <2>1. PICK p \in Procs : Serves(p)' /\ Fits(p)
    BY <1>2
  <2>2. ASSUME NEW q \in Procs PROVE Serves(q)'
    <3>1. q = p
      OBVIOUS
    <3> QED BY <2>1, <3>1
  <2>3. Numbered(file'.home) /\ (file'.j.kind = "switch" => Numbered(file'.j.prev))
    BY <2>1 DEF Fits
  <2> QED BY <2>2, <2>3 DEF ServingInv, Numbered
<1>3. CASE \E id \in Ids : BootstrapFails(id)
  BY <1>1, <1>3 DEF BootstrapFails
<1>4. CASE UNCHANGED vars
  BY <1>1, <1>4 DEF vars
<1> QED BY <1>2, <1>3, <1>4, ProcessServes DEF Next

(* The invariant holds of every behaviour of an application that is the    *)
(* only process on the preferences file and whose start and wakes do not   *)
(* race with a call.                                                       *)
THEOREM ServingInvariant ==
    ASSUME Races = {}, \A p, q \in Procs : p = q
    PROVE  Spec => []ServingInv
<1>1. HomeInv /\ ServingInv /\ [Next]_vars => ServingInv'
  BY ServingStep
<1> QED BY <1>1, HomeInvariant, InitServing, PTL DEF Spec

(* HomeRuntime.Drain and Resume, for an application that runs alone: its   *)
(* worker serves no generation other than the active Home's, for any       *)
(* number of Homes, switches, failures and restarts.                       *)
THEOREM OnlyActiveServed ==
    ASSUME Races = {}, \A p, q \in Procs : p = q
    PROVE  Spec => []ServesActive
<1>1. ServingInv => ServesActive
  BY ZenonT(60) DEF ServingInv, Serves, ServesActive
<1> QED BY <1>1, ServingInvariant, PTL

(* applicationQuotaHomeRuntime and resumeCommittedQuotaGeneration, for an  *)
(* application that runs alone: a worker that is left with its Home closed *)
(* has a journal that owes the Resume or has reported an error.            *)
THEOREM ClosedHomeReported ==
    ASSUME Races = {}, \A p, q \in Procs : p = q
    PROVE  Spec => []ClosedIsReported
<1>1. ServingInv => ClosedIsReported
  BY DEF ServingInv, Serves, ClosedIsReported, At, ViaWorker, Calling
<1> QED BY <1>1, ServingInvariant, PTL
===============================================================================
