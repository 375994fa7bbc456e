--------------------------- MODULE ReportCenterProofs ---------------------------
(***************************************************************************)
(* What the centre makes of the parts and the snapshots devices report,    *)
(* for any reports, devices and servers.  A publication job of the device  *)
(* finds its parts until it is published (JobsReadable).  The session is   *)
(* what its stored sources make it (ProjectionSettled), and facts leave it *)
(* only because the device they came from takes them back                  *)
(* (EvidenceNotLost).                                                      *)
(*                                                                         *)
(* A job is the last of its parts to arrive and the only one of its        *)
(* export, and the clean-ups spare what it needs.                          *)
(*                                                                         *)
(* The arbitration is a loop over the sources; what it selects is shown by *)
(* the least source at which a claim about the selection would fail.  A    *)
(* second decision then starts from what the first one selected, and can   *)
(* move only to a copy with the same facts and more prices.                *)
(***************************************************************************)
EXTENDS ReportDeliveryProofs

\* A leaf that names no prover is tried with SMT, then with Zenon.
USE SMTT(30), ZenonT(30)

-----------------------------------------------------------------------------
\* Jobs and their parts

\* All parts of the export an upload belongs to.
Siblings(u) == Parts(log[u.part.rev], u.part.rev)

Waiting(j) == j.state \in {"pending", "failed"}

\* A job of the device is the last part of its export to arrive: the others are
\* confirmed, all are staged until it is published, and there is no second job.
JobOK(u) ==
    /\ u = Upload(Me, u.part)
    /\ \A q \in Siblings(u) : q # u.part => Upload(Me, q) \in receipts
    /\ Waiting(jobs[u]) /\ u.part.count > 1 => \A q \in Siblings(u) : Upload(Me, q) \in chunks
    /\ \A v \in DOMAIN jobs : v.client = Me /\ v.part.rev = u.part.rev => v = u

JobsInv ==
    /\ \A k \in chunks : k.client = Me => /\ k = Upload(Me, k.part)
                                          /\ k \in receipts \cup DOMAIN jobs
    /\ \A u \in DOMAIN jobs : jobs[u].lease # "none" => jobs[u].state = "pending"
    /\ \A u \in DOMAIN jobs : u.client = Me => JobOK(u)

\* The parts of an export, seen from one of them.
LEMMA PartAmongSiblings ==
    ASSUME log \in Seq(Exports), NEW p \in Exported(log)
    PROVE  /\ p.rev \in DOMAIN log /\ IsSnapshot(log[p.rev])
           /\ p.count = PartCount(log[p.rev])
           /\ p \in Parts(log[p.rev], p.rev)
<1>1. PICK r \in DOMAIN log : \E i \in 1..PartCount(log[r]) : p = SplitSnapshot(log[r], r)[i]
  BY DEF Exported
<1>2. PICK i \in 1..PartCount(log[r]) : p = SplitSnapshot(log[r], r)[i]
  BY <1>1
<1>3. IsSnapshot(log[r])
  BY ElementOfSeq, LenProperties, ExportIsSnapshot
<1>4. p.rev = r /\ p.count = PartCount(log[r])
  BY <1>2 DEF SplitSnapshot
<1>5. p \in Parts(log[r], r)
  BY <1>2 DEF Parts
<1> QED BY <1>3, <1>4, <1>5

\* The parts of an export are exported, under its revision.
LEMMA SiblingsExported ==
    ASSUME log \in Seq(Exports), NEW r \in DOMAIN log, NEW q \in Parts(log[r], r)
    PROVE  q.rev = r /\ q.count = PartCount(log[r]) /\ q \in Exported(log)
<1>1. PICK i \in 1..PartCount(log[r]) : q = SplitSnapshot(log[r], r)[i]
  BY DEF Parts
<1>2. q.rev = r /\ q.count = PartCount(log[r])
  BY <1>1 DEF SplitSnapshot
<1> QED BY <1>1, <1>2 DEF Exported

\* acceptChunk counts staged parts: when a part that is not staged completes the
\* number, all the others are staged.
LEMMA OthersStaged ==
    ASSUME log \in Seq(Exports), CenterInv, JobsInv, IsFiniteSet(chunks),
           NEW part \in Exported(log), Upload(Me, part) \notin chunks,
           ~(Cardinality(PartsOf(Me, part.rev)) + 1 < part.count),
           NEW q \in Parts(log[part.rev], part.rev), q # part
    PROVE  Upload(Me, q) \in chunks
<1> DEFINE r == part.rev
           P == Parts(log[r], r)
           Q == P \ {part}
           S == PartsOf(Me, r)
           T == {Upload(Me, p) : p \in Q}
<1>1. r \in DOMAIN log /\ IsSnapshot(log[r]) /\ part.count = PartCount(log[r]) /\ part \in P
  BY PartAmongSiblings
<1>2. IsFiniteSet(P) /\ Cardinality(P) = part.count
  BY <1>1, PartsCounted
<1>3. S \subseteq T
  <2> SUFFICES ASSUME NEW k \in S PROVE k \in T
    OBVIOUS
  <2>1. k \in chunks /\ k.client = Me /\ k.part.rev = r
    BY DEF PartsOf
  <2>2. k = Upload(Me, k.part) /\ k.part \in Exported(log)
    BY <2>1 DEF JobsInv, CenterInv
  <2>3. k.part \in P /\ k.part # part
    BY <2>1, <2>2, PartAmongSiblings
  <2> QED BY <2>2, <2>3
<1> HIDE DEF P, S
<1>4. IsFiniteSet(Q) /\ Cardinality(Q) = part.count - 1
  BY <1>1, <1>2, FS_RemoveElement, Zenon
<1>5. part.count \in Nat
  BY <1>1, PartsOfSnapshot
<1>6. IsFiniteSet(T) /\ Cardinality(T) <= Cardinality(Q)
  <2> DEFINE F == [p \in Q |-> Upload(Me, p)]
  <2>1. F \in Surjection(Q, T)
    BY DEF Surjection
  <2> HIDE DEF F, T, Q
  <2> QED BY <1>4, <2>1, FS_Surjection
<1>7. IsFiniteSet(S) /\ Cardinality(S) <= Cardinality(T) /\ (Cardinality(S) = Cardinality(T) => S = T)
  BY <1>3, <1>6, FS_Subset
<1>8. Cardinality(S) \in Nat /\ Cardinality(T) \in Nat
  BY <1>6, <1>7, FS_CardinalityType
<1>9. ~(Cardinality(S) + 1 < part.count)
  BY DEF S
<1> HIDE DEF Q, T
<1>10. S = T
  BY <1>4, <1>5, <1>6, <1>7, <1>8, <1>9
<1>11. Upload(Me, q) \in T
  BY DEF T, Q, P
<1> QED BY <1>10, <1>11 DEF S, PartsOf

\* Steps of the servers: a job that waits has waited before, and its parts stay.
LEMMA JobsFrame ==
    ASSUME log \in Seq(Exports), CenterInv, JobsInv, log' = log,
           receipts \subseteq receipts', chunks' \subseteq chunks, DOMAIN jobs' = DOMAIN jobs,
           \A u \in DOMAIN jobs :
              /\ jobs'[u].lease # "none" => jobs'[u].state = "pending"
              /\ Waiting(jobs'[u]) => Waiting(jobs[u])
              /\ Waiting(jobs'[u]) /\ u.client = Me =>
                   \A k \in chunks : k.client = Me /\ k.part.rev = u.part.rev => k \in chunks'
    PROVE  JobsInv'
<1>1. ASSUME NEW k \in chunks', k.client = Me
      PROVE  k = Upload(Me, k.part) /\ k \in receipts' \cup DOMAIN jobs'
  BY <1>1 DEF JobsInv
<1>2. ASSUME NEW u \in DOMAIN jobs, u.client = Me PROVE JobOK(u)'
  <2>1. JobOK(u)
    BY <1>2 DEF JobsInv
  <2>2. u.part.rev \in DOMAIN log
    BY <1>2, PartAmongSiblings DEF CenterInv
  <2>3. Siblings(u)' = Siblings(u)
    BY DEF Siblings
  <2>4. ASSUME Waiting(jobs'[u]), u.part.count > 1, NEW q \in Siblings(u)
        PROVE  Upload(Me, q) \in chunks'
    <3>1. Upload(Me, q) \in chunks
      BY <2>1, <2>4 DEF JobOK
    <3>2. q.rev = u.part.rev
      BY <2>2, SiblingsExported DEF Siblings
    <3> QED BY <1>2, <2>4, <3>1, <3>2, UploadFields
  <2>5. \A q \in Siblings(u) : q # u.part => Upload(Me, q) \in receipts'
    BY <2>1 DEF JobOK
  <2> QED BY <2>1, <2>3, <2>4, <2>5 DEF JobOK
<1> QED BY <1>1, <1>2 DEF JobsInv
\* Uploads: the last part of an export to arrive becomes its job, and the parts
\* of a job that waits are not outdated (reporting.go acceptChunk, DeleteChunks).
LEMMA AcceptJobs ==
    ASSUME log \in Seq(Exports), CenterInv, JobsInv, IsFiniteSet(chunks),
           NEW c, NEW part, NEW reply,
           c = Me => part \in Exported(log), Accept(c, part, reply), log' = log
    PROVE  JobsInv'
<1> DEFINE new == Upload(c, part)
           first == [state |-> "pending", lease |-> "none"]
<1>1. receipts \subseteq receipts'
  BY AcceptConfirms
<1>2. \/ chunks' = chunks
      \/ chunks' = (chunks \ Outdated(c, part.rev)) \cup {new} /\ new \in receipts' \cup DOMAIN jobs'
  BY DEF Accept, AcceptOld, AcceptSession, AcceptJob, AcceptChunk, AcceptWhole, centerVars,
         Confirm, SaveJob
<1>3. \/ jobs' = jobs
      \/ /\ new \notin receipts \cup DOMAIN jobs
         /\ jobs' = [u \in DOMAIN jobs \cup {new} |-> IF u \in DOMAIN jobs THEN jobs[u] ELSE first]
         /\ \/ part.count = 1
            \/ /\ ~(Cardinality(PartsOf(c, part.rev)) + 1 < part.count)
               /\ chunks' = (chunks \ Outdated(c, part.rev)) \cup {new}
  BY DEF Accept, AcceptOld, AcceptSession, AcceptJob, AcceptChunk, AcceptWhole, centerVars, SaveJob
<1>4. /\ DOMAIN jobs \subseteq DOMAIN jobs' /\ DOMAIN jobs' \subseteq DOMAIN jobs \cup {new}
      /\ \A u \in DOMAIN jobs : jobs'[u] = jobs[u]
      /\ \A u \in DOMAIN jobs' \ DOMAIN jobs : jobs'[u] = first
  <2> HIDE DEF first, new
  <2> QED BY <1>3
<1>5. new.client = c /\ new.part = part
  BY UploadFields
<1>6. c = Me => part.rev \in DOMAIN log /\ part \in Parts(log[part.rev], part.rev)
                /\ part.count = PartCount(log[part.rev])
  BY PartAmongSiblings
<1>7. ASSUME NEW k \in chunks', k.client = Me
      PROVE  k = Upload(Me, k.part) /\ k \in receipts' \cup DOMAIN jobs'
  <2>1. CASE k \in chunks
    BY <1>1, <1>4, <1>7, <2>1 DEF JobsInv
  <2>2. CASE k \notin chunks
    BY <1>2, <1>5, <1>7, <2>2
  <2> QED BY <2>1, <2>2
<1>8. ASSUME NEW u \in DOMAIN jobs, u.client = Me, u.part.rev = part.rev,
             c = Me, new \notin receipts \cup DOMAIN jobs
      PROVE  FALSE
  <2>1. JobOK(u)
    BY <1>8 DEF JobsInv
  <2>2. part \in Siblings(u)
    BY <1>6, <1>8 DEF Siblings
  <2>3. part # u.part
    BY <1>8, <2>1 DEF JobOK
  <2> QED BY <1>8, <2>1, <2>2, <2>3 DEF JobOK
<1>9. ASSUME NEW k \in chunks, k.client = Me, Needed(Me, k.part.rev) PROVE k \in chunks'
  BY <1>2, <1>9 DEF Outdated
<1>10. ASSUME NEW u \in DOMAIN jobs, u.client = Me PROVE JobOK(u)'
  <2>1. JobOK(u) /\ u.part.rev \in DOMAIN log
    BY <1>10, PartAmongSiblings DEF JobsInv, CenterInv
  <2>2. Siblings(u)' = Siblings(u)
    BY DEF Siblings
  <2>3. ASSUME Waiting(jobs[u]), u.part.count > 1, NEW q \in Siblings(u)
        PROVE  Upload(Me, q) \in chunks'
    <3>1. Upload(Me, q) \in chunks
      BY <2>1, <2>3 DEF JobOK
    <3>2. Needed(Me, q.rev)
      <4>1. q.rev = u.part.rev
        BY <2>1, SiblingsExported DEF Siblings
      <4> QED BY <1>10, <2>3, <4>1 DEF Needed, Waiting
    <3> QED BY <1>9, <3>1, <3>2, UploadFields
  <2>4. \A q \in Siblings(u) : q # u.part => Upload(Me, q) \in receipts'
    BY <1>1, <2>1 DEF JobOK
  <2>5. ASSUME NEW v \in DOMAIN jobs', v.client = Me, v.part.rev = u.part.rev PROVE v = u
    <3>1. CASE v \in DOMAIN jobs
      BY <2>1, <2>5, <3>1 DEF JobOK
    <3>2. CASE v \notin DOMAIN jobs
      <4>1. v = new /\ new \notin receipts \cup DOMAIN jobs
        BY <1>3, <1>4, <2>5, <3>2
      <4> QED BY <1>5, <1>8, <1>10, <2>5, <4>1
    <3> QED BY <3>1, <3>2
  <2>6. jobs'[u] = jobs[u] /\ u = Upload(Me, u.part)
    BY <1>4, <2>1 DEF JobOK
  <2> QED BY <2>2, <2>3, <2>4, <2>5, <2>6 DEF JobOK
<1>11. ASSUME new \in DOMAIN jobs' \ DOMAIN jobs, c = Me PROVE JobOK(new)'
  <2> DEFINE P == Parts(log[part.rev], part.rev)
  <2>1. /\ new \notin receipts \cup DOMAIN jobs
        /\ \/ part.count = 1
           \/ /\ ~(Cardinality(PartsOf(Me, part.rev)) + 1 < part.count)
              /\ chunks' = (chunks \ Outdated(Me, part.rev)) \cup {new}
    BY <1>3, <1>11
  <2>2. Siblings(new)' = P /\ part \in P
    BY <1>5, <1>6, <1>11 DEF Siblings
  <2>3. new \notin chunks
    BY <1>5, <1>11, <2>1 DEF JobsInv
  <2>4. ASSUME part.count # 1, NEW q \in P, q # part
        PROVE  Upload(Me, q) \in chunks /\ Upload(Me, q) \in chunks' /\ Upload(Me, q) \in receipts
    <3>1. Upload(Me, q) \in chunks
      BY <1>11, <2>1, <2>3, <2>4, OthersStaged
    <3>2. q.rev = part.rev
      BY <1>6, <1>11, SiblingsExported
    <3>3. part.rev \in Nat
      BY <1>6, <1>11, LenProperties
    <3>4. Upload(Me, q) \notin Outdated(Me, part.rev)
      BY <3>2, <3>3, UploadFields DEF Outdated
    <3>5. Upload(Me, q) \notin DOMAIN jobs
      BY <1>8, <1>11, <2>1, <3>2, UploadFields
    <3>6. Upload(Me, q) \in receipts
      BY <3>1, <3>5, UploadFields DEF JobsInv
    <3> QED BY <2>1, <2>4, <3>1, <3>4, <3>6
  <2>5. ASSUME part.count = 1, NEW q \in P PROVE q = part
    <3>1. PartCount(log[part.rev]) = 1
      BY <1>6, <1>11, <2>5
    <3> QED BY <2>2, <3>1 DEF Parts
  <2>6. \A q \in P : q # part => Upload(Me, q) \in receipts'
    BY <1>1, <2>4, <2>5
  <2>7. ASSUME part.count > 1, NEW q \in P PROVE Upload(Me, q) \in chunks'
    <3>1. part.count # 1
      BY <2>7
    <3>2. new \in chunks'
      BY <2>1, <3>1
    <3> QED BY <1>11, <2>4, <3>1, <3>2
  <2>8. ASSUME NEW v \in DOMAIN jobs', v.client = Me, v.part.rev = part.rev PROVE v = new
    BY <1>4, <1>8, <1>11, <2>1, <2>8
  <2>9. new = Upload(Me, new.part)
    BY <1>5, <1>11
  <2> HIDE DEF P, new
  <2> QED BY <1>5, <2>2, <2>6, <2>7, <2>8, <2>9 DEF JobOK
<1>12. \A u \in DOMAIN jobs' : jobs'[u].lease # "none" => jobs'[u].state = "pending"
  BY <1>4 DEF JobsInv
<1>13. ASSUME NEW u \in DOMAIN jobs', u.client = Me PROVE JobOK(u)'
  BY <1>4, <1>5, <1>10, <1>11, <1>13
<1> HIDE DEF new, first
<1> QED BY <1>7, <1>12, <1>13 DEF JobsInv
\* The servers: only a job that is done loses its parts, and a job that is done
\* never waits again.
LEMMA ServersJobs ==
    ASSUME log \in Seq(Exports), CenterInv, HeldInv, JobsInv, CenterNext, log' = log
    PROVE  JobsInv'
<1>1. \A u \in DOMAIN jobs : jobs[u].lease # "none" => jobs[u].state = "pending"
  BY DEF JobsInv
<1>2. ASSUME UNCHANGED chunks, receipts \subseteq receipts', DOMAIN jobs' = DOMAIN jobs,
             \A u \in DOMAIN jobs : /\ jobs'[u].lease # "none" => jobs'[u].state = "pending"
                                    /\ Waiting(jobs'[u]) => Waiting(jobs[u])
      PROVE  JobsInv'
  <2>1. chunks' \subseteq chunks /\ \A k \in chunks : k \in chunks'
    BY <1>2
  <2>2. \A u \in DOMAIN jobs :
           /\ jobs'[u].lease # "none" => jobs'[u].state = "pending"
           /\ Waiting(jobs'[u]) => Waiting(jobs[u])
           /\ Waiting(jobs'[u]) /\ u.client = Me =>
                \A k \in chunks : k.client = Me /\ k.part.rev = u.part.rev => k \in chunks'
    BY <1>2, <2>1
  <2> QED BY <1>2, <2>1, <2>2, JobsFrame, ZenonT(60)
<1>3. ASSUME NEW w \in Servers, NEW u \in DOMAIN jobs, Claim(w, u) PROVE JobsInv'
  <2>1. /\ jobs[u].state = "pending" /\ jobs' = [jobs EXCEPT ![u].lease = w]
        /\ UNCHANGED <<chunks, receipts>>
    BY <1>3 DEF Claim
  <2>2. /\ DOMAIN jobs' = DOMAIN jobs
        /\ \A t \in DOMAIN jobs : jobs'[t].state = jobs[t].state
        /\ \A t \in DOMAIN jobs : t # u => jobs'[t] = jobs[t]
    BY <2>1
  <2>3. \A t \in DOMAIN jobs : /\ jobs'[t].lease # "none" => jobs'[t].state = "pending"
                               /\ Waiting(jobs'[t]) => Waiting(jobs[t])
    BY <1>1, <2>1, <2>2 DEF Waiting
  <2> QED BY <1>2, <2>1, <2>2, <2>3
<1>4. ASSUME NEW u \in DOMAIN jobs, LeaseExpires(u) PROVE JobsInv'
  <2>1. jobs' = [jobs EXCEPT ![u].lease = "none"] /\ UNCHANGED <<chunks, receipts>>
    BY <1>4 DEF LeaseExpires
  <2>2. /\ DOMAIN jobs' = DOMAIN jobs
        /\ \A t \in DOMAIN jobs : jobs'[t].state = jobs[t].state
        /\ \A t \in DOMAIN jobs : jobs'[t].lease # "none" => jobs[t].lease # "none"
    BY <2>1
  <2>3. \A t \in DOMAIN jobs : /\ jobs'[t].lease # "none" => jobs'[t].state = "pending"
                               /\ Waiting(jobs'[t]) => Waiting(jobs[t])
    BY <1>1, <2>2 DEF Waiting
  <2> QED BY <1>2, <2>1, <2>2, <2>3
<1>5. ASSUME NEW w \in Servers, NEW s, FinishJob(w, work[w].job, s),
             UNCHANGED chunks, receipts \subseteq receipts'
      PROVE  JobsInv'
  <2> DEFINE j == work[w].job
             e == [state |-> s, lease |-> "none"]
  <2>1. e.lease = "none"
    OBVIOUS
  <2>2. jobs' = jobs \/ (jobs[j].lease = w /\ jobs' = [jobs EXCEPT ![j] = e])
    BY <1>5 DEF FinishJob
  <2>3. w # "none"
    BY ServersAssumption
  <2> HIDE DEF e, j
  <2>4. DOMAIN jobs' = DOMAIN jobs
    BY <2>2
  <2>5. ASSUME NEW t \in DOMAIN jobs
        PROVE  jobs'[t] = jobs[t] \/ (jobs'[t].lease = "none" /\ jobs[t].state = "pending")
    BY <1>1, <2>1, <2>2, <2>3
  <2>6. \A t \in DOMAIN jobs : /\ jobs'[t].lease # "none" => jobs'[t].state = "pending"
                               /\ Waiting(jobs'[t]) => Waiting(jobs[t])
    BY <1>1, <2>5 DEF Waiting
  <2> QED BY <1>2, <1>5, <2>4, <2>6
<1>6. ASSUME NEW w \in Servers, Refuse(w) \/ GiveBack(w) \/ CommitPublication(w) PROVE JobsInv'
  <2>1. /\ \E s : FinishJob(w, work[w].job, s)
        /\ UNCHANGED chunks /\ receipts \subseteq receipts'
    BY <1>6 DEF Refuse, GiveBack, CommitPublication
  <2> QED BY <1>5, <2>1
<1>7. ASSUME NEW w \in Servers, NEW u \in DOMAIN jobs, CleanupPublication(w, u) PROVE JobsInv'
  <2>1. /\ jobs[u].state = "published" /\ UNCHANGED receipts
        /\ jobs' = jobs \/ jobs' = [jobs EXCEPT ![u].state = "completed"]
    BY <1>7 DEF CleanupPublication
  <2>2. chunks' \subseteq chunks /\ \A k \in chunks \ chunks' : k \in PartsOf(u.client, u.part.rev)
    BY <1>7 DEF CleanupPublication
  <2>3. /\ DOMAIN jobs' = DOMAIN jobs
        /\ \A t \in DOMAIN jobs : jobs'[t].lease = jobs[t].lease
        /\ \A t \in DOMAIN jobs : t # u => jobs'[t] = jobs[t]
        /\ jobs'[u].state \in {"published", "completed"}
    <3>1. jobs[u] \in JobT
      BY DEF HeldInv
    <3> QED BY <2>1, <3>1 DEF JobT
  <2>4. jobs[u].lease = "none"
    BY <1>1, <2>1
  <2>5. \A t \in DOMAIN jobs : /\ jobs'[t].lease # "none" => jobs'[t].state = "pending"
                               /\ Waiting(jobs'[t]) => Waiting(jobs[t]) /\ t # u
    BY <1>1, <2>3, <2>4 DEF Waiting
  <2>6. ASSUME NEW t \in DOMAIN jobs, t # u, t.client = Me,
               NEW k \in chunks, k.client = Me, k.part.rev = t.part.rev
        PROVE  k \in chunks'
    <3>1. JobOK(t)
      BY <2>6 DEF JobsInv
    <3>2. ~(u.client = Me /\ u.part.rev = t.part.rev)
      BY <2>6, <3>1 DEF JobOK
    <3> QED BY <2>2, <2>6, <3>2 DEF PartsOf
  <2> QED BY <2>1, <2>2, <2>3, <2>5, <2>6, JobsFrame
<1>8. ASSUME NEW w \in Servers,
             Read(w) \/ StageUsage(w) \/ Die(w) \/ CollectSelect(w) \/ CollectDelete(w)
      PROVE  JobsInv'
  <2>1. UNCHANGED <<chunks, receipts, jobs>>
    BY <1>8 DEF Read, StageUsage, Die, CollectSelect, CollectDelete
  <2> QED BY <1>1, <1>2, <2>1
<1> QED BY <1>3, <1>4, <1>6, <1>7, <1>8 DEF CenterNext, Worker

\* One more export changes no earlier one.
LEMMA ExportJobs ==
    ASSUME log \in Seq(Exports), CenterInv, JobsInv, UNCHANGED <<chunks, jobs, receipts>>,
           log' = log \/ \E x \in Exports : log' = Append(log, x)
    PROVE  JobsInv'
<1>1. \A r \in DOMAIN log : log'[r] = log[r]
  BY ExportedGrows
<1>2. ASSUME NEW u \in DOMAIN jobs, u.client = Me PROVE JobOK(u)'
  <2>1. JobOK(u) /\ u.part.rev \in DOMAIN log
    BY <1>2, PartAmongSiblings DEF JobsInv, CenterInv
  <2>2. Siblings(u)' = Siblings(u)
    BY <1>1, <2>1 DEF Siblings
  <2> QED BY <2>1, <2>2 DEF JobOK
<1> QED BY <1>2 DEF JobsInv

\* The inductive step for jobs and their parts.
LEMMA StepsJobs == DeliveryInv /\ JobsInv /\ [Next]_vars => JobsInv'
<1> SUFFICES ASSUME DeliveryInv, JobsInv, [Next]_vars PROVE JobsInv'
  OBVIOUS
<1>1. IInv /\ CenterInv /\ log \in Seq(Exports) /\ IsFiniteSet(chunks)
  BY DEF DeliveryInv, IInv, DeviceInv, HeldInv
<1>2. late \subseteq Exported(log) /\ outbox \in Seq(QueueT(log))
  BY DEF DeliveryInv, IInv, DeviceInv
<1>3. CASE OutboxNext /\ UNCHANGED late /\ UNCHANGED centerVars
  <2>1. log' = log \/ \E x \in Exports : log' = Append(log, x)
    BY <1>1, <1>3, OutboxKeeps DEF IInv
  <2>2. UNCHANGED <<chunks, jobs, receipts>>
    BY <1>3 DEF centerVars
  <2> QED BY <1>1, <2>1, <2>2, ExportJobs
<1>4. CASE UploadTimesOut \/ CycleStop \/ UNCHANGED vars
  <2>1. UNCHANGED <<chunks, jobs, receipts, log>>
    BY <1>4 DEF UploadTimesOut, CycleStop, centerVars, vars
  <2> QED BY <1>1, <2>1, ExportJobs
<1>5. CASE CenterNext /\ UNCHANGED late /\ UNCHANGED outboxVars
  BY <1>1, <1>5, ServersJobs DEF DeliveryInv, outboxVars
<1>6. ASSUME NEW c, NEW part, NEW reply, c = Me => part \in Exported(log),
             Accept(c, part, reply), log' = log
      PROVE  JobsInv'
  BY <1>1, <1>6, AcceptJobs
<1>7. CASE UploadAnswered
  <2>1. PICK reply : Accept(Me, outbox[Oldest].part, reply)
    BY <1>7 DEF UploadAnswered
  <2>2. Ready # {} /\ log' = log
    BY <1>7 DEF UploadAnswered, Sends
  <2>3. Oldest \in DOMAIN outbox
    BY <1>2, <2>2, OldestIsReady
  <2>4. outbox[Oldest].part \in Exported(log)
    BY <1>1, <2>3, QueuedRow DEF IInv
  <2> QED BY <1>6, <2>1, <2>2, <2>4
<1>8. CASE \/ \E part \in late : DeliverLate(part)
           \/ \E p \in Peers : \E r \in DOMAIN PeerReports[p] : PeerUpload(p, r)
  <2>1. PICK c, part, reply : Accept(c, part, reply) /\ (c = Me => part \in late)
    BY <1>8, ReportingAssumption DEF DeliverLate, PeerUpload
  <2>2. log' = log
    BY <1>8 DEF DeliverLate, PeerUpload, outboxVars
  <2> QED BY <1>2, <1>6, <2>1, <2>2
<1> QED BY <1>3, <1>4, <1>5, <1>7, <1>8 DEF Next

\* A chunked job that waits for its worker, or failed, can be read: its staged
\* parts pass the checks of AssembleSnapshot and are the export it is about.
Readable ==
    \A u \in DOMAIN jobs :
        u.client = Me /\ Waiting(jobs[u]) /\ u.part.count > 1 =>
            Assembles(JobParts(u)) /\ JobSnapshot(u) = log[u.part.rev]

\* The staged parts of a job that waits are the parts of its export.
LEMMA JobsAreReadable == ASSUME DeliveryInv, JobsInv PROVE Readable
<1>1. log \in Seq(Exports) /\ CenterInv
  BY DEF DeliveryInv, IInv, DeviceInv
<1> SUFFICES ASSUME NEW u \in DOMAIN jobs, u.client = Me, Waiting(jobs[u]), u.part.count > 1
             PROVE  Assembles(JobParts(u)) /\ JobSnapshot(u) = log[u.part.rev]
  BY DEF Readable
<1> DEFINE r == u.part.rev
<1>2. JobOK(u)
  BY DEF JobsInv
<1>3. r \in DOMAIN log /\ IsSnapshot(log[r])
  BY <1>1, PartAmongSiblings DEF CenterInv
<1>4. ASSUME NEW p \in JobParts(u) PROVE p \in Parts(log[r], r)
  <2>1. PICK k \in chunks : k.client = Me /\ k.part.rev = r /\ p = k.part
    BY DEF JobParts, PartsOf
  <2>2. p \in Exported(log)
    BY <1>1, <2>1 DEF CenterInv
  <2> QED BY <1>1, <2>1, <2>2, PartAmongSiblings
<1>5. ASSUME NEW q \in Parts(log[r], r) PROVE q \in JobParts(u)
  <2>1. Upload(Me, q) \in chunks
    BY <1>2 DEF JobOK, Siblings
  <2>2. q.rev = r
    BY <1>1, <1>3, SiblingsExported
  <2>3. Upload(Me, q) \in PartsOf(u.client, r) /\ Upload(Me, q).part = q
    BY <2>1, <2>2, UploadFields DEF PartsOf
  <2> QED BY <2>3 DEF JobParts
<1>6. JobParts(u) = Parts(log[r], r)
  BY <1>4, <1>5
<1>7. Assembles(JobParts(u)) /\ Assembled(JobParts(u)) = log[r]
  BY <1>3, <1>6, SplitAssembles
<1>8. u.part.count # 1
  OBVIOUS
<1> QED BY <1>7, <1>8 DEF JobSnapshot

\* However the parts of large exports arrive (late, twice, of several revisions
\* at once) and whatever is cleaned up meanwhile, a publication job of the
\* device can always be assembled into its export until it is published
\* (reporting.go acceptChunk, publications.go ProcessPublication).
THEOREM JobsReadable == Spec => []Readable
<1>1. Init => JobsInv
  BY DEF Init, CenterInit, JobsInv
<1>2. DeliveryInv /\ JobsInv => Readable
  BY JobsAreReadable
<1> QED BY <1>1, <1>2, InitiallyDelivered, StepsDeliver, StepsJobs, PTL DEF Spec

-----------------------------------------------------------------------------
\* Arbitration

\* One step of a pass: what the next source makes of what is selected.
Pass(S, p, g, m) ==
    [n \in 0..m |-> IF n = 0 THEN Selected(S, p) ELSE Better(S, p, n, g[n - 1])]

\* There is a pass over any number of sources.
LEMMA PassExists ==
    ASSUME NEW S, NEW p, NEW N \in Nat PROVE \E g : g = Pass(S, p, g, N)
<1> DEFINE Bad == {m \in Nat : ~(\E g : g = Pass(S, p, g, m))}
<1> SUFFICES ASSUME Bad # {} PROVE FALSE
  OBVIOUS
<1>1. PICK m \in Bad : \A k \in Bad : m <= k
  BY LeastNat, Zenon
<1>2. m \in Nat /\ ~(\E g : g = Pass(S, p, g, m))
  OBVIOUS
<1>3. CASE m = 0
  <2> DEFINE g == [n \in 0..0 |-> Selected(S, p)]
  <2>1. g = Pass(S, p, g, 0)
    BY DEF Pass
  <2> QED BY <1>2, <1>3, <2>1
<1>4. CASE m # 0
  <2>1. m - 1 \in Nat /\ ~(m <= m - 1)
    BY <1>2, <1>4
  <2>2. m - 1 \notin Bad
    BY <1>1, <2>1, Zenon
  <2>3. PICK f : f = Pass(S, p, f, m - 1)
    BY <2>1, <2>2
  <2> DEFINE g == [n \in 0..m |-> IF n = m THEN Better(S, p, m, f[m - 1]) ELSE f[n]]
  <2>4. f[0] = Selected(S, p) /\ \A n \in 1..(m - 1) : f[n] = Better(S, p, n, f[n - 1])
    BY <2>1, <2>3 DEF Pass
  <2>5. \A n \in 0..m : g[n] = IF n = 0 THEN Selected(S, p) ELSE Better(S, p, n, g[n - 1])
    <3> SUFFICES ASSUME NEW n \in 0..m
                 PROVE  g[n] = IF n = 0 THEN Selected(S, p) ELSE Better(S, p, n, g[n - 1])
      OBVIOUS
    <3>1. CASE n = 0
      BY <1>2, <1>4, <2>4, <3>1
    <3>2. CASE n \in 1..(m - 1)
      <4>1. g[n] = f[n] /\ g[n - 1] = f[n - 1]
        BY <1>2, <3>2
      <4> QED BY <2>4, <3>2, <4>1
    <3>3. CASE n = m
      <4>1. g[n - 1] = f[m - 1] /\ g[n] = Better(S, p, m, f[m - 1])
        BY <1>2, <1>4, <3>3
      <4> QED BY <1>4, <3>3, <4>1
    <3> QED BY <1>2, <3>1, <3>2, <3>3
  <2>6. g = Pass(S, p, g, m)
    BY <2>5 DEF Pass
  <2> QED BY <1>2, <2>6
<1> QED BY <1>3, <1>4

\* reporting_merge.go DecideSnapshot: the loop over the candidates.
LEMMA SelectionsStep ==
    ASSUME NEW S, NEW p, Len(S) \in Nat
    PROVE  /\ Selections(S, p)[0] = Selected(S, p)
           /\ \A n \in 1..Len(S) : Selections(S, p)[n] = Better(S, p, n, Selections(S, p)[n - 1])
<1>1. Selections(S, p) = CHOOSE g : g = Pass(S, p, g, Len(S))
  BY Zenon DEF Selections, Pass
<1>2. Selections(S, p) = Pass(S, p, Selections(S, p), Len(S))
  BY <1>1, PassExists, Zenon
<1>3. \A n \in 0..Len(S) : Selections(S, p)[n] =
          IF n = 0 THEN Selected(S, p) ELSE Better(S, p, n, Selections(S, p)[n - 1])
  BY <1>2, Zenon DEF Pass
<1> QED BY <1>3

\* The sources of a session: one record per device.
SourcesOK(S) ==
    /\ Len(S) \in Nat /\ DOMAIN S = 1..Len(S)
    /\ \A i, j \in DOMAIN S : S[i].id = S[j].id => S[i] = S[j]
    /\ \A i \in DOMAIN S : /\ S[i].rev \in Nat /\ IsSnapshot(S[i].snap)
                            /\ S[i] = [id |-> S[i].id, rev |-> S[i].rev, snap |-> S[i].snap,
                                       inconsistent |-> FALSE]

\* What beats a selection has all its facts.
LEMMA BetterFacts ==
    ASSUME NEW S, NEW p, NEW i, NEW x PROVE Ids(x.snap) \subseteq Ids(Better(S, p, i, x).snap)
BY DEF Better, Beats, containsFacts

\* In the course of a pass no fact is lost.
LEMMA FactsGrow ==
    ASSUME NEW S, NEW p, Len(S) \in Nat, NEW m \in 0..Len(S), NEW n \in m..Len(S)
    PROVE  Ids(Selections(S, p)[m].snap) \subseteq Ids(Selections(S, p)[n].snap)
<1> DEFINE F(k) == Ids(Selections(S, p)[k].snap)
           Bad  == {k \in m..Len(S) : ~(F(m) \subseteq F(k))}
<1> SUFFICES ASSUME Bad # {} PROVE FALSE
  BY Zenon
<1>1. PICK k \in Bad : \A l \in Bad : k <= l
  <2>1. Bad \subseteq Nat
    BY Zenon, SMT
  <2> QED BY <2>1, LeastNat, Zenon
<1>2. k \in m..Len(S) /\ ~(F(m) \subseteq F(k))
  BY Zenon
<1>3. k # m
  BY <1>2, Zenon
<1>4. k \in 1..Len(S) /\ k - 1 \in m..Len(S) /\ ~(k <= k - 1)
  BY <1>2, <1>3
<1>5. k - 1 \notin Bad
  BY <1>1, <1>4, Zenon
<1>6. F(m) \subseteq F(k - 1)
  BY <1>4, <1>5, Zenon
<1>7. F(k - 1) \subseteq F(k)
  <2>1. Selections(S, p)[k] = Better(S, p, k, Selections(S, p)[k - 1])
    BY <1>4, SelectionsStep, Zenon
  <2> QED BY <2>1, BetterFacts, Zenon
<1> QED BY <1>2, <1>6, <1>7, Zenon

\* What is selected is what the pass started with, or a candidate.
LEMMA SelectionFrom ==
    ASSUME NEW S, NEW p, Len(S) \in Nat, NEW n \in 0..Len(S)
    PROVE  \/ Selections(S, p)[n] = Selected(S, p)
           \/ \E i \in Candidates(S) : Selections(S, p)[n] = S[i]
<1> DEFINE P(k) == \/ Selections(S, p)[k] = Selected(S, p)
                   \/ \E i \in Candidates(S) : Selections(S, p)[k] = S[i]
           Bad  == {k \in 0..Len(S) : ~P(k)}
<1> SUFFICES ASSUME Bad # {} PROVE FALSE
  BY Zenon
<1>1. PICK k \in Bad : \A l \in Bad : k <= l
  <2>1. Bad \subseteq Nat
    BY Zenon, SMT
  <2> QED BY <2>1, LeastNat, Zenon
<1>2. k \in 0..Len(S) /\ ~P(k)
  BY Zenon
<1>3. k # 0
  BY <1>2, SelectionsStep, Zenon
<1>4. k \in 1..Len(S) /\ k - 1 \in 0..Len(S) /\ ~(k <= k - 1)
  BY <1>2, <1>3
<1>5. k - 1 \notin Bad
  BY <1>1, <1>4, Zenon
<1>6. P(k - 1)
  BY <1>4, <1>5, Zenon
<1>7. Selections(S, p)[k] = Better(S, p, k, Selections(S, p)[k - 1])
  BY <1>4, SelectionsStep, Zenon
<1> QED BY <1>2, <1>6, <1>7, Zenon DEF Better

\* Where a pass starts: with a candidate, or with the accepted snapshot that a
\* partial revision of its source does not replace.
LEMMA SelectedFrom ==
    ASSUME NEW S, NEW p, SourcesOK(S), Candidates(S) # {}
    PROVE  \/ /\ Accepted(S, p) = {}
              /\ \E i \in Candidates(S) : Selected(S, p) = S[i]
           \/ \E i \in Accepted(S, p) :
                 /\ replaces(S[i], p)
                 /\ Selected(S, p) = S[i]
           \/ \E i \in Accepted(S, p) :
                 /\ ~replaces(S[i], p)
                 /\ Selected(S, p) = KeptSnapshot(p)
<1>1. CASE Accepted(S, p) = {}
  <2>1. Candidates(S) \subseteq Nat
    BY DEF SourcesOK, Candidates
  <2>2. \E i \in Candidates(S) : \A j \in Candidates(S) : i <= j
    BY <2>1, LeastNat, Zenon
  <2>3. Selected(S, p) = S[CHOOSE i \in Candidates(S) : \A j \in Candidates(S) : i <= j]
    BY <1>1, Zenon DEF Selected
  <2> QED BY <1>1, <2>2, <2>3, ZenonT(60)
<1>2. CASE Accepted(S, p) # {}
  <2> DEFINE i == CHOOSE i \in Accepted(S, p) : TRUE
  <2>1. i \in Accepted(S, p)
    BY <1>2, Zenon
  <2>2. Selected(S, p) = IF replaces(S[i], p) THEN S[i] ELSE KeptSnapshot(p)
    BY <1>2, Zenon DEF Selected
  <2> HIDE DEF i
  <2> QED BY <2>1, <2>2, Zenon
<1> QED BY <1>1, <1>2

\* s is what DecideSnapshot makes of the sources S after p.
Decided(S, p, s) ==
    LET c == Selections(S, p)[Len(S)]
    IN s.id = c.id /\ s.rev = c.rev /\ s.snap = c.snap /\ s.fence = correctionFence(S, p)

\* A decision is a candidate, or the snapshot accepted before, which a partial
\* revision of its source did not replace.
LEMMA DecidedFrom ==
    ASSUME NEW S, NEW p, SourcesOK(S), Candidates(S) # {}, NEW n \in 0..Len(S)
    PROVE  \/ \E i \in Candidates(S) : Selections(S, p)[n] = S[i]
           \/ /\ Selections(S, p)[n] = KeptSnapshot(p)
              /\ \E i \in Accepted(S, p) : ~replaces(S[i], p)
<1>1. Len(S) \in Nat
  BY DEF SourcesOK
<1>2. Accepted(S, p) \subseteq Candidates(S)
  BY DEF Accepted
<1>3. CASE \E i \in Candidates(S) : Selections(S, p)[n] = S[i]
  BY <1>3
<1>4. CASE Selections(S, p)[n] = Selected(S, p)
  BY <1>2, <1>4, SelectedFrom, ZenonT(60)
<1> QED BY <1>1, <1>3, <1>4, SelectionFrom

\* A snapshot that is kept has its facts, and counts as partial.
LEMMA KeptFields ==
    ASSUME NEW p
    PROVE  /\ KeptSnapshot(p).id = p.id /\ KeptSnapshot(p).rev = p.rev
           /\ KeptSnapshot(p).inconsistent = TRUE
           /\ KeptSnapshot(p).snap = [rows |-> p.snap.rows, complete |-> FALSE,
                                      deleted |-> p.snap.deleted]
           /\ Ids(KeptSnapshot(p).snap) = Ids(p.snap)
BY DEF KeptSnapshot, Ids

\* A rebuild starts where the decision ended.
LEMMA Restarts ==
    ASSUME NEW S, NEW p, NEW s, SourcesOK(S), Candidates(S) # {},
           Decided(S, p, s)
    PROVE  Accepted(S, s) # {} /\ Selected(S, s) = Selections(S, p)[Len(S)]
<1> DEFINE c == Selections(S, p)[Len(S)]
<1>1. s.id = c.id /\ s.rev = c.rev /\ s.snap = c.snap
  BY DEF Decided
<1>2. Len(S) \in 0..Len(S)
  BY DEF SourcesOK
<1>3. \/ \E i \in Candidates(S) : c = S[i]
      \/ c = KeptSnapshot(p) /\ \E i \in Accepted(S, p) : ~replaces(S[i], p)
  BY <1>2, DecidedFrom, Zenon
<1> HIDE DEF c
<1>4. ASSUME NEW i \in Candidates(S), c = S[i]
      PROVE  Accepted(S, s) # {} /\ Selected(S, s) = c
  <2>1. i \in Accepted(S, s)
    BY <1>1, <1>4 DEF Accepted
  <2>2. ASSUME NEW j \in Accepted(S, s) PROVE S[j] = c /\ replaces(S[j], s)
    <3>1. S[j] = c
      BY <1>1, <1>4 DEF Accepted, Candidates, SourcesOK
    <3> QED BY <1>1, <3>1 DEF replaces, containsFacts
  <2> QED BY <2>1, <2>2, SelectedFrom, ZenonT(60)
<1>5. ASSUME c = KeptSnapshot(p), NEW i \in Accepted(S, p), ~replaces(S[i], p)
      PROVE  Accepted(S, s) # {} /\ Selected(S, s) = c
  <2>1. /\ c.id = p.id /\ c.rev = p.rev /\ c.inconsistent = TRUE
        /\ c.snap = [rows |-> p.snap.rows, complete |-> FALSE, deleted |-> p.snap.deleted]
        /\ Ids(c.snap) = Ids(p.snap)
    BY <1>5, KeptFields
  <2>2. i \in Accepted(S, s)
    BY <1>1, <2>1 DEF Accepted
  <2>3. ASSUME NEW j \in Accepted(S, s) PROVE ~replaces(S[j], s)
    <3>1. S[j] = S[i]
      BY <1>1, <2>1 DEF Accepted, Candidates, SourcesOK
    <3> QED BY <1>1, <1>5, <2>1, <3>1 DEF replaces, containsFacts
  <2>4. Selected(S, s) = KeptSnapshot(s)
    BY <2>2, <2>3, SelectedFrom, Zenon
  <2>5. KeptSnapshot(s) = c
    <3>1. s.snap.rows = p.snap.rows /\ s.snap.deleted = p.snap.deleted
      BY <1>1, <2>1
    <3> QED BY <1>1, <1>5, <2>1, <3>1, ZenonT(60) DEF KeptSnapshot
  <2> QED BY <2>2, <2>4, <2>5
<1>6. Accepted(S, s) # {} /\ Selected(S, s) = c
  BY <1>3, <1>4, <1>5, ZenonT(60)
<1> QED BY <1>6 DEF c

\* A rebuild finds the fence as the decision left it.
LEMMA FenceStays ==
    ASSUME NEW S, NEW p, NEW s, SourcesOK(S), Candidates(S) # {},
           Decided(S, p, s)
    PROVE  correctionFence(S, s) = correctionFence(S, p)
<1> DEFINE c == Selections(S, p)[Len(S)]
<1>1. /\ s.id = c.id /\ s.rev = c.rev /\ s.snap = c.snap
      /\ s.fence = correctionFence(S, p)
  BY DEF Decided
<1>2. Len(S) \in 0..Len(S) /\ Len(S) \in Nat
  BY DEF SourcesOK
<1>3. \/ \E i \in Candidates(S) : c = S[i]
      \/ c = KeptSnapshot(p) /\ \E i \in Accepted(S, p) : ~replaces(S[i], p)
  BY <1>2, DecidedFrom, Zenon
<1> HIDE DEF c
<1>4. CASE correctionFence(S, p)
  <2>1. Accepted(S, s) # {}
    BY Restarts, Zenon
  <2> QED BY <1>1, <1>4, <2>1, Zenon DEF correctionFence
<1>5. CASE ~correctionFence(S, p)
  <2> SUFFICES ASSUME NEW j \in Accepted(S, s), S[j].snap.complete, S[j].rev > s.rev,
                      ~containsFacts(S[j].snap, s.snap)
               PROVE  FALSE
    BY <1>1, <1>5, ZenonT(60) DEF correctionFence
  <2>1. ASSUME NEW i \in Candidates(S), c = S[i] PROVE FALSE
    <3>1. S[j] = c
      BY <1>1, <2>1 DEF Accepted, Candidates, SourcesOK
    <3> QED BY <1>1, <3>1 DEF containsFacts
  <2>2. ASSUME c = KeptSnapshot(p), NEW i \in Accepted(S, p), ~replaces(S[i], p) PROVE FALSE
    <3>1. c.id = p.id
      BY <2>2, KeptFields
    <3>2. S[j] = S[i]
      BY <1>1, <3>1 DEF Accepted, Candidates, SourcesOK
    <3> QED BY <2>2, <3>2 DEF replaces
  <2> QED BY <1>3, <2>1, <2>2, Zenon
<1> QED BY <1>4, <1>5

\* How many rows of a snapshot have a price is a number.
LEMMA EvidenceNat == ASSUME NEW x, IsSnapshot(x) PROVE pricingEvidence(x) \in Nat
<1>1. Len(x.rows) \in Nat /\ DOMAIN x.rows = 1..Len(x.rows)
  BY LenProperties DEF IsSnapshot
<1>2. IsFiniteSet(DOMAIN x.rows)
  BY <1>1, FS_Interval
<1>3. IsFiniteSet({i \in DOMAIN x.rows : x.rows[i].cost # "unknown"})
  BY <1>2, FS_Subset
<1> QED BY <1>3, FS_CardinalityType DEF pricingEvidence

\* A decision is a snapshot.
LEMMA DecisionIsSnapshot ==
    ASSUME NEW S, NEW p, SourcesOK(S), Candidates(S) # {}, IsSnapshot(p.snap), NEW n \in 0..Len(S)
    PROVE  IsSnapshot(Selections(S, p)[n].snap)
<1>1. ASSUME NEW i \in Candidates(S) PROVE IsSnapshot(S[i].snap)
  BY DEF SourcesOK, Candidates
<1>2. IsSnapshot(KeptSnapshot(p).snap)
  <2> DEFINE k == KeptSnapshot(p).snap
  <2>1. k = [rows |-> p.snap.rows, complete |-> FALSE, deleted |-> p.snap.deleted]
    BY KeptFields, ZenonT(60)
  <2>2. k.rows = p.snap.rows /\ k.complete = FALSE /\ k.deleted = p.snap.deleted
    BY <2>1
  <2> HIDE DEF k
  <2>3. k = [rows |-> k.rows, complete |-> k.complete, deleted |-> k.deleted]
    BY <2>1, <2>2, Zenon
  <2>4. k.rows \in Seq({k.rows[i] : i \in DOMAIN k.rows})
    BY <2>2, Zenon DEF IsSnapshot
  <2> QED BY <2>3, <2>4, Zenon DEF k, IsSnapshot
<1> QED BY <1>1, <1>2, DecidedFrom, ZenonT(60)

\* Unless a fence keeps copies out, no candidate has all facts of the decision
\* and more: it would have been taken in its turn.
LEMMA NothingMissed ==
    ASSUME NEW S, NEW p, SourcesOK(S), ~correctionFence(S, p), NEW n \in Candidates(S),
           Ids(Selections(S, p)[Len(S)].snap) \subseteq Ids(S[n].snap)
    PROVE  Ids(S[n].snap) = Ids(Selections(S, p)[Len(S)].snap)
<1> DEFINE pick == Selections(S, p)
           x    == pick[n - 1]
           c    == pick[Len(S)]
<1>1. /\ Len(S) \in Nat /\ n \in 1..Len(S) /\ n - 1 \in 0..Len(S) /\ Len(S) \in (n - 1)..Len(S)
      /\ n \in 0..Len(S) /\ Len(S) \in n..Len(S)
  BY DEF SourcesOK, Candidates
<1>2. Ids(x.snap) \subseteq Ids(c.snap) /\ Ids(pick[n].snap) \subseteq Ids(c.snap)
  BY <1>1, FactsGrow, Zenon
<1>3. pick[n] = Better(S, p, n, x)
  BY <1>1, SelectionsStep, Zenon
<1>4. \/ \E i \in Candidates(S) : x = S[i]
      \/ x = KeptSnapshot(p) /\ \E i \in Accepted(S, p) : ~replaces(S[i], p)
  BY <1>1, DecidedFrom, Zenon
<1> HIDE DEF pick, x
<1> SUFFICES ASSUME ~(Ids(S[n].snap) \subseteq Ids(c.snap)) PROVE FALSE
  BY Zenon DEF pick
<1>5. Ids(c.snap) \subseteq Ids(S[n].snap)
  BY Zenon DEF pick
<1>6. pick[n] # S[n]
  BY <1>2, ZenonT(60)
<1>7. containsFacts(S[n].snap, x.snap) /\ ~containsFacts(x.snap, S[n].snap)
  BY <1>2, <1>5 DEF containsFacts
<1>8. S[n].id = x.id
  BY <1>3, <1>6, <1>7, ZenonT(60) DEF Better, Beats
<1>9. ASSUME NEW i \in Candidates(S), x = S[i] PROVE FALSE
  <2>1. S[n] = x
    BY <1>8, <1>9 DEF Candidates, SourcesOK
  <2> QED BY <1>7, <2>1 DEF containsFacts
<1>10. ASSUME x = KeptSnapshot(p), NEW i \in Accepted(S, p), ~replaces(S[i], p) PROVE FALSE
  <2>1. x.id = p.id /\ Ids(x.snap) = Ids(p.snap)
    BY <1>10, KeptFields
  <2>2. S[n] = S[i]
    BY <1>8, <2>1 DEF Accepted, Candidates, SourcesOK
  <2> QED BY <1>7, <1>10, <2>1, <2>2 DEF containsFacts, replaces
<1> QED BY <1>4, <1>9, <1>10, ZenonT(60)

\* What a rebuild selects: the decision itself, or a copy of the same facts that
\* prices more of them.
LEMMA SecondPass ==
    ASSUME NEW S, NEW p, NEW s, SourcesOK(S), Candidates(S) # {}, IsSnapshot(p.snap),
           Decided(S, p, s), NEW n \in 0..Len(S)
    PROVE  \/ Selections(S, s)[n] = Selections(S, p)[Len(S)]
           \/ /\ Ids(Selections(S, s)[n].snap) = Ids(s.snap)
              /\ pricingEvidence(Selections(S, s)[n].snap) > pricingEvidence(s.snap)
<1> DEFINE c    == Selections(S, p)[Len(S)]
           P(x) == \/ x = c
                   \/ /\ Ids(x.snap) = Ids(s.snap)
                      /\ pricingEvidence(x.snap) > pricingEvidence(s.snap)
           Bad  == {k \in 0..Len(S) : ~P(Selections(S, s)[k])}
<1>1. Len(S) \in Nat /\ Len(S) \in 0..Len(S) /\ s.snap = c.snap
  BY DEF SourcesOK, Decided
<1>2. Accepted(S, s) # {} /\ Selected(S, s) = c
  BY Restarts, Zenon
<1>3. correctionFence(S, s) = correctionFence(S, p)
  BY FenceStays, Zenon
<1>4. IsSnapshot(s.snap) /\ pricingEvidence(s.snap) \in Nat
  BY <1>1, DecisionIsSnapshot, EvidenceNat, Zenon
<1> SUFFICES ASSUME Bad # {} PROVE FALSE
  BY Zenon
<1>5. PICK k \in Bad : \A l \in Bad : k <= l
  <2>1. Bad \subseteq Nat
    BY Zenon, SMT
  <2> QED BY <2>1, LeastNat, Zenon
<1> DEFINE x == Selections(S, s)[k - 1]
<1>6. k \in 0..Len(S) /\ ~P(Selections(S, s)[k])
  BY Zenon
<1>7. k # 0
  BY <1>1, <1>2, <1>6, SelectionsStep, ZenonT(60)
<1>8. k \in 1..Len(S) /\ k - 1 \in 0..Len(S) /\ ~(k <= k - 1)
  BY <1>6, <1>7
<1>9. P(x)
  BY <1>5, <1>8, Zenon
<1>10. Selections(S, s)[k] = Better(S, s, k, x)
  BY <1>1, <1>8, SelectionsStep, ZenonT(60)
<1> HIDE DEF x, c
<1>11. /\ k \in Candidates(S) /\ Selections(S, s)[k] = S[k]
       /\ ~correctionFence(S, p)
       /\ containsFacts(S[k].snap, x.snap)
       /\ \/ ~containsFacts(x.snap, S[k].snap)
          \/ pricingEvidence(S[k].snap) > pricingEvidence(x.snap)
  BY <1>2, <1>3, <1>6, <1>9, <1>10, ZenonT(60) DEF Better, Beats
<1>12. Ids(x.snap) = Ids(c.snap)
  BY <1>1, <1>9, Zenon
<1>13. Ids(S[k].snap) = Ids(c.snap)
  <2>1. Ids(c.snap) \subseteq Ids(S[k].snap)
    BY <1>11, <1>12 DEF containsFacts
  <2> QED BY <1>11, <2>1, NothingMissed, ZenonT(60) DEF c
<1>14. pricingEvidence(S[k].snap) > pricingEvidence(x.snap)
  BY <1>11, <1>12, <1>13 DEF containsFacts
<1>15. pricingEvidence(S[k].snap) > pricingEvidence(s.snap)
  <2>1. IsSnapshot(S[k].snap) /\ pricingEvidence(S[k].snap) \in Nat
    BY <1>11, EvidenceNat DEF SourcesOK, Candidates
  <2>2. pricingEvidence(x.snap) \in Nat
    BY <1>4, <1>8, DecisionIsSnapshot, EvidenceNat, ZenonT(60) DEF x
  <2>3. x.snap = s.snap \/ pricingEvidence(x.snap) > pricingEvidence(s.snap)
    BY <1>1, <1>9, Zenon
  <2> QED BY <1>4, <1>14, <2>1, <2>2, <2>3
<1> QED BY <1>1, <1>6, <1>11, <1>13, <1>15, Zenon

\* The sources of a session, each with a number and a snapshot.
SourceOK(x) == x.rev \in Nat /\ IsSnapshot(x.snap)

\* What planSession reads has the form DecideSnapshot expects.
LEMMA StoredSourcesOK ==
    ASSUME NEW src, \A c \in Clients : SourceOK(src[c]) PROVE SourcesOK(StoredSources(src))
<1> DEFINE S == StoredSources(src)
<1>1. Len(ClientOrder) \in Nat /\ DOMAIN ClientOrder = 1..Len(ClientOrder)
  BY OrderAssumption, LenProperties
<1>2. Len(S) = Len(ClientOrder) /\ DOMAIN S = 1..Len(ClientOrder)
  BY <1>1 DEF StoredSources
<1>3. ASSUME NEW i \in DOMAIN S
      PROVE  S[i] = [id |-> ClientOrder[i], rev |-> src[ClientOrder[i]].rev,
                     snap |-> src[ClientOrder[i]].snap, inconsistent |-> FALSE]
  BY <1>1, <1>2 DEF StoredSources
<1>4. ASSUME NEW i \in DOMAIN S PROVE ClientOrder[i] \in Clients
  BY <1>1, <1>2 DEF Clients
<1> HIDE DEF S
<1>5. ASSUME NEW i \in DOMAIN S
      PROVE  /\ S[i].id = ClientOrder[i] /\ S[i].rev = src[ClientOrder[i]].rev
             /\ S[i].snap = src[ClientOrder[i]].snap
  BY <1>3
<1>6. ASSUME NEW i \in DOMAIN S
      PROVE  S[i] = [id |-> S[i].id, rev |-> S[i].rev, snap |-> S[i].snap, inconsistent |-> FALSE]
  BY <1>3, <1>5, Zenon
<1>7. ASSUME NEW i \in DOMAIN S, NEW j \in DOMAIN S, S[i].id = S[j].id PROVE S[i] = S[j]
  <2>1. ClientOrder[i] = ClientOrder[j]
    BY <1>5, <1>7, Zenon
  <2> QED BY <1>3, <2>1, Zenon
<1>8. \A i \in DOMAIN S : S[i].rev \in Nat /\ IsSnapshot(S[i].snap)
  BY <1>4, <1>5, Zenon DEF SourceOK
<1>9. SourcesOK(S)
  BY <1>1, <1>2, <1>6, <1>7, <1>8, ZenonT(60) DEF SourcesOK
<1> QED BY <1>9 DEF S

\* The position of a client among the sources.
LEMMA SourceOf ==
    ASSUME NEW src, NEW c \in Clients
    PROVE  \E i \in DOMAIN StoredSources(src) :
              /\ StoredSources(src)[i].id = c
              /\ StoredSources(src)[i].rev = src[c].rev
              /\ StoredSources(src)[i].snap = src[c].snap
BY DEF StoredSources, Clients

\* The form of a session row.
SessionOK(s) ==
    /\ s = [id |-> s.id, rev |-> s.rev, snap |-> s.snap, deleted |-> s.deleted,
            conflict |-> s.conflict, fence |-> s.fence]
    /\ IsSnapshot(s.snap)

\* reporting.go planSession: with no source left the session is deleted, and
\* keeps everything else.
LEMMA PlanDeletes ==
    ASSUME NEW src, NEW cur, SessionOK(cur), Candidates(StoredSources(src)) = {}
    PROVE  planSession(src, cur) =
             [id |-> cur.id, rev |-> cur.rev, snap |-> cur.snap, deleted |-> TRUE,
              conflict |-> FALSE, fence |-> cur.fence]
BY DEF planSession, SessionOK

\* Else it is what DecideSnapshot makes of them.
LEMMA PlanDecides ==
    ASSUME NEW src, NEW cur, Candidates(StoredSources(src)) # {}
    PROVE  LET S == StoredSources(src)
               c == Selections(S, cur)[Len(S)]
               f == correctionFence(S, cur)
           IN planSession(src, cur) =
                [id |-> c.id, rev |-> c.rev, snap |-> c.snap, deleted |-> FALSE,
                 conflict |-> Conflict(S, c, f), fence |-> f]
BY DEF planSession, DecideSnapshot

\* planSession makes a session row; a session that is not deleted has been
\* decided between the candidates.
LEMMA PlanOK ==
    ASSUME NEW src, \A c \in Clients : SourceOK(src[c]), NEW cur, SessionOK(cur)
    PROVE  LET s == planSession(src, cur)
               S == StoredSources(src)
           IN /\ SessionOK(s)
              /\ Candidates(S) = {} => s.deleted
              /\ Candidates(S) # {} => ~s.deleted /\ Decided(S, cur, s)
<1> DEFINE s == planSession(src, cur)
           S == StoredSources(src)
           c == Selections(S, cur)[Len(S)]
           f == correctionFence(S, cur)
           k == Conflict(S, c, f)
<1>1. SourcesOK(S)
  BY StoredSourcesOK, Zenon
<1>2. CASE Candidates(S) = {}
  <2>1. s = [id |-> cur.id, rev |-> cur.rev, snap |-> cur.snap, deleted |-> TRUE,
             conflict |-> FALSE, fence |-> cur.fence]
    BY <1>2, PlanDeletes, Zenon
  <2> HIDE DEF s, S
  <2>2. /\ s.id = cur.id /\ s.rev = cur.rev /\ s.snap = cur.snap /\ s.deleted = TRUE
        /\ s.conflict = FALSE /\ s.fence = cur.fence
    BY <2>1
  <2>3. SessionOK(s)
    BY <2>1, <2>2, Zenon DEF SessionOK
  <2> QED BY <1>2, <2>2, <2>3, Zenon DEF s, S
<1>3. CASE Candidates(S) # {}
  <2>1. s = [id |-> c.id, rev |-> c.rev, snap |-> c.snap, deleted |-> FALSE,
             conflict |-> k, fence |-> f]
    BY <1>3, PlanDecides, Zenon
  <2>2. IsSnapshot(c.snap)
    <3>1. Len(S) \in 0..Len(S)
      BY <1>1 DEF SourcesOK
    <3> QED BY <1>1, <1>3, <3>1, DecisionIsSnapshot, ZenonT(60) DEF SessionOK
  <2>3. Decided(S, cur, [id |-> c.id, rev |-> c.rev, snap |-> c.snap, deleted |-> FALSE,
                         conflict |-> k, fence |-> f])
    BY DEF Decided
  <2> HIDE DEF s, S, c, k, f
  <2>4. /\ s.id = c.id /\ s.rev = c.rev /\ s.snap = c.snap /\ s.deleted = FALSE
        /\ s.conflict = k /\ s.fence = f
    BY <2>1
  <2>5. SessionOK(s)
    BY <2>1, <2>2, <2>4, ZenonT(60) DEF SessionOK
  <2> QED BY <1>3, <2>1, <2>3, <2>4, <2>5, ZenonT(60) DEF s, S
<1> QED BY <1>2, <1>3, Zenon

\* What a rebuild of session s may do to it.
Rebuilt(src, s) ==
    LET again == planSession(src, s)
    IN \/ again = s
       \/ /\ ~s.deleted /\ ~again.deleted
          /\ Ids(again.snap) = Ids(s.snap)
          /\ pricingEvidence(again.snap) > pricingEvidence(s.snap)

\* reporting_reconciliation.go: to rebuild what planSession made of the sources
\* changes nothing, or finds a copy of the same facts with more prices.
LEMMA PlanRebuilt ==
    ASSUME NEW src, \A c \in Clients : SourceOK(src[c]), NEW cur, SessionOK(cur)
    PROVE  Rebuilt(src, planSession(src, cur))
<1> DEFINE s == planSession(src, cur)
           t == planSession(src, s)
           S == StoredSources(src)
           c == Selections(S, cur)[Len(S)]
           d == Selections(S, s)[Len(S)]
<1>1. SourcesOK(S)
  BY StoredSourcesOK, Zenon
<1>2. SessionOK(s) /\ (Candidates(S) # {} => ~s.deleted /\ Decided(S, cur, s))
  BY PlanOK, Zenon
<1>3. CASE Candidates(S) = {}
  <2>1. s = [id |-> cur.id, rev |-> cur.rev, snap |-> cur.snap, deleted |-> TRUE,
             conflict |-> FALSE, fence |-> cur.fence]
    BY <1>3, PlanDeletes, Zenon
  <2>2. t = [id |-> s.id, rev |-> s.rev, snap |-> s.snap, deleted |-> TRUE,
             conflict |-> FALSE, fence |-> s.fence]
    BY <1>2, <1>3, PlanDeletes, ZenonT(60)
  <2> HIDE DEF s, t
  <2>3. s.id = cur.id /\ s.rev = cur.rev /\ s.snap = cur.snap /\ s.fence = cur.fence
    BY <2>1
  <2>4. t = s
    BY <2>1, <2>2, <2>3, ZenonT(60)
  <2> QED BY <2>4, ZenonT(60) DEF s, t, Rebuilt
<1>4. CASE Candidates(S) # {}
  <2>1. s = [id |-> c.id, rev |-> c.rev, snap |-> c.snap, deleted |-> FALSE,
             conflict |-> Conflict(S, c, correctionFence(S, cur)),
             fence |-> correctionFence(S, cur)]
    BY <1>4, PlanDecides, Zenon
  <2>2. t = [id |-> d.id, rev |-> d.rev, snap |-> d.snap, deleted |-> FALSE,
             conflict |-> Conflict(S, d, correctionFence(S, s)),
             fence |-> correctionFence(S, s)]
    BY <1>4, PlanDecides, Zenon
  <2>3. correctionFence(S, s) = correctionFence(S, cur)
    BY <1>1, <1>2, <1>4, FenceStays, ZenonT(60)
  <2>4. Len(S) \in 0..Len(S)
    BY <1>1 DEF SourcesOK
  <2>5. \/ d = c
        \/ Ids(d.snap) = Ids(s.snap) /\ pricingEvidence(d.snap) > pricingEvidence(s.snap)
    BY <1>1, <1>2, <1>4, <2>4, SecondPass, ZenonT(60) DEF SessionOK
  <2>6. CASE d = c
    BY <2>1, <2>2, <2>3, <2>6, ZenonT(60) DEF Rebuilt
  <2>7. CASE d # c
    <3>1. t.snap = d.snap /\ t.deleted = FALSE
      <4> HIDE DEF t, d, S, s
      <4> QED BY <2>2
    <3> QED BY <1>2, <1>4, <2>5, <2>7, <3>1, ZenonT(60) DEF Rebuilt
  <2> QED BY <2>6, <2>7
<1> QED BY <1>3, <1>4

\* The device of the canonical snapshot still reports the session, and has its
\* facts if what it stored last is complete.
Backed(src, s) ==
    ~s.deleted =>
        /\ s.id \in Clients /\ src[s.id].rev > 0 /\ ~src[s.id].snap.deleted
        /\ src[s.id].snap.complete => containsFacts(src[s.id].snap, s.snap)

\* A candidate is a device that reports the session.
LEMMA CandidateIsClient ==
    ASSUME NEW src, NEW i \in Candidates(StoredSources(src))
    PROVE  LET x == StoredSources(src)[i]
           IN /\ x.id \in Clients /\ x.rev = src[x.id].rev /\ x.snap = src[x.id].snap
              /\ src[x.id].rev > 0 /\ ~src[x.id].snap.deleted
BY DEF Candidates, StoredSources, Clients

\* DecideSnapshot takes the snapshot of a device, or keeps the one accepted
\* before only while its device has stored a partial one.
LEMMA PlanBacked ==
    ASSUME NEW src, \A c \in Clients : SourceOK(src[c]), NEW cur, SessionOK(cur)
    PROVE  Backed(src, planSession(src, cur))
<1> DEFINE s == planSession(src, cur)
           S == StoredSources(src)
           c == Selections(S, cur)[Len(S)]
<1>1. SourcesOK(S)
  BY StoredSourcesOK, Zenon
<1> SUFFICES ASSUME ~s.deleted PROVE Backed(src, s)
  BY Zenon DEF Backed
<1>2. Candidates(S) # {} /\ Decided(S, cur, s)
  BY PlanOK, Zenon
<1>3. s.id = c.id /\ s.snap = c.snap
  BY <1>2, ZenonT(60) DEF Decided
<1>4. Len(S) \in 0..Len(S)
  BY <1>1 DEF SourcesOK
<1>5. \/ \E i \in Candidates(S) : c = S[i]
      \/ c = KeptSnapshot(cur) /\ \E i \in Accepted(S, cur) : ~replaces(S[i], cur)
  BY <1>1, <1>2, <1>4, DecidedFrom, ZenonT(60)
<1> HIDE DEF s, c
<1>6. ASSUME NEW i \in Candidates(S), c = S[i] PROVE Backed(src, s)
  <2>1. /\ c.id \in Clients /\ c.snap = src[c.id].snap
        /\ src[c.id].rev > 0 /\ ~src[c.id].snap.deleted
    BY <1>6, CandidateIsClient, Zenon
  <2> QED BY <1>3, <2>1 DEF Backed, containsFacts
<1>7. ASSUME c = KeptSnapshot(cur), NEW i \in Accepted(S, cur), ~replaces(S[i], cur)
      PROVE  Backed(src, s)
  <2>1. i \in Candidates(S) /\ S[i].id = cur.id /\ ~S[i].snap.complete
    BY <1>7 DEF Accepted, replaces
  <2>2. c.id = cur.id
    BY <1>7, KeptFields, Zenon
  <2>3. /\ S[i].id \in Clients /\ S[i].snap = src[S[i].id].snap
        /\ src[S[i].id].rev > 0 /\ ~src[S[i].id].snap.deleted
    BY <2>1, CandidateIsClient, Zenon
  <2> QED BY <1>3, <2>1, <2>2, <2>3, ZenonT(60) DEF Backed
<1> QED BY <1>5, <1>6, <1>7, ZenonT(60)

\* While the accepted device reports the session and does not retract facts in
\* a complete snapshot, planSession loses none.
LEMMA PlanKeepsFacts ==
    ASSUME NEW src, \A c \in Clients : SourceOK(src[c]), NEW cur, SessionOK(cur),
           cur.id \in Clients, src[cur.id].rev > 0, ~src[cur.id].snap.deleted,
           src[cur.id].snap.complete => containsFacts(src[cur.id].snap, cur.snap)
    PROVE  /\ ~planSession(src, cur).deleted
           /\ containsFacts(planSession(src, cur).snap, cur.snap)
<1> DEFINE s == planSession(src, cur)
           S == StoredSources(src)
           c == Selections(S, cur)[Len(S)]
           x == Selected(S, cur)
<1>1. SourcesOK(S)
  BY StoredSourcesOK, Zenon
<1>2. PICK i \in DOMAIN S : S[i].id = cur.id /\ S[i].rev = src[cur.id].rev
                            /\ S[i].snap = src[cur.id].snap
  BY SourceOf, ZenonT(60)
<1>3. i \in Candidates(S) /\ i \in Accepted(S, cur)
  BY <1>2, Zenon DEF Candidates, Accepted
<1>4. ~s.deleted /\ s.snap = c.snap
  BY <1>3, PlanOK, Zenon DEF Decided
<1>5. Ids(x.snap) \subseteq Ids(c.snap)
  <2>1. Len(S) \in Nat /\ 0 \in 0..Len(S) /\ Len(S) \in 0..Len(S)
    BY <1>1 DEF SourcesOK
  <2>2. Selections(S, cur)[0] = x
    BY <2>1, SelectionsStep, ZenonT(60)
  <2> QED BY <2>1, <2>2, FactsGrow, ZenonT(60)
<1> HIDE DEF S, x, c, s
<1>6. ASSUME NEW j \in Accepted(S, cur) PROVE S[j].snap = src[cur.id].snap
  BY <1>1, <1>2, <1>3 DEF Accepted, Candidates, SourcesOK
<1>7. \/ \E j \in Accepted(S, cur) : replaces(S[j], cur) /\ x = S[j]
      \/ \E j \in Accepted(S, cur) : ~replaces(S[j], cur) /\ x = KeptSnapshot(cur)
  BY <1>1, <1>3, SelectedFrom, ZenonT(60) DEF x
<1>8. Ids(cur.snap) \subseteq Ids(x.snap)
  <2>1. ASSUME NEW j \in Accepted(S, cur), replaces(S[j], cur), x = S[j]
        PROVE  Ids(cur.snap) \subseteq Ids(x.snap)
    BY <1>6, <2>1, ZenonT(60) DEF replaces, containsFacts
  <2>2. ASSUME x = KeptSnapshot(cur) PROVE Ids(cur.snap) \subseteq Ids(x.snap)
    BY <2>2, KeptFields
  <2> QED BY <1>7, <2>1, <2>2, ZenonT(60)
<1>9. containsFacts(c.snap, cur.snap)
  BY <1>5, <1>8 DEF containsFacts
<1> QED BY <1>4, <1>9, Zenon DEF s

-----------------------------------------------------------------------------
\* The projection in the course of the system

\* What travels and waits are parts of snapshots, with a revision.
PartOK(x) == x.rev \in Nat /\ (x.count # 1 => x.count > 1) /\ IsSnapshot(x.digest)

\* What a worker holds: a part, and once it has read, a snapshot.
WorkOK(x) ==
    /\ x.pc \in {"claimed", "build"} => PartOK(x.job.part)
    /\ x.pc = "build" =>
         /\ x = [pc |-> "build", job |-> x.job, snap |-> x.snap, stamp |-> x.stamp,
                 cur |-> x.cur, todo |-> x.todo]
         /\ IsSnapshot(x.snap)

\* All that is staged, waits or is worked on.
HeldOK ==
    /\ \A k \in chunks : PartOK(k.part)
    /\ \A u \in DOMAIN jobs : PartOK(u.part)
    /\ DOMAIN work = Servers
    /\ \A w \in Servers : WorkOK(work[w])

\* The stored sources, and the session as they make it.
ProjectionOK ==
    /\ DOMAIN source = Clients
    /\ \A c \in Clients : SourceOK(source[c])
    /\ SessionOK(session)
    /\ Backed(source, session)
    /\ Rebuilt(source, session)

ProjectionInv == HeldOK /\ ProjectionOK

\* Sources and session change only together: a device stores a later snapshot
\* and the session is planned anew.
Projects ==
    \/ UNCHANGED <<source, session>>
    \/ \E c, x : /\ SourceOK(x) /\ (c \in Clients => x.rev > source[c].rev)
                 /\ source' = [source EXCEPT ![c] = x]
                 /\ session' = planSession(source', session)

\* A part of an export of the device has a revision and its snapshot.
LEMMA ExportedPartOK ==
    ASSUME log \in Seq(Exports), NEW p \in Exported(log) PROVE PartOK(p)
<1>1. p.rev \in 1..Len(log) /\ p.digest = log[p.rev]
  BY PartOfExport
<1>2. log[p.rev] \in Exports /\ p.rev \in Nat
  BY <1>1, ElementOfSeq, LenProperties
<1> QED BY <1>1, <1>2, ExportIsSnapshot, PartCountPositive DEF PartOK

\* PeerUpload: so is the part another device sends.
LEMMA PeerPartOK ==
    ASSUME NEW p \in Peers, NEW r \in DOMAIN PeerReports[p]
    PROVE  PartOK(SplitSnapshot(PeerReports[p][r], r)[1])
<1> DEFINE s == PeerReports[p][r]
<1>1. r \in Nat /\ IsSnapshot(s)
  BY PeersAssumption
<1>2. PartCount(s) \in Nat \ {0}
  BY <1>1, PartsOfSnapshot
<1> HIDE DEF s
<1>3. /\ SplitSnapshot(s, r)[1].rev = r /\ SplitSnapshot(s, r)[1].digest = s
      /\ SplitSnapshot(s, r)[1].count = PartCount(s)
  BY <1>2 DEF SplitSnapshot
<1> QED BY <1>1, <1>2, <1>3 DEF PartOK, s

\* reporting.go Accept: an upload is stored at once and the session planned, or
\* it is staged or becomes a job, or nothing happens.
LEMMA AcceptProjects ==
    ASSUME HeldOK, ProjectionOK, NEW c, NEW part, NEW reply, PartOK(part), Accept(c, part, reply)
    PROVE  HeldOK' /\ Projects
<1>1. CASE AcceptOld(c, part, reply) \/ AcceptJob(c, part, reply)
  <2>1. UNCHANGED <<source, session, chunks, jobs, work>>
    BY <1>1 DEF AcceptOld, AcceptJob, centerVars
  <2> QED BY <2>1, ZenonT(60) DEF HeldOK, Projects
<1>2. CASE AcceptSession(c, part, reply)
  <2> DEFINE x == [rev |-> part.rev, snap |-> part.digest]
  <2>1. /\ source' = [source EXCEPT ![c] = x] /\ session' = planSession(source', session)
        /\ ~(part.rev <= source[c].rev) /\ UNCHANGED <<chunks, jobs, work>>
    BY <1>2 DEF AcceptSession, Superseded
  <2>2. x.rev = part.rev /\ x.snap = part.digest
    OBVIOUS
  <2>3. c \in Clients => source[c].rev \in Nat
    BY DEF ProjectionOK, SourceOK
  <2> HIDE DEF x
  <2>4. SourceOK(x) /\ (c \in Clients => x.rev > source[c].rev)
    BY <2>1, <2>2, <2>3 DEF PartOK, SourceOK
  <2> QED BY <2>1, <2>4, ZenonT(60) DEF HeldOK, Projects
<1>3. CASE AcceptChunk(c, part, reply) \/ AcceptWhole(c, part, reply)
  <2>1. UNCHANGED <<source, session, work>>
    BY <1>3 DEF AcceptChunk, AcceptWhole
  <2>2. chunks' \subseteq chunks \cup {Upload(c, part)}
    BY <1>3 DEF AcceptChunk, AcceptWhole
  <2>3. DOMAIN jobs' \subseteq DOMAIN jobs \cup {Upload(c, part)}
    BY <1>3 DEF AcceptChunk, AcceptWhole, SaveJob
  <2>4. Upload(c, part).part = part
    BY DEF Upload
  <2>5. /\ \A k \in chunks' : PartOK(k.part)
        /\ \A u \in DOMAIN jobs' : PartOK(u.part)
    BY <2>2, <2>3, <2>4, ZenonT(60) DEF HeldOK
  <2> QED BY <2>1, <2>5, ZenonT(60) DEF HeldOK, Projects
<1> QED BY <1>1, <1>2, <1>3 DEF Accept

\* A step of a worker that stores nothing.
LEMMA HeldFrameOK ==
    ASSUME HeldOK, UNCHANGED <<source, session>>, chunks' \subseteq chunks,
           DOMAIN jobs' = DOMAIN jobs, NEW w \in Servers, NEW x, WorkOK(x),
           work' = [work EXCEPT ![w] = x]
    PROVE  HeldOK' /\ Projects
<1>1. DOMAIN work' = Servers /\ \A v \in Servers : work'[v] = IF v = w THEN x ELSE work[v]
  BY DEF HeldOK
<1>2. \A v \in Servers : WorkOK(work'[v])
  BY <1>1, ZenonT(60) DEF HeldOK
<1> QED BY <1>1, <1>2 DEF HeldOK, Projects

\* A worker without a job holds nothing.
LEMMA IdleOK == WorkOK(Idle)
BY DEF WorkOK, Idle

\* What a worker reads of a job is a snapshot.
LEMMA ReadProjects ==
    ASSUME HeldOK, NEW w \in Servers, Read(w) PROVE HeldOK' /\ Projects
<1> DEFINE u == work[w].job
           b == [pc |-> "build", job |-> u, snap |-> JobSnapshot(u), stamp |-> source,
                 cur |-> session, todo |-> {}]
           x == [b EXCEPT !.todo = ToStage(b)]
<1>1. /\ work[w].pc = "claimed"
      /\ u.part.count > 1 => Assembles(JobParts(u))
      /\ work' = [work EXCEPT ![w] = x]
      /\ UNCHANGED <<source, session, chunks, jobs>>
  BY DEF Read
<1>2. x = [pc |-> "build", job |-> u, snap |-> JobSnapshot(u), stamp |-> source,
           cur |-> session, todo |-> ToStage(b)]
  OBVIOUS
<1>3. PartOK(u.part)
  BY <1>1 DEF HeldOK, WorkOK
<1>4. IsSnapshot(JobSnapshot(u))
  <2>1. CASE u.part.count = 1
    BY <1>3, <2>1 DEF JobSnapshot, PartOK
  <2>2. CASE u.part.count # 1
    <3> DEFINE p == CHOOSE q \in JobParts(u) : q.idx = 1
    <3>1. \E q \in JobParts(u) : q.idx = 1
      BY <1>1, <1>3, <2>2, ZenonT(60) DEF PartOK, Assembles
    <3>2. p \in JobParts(u)
      BY <3>1
    <3>3. PartOK(p)
      BY <3>2, Zenon DEF JobParts, PartsOf, HeldOK
    <3> QED BY <2>2, <3>3 DEF JobSnapshot, Assembled, PartOK
  <2> QED BY <2>1, <2>2
<1>5. WorkOK(x)
  <2> HIDE DEF u
  <2>1. /\ x.pc = "build" /\ x.job = u /\ x.snap = JobSnapshot(u) /\ x.stamp = source
        /\ x.cur = session /\ x.todo = ToStage(b)
    BY <1>2
  <2>2. x = [pc |-> "build", job |-> x.job, snap |-> x.snap, stamp |-> x.stamp,
             cur |-> x.cur, todo |-> x.todo]
    BY <1>2, <2>1
  <2> HIDE DEF x
  <2> QED BY <1>3, <1>4, <2>1, <2>2 DEF WorkOK
<1> HIDE DEF x
<1> QED BY <1>1, <1>5, HeldFrameOK, ZenonT(60)

\* StageUsage: staging rows changes nothing a worker read.
LEMMA StageProjects ==
    ASSUME HeldOK, NEW w \in Servers, StageUsage(w) PROVE HeldOK' /\ Projects
<1>1. PICK r : work' = [work EXCEPT ![w].todo = @ \ {r}]
  BY Zenon DEF StageUsage
<1>2. work[w].pc = "build" /\ UNCHANGED <<source, session, chunks, jobs>>
  BY DEF StageUsage
<1> DEFINE y == work[w]
           t == y.todo \ {r}
           x == [y EXCEPT !.todo = t]
<1>3. WorkOK(y) /\ y.pc = "build"
  BY <1>2 DEF HeldOK
<1>4. work' = [work EXCEPT ![w] = x]
  BY <1>1
<1> HIDE DEF y, t
<1>5. x = [pc |-> "build", job |-> y.job, snap |-> y.snap, stamp |-> y.stamp,
           cur |-> y.cur, todo |-> t]
  BY <1>3 DEF WorkOK
<1>6. WorkOK(x)
  <2>1. /\ x.pc = "build" /\ x.job = y.job /\ x.snap = y.snap /\ x.stamp = y.stamp
        /\ x.cur = y.cur /\ x.todo = t
    BY <1>5
  <2>2. x = [pc |-> "build", job |-> x.job, snap |-> x.snap, stamp |-> x.stamp,
             cur |-> x.cur, todo |-> x.todo]
    BY <1>5, <2>1
  <2> HIDE DEF x
  <2> QED BY <1>3, <2>1, <2>2 DEF WorkOK
<1> HIDE DEF x
<1> QED BY <1>2, <1>4, <1>6, HeldFrameOK, ZenonT(60)

\* publications.go, the final transaction: what was built is what planSession
\* makes of the sources as they are now, because nothing it read has changed.
LEMMA CommitProjects ==
    ASSUME HeldOK, ProjectionOK, NEW w \in Servers, CommitPublication(w)
    PROVE  HeldOK' /\ Projects
<1> DEFINE b == work[w]
           c == b.job.client
           x == Own(b)
<1>1. /\ b.pc = "build" /\ session = b.cur /\ source = b.stamp
      /\ source' = IF Stale(b) THEN source ELSE [source EXCEPT ![c] = x]
      /\ session' = Plan(b)
      /\ work' = [work EXCEPT ![w] = Idle]
      /\ UNCHANGED chunks
  BY DEF CommitPublication, Current
<1>2. DOMAIN jobs' = DOMAIN jobs
  BY DEF CommitPublication, FinishJob
<1>3. HeldOK'
  <2>1. DOMAIN work' = Servers /\ \A v \in Servers : work'[v] \in {Idle, work[v]}
    BY <1>1 DEF HeldOK
  <2>2. \A v \in Servers : WorkOK(work'[v])
    BY <2>1, IdleOK DEF HeldOK
  <2> QED BY <1>1, <1>2, <2>1, <2>2 DEF HeldOK
<1>4. PartOK(b.job.part) /\ IsSnapshot(b.snap)
  BY <1>1 DEF HeldOK, WorkOK
<1> HIDE DEF b
<1>5. CASE Stale(b)
  BY <1>1, <1>3, <1>5, ZenonT(60) DEF Plan, Projects
<1>6. CASE ~Stale(b)
  <2>1. source' = [source EXCEPT ![c] = x] /\ session' = planSession(source', session)
    BY <1>1, <1>6, ZenonT(60) DEF Plan
  <2>2. x.rev = b.job.part.rev /\ x.snap = b.snap
    BY DEF Own
  <2>3. ~(x.rev <= source[c].rev)
    BY <1>1, <1>6, <2>2, ZenonT(60) DEF Stale
  <2>4. c \in Clients => source[c].rev \in Nat
    BY DEF ProjectionOK, SourceOK
  <2> HIDE DEF x
  <2>5. SourceOK(x) /\ (c \in Clients => x.rev > source[c].rev)
    BY <1>4, <2>2, <2>3, <2>4 DEF PartOK, SourceOK
  <2> QED BY <1>3, <2>1, <2>5, ZenonT(60) DEF Projects
<1> QED BY <1>5, <1>6

\* The steps of the servers.
LEMMA ServersProject ==
    ASSUME HeldOK, ProjectionOK, CenterNext PROVE HeldOK' /\ Projects
<1>1. ASSUME NEW w \in Servers, NEW u \in DOMAIN jobs, Claim(w, u) PROVE HeldOK' /\ Projects
  <2> DEFINE x == [pc |-> "claimed", job |-> u]
  <2>1. /\ work' = [work EXCEPT ![w] = x] /\ DOMAIN jobs' = DOMAIN jobs
        /\ UNCHANGED <<source, session, chunks>>
    BY <1>1 DEF Claim
  <2>2. WorkOK(x)
    BY DEF WorkOK, HeldOK
  <2> HIDE DEF x
  <2> QED BY <2>1, <2>2, HeldFrameOK, ZenonT(60)
<1>2. ASSUME NEW w \in Servers, NEW u \in DOMAIN jobs, CleanupPublication(w, u)
      PROVE  HeldOK' /\ Projects
  <2>1. /\ chunks' \subseteq chunks /\ DOMAIN jobs' = DOMAIN jobs
        /\ UNCHANGED <<source, session, work>>
    BY <1>2 DEF CleanupPublication
  <2> QED BY <2>1 DEF HeldOK, Projects
<1>3. ASSUME NEW w \in Servers, Refuse(w) \/ GiveBack(w) \/ Die(w) \/ CollectDelete(w)
      PROVE  HeldOK' /\ Projects
  <2>1. /\ work' = [work EXCEPT ![w] = Idle] /\ UNCHANGED <<source, session, chunks>>
        /\ DOMAIN jobs' = DOMAIN jobs
    BY <1>3 DEF Refuse, GiveBack, Die, CollectDelete, FinishJob
  <2> QED BY <2>1, IdleOK, HeldFrameOK, ZenonT(60)
<1>4. ASSUME NEW w \in Servers, CollectSelect(w) PROVE HeldOK' /\ Projects
  <2> DEFINE x == [pc |-> "collect", rows |-> {r \in usage : r.gen # pub}]
  <2>1. work' = [work EXCEPT ![w] = x] /\ UNCHANGED <<source, session, chunks, jobs>>
    BY <1>4 DEF CollectSelect
  <2>2. WorkOK(x)
    BY DEF WorkOK
  <2> HIDE DEF x
  <2> QED BY <2>1, <2>2, HeldFrameOK, ZenonT(60)
<1>5. ASSUME NEW u \in DOMAIN jobs, LeaseExpires(u) PROVE HeldOK' /\ Projects
  <2>1. DOMAIN jobs' = DOMAIN jobs /\ UNCHANGED <<source, session, chunks, work>>
    BY <1>5 DEF LeaseExpires
  <2> QED BY <2>1 DEF HeldOK, Projects
<1> QED BY <1>1, <1>2, <1>3, <1>4, <1>5, ReadProjects, StageProjects, CommitProjects
        DEF CenterNext, Worker

\* Every step of the system is such a step.
LEMMA StepsProject ==
    ASSUME IInv, ProjectionInv, [Next]_vars PROVE HeldOK' /\ Projects
<1> USE DEF ProjectionInv
<1>1. CASE UNCHANGED centerVars \/ UNCHANGED vars
  <2>1. UNCHANGED <<source, session, chunks, jobs, work>>
    BY <1>1 DEF centerVars, vars
  <2> QED BY <2>1, Zenon DEF HeldOK, Projects
<1>2. log \in Seq(Exports) /\ late \subseteq Exported(log)
  BY DEF IInv, DeviceInv
<1>3. CASE UploadAnswered
  <2>1. PICK reply : Accept(Me, outbox[Oldest].part, reply)
    BY <1>3 DEF UploadAnswered
  <2>2. Ready # {} /\ outbox \in Seq(QueueT(log))
    BY <1>3 DEF UploadAnswered, Sends, IInv, DeviceInv
  <2>3. Oldest \in DOMAIN outbox
    BY <2>2, OldestIsReady DEF IInv, DeviceInv
  <2>4. outbox[Oldest] \in QueueT(log)
    BY <2>2, <2>3, ElementOfSeq, LenProperties
  <2>5. PartOK(outbox[Oldest].part)
    BY <1>2, <2>4, ExportedPartOK DEF QueueT
  <2> QED BY <2>1, <2>5, AcceptProjects, ZenonT(60)
<1>4. ASSUME NEW part \in late, DeliverLate(part) PROVE HeldOK' /\ Projects
  <2>1. PICK reply : Accept(Me, part, reply)
    BY <1>4 DEF DeliverLate
  <2>2. PartOK(part)
    BY <1>2, ExportedPartOK
  <2> QED BY <2>1, <2>2, AcceptProjects, ZenonT(60)
<1>5. ASSUME NEW p \in Peers, NEW r \in DOMAIN PeerReports[p], PeerUpload(p, r)
      PROVE  HeldOK' /\ Projects
  <2>1. PICK reply : Accept(p, SplitSnapshot(PeerReports[p][r], r)[1], reply)
    BY <1>5 DEF PeerUpload
  <2> QED BY <2>1, PeerPartOK, AcceptProjects, ZenonT(60)
<1>6. CASE UploadTimesOut \/ CycleStop
  BY <1>1, <1>6 DEF UploadTimesOut, CycleStop
<1>7. CASE OutboxNext /\ UNCHANGED late /\ UNCHANGED centerVars
  BY <1>1, <1>7
<1>8. CASE CenterNext
  BY <1>8, ServersProject
<1> QED BY <1>1, <1>3, <1>4, <1>5, <1>6, <1>7, <1>8, ZenonT(60) DEF Next

\* What a device stores next to the others is a number and a snapshot.
LEMMA SourcesAfter ==
    ASSUME ProjectionOK, NEW c, NEW x, SourceOK(x), source' = [source EXCEPT ![c] = x]
    PROVE  DOMAIN source' = Clients /\ \A d \in Clients : SourceOK(source'[d])
BY DEF ProjectionOK

\* The inductive step for the projection.
LEMMA ProjectionAfter == ASSUME ProjectionOK, Projects PROVE ProjectionOK'
<1>1. CASE UNCHANGED <<source, session>>
  BY <1>1, Zenon DEF ProjectionOK
<1>2. ASSUME NEW c, NEW x, SourceOK(x), source' = [source EXCEPT ![c] = x],
             session' = planSession(source', session)
      PROVE  ProjectionOK'
  <2>1. DOMAIN source' = Clients /\ \A d \in Clients : SourceOK(source'[d])
    BY <1>2, SourcesAfter, Zenon
  <2>2. SessionOK(session)
    BY Zenon DEF ProjectionOK
  <2>3. /\ SessionOK(session') /\ Backed(source', session') /\ Rebuilt(source', session')
    BY <1>2, <2>1, <2>2, PlanOK, PlanBacked, PlanRebuilt, ZenonT(60)
  <2> QED BY <2>1, <2>3, Zenon DEF ProjectionOK
<1> QED BY <1>1, <1>2, Zenon DEF Projects

\* Facts that leave the canonical snapshot were retracted by their device.
LEMMA Retracted ==
    ASSUME ProjectionOK, Projects, ~session.deleted,
           ~(~session'.deleted /\ containsFacts(session'.snap, session.snap))
    PROVE  /\ source'[session.id].rev > source[session.id].rev
           /\ source'[session.id].snap.complete \/ source'[session.id].snap.deleted
<1> DEFINE d == session.id
<1>1. /\ d \in Clients /\ source[d].rev > 0 /\ ~source[d].snap.deleted
      /\ source[d].snap.complete => containsFacts(source[d].snap, session.snap)
      /\ SessionOK(session) /\ SourceOK(source[d])
  BY Zenon DEF ProjectionOK, Backed
<1>2. ~UNCHANGED <<source, session>>
  BY DEF containsFacts
<1>3. PICK c, x : /\ SourceOK(x) /\ (c \in Clients => x.rev > source[c].rev)
                  /\ source' = [source EXCEPT ![c] = x]
                  /\ session' = planSession(source', session)
  BY <1>2, Zenon DEF Projects
<1>4. DOMAIN source' = Clients /\ \A e \in Clients : SourceOK(source'[e])
  BY <1>3, SourcesAfter, ZenonT(60)
<1>5. source'[d] = IF d = c THEN x ELSE source[d]
  BY <1>1, <1>3 DEF ProjectionOK
<1> HIDE DEF d
<1>6. ASSUME source'[d].rev > 0, ~source'[d].snap.deleted,
             source'[d].snap.complete => containsFacts(source'[d].snap, session.snap)
      PROVE  FALSE
  BY <1>1, <1>3, <1>4, <1>6, PlanKeepsFacts, ZenonT(60) DEF d
<1>7. d = c
  BY <1>1, <1>5, <1>6, ZenonT(60)
<1>8. source'[d].rev > source[d].rev /\ source'[d].rev > 0
  <2>1. source'[d] = x /\ x.rev \in Nat /\ source[d].rev \in Nat /\ x.rev > source[d].rev
    BY <1>1, <1>3, <1>5, <1>7, ZenonT(60) DEF SourceOK
  <2> QED BY <2>1
<1>9. source'[d].snap.complete \/ source'[d].snap.deleted
  BY <1>6, <1>8, ZenonT(60)
<1> QED BY <1>8, <1>9 DEF d

\* At first nothing is stored, and nothing waits.
LEMMA InitiallyProjected == Init => ProjectionInv
<1> SUFFICES ASSUME Init PROVE ProjectionInv
  OBVIOUS
<1> USE DEF Init, CenterInit
<1>1. IsSnapshot(NoSnapshot)
  <2> DEFINE n == NoSnapshot
  <2>1. n = [rows |-> <<>>, complete |-> FALSE, deleted |-> FALSE]
    BY DEF NoSnapshot
  <2> HIDE DEF n
  <2>2. n.rows = <<>> /\ n.complete = FALSE /\ n.deleted = FALSE
    BY <2>1
  <2>3. n = [rows |-> n.rows, complete |-> n.complete, deleted |-> n.deleted]
    BY <2>1, <2>2, ZenonT(60)
  <2>4. IsSnapshot(n)
    BY <2>2, <2>3, EmptySeq DEF IsSnapshot
  <2> QED BY <2>4 DEF n
<1>2. HeldOK
  <2>1. chunks = {} /\ DOMAIN jobs = {} /\ DOMAIN work = Servers
    OBVIOUS
  <2>2. \A w \in Servers : work[w].pc \in {"idle", "off"}
    BY DEF Idle, Off
  <2> QED BY <2>1, <2>2 DEF HeldOK, WorkOK
<1>3. DOMAIN source = Clients /\ \A c \in Clients : SourceOK(source[c]) /\ source[c].rev = 0
  BY <1>1 DEF SourceOK
<1>4. /\ session.id = "none" /\ session.rev = 0 /\ session.snap = NoSnapshot
      /\ session.deleted = TRUE /\ session.conflict = FALSE /\ session.fence = FALSE
  OBVIOUS
<1>5. SessionOK(session)
  <2>1. session = [id |-> "none", rev |-> 0, snap |-> NoSnapshot, deleted |-> TRUE,
                   conflict |-> FALSE, fence |-> FALSE]
    BY Zenon
  <2>2. session = [id |-> session.id, rev |-> session.rev, snap |-> session.snap,
                   deleted |-> session.deleted, conflict |-> session.conflict,
                   fence |-> session.fence]
    BY <1>4, <2>1, ZenonT(60)
  <2> QED BY <1>1, <1>4, <2>2, ZenonT(60) DEF SessionOK
<1>6. Backed(source, session)
  BY <1>4, Zenon DEF Backed
<1>7. Rebuilt(source, session)
  <2>1. Candidates(StoredSources(source)) = {}
    <3> SUFFICES ASSUME NEW i \in Candidates(StoredSources(source)) PROVE FALSE
      OBVIOUS
    <3>1. LET y == StoredSources(source)[i] IN y.id \in Clients /\ source[y.id].rev > 0
      BY CandidateIsClient, Zenon
    <3> QED BY <1>3, <3>1
  <2>2. planSession(source, session) =
          [id |-> session.id, rev |-> session.rev, snap |-> session.snap, deleted |-> TRUE,
           conflict |-> FALSE, fence |-> session.fence]
    BY <1>5, <2>1, PlanDeletes, ZenonT(60)
  <2>3. planSession(source, session) = session
    BY <1>4, <1>5, <2>2, ZenonT(60) DEF SessionOK
  <2> QED BY <2>3, ZenonT(60) DEF Rebuilt
<1> QED BY <1>2, <1>3, <1>5, <1>6, <1>7, ZenonT(60) DEF ProjectionInv, ProjectionOK

\* The inductive invariant.
LEMMA AlwaysProjected == Spec => [](IInv /\ ProjectionInv)
<1>1. IInv /\ ProjectionInv /\ [Next]_vars => ProjectionInv'
  <2> SUFFICES ASSUME IInv, ProjectionInv, [Next]_vars PROVE ProjectionInv'
    OBVIOUS
  <2>1. HeldOK' /\ Projects
    BY StepsProject, Zenon
  <2> QED BY <2>1, ProjectionAfter, ZenonT(60) DEF ProjectionInv
<1> QED BY <1>1, Initially, InitiallyProjected, Steps, PTL DEF Spec

\* For any number of devices and servers, and however uploads and publications
\* interleave: to rebuild the session from the stored sources changes nothing,
\* or takes a copy of the same facts that prices more of them
\* (reporting.go planSession, publications.go, reporting_reconciliation.go).
THEOREM ProjectionSettled == Spec => []Settled
<1>1. ProjectionInv => Settled
  BY Zenon DEF ProjectionInv, ProjectionOK, Rebuilt, Settled
<1> QED BY <1>1, AlwaysProjected, PTL

\* For any number of devices: facts leave the canonical snapshot only because
\* the device they came from stored a newer snapshot that is complete or
\* deletes the session (reporting_merge.go DecideSnapshot).
THEOREM EvidenceNotLost == Spec => EvidenceKept
<1> DEFINE Kept == LET kept == ~session'.deleted /\ containsFacts(session'.snap, session.snap)
                       old  == source[session.id]
                       new  == source'[session.id]
                   IN ~session.deleted /\ ~kept =>
                        new.rev > old.rev /\ (new.snap.complete \/ new.snap.deleted)
<1>1. IInv /\ ProjectionInv /\ [Next]_vars => [Kept]_vars
  <2> SUFFICES ASSUME IInv, ProjectionInv, [Next]_vars PROVE Kept
    BY Zenon
  <2>1. Projects /\ ProjectionOK
    BY StepsProject, Zenon DEF ProjectionInv
  <2> QED BY <2>1, Retracted, Zenon
<1>2. EvidenceKept <=> [][Kept]_vars
  BY DEF EvidenceKept
<1> QED BY <1>1, <1>2, AlwaysProjected, PTL DEF Spec
=============================================================================
