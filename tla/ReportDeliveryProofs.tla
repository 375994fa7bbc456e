--------------------------- MODULE ReportDeliveryProofs ---------------------------
(***************************************************************************)
(* The latest export of the device is never lost (NoLoss), and a full sync *)
(* is complete only when it has done its work (FullSyncHonest), for any    *)
(* reports, peers, servers, chunk size, queue budget and disturbances.     *)
(*                                                                         *)
(* A row leaves the queue when its part is confirmed.  As long as the      *)
(* latest export is not stored, a confirmed part of it is staged, and one  *)
(* part at least is not confirmed: the one that completes the set becomes  *)
(* a job, which confirms it only when the snapshot is stored.              *)
(***************************************************************************)
EXTENDS ReportingProofs

\* A leaf that names no prover is tried with SMT, then with Zenon.
USE SMTT(30), ZenonT(30)

\* The parts of the latest export.
Latest == {p \in Exported(log) : p.rev = Len(log)}

InQueue(p) == \E i \in DOMAIN outbox : outbox[i].part = p

Unstored == log # <<>> /\ source[Me].rev # Len(log)

\* An upload of the latest export.
OfLatest(u) == u.client = Me /\ u.part.rev = Len(log)

\* What the centre confirmed of the latest export before it is stored.
HeldInv ==
    /\ IsFiniteSet(chunks)
    /\ \A x \in receipts : x.client = Me => x.part \in Exported(log)
    /\ \A u \in DOMAIN jobs :
          /\ jobs[u] \in JobT
          /\ OfLatest(u) /\ jobs[u].state \in {"published", "completed"}
               => source[Me].rev = Len(log)
    /\ Unstored => /\ \A p \in Latest : Upload(Me, p) \in receipts => Upload(Me, p) \in chunks
                   /\ \E p \in Latest : Upload(Me, p) \notin receipts

\* What the device has left of it.
QueuedInv ==
    /\ Unstored /\ ~discarded => \A p \in Latest : InQueue(p) \/ Upload(Me, p) \in receipts
    /\ discarded \in BOOLEAN
    /\ discarded => outbox = <<>> /\ ckpt.digest = NoSnapshot
    /\ ckpt.acked \in 0..Len(log)
    /\ ckpt.acked > 0 /\ ckpt.acked = Len(log) => source[Me].rev = ckpt.acked

\* A full sync that has exported nothing yet, of a session that was never gone:
\* the sweep is before the session and its export will not be skipped.
FullSyncT == [state : {"none", "running", "completed"}, base : Nat, gone : BOOLEAN]
CursorT   == [past : BOOLEAN, authority : BOOLEAN, due : BOOLEAN, saved : BOOLEAN]
CycleT    == [pc : {"idle", "save", "drain"}, again : BOOLEAN, failed : BOOLEAN,
              deferred : BOOLEAN, authority : BOOLEAN]

SyncT ==
    /\ fsync \in FullSyncT
    /\ cursor \in CursorT
    /\ cyc \in CycleT
    /\ indexed \in BOOLEAN

SyncInv ==
    /\ SyncT
    /\ fsync.state = "running" => fsync.base <= Len(log)
    /\ fsync.state = "running" /\ fsync.base = Len(log) /\ ~fsync.gone =>
         /\ local # NoSnapshot /\ ckpt.digest = NoSnapshot
         /\ ~cursor.past /\ cursor.due
         /\ cyc.pc = "idle" \/ (cyc.pc = "drain" /\ cyc.failed)

DeliveryInv == IInv /\ HeldInv /\ QueuedInv

-----------------------------------------------------------------------------
\* The parts of the latest export

\* chunks.go SplitSnapshot: there is at least one part.
LEMMA SomePart == ASSUME NEW s \in Exports PROVE PartCount(s) \in Nat \ {0}
BY PartsOfSnapshot, ExportIsSnapshot

LastPart(i) == SplitSnapshot(log[Len(log)], Len(log))[i]

\* The parts of the latest export are the parts it was cut into.
LEMMA LatestParts ==
    ASSUME log \in Seq(Exports), log # <<>>
    PROVE  LET n == PartCount(log[Len(log)]) IN
           /\ n \in Nat \ {0}
           /\ \A i \in 1..n : LastPart(i) \in Latest /\ LastPart(i).idx = i
           /\ \A p \in Latest : p.count = n /\ \E i \in 1..n : p = LastPart(i)
<1> DEFINE r == Len(log)
           n == PartCount(log[r])
<1>1. r \in DOMAIN log /\ r \in Nat /\ log[r] \in Exports
  BY EmptySeq, LenProperties, ElementOfSeq
<1>2. n \in Nat \ {0}
  BY <1>1, SomePart
<1>3. ASSUME NEW i \in 1..n PROVE LastPart(i) \in Latest /\ LastPart(i).idx = i
  <2>1. LastPart(i).rev = r /\ LastPart(i).idx = i
    BY DEF LastPart, SplitSnapshot
  <2>2. LastPart(i) \in Exported(log)
    BY <1>1 DEF Exported, LastPart
  <2> QED BY <2>1, <2>2 DEF Latest
<1>4. ASSUME NEW p \in Latest PROVE p.count = n /\ \E i \in 1..n : p = LastPart(i)
  <2>1. PICK q \in DOMAIN log : \E i \in 1..PartCount(log[q]) : p = SplitSnapshot(log[q], q)[i]
    BY DEF Latest, Exported
  <2>2. PICK i \in 1..PartCount(log[q]) : p = SplitSnapshot(log[q], q)[i]
    BY <2>1
  <2>3. p.rev = q /\ p.count = PartCount(log[q])
    BY <2>2 DEF SplitSnapshot
  <2>4. q = r
    BY <2>3 DEF Latest
  <2> QED BY <2>2, <2>3, <2>4 DEF LastPart
<1> QED BY <1>2, <1>3, <1>4

\* chunks.go: when all other parts of the latest export are staged, a part
\* completes the set.
LEMMA LastCompletes ==
    ASSUME log \in Seq(Exports), log # <<>>, IsFiniteSet(chunks), NEW part \in Latest,
           \A p \in Latest : p # part => Upload(Me, p) \in chunks
    PROVE  ~(Cardinality(PartsOf(Me, Len(log))) + 1 < part.count)
<1> DEFINE n == PartCount(log[Len(log)])
           S == PartsOf(Me, Len(log))
           f(i) == Upload(Me, LastPart(i))
<1>1. /\ n \in Nat \ {0} /\ part.count = n
      /\ \A i \in 1..n : LastPart(i) \in Latest /\ LastPart(i).idx = i
      /\ \A p \in Latest : \E i \in 1..n : p = LastPart(i)
  BY LatestParts
<1>2. PICK k \in 1..n : part = LastPart(k)
  BY <1>1
<1> DEFINE I == (1..n) \ {k}
           F == [i \in I |-> f(i)]
<1>3. Cardinality(I) = n - 1
  <2>1. 1 \in Int /\ n \in Int /\ ~(1 > n) /\ n - 1 + 1 = n
    BY <1>1
  <2>2. IsFiniteSet(1..n) /\ Cardinality(1..n) = n
    BY <2>1, FS_Interval
  <2> HIDE DEF n
  <2> QED BY <2>2, FS_RemoveElement, Zenon
<1>4. IsFiniteSet(S)
  <2>1. S \in SUBSET chunks
    BY DEF PartsOf
  <2> QED BY <2>1, FS_Subset
<1>5. ASSUME NEW i \in I PROVE f(i) \in S /\ f(i).part.idx = i
  <2>1. LastPart(i) \in Latest /\ LastPart(i).idx = i /\ LastPart(i) # part
    BY <1>1, <1>2
  <2>2. Upload(Me, LastPart(i)) \in chunks
    BY <2>1
  <2> QED BY <2>1, <2>2 DEF PartsOf, Upload, Latest
<1>6. F \in Injection(I, S)
  <2> HIDE DEF I, S, f
  <2>1. F \in [I -> S]
    BY <1>5
  <2>2. \A i, j \in I : F[i] = F[j] => i = j
    BY <1>5
  <2> QED BY <2>1, <2>2 DEF Injection, IsInjective
<1>7. Cardinality(I) <= Cardinality(S)
  BY <1>4, <1>6, FS_Injection
<1>8. Cardinality(S) \in Nat
  BY <1>4, FS_CardinalityType
<1> HIDE DEF I, S, n
<1> QED BY <1>1, <1>3, <1>7, <1>8 DEF S

-----------------------------------------------------------------------------
\* The centre

\* What is stored of the latest export stays stored.
LEMMA UnstoredBefore ==
    ASSUME log \in Seq(Exports), CenterInv, Stores, log' = log, Unstored'
    PROVE  Unstored
<1>1. source[Me].rev \in 0..Len(log) /\ Len(log) \in Nat
  BY LenProperties DEF CenterInv, StoredOK
<1>2. CASE source'[Me] = source[Me]
  BY <1>2 DEF Unstored
<1>3. ASSUME NEW r \in DOMAIN log, r > source[Me].rev PROVE source[Me].rev # Len(log)
  BY <1>1, <1>3, LenProperties
<1> QED BY <1>2, <1>3, Zenon DEF Stores, Unstored

\* A step of the centre that confirms nothing, or confirms only parts of an
\* export that is stored by then.
LEMMA HeldFrame ==
    ASSUME log \in Seq(Exports), CenterInv, HeldInv, Stores, log' = log,
           IsFiniteSet(chunks'),
           receipts \subseteq receipts',
           \A x \in receipts' : x.client = Me => x.part \in Exported(log),
           \A u \in DOMAIN jobs' : jobs'[u] \in JobT,
           \A u \in DOMAIN jobs' :
              OfLatest(u) /\ jobs'[u].state \in {"published", "completed"}
                => source'[Me].rev = Len(log),
           Unstored' => \A p \in Latest : /\ Upload(Me, p) \in chunks => Upload(Me, p) \in chunks'
                                          /\ Upload(Me, p) \in receipts' => Upload(Me, p) \in receipts
    PROVE  HeldInv'
<1>1. Latest' = Latest /\ \A u : OfLatest(u)' = OfLatest(u)
  BY DEF Latest, OfLatest
<1>2. ASSUME Unstored' PROVE /\ \A p \in Latest : Upload(Me, p) \in receipts' => Upload(Me, p) \in chunks'
                             /\ \E p \in Latest : Upload(Me, p) \notin receipts'
  <2>1. Unstored
    BY <1>2, UnstoredBefore
  <2> QED BY <1>2, <2>1 DEF HeldInv
<1> QED BY <1>1, <1>2 DEF HeldInv

\* What an upload confirms (reporting.go Accept).
LEMMA AcceptConfirms ==
    ASSUME NEW c, NEW part, NEW reply, Accept(c, part, reply)
    PROVE  /\ receipts \subseteq receipts' /\ receipts' \subseteq receipts \cup {Upload(c, part)}
           /\ reply = "receipt" => Upload(c, part) \in receipts'
           /\ reply \in Replies
BY DEF Accept, AcceptOld, AcceptSession, AcceptJob, AcceptChunk, AcceptWhole, Confirm, centerVars,
       Replies

\* Once the latest export is stored it stays stored.
LEMMA StoredStays ==
    ASSUME log \in Seq(Exports), CenterInv, Stores, source[Me].rev = Len(log)
    PROVE  source'[Me].rev = Len(log)
<1>1. Len(log) \in Nat /\ DOMAIN log = 1..Len(log)
  BY LenProperties
<1>2. ~(\E r \in DOMAIN log : r > source[Me].rev)
  BY <1>1
<1>3. source'[Me] = source[Me]
  BY <1>2, Zenon DEF Stores
<1> QED BY <1>3

\* An upload is determined by client and part.
LEMMA UploadFields ==
    ASSUME NEW c, NEW p
    PROVE  /\ Upload(c, p).client = c /\ Upload(c, p).part = p
           /\ \A d, q : Upload(c, p) = Upload(d, q) => c = d /\ p = q
BY DEF Upload

\* Uploads: the part that completes the latest export is not confirmed when it
\* is staged, and the parts confirmed before it stay staged.
LEMMA AcceptHeld ==
    ASSUME log \in Seq(Exports), CenterInv, HeldInv, NEW c, NEW part, NEW reply,
           c = Me => part \in Exported(log), Accept(c, part, reply), log' = log
    PROVE  HeldInv'
<1>1. CenterInv' /\ Stores
  BY AcceptKeeps
<1>2. Len(log) \in Nat /\ source[Me].rev \in 0..Len(log)
  BY LenProperties DEF CenterInv, StoredOK
<1>3. c = Me => part.rev \in 1..Len(log)
  BY PartOfExport
<1>4. /\ receipts \subseteq receipts' /\ receipts' \subseteq receipts \cup {Upload(c, part)}
  BY AcceptConfirms
<1>5. \A x \in receipts' : x.client = Me => x.part \in Exported(log)
  BY <1>4, UploadFields DEF HeldInv
<1>6. \/ chunks' = chunks
      \/ chunks' = (chunks \ Outdated(c, part.rev)) \cup {Upload(c, part)}
  BY DEF Accept, AcceptOld, AcceptSession, AcceptJob, AcceptChunk, AcceptWhole, centerVars
<1>7. IsFiniteSet(chunks')
  <2>1. chunks' \in SUBSET (chunks \cup {Upload(c, part)})
    BY <1>6
  <2>2. IsFiniteSet(chunks \cup {Upload(c, part)})
    BY FS_AddElement DEF HeldInv
  <2> QED BY <2>1, <2>2, FS_Subset
<1>8. jobs' = jobs \/ SaveJob(c, part)
  BY DEF Accept, AcceptOld, AcceptSession, AcceptJob, AcceptChunk, AcceptWhole, centerVars
<1>9. \A u \in DOMAIN jobs' : jobs'[u] \in JobT /\
         ((u \in DOMAIN jobs /\ jobs'[u] = jobs[u]) \/ jobs'[u].state = "pending")
  <2>1. CASE jobs' = jobs
    BY <2>1 DEF HeldInv
  <2>2. CASE SaveJob(c, part)
    BY <2>2 DEF SaveJob, HeldInv, JobT
  <2> QED BY <1>8, <2>1, <2>2
<1>10. \A u \in DOMAIN jobs' :
          OfLatest(u) /\ jobs'[u].state \in {"published", "completed"}
            => source'[Me].rev = Len(log)
  BY <1>1, <1>9, StoredStays DEF HeldInv
<1>11. ASSUME NEW p \in Latest, Upload(Me, p) \in chunks PROVE Upload(Me, p) \in chunks'
  <2>1. p.rev = Len(log)
    BY DEF Latest
  <2>2. Upload(Me, p) \notin Outdated(c, part.rev)
    BY <1>2, <1>3, <2>1, UploadFields DEF Outdated
  <2> QED BY <1>6, <1>11, <2>2
<1>12. CASE \A p \in Latest : Unstored' /\ Upload(Me, p) \in receipts' => Upload(Me, p) \in receipts
  <2>1. Unstored' => \A p \in Latest :
           /\ Upload(Me, p) \in chunks => Upload(Me, p) \in chunks'
           /\ Upload(Me, p) \in receipts' => Upload(Me, p) \in receipts
    BY <1>11, <1>12
  <2>2. \A u \in DOMAIN jobs' : jobs'[u] \in JobT
    BY <1>9
  <2> QED BY <1>1, <1>4, <1>5, <1>7, <1>10, <2>1, <2>2, HeldFrame
<1>13. ASSUME NEW q \in Latest, Unstored', Upload(Me, q) \in receipts', Upload(Me, q) \notin receipts
       PROVE  HeldInv'
  <2>1. c = Me /\ q = part /\ part.rev = Len(log) /\ part \in Latest
    BY <1>4, <1>13, UploadFields DEF Latest
  <2>2. Unstored /\ source[Me].rev < Len(log)
    BY <1>1, <1>2, <1>13, UnstoredBefore DEF Unstored
  <2>3. ~Superseded(c, part)
    BY <1>2, <2>1, <2>2 DEF Superseded
  <2>4. AcceptChunk(c, part, reply)
    <3>1. ~AcceptOld(c, part, reply)
      BY <1>13, <2>1, <2>3 DEF AcceptOld, centerVars
    <3>2. ~AcceptJob(c, part, reply) /\ ~AcceptWhole(c, part, reply)
      BY <1>13 DEF AcceptJob, AcceptWhole, centerVars
    <3>3. ~AcceptSession(c, part, reply)
      <4>1. ASSUME AcceptSession(c, part, reply) PROVE source'[Me].rev = Len(log)
        BY <2>1, <4>1, ReportingAssumption DEF AcceptSession, CenterInv
      <4> QED BY <1>13, <4>1 DEF Unstored
    <3> QED BY <3>1, <3>2, <3>3 DEF Accept
  <2>5. /\ Cardinality(PartsOf(Me, Len(log))) + 1 < part.count
        /\ Upload(Me, part) \in chunks'
    BY <1>13, <2>1, <2>4 DEF AcceptChunk
  <2>6. PICK p \in Latest : p # part /\ Upload(Me, p) \notin chunks
    BY <2>1, <2>2, <2>5, LastCompletes DEF Unstored, HeldInv
  <2>7. Upload(Me, p) \notin receipts'
    <3>1. Upload(Me, p) \notin receipts
      BY <2>2, <2>6 DEF HeldInv
    <3>2. Upload(Me, p) # Upload(c, part)
      BY <2>6, UploadFields
    <3> QED BY <1>4, <3>1, <3>2
  <2>8. \A x \in Latest : Upload(Me, x) \in receipts' => Upload(Me, x) \in chunks'
    <3> SUFFICES ASSUME NEW x \in Latest, Upload(Me, x) \in receipts'
                 PROVE  Upload(Me, x) \in chunks'
      OBVIOUS
    <3>1. CASE Upload(Me, x) \in receipts
      BY <1>11, <2>2, <3>1 DEF HeldInv
    <3>2. CASE Upload(Me, x) \notin receipts
      BY <1>4, <2>1, <2>5, <3>2
    <3> QED BY <3>1, <3>2
  <2>9. Latest' = Latest /\ \A u : OfLatest(u)' = OfLatest(u)
    BY DEF Latest, OfLatest
  <2> QED BY <1>5, <1>7, <1>9, <1>10, <2>6, <2>7, <2>8, <2>9 DEF HeldInv
<1> QED BY <1>12, <1>13

Done(j) == j.state \in {"published", "completed"}

\* A step of a server that confirms nothing and finishes no job.
LEMMA QuietHeld ==
    ASSUME log \in Seq(Exports), CenterInv, HeldInv, Stores, log' = log,
           UNCHANGED <<chunks, receipts>>, DOMAIN jobs' = DOMAIN jobs,
           \A u \in DOMAIN jobs : jobs'[u] \in JobT /\ (Done(jobs'[u]) => Done(jobs[u]))
    PROVE  HeldInv'
<1>1. \A u \in DOMAIN jobs' :
         OfLatest(u) /\ jobs'[u].state \in {"published", "completed"} => source'[Me].rev = Len(log)
  BY StoredStays DEF HeldInv, Done
<1>2. /\ IsFiniteSet(chunks') /\ receipts \subseteq receipts'
      /\ \A x \in receipts' : x.client = Me => x.part \in Exported(log)
  BY DEF HeldInv
<1> QED BY <1>1, <1>2, HeldFrame

\* The clean-up removes parts of published jobs only.
LEMMA CleanupHeld ==
    ASSUME log \in Seq(Exports), CenterInv, HeldInv, Stores, log' = log,
           NEW w \in Servers, NEW u \in DOMAIN jobs, CleanupPublication(w, u)
    PROVE  HeldInv'
<1>1. jobs[u].state = "published" /\ UNCHANGED <<source, receipts>>
  BY DEF CleanupPublication
<1>2. jobs' = jobs \/ jobs' = [jobs EXCEPT ![u].state = "completed"]
  BY DEF CleanupPublication
<1>3. chunks' \subseteq chunks /\ \A k \in chunks \ chunks' : k \in PartsOf(u.client, u.part.rev)
  BY DEF CleanupPublication
<1>4. IsFiniteSet(chunks')
  BY <1>3, FS_Subset DEF HeldInv
<1>5. /\ DOMAIN jobs' = DOMAIN jobs
      /\ \A t \in DOMAIN jobs : jobs'[t] \in JobT /\ (Done(jobs'[t]) => Done(jobs[t]))
  BY <1>1, <1>2 DEF HeldInv, JobT, Done
<1>6. \A t \in DOMAIN jobs' :
         OfLatest(t) /\ jobs'[t].state \in {"published", "completed"} => source'[Me].rev = Len(log)
  BY <1>5, StoredStays DEF HeldInv, Done
<1>7. ASSUME Unstored', NEW p \in Latest, Upload(Me, p) \in chunks PROVE Upload(Me, p) \in chunks'
  <2>1. ~OfLatest(u)
    BY <1>1, <1>7 DEF HeldInv, Unstored
  <2>2. p.rev = Len(log)
    BY DEF Latest
  <2>3. Upload(Me, p) \notin PartsOf(u.client, u.part.rev)
    BY <2>1, <2>2, UploadFields DEF PartsOf, OfLatest
  <2> QED BY <1>3, <1>7, <2>3
<1>8. /\ receipts \subseteq receipts'
      /\ \A x \in receipts' : x.client = Me => x.part \in Exported(log)
  BY <1>1 DEF HeldInv
<1>9. Unstored' => \A p \in Latest :
         /\ Upload(Me, p) \in chunks => Upload(Me, p) \in chunks'
         /\ Upload(Me, p) \in receipts' => Upload(Me, p) \in receipts
  BY <1>1, <1>7
<1> QED BY <1>4, <1>5, <1>6, <1>8, <1>9, HeldFrame

\* The final transaction confirms the upload and stores the snapshot, at once.
LEMMA CommitHeld ==
    ASSUME log \in Seq(Exports), CenterInv, HeldInv, Stores, log' = log,
           NEW w \in Servers, CommitPublication(w)
    PROVE  HeldInv'
<1> DEFINE b == work[w]
           e == [state |-> "published", lease |-> "none"]
<1>1. /\ b.pc = "build" /\ source = b.stamp
      /\ source' = IF Stale(b) THEN source ELSE [source EXCEPT ![b.job.client] = Own(b)]
      /\ receipts' = receipts \cup {b.job}
      /\ jobs' = jobs \/ jobs' = [jobs EXCEPT ![b.job] = e]
      /\ chunks' = chunks
  BY DEF CommitPublication, Current, FinishJob
<1>2. Me \in Clients /\ Len(log) \in Nat /\ source[Me].rev \in 0..Len(log) /\ DOMAIN source = Clients
  BY ReportingAssumption, LenProperties DEF CenterInv, StoredOK
<1>3. b.job.client = Me => b.job.part \in Exported(log)
  BY <1>1 DEF CenterInv, Holds
<1>4. e \in JobT
  BY DEF JobT
<1> HIDE DEF b, e
<1>5. OfLatest(b.job) => source'[Me].rev = Len(log)
  <2> SUFFICES ASSUME OfLatest(b.job) PROVE source'[Me].rev = Len(log)
    OBVIOUS
  <2>1. CASE Stale(b)
    BY <1>1, <1>2, <2>1 DEF OfLatest, Stale
  <2>2. CASE ~Stale(b)
    BY <1>1, <1>2, <2>2 DEF OfLatest, Own
  <2> QED BY <2>1, <2>2
<1>6. \A x \in receipts' : x.client = Me => x.part \in Exported(log)
  BY <1>1, <1>3 DEF HeldInv
<1>7. /\ \A u \in DOMAIN jobs' : jobs'[u] \in JobT
      /\ \A u \in DOMAIN jobs' : u = b.job \/ (u \in DOMAIN jobs /\ jobs'[u] = jobs[u])
  BY <1>1, <1>4 DEF HeldInv
<1>8. \A u \in DOMAIN jobs' :
         OfLatest(u) /\ jobs'[u].state \in {"published", "completed"} => source'[Me].rev = Len(log)
  BY <1>5, <1>7, StoredStays DEF HeldInv
<1>9. ASSUME Unstored', NEW p \in Latest, Upload(Me, p) \in receipts'
      PROVE  Upload(Me, p) \in receipts
  <2>1. p.rev = Len(log)
    BY DEF Latest
  <2>2. Upload(Me, p) # b.job
    BY <1>5, <1>9, <2>1, UploadFields DEF OfLatest, Unstored
  <2> QED BY <1>1, <1>9, <2>2
<1>10. IsFiniteSet(chunks') /\ receipts \subseteq receipts'
  BY <1>1 DEF HeldInv
<1>11. Unstored' => \A p \in Latest :
         /\ Upload(Me, p) \in chunks => Upload(Me, p) \in chunks'
         /\ Upload(Me, p) \in receipts' => Upload(Me, p) \in receipts
  BY <1>1, <1>9
<1> QED BY <1>6, <1>7, <1>8, <1>10, <1>11, HeldFrame

\* The servers: only the final transaction confirms an upload.
LEMMA ServersHeld ==
    ASSUME log \in Seq(Exports), CenterInv, HeldInv, CenterNext, log' = log
    PROVE  HeldInv'
<1>1. Stores
  BY ServersKeep
<1>2. \A u \in DOMAIN jobs : jobs[u] \in JobT
  BY DEF HeldInv
<1>3. ASSUME NEW w \in Servers, NEW u \in DOMAIN jobs, Claim(w, u) PROVE HeldInv'
  <2>1. jobs' = [jobs EXCEPT ![u].lease = w] /\ UNCHANGED <<chunks, receipts>>
    BY <1>3 DEF Claim
  <2>2. /\ DOMAIN jobs' = DOMAIN jobs
        /\ \A t \in DOMAIN jobs : jobs'[t] \in JobT /\ (Done(jobs'[t]) => Done(jobs[t]))
    BY <1>2, <2>1 DEF JobT, Done
  <2> QED BY <1>1, <2>1, <2>2, QuietHeld
<1>4. ASSUME NEW u \in DOMAIN jobs, LeaseExpires(u) PROVE HeldInv'
  <2>1. jobs' = [jobs EXCEPT ![u].lease = "none"] /\ UNCHANGED <<chunks, receipts>>
    BY <1>4 DEF LeaseExpires
  <2>2. /\ DOMAIN jobs' = DOMAIN jobs
        /\ \A t \in DOMAIN jobs : jobs'[t] \in JobT /\ (Done(jobs'[t]) => Done(jobs[t]))
    BY <1>2, <2>1 DEF JobT, Done
  <2> QED BY <1>1, <2>1, <2>2, QuietHeld
<1>5. ASSUME NEW w \in Servers, Refuse(w) \/ GiveBack(w) PROVE HeldInv'
  <2>1. PICK s \in {"failed", "pending"} :
           jobs' = jobs \/ jobs' = [jobs EXCEPT ![work[w].job] = [state |-> s, lease |-> "none"]]
    BY <1>5 DEF Refuse, GiveBack, FinishJob
  <2> DEFINE e == [state |-> s, lease |-> "none"]
  <2>2. e \in JobT /\ ~Done(e)
    BY DEF JobT, Done
  <2> HIDE DEF e
  <2>3. /\ DOMAIN jobs' = DOMAIN jobs
        /\ \A t \in DOMAIN jobs : jobs'[t] \in JobT /\ (Done(jobs'[t]) => Done(jobs[t]))
    BY <1>2, <2>1, <2>2 DEF e
  <2>4. UNCHANGED <<chunks, receipts>>
    BY <1>5 DEF Refuse, GiveBack
  <2> QED BY <1>1, <2>3, <2>4, QuietHeld
<1>6. ASSUME NEW w \in Servers,
             Read(w) \/ StageUsage(w) \/ Die(w) \/ CollectSelect(w) \/ CollectDelete(w)
      PROVE  HeldInv'
  <2>1. UNCHANGED <<chunks, receipts, jobs>>
    BY <1>6 DEF Read, StageUsage, Die, CollectSelect, CollectDelete
  <2> QED BY <1>1, <1>2, <2>1, QuietHeld
<1> QED BY <1>1, <1>3, <1>4, <1>5, <1>6, CleanupHeld, CommitHeld DEF CenterNext, Worker
-----------------------------------------------------------------------------
\* The device

\* The latest export after one more.
LEMMA LatestAfter ==
    ASSUME log \in Seq(Exports), NEW s \in Exports, log' = Append(log, s)
    PROVE  LET n == PartCount(s)
               new == SplitSnapshot(s, Len(log) + 1)
           IN /\ n \in Nat \ {0}
              /\ \A i \in 1..n : new[i] \in Latest'
              /\ \A p \in Latest' : \E i \in 1..n : p = new[i]
<1> DEFINE n == PartCount(s)
           new == SplitSnapshot(s, Len(log) + 1)
<1>1. /\ log' \in Seq(Exports) /\ Len(log') = Len(log) + 1 /\ Len(log) \in Nat
      /\ \A i \in 1..n : new[i] \in Exported(log')
  BY ExportedGrows, LenProperties
<1>2. log'[Len(log) + 1] = s
  BY AppendProperties
<1>3. n \in Nat \ {0}
  BY SomePart
<1>4. \A i \in 1..n : new[i].rev = Len(log')
  BY <1>1 DEF SplitSnapshot
<1>5. ASSUME NEW p \in Latest' PROVE \E i \in 1..n : p = new[i]
  <2>1. p \in Exported(log') /\ p.rev = Len(log')
    BY DEF Latest
  <2>2. PICK q \in DOMAIN log' : \E i \in 1..PartCount(log'[q]) : p = SplitSnapshot(log'[q], q)[i]
    BY <2>1 DEF Exported
  <2>3. PICK i \in 1..PartCount(log'[q]) : p = SplitSnapshot(log'[q], q)[i]
    BY <2>2
  <2>4. p.rev = q
    BY <2>3 DEF SplitSnapshot
  <2>5. q = Len(log) + 1
    BY <1>1, <2>1, <2>4
  <2> QED BY <1>2, <2>3, <2>5
<1>6. \A i \in 1..n : new[i] \in Latest'
  BY <1>1, <1>4 DEF Latest
<1> QED BY <1>3, <1>5, <1>6

\* An export: the centre has confirmed nothing of it yet.
LEMMA ExportHeld ==
    ASSUME log \in Seq(Exports), CenterInv, HeldInv, NEW s \in Exports, log' = Append(log, s),
           UNCHANGED centerVars
    PROVE  HeldInv'
<1>1. /\ Len(log') = Len(log) + 1 /\ Len(log) \in Nat
      /\ Exported(log) \subseteq Exported(log')
  BY ExportedGrows, LenProperties
<1>2. UNCHANGED <<source, chunks, jobs, receipts>>
  BY DEF centerVars
<1>3. \A p \in Exported(log) : p.rev # Len(log')
  BY <1>1, PartOfExport
<1>4. \A p \in Latest' : p \notin Exported(log)
  BY <1>3 DEF Latest
<1>5. \A p \in Latest' : Upload(Me, p) \notin receipts
  BY <1>4, UploadFields DEF HeldInv
<1>6. \E p \in Latest' : TRUE
  BY LatestAfter
<1>7. \A u \in DOMAIN jobs : ~OfLatest(u)'
  BY <1>3 DEF OfLatest, CenterInv
<1>8. \A x \in receipts : x.client = Me => x.part \in Exported(log')
  BY <1>1 DEF HeldInv
<1> QED BY <1>2, <1>5, <1>6, <1>7, <1>8 DEF HeldInv

\* What the steps that export nothing keep of the queue.
LEMMA QueuedFrame ==
    ASSUME log \in Seq(Exports), CenterInv, QueuedInv, Stores, log' = log,
           receipts \subseteq receipts',
           \A p : InQueue(p) => InQueue(p)' \/ Upload(Me, p) \in receipts',
           ckpt'.acked = ckpt.acked, discarded' = discarded,
           discarded => outbox' = <<>> /\ ckpt'.digest = NoSnapshot
    PROVE  QueuedInv'
<1>1. Latest' = Latest
  BY DEF Latest
<1>2. ASSUME Unstored', ~discarded', NEW p \in Latest PROVE InQueue(p)' \/ Upload(Me, p) \in receipts'
  <2>1. Unstored
    BY <1>2, UnstoredBefore
  <2> QED BY <1>2, <2>1 DEF QueuedInv
<1>3. ckpt.acked > 0 /\ ckpt.acked = Len(log) => source'[Me].rev = ckpt.acked
  BY StoredStays DEF QueuedInv
<1> QED BY <1>1, <1>2, <1>3 DEF QueuedInv

\* state.go Enqueue: all parts of a new export are queued.
LEMMA EnqueueDelivers ==
    ASSUME DeviceInv, CenterInv, HeldInv, QueuedInv, NEW s \in Exports, s # NoSnapshot,
           Enqueue(s), UNCHANGED centerVars
    PROVE  /\ HeldInv' /\ QueuedInv'
           /\ log' = log \/ Len(log') = Len(log) + 1
           /\ ckpt.digest = NoSnapshot => Len(log') = Len(log) + 1
<1> DEFINE l == Len(log)
<1>1. log \in Seq(Exports) /\ l \in Nat /\ Checkpoint(ckpt, l) /\ outbox \in Seq(QueueT(log))
  BY LenProperties DEF DeviceInv
<1>2. UNCHANGED <<source, chunks, jobs, receipts>>
  BY DEF centerVars
<1>3. CASE Unchanged(s)
  <2>1. ckpt' = [ckpt EXCEPT !.seen = TRUE] /\ UNCHANGED <<outbox, log, discarded>>
    BY <1>3 DEF Enqueue
  <2>2. ckpt'.acked = ckpt.acked /\ ckpt'.digest = ckpt.digest
    BY <1>1, <2>1 DEF Checkpoint
  <2>3. QueuedInv'
    BY <1>1, <1>2, <2>1, <2>2, QueuedFrame DEF QueuedInv, Stores, InQueue
  <2>4. HeldInv'
    BY <1>2, <2>1 DEF HeldInv, Unstored, Latest, OfLatest
  <2>5. ckpt.digest # NoSnapshot
    BY <1>3 DEF Unchanged
  <2> QED BY <2>1, <2>3, <2>4, <2>5
<1>4. CASE ~Unchanged(s)
  <2> DEFINE n == PartCount(s)
             new == SplitSnapshot(s, l + 1)
             rows == [i \in 1..n |-> [part |-> new[i], wait |-> FALSE]]
  <2>1. /\ ckpt' = [ckpt EXCEPT !.rev = @ + 1, !.digest = s, !.seen = TRUE, !.deleted = s.deleted]
        /\ outbox' = outbox \o [i \in 1..PartCount(s) |->
                         [part |-> SplitSnapshot(s, ckpt.rev + 1)[i], wait |-> FALSE]]
        /\ log' = Append(log, s)
        /\ discarded' = FALSE
    BY <1>4, Zenon DEF Enqueue
  <2>2. ckpt.rev = l
    BY <1>1 DEF Checkpoint
  <2>3. outbox' = outbox \o rows
    BY <2>1, <2>2
  <2>4. Len(log') = l + 1
    BY <1>1, <2>1, ExportedGrows
  <2>5. /\ n \in Nat \ {0}
        /\ \A p \in Latest' : \E i \in 1..n : p = new[i]
    BY <1>1, <2>1, LatestAfter
  <2>6. ASSUME NEW p \in Latest' PROVE InQueue(p)'
    <3>1. PICK i \in 1..n : p = new[i]
      BY <2>5
    <3>2. Len(outbox) \in Nat /\ outbox \in Seq(QueueT(log))
      BY <1>1, LenProperties
    <3> DEFINE T == {rows[k] : k \in 1..n}
    <3>3. rows \in Seq(T) /\ Len(rows) = n
      <4>1. n \in Nat /\ rows = [k \in 1..n |-> rows[k]] /\ \A k \in 1..n : rows[k] \in T
        BY <2>5, Zenon
      <4> HIDE DEF n, rows, T
      <4> QED BY <4>1
    <3>4. outbox'[Len(outbox) + i] = rows[i] /\ Len(outbox) + i \in DOMAIN outbox'
      <4> HIDE DEF n, new, rows, T
      <4> QED BY <2>3, <2>5, <3>2, <3>3
    <3>5. rows[i].part = p
      BY <3>1
    <3> HIDE DEF rows, new, n
    <3> QED BY <3>4, <3>5 DEF InQueue
  <2>7. ckpt'.acked = ckpt.acked
    BY <1>1, <2>1 DEF Checkpoint
  <2>8. QueuedInv'
    <3>1. ckpt.acked \in 0..l
      BY DEF QueuedInv
    <3>2. ckpt'.acked \in 0..Len(log') /\ ckpt'.acked # Len(log')
      BY <1>1, <2>4, <2>7, <3>1
    <3>3. discarded' \in BOOLEAN /\ ~discarded'
      BY <2>1, Zenon
    <3> HIDE DEF l, n, new, rows
    <3> QED BY <2>6, <3>2, <3>3 DEF QueuedInv
  <2>9. HeldInv'
    BY <1>1, <2>1, ExportHeld
  <2> QED BY <2>4, <2>8, <2>9
<1> QED BY <1>3, <1>4

\* exportSessions: what a page or the end of a sweep found is queued.
LEMMA FoundDelivers ==
    ASSUME DeviceInv, CenterInv, HeldInv, QueuedInv, NEW s \in Exports \cup {NoSnapshot},
           EnqueueFound(s), UNCHANGED centerVars
    PROVE  /\ HeldInv' /\ QueuedInv'
           /\ log' = log \/ Len(log') = Len(log) + 1
           /\ s # NoSnapshot /\ ckpt.digest = NoSnapshot => Len(log') = Len(log) + 1
<1>1. CASE s = NoSnapshot
  <2>1. ckpt' = [ckpt EXCEPT !.seen = Seen] /\ UNCHANGED <<outbox, log, discarded>>
    BY <1>1 DEF EnqueueFound
  <2>2. ckpt'.acked = ckpt.acked /\ ckpt'.digest = ckpt.digest
    BY <2>1 DEF DeviceInv, Checkpoint
  <2>3. UNCHANGED <<source, chunks, jobs, receipts>>
    BY DEF centerVars
  <2>4. QueuedInv'
    BY <2>1, <2>2, <2>3, QueuedFrame DEF DeviceInv, QueuedInv, Stores, InQueue
  <2>5. HeldInv'
    BY <2>1, <2>3 DEF HeldInv, Unstored, Latest, OfLatest
  <2> QED BY <1>1, <2>1, <2>4, <2>5
<1>2. CASE s # NoSnapshot
  <2>1. s \in Exports /\ Enqueue(s)
    BY <1>2 DEF EnqueueFound
  <2> QED BY <1>2, <2>1, EnqueueDelivers
<1> QED BY <1>1, <1>2

\* A row that is deferred, or due again, is still queued.
LEMMA WaitQueued ==
    ASSUME NEW Q, outbox \in Seq(Q), NEW i \in DOMAIN outbox, NEW b,
           outbox' = [outbox EXCEPT ![i].wait = b], outbox[i] = [part |-> outbox[i].part, wait |-> outbox[i].wait]
    PROVE  \A p : InQueue(p) => InQueue(p)'
<1>1. DOMAIN outbox' = DOMAIN outbox /\ \A j \in DOMAIN outbox : outbox'[j].part = outbox[j].part
  OBVIOUS
<1> QED BY <1>1 DEF InQueue

\* A queued row has a part of an export.
LEMMA QueuedRow ==
    ASSUME DeviceInv, NEW i \in DOMAIN outbox
    PROVE  /\ outbox[i] = [part |-> outbox[i].part, wait |-> outbox[i].wait]
           /\ outbox[i].part \in Exported(log)
<1>1. outbox[i] \in QueueT(log)
  BY ElementOfSeq, LenProperties DEF DeviceInv
<1> QED BY <1>1 DEF QueueT

\* The client's own steps: Configure alone discards rows, and says so.
LEMMA OutboxDelivers ==
    ASSUME IInv, HeldInv, QueuedInv, OutboxNext, UNCHANGED centerVars
    PROVE  HeldInv' /\ QueuedInv'
<1>0. DeviceInv /\ CenterInv /\ log \in Seq(Exports) /\ outbox \in Seq(QueueT(log))
  BY DEF IInv, DeviceInv
<1>1. UNCHANGED <<source, chunks, jobs, receipts>> /\ Stores
  BY DEF centerVars, Stores
<1>2. log' = log => HeldInv'
  BY <1>1 DEF HeldInv, Unstored, Latest, OfLatest
<1>3. ASSUME UNCHANGED <<outbox, log, discarded>>, ckpt'.acked = ckpt.acked,
             ckpt'.digest \in {ckpt.digest, NoSnapshot}
      PROVE  HeldInv' /\ QueuedInv'
  <2>1. discarded => outbox' = <<>> /\ ckpt'.digest = NoSnapshot
    BY <1>3 DEF QueuedInv
  <2>2. \A p : InQueue(p) => InQueue(p)'
    BY <1>3 DEF InQueue
  <2>3. QueuedInv'
    BY <1>0, <1>1, <1>3, <2>1, <2>2, QueuedFrame
  <2> QED BY <1>2, <1>3, <2>3
<1>4. CASE LocalChange \/ IndexComplete \/ SweepDue \/ SyncNow \/ SkipExport \/ ExportFails \/ CycleEnd
  <2>1. UNCHANGED <<ckpt, outbox, log, discarded>>
    BY <1>4 DEF LocalChange, IndexComplete, SweepDue, SyncNow, SkipExport, ExportFails, CycleEnd
  <2> QED BY <1>3, <2>1
<1>5. ASSUME NEW i \in DOMAIN outbox, RetryDue(i) PROVE HeldInv' /\ QueuedInv'
  <2>1. outbox' = [outbox EXCEPT ![i].wait = FALSE] /\ UNCHANGED <<ckpt, log, discarded>>
    BY <1>5 DEF RetryDue
  <2>2. outbox # <<>> /\ ~discarded
    BY <1>0 DEF QueuedInv
  <2>3. \A p : InQueue(p) => InQueue(p)'
    BY <1>0, <2>1, QueuedRow, WaitQueued, Zenon
  <2>4. QueuedInv'
    BY <1>0, <1>1, <2>1, <2>2, <2>3, QueuedFrame
  <2> QED BY <1>2, <2>1, <2>4
<1>6. ASSUME NEW enable \in BOOLEAN, NEW clear \in BOOLEAN, Configure(enable, clear)
      PROVE  HeldInv' /\ QueuedInv'
  <2>1. /\ outbox' = IF clear THEN <<>> ELSE outbox
        /\ ckpt' = IF clear THEN [ckpt EXCEPT !.digest = NoSnapshot] ELSE ckpt
        /\ discarded' = (discarded \/ (clear /\ outbox # <<>>))
        /\ log' = log
    BY <1>6 DEF Configure
  <2>2. ckpt'.acked = ckpt.acked /\ ckpt'.digest = IF clear THEN NoSnapshot ELSE ckpt.digest
    BY <1>0, <2>1 DEF DeviceInv, Checkpoint
  <2>3. discarded \in BOOLEAN
    BY DEF QueuedInv
  <2>4. CASE ~clear \/ outbox = <<>>
    <3>1. UNCHANGED <<outbox, log>>
      BY <2>1, <2>4
    <3>2. discarded' = discarded
      BY <2>1, <2>3, <2>4
    <3>3. ckpt'.digest \in {ckpt.digest, NoSnapshot}
      BY <2>2
    <3> QED BY <1>3, <2>2, <3>1, <3>2, <3>3
  <2>5. CASE clear /\ outbox # <<>>
    <3>1. discarded' = TRUE /\ outbox' = <<>> /\ ckpt'.digest = NoSnapshot
      BY <2>1, <2>2, <2>5, Zenon
    <3>2. QueuedInv'
      BY <1>1, <2>1, <2>2, <3>1 DEF QueuedInv
    <3> QED BY <1>2, <2>1, <3>2
  <2> QED BY <2>4, <2>5
<1>7. CASE FullSync
  <2>1. ckpt' = [ckpt EXCEPT !.digest = NoSnapshot] /\ UNCHANGED <<outbox, log, discarded>>
    BY <1>7 DEF FullSync
  <2>2. ckpt'.acked = ckpt.acked /\ ckpt'.digest = NoSnapshot
    BY <1>0, <2>1 DEF DeviceInv, Checkpoint
  <2> QED BY <1>3, <2>1, <2>2
<1>8. CASE SaveCursor
  <2>1. UNCHANGED <<outbox, log, discarded>> /\ (ckpt' = ckpt \/ ckpt' = [ckpt EXCEPT !.seen = FALSE])
    BY <1>8 DEF SaveCursor
  <2>2. ckpt'.acked = ckpt.acked /\ ckpt'.digest = ckpt.digest
    BY <1>0, <2>1 DEF DeviceInv, Checkpoint
  <2> QED BY <1>3, <2>1, <2>2
<1>9. CASE ExportPage
  <2>1. EnqueueFound(local) /\ local \in Exports \cup {NoSnapshot}
    BY <1>0, <1>9 DEF ExportPage, DeviceInv, Exports
  <2> QED BY <1>0, <2>1, FoundDelivers
<1>10. CASE EndSweep
  <2>1. EnqueueFound(Missing) /\ Missing \in {Tombstone, NoSnapshot}
    BY <1>10 DEF EndSweep, Missing, Removed
  <2> QED BY <1>0, <2>1, FoundDelivers DEF Exports
<1> QED BY <1>4, <1>5, <1>6, <1>7, <1>8, <1>9, <1>10 DEF OutboxNext

-----------------------------------------------------------------------------
\* Device and centre

\* state.go Ack: the other rows are still queued.
LEMMA AckRows ==
    ASSUME NEW Q, NEW q \in Seq(Q), NEW i \in DOMAIN q, NEW j \in DOMAIN q, j # i
    PROVE  LET a == SubSeq(q, 1, i - 1) \o SubSeq(q, i + 1, Len(q))
           IN \E k \in DOMAIN a : a[k] = q[j]
<1> DEFINE x == SubSeq(q, 1, i - 1)
           y == SubSeq(q, i + 1, Len(q))
<1>1. Len(q) \in Nat /\ i \in 1..Len(q) /\ j \in 1..Len(q) /\ \A k \in 1..Len(q) : q[k] \in Q
  BY LenProperties, ElementOfSeq
<1>2. /\ x \in Seq(Q) /\ Len(x) = i - 1
      /\ \A k \in 1..(i - 1) : x[k] = q[k]
  BY <1>1, SubSeqProperties
<1>3. /\ y \in Seq(Q) /\ Len(y) = Len(q) - i
      /\ \A k \in 1..(Len(q) - i) : y[k] = q[i + k]
  BY <1>1, SubSeqProperties
<1> HIDE DEF x, y
<1>4. CASE j < i
  <2>1. j \in 1..Len(x) /\ x[j] = q[j]
    BY <1>1, <1>2, <1>4
  <2>2. j \in DOMAIN (x \o y) /\ (x \o y)[j] = x[j]
    BY <1>2, <1>3, <2>1
  <2> QED BY <2>1, <2>2 DEF x, y
<1>5. CASE j > i
  <2> DEFINE k == j - i
  <2>0. k \in 1..(Len(q) - i) /\ i + k = j
    BY <1>1, <1>5
  <2> HIDE DEF k
  <2>1. k \in 1..Len(y) /\ y[k] = q[j]
    BY <1>3, <2>0
  <2>2. Len(x) + k \in DOMAIN (x \o y) /\ (x \o y)[Len(x) + k] = y[k]
    BY <1>2, <1>3, <2>1
  <2> QED BY <2>1, <2>2, Zenon DEF x, y
<1>6. j < i \/ j > i
  BY <1>1
<1> QED BY <1>4, <1>5, <1>6, Zenon

\* An answered upload: a row goes when its part is confirmed, and the last row
\* of the latest export only when that is stored.
LEMMA AnswerDelivers ==
    ASSUME IInv, HeldInv, QueuedInv, UploadAnswered
    PROVE  HeldInv' /\ QueuedInv' /\ ckpt'.digest = ckpt.digest
<1> DEFINE i == Oldest
           part == outbox[i].part
<1>1. PICK reply \in Replies : Accept(Me, part, reply) /\ Answered(i, reply)
  BY DEF UploadAnswered
<1>2. Ready # {} /\ UNCHANGED <<log, discarded>>
  BY DEF UploadAnswered, Sends
<1>3. /\ DeviceInv /\ CenterInv /\ log \in Seq(Exports) /\ outbox \in Seq(QueueT(log))
      /\ Checkpoint(ckpt, Len(log))
  BY DEF IInv, DeviceInv
<1>4. i \in DOMAIN outbox
  BY <1>2, <1>3, OldestIsReady
<1> HIDE DEF i
<1>5. part \in Exported(log) /\ outbox[i] = [part |-> outbox[i].part, wait |-> outbox[i].wait]
  BY <1>3, <1>4, QueuedRow
<1>6. CenterInv' /\ Stores /\ reply # "conflict"
  BY <1>1, <1>2, <1>3, <1>5, AcceptKeeps
<1>7. HeldInv'
  BY <1>1, <1>2, <1>3, <1>5, AcceptHeld
<1>8. receipts \subseteq receipts' /\ (reply = "receipt" => Upload(Me, part) \in receipts')
  BY <1>1, AcceptConfirms
<1>9. outbox # <<>> /\ ~discarded
  BY <1>4 DEF QueuedInv
<1>10. CASE reply # "receipt"
  <2>1. outbox' = [outbox EXCEPT ![i].wait = TRUE] /\ UNCHANGED ckpt
    BY <1>1, <1>6, <1>10 DEF Answered, deferBatch, Replies
  <2>2. \A p : InQueue(p) => InQueue(p)'
    BY <1>3, <1>4, <1>5, <2>1, WaitQueued, ZenonT(60)
  <2>3. QueuedInv'
    BY <1>2, <1>3, <1>6, <1>8, <1>9, <2>1, <2>2, QueuedFrame
  <2> QED BY <1>7, <2>1, <2>3
<1>11. CASE reply = "receipt"
  <2> DEFINE last == \A j \in DOMAIN outbox : j # i => outbox[j].part.rev # part.rev
  <2>1. /\ outbox' = SubSeq(outbox, 1, i - 1) \o SubSeq(outbox, i + 1, Len(outbox))
        /\ ckpt' = [ckpt EXCEPT !.acked = IF last /\ @ < part.rev THEN part.rev ELSE @]
    BY <1>1, <1>11, Zenon DEF Answered, Ack
  <2>2. ckpt'.digest = ckpt.digest /\ (ckpt'.acked = ckpt.acked \/ (last /\ ckpt'.acked = part.rev))
    BY <1>3, <2>1 DEF Checkpoint
  <2> HIDE DEF last
  <2>3. ASSUME NEW p, InQueue(p) PROVE InQueue(p)' \/ Upload(Me, p) \in receipts'
    <3>1. PICK j \in DOMAIN outbox : outbox[j].part = p
      BY <2>3 DEF InQueue
    <3>2. CASE j = i
      BY <1>8, <1>11, <3>1, <3>2
    <3>3. CASE j # i
      <4>1. \E k \in DOMAIN outbox' : outbox'[k] = outbox[j]
        BY <1>3, <1>4, <2>1, <3>3, AckRows, ZenonT(60)
      <4> QED BY <3>1, <4>1 DEF InQueue
    <3> QED BY <3>2, <3>3
  <2>4. CASE ckpt'.acked = ckpt.acked
    BY <1>2, <1>3, <1>6, <1>7, <1>8, <1>9, <2>2, <2>3, <2>4, QueuedFrame
  <2>5. CASE last /\ ckpt'.acked = part.rev
    <3>1. part.rev \in 1..Len(log)
      BY <1>3, <1>5, PartOfExport
    <3>2. Latest' = Latest
      BY <1>2 DEF Latest
    <3>3. ASSUME Unstored', NEW p \in Latest PROVE InQueue(p)' \/ Upload(Me, p) \in receipts'
      <4>1. Unstored
        BY <1>2, <1>3, <1>6, <3>3, UnstoredBefore
      <4>2. InQueue(p) \/ Upload(Me, p) \in receipts
        BY <1>9, <4>1 DEF QueuedInv
      <4> QED BY <1>8, <2>3, <4>2
    <3>4. ASSUME part.rev = Len(log) PROVE source'[Me].rev = Len(log)
      <4> SUFFICES ASSUME source'[Me].rev # Len(log) PROVE FALSE
        OBVIOUS
      <4>1. Unstored'
        <5>1. log # <<>>
          BY <3>1
        <5> QED BY <1>2, <5>1 DEF Unstored
      <4>2. Unstored
        BY <1>2, <1>3, <1>6, <4>1, UnstoredBefore
      <4>3. PICK p \in Latest : Upload(Me, p) \notin receipts'
        BY <1>7, <3>2, <4>1 DEF HeldInv
      <4>4. InQueue(p)
        BY <1>8, <1>9, <4>2, <4>3 DEF QueuedInv
      <4>5. PICK j \in DOMAIN outbox : outbox[j].part = p
        BY <4>4 DEF InQueue
      <4>6. j # i
        BY <1>8, <1>11, <4>3, <4>5
      <4>7. outbox[j].part.rev = part.rev
        BY <3>4, <4>5 DEF Latest
      <4> QED BY <2>5, <4>6, <4>7 DEF last
    <3>5. ckpt'.acked \in 0..Len(log) /\ Len(log') = Len(log)
      BY <1>2, <1>3, <2>5, <3>1, LenProperties
    <3> HIDE DEF part
    <3>6. QueuedInv'
      BY <1>2, <1>9, <2>5, <3>2, <3>3, <3>4, <3>5 DEF QueuedInv
    <3> QED BY <1>7, <2>2, <3>6
  <2> QED BY <2>2, <2>4, <2>5
<1> QED BY <1>10, <1>11

\* Requests that are lost, late or another device's, and the servers.
LEMMA OthersDeliver ==
    ASSUME IInv, HeldInv, QueuedInv,
           \/ UploadTimesOut \/ CycleStop
           \/ \E part \in late : DeliverLate(part)
           \/ \E p \in Peers : \E r \in DOMAIN PeerReports[p] : PeerUpload(p, r)
           \/ CenterNext /\ UNCHANGED late /\ UNCHANGED outboxVars
    PROVE  HeldInv' /\ QueuedInv' /\ UNCHANGED <<ckpt, log>>
<1>0. DeviceInv /\ CenterInv /\ log \in Seq(Exports) /\ outbox \in Seq(QueueT(log))
  BY DEF IInv, DeviceInv
<1>1. UNCHANGED <<ckpt, log, discarded>>
  BY DEF UploadTimesOut, CycleStop, DeliverLate, PeerUpload, outboxVars
<1>2. CASE UploadTimesOut \/ CycleStop
  <2>1. UNCHANGED centerVars
    BY <1>2 DEF UploadTimesOut, CycleStop
  <2>2. UNCHANGED <<source, chunks, jobs, receipts>> /\ Stores
    BY <2>1 DEF centerVars, Stores
  <2>3. HeldInv'
    BY <1>1, <2>2 DEF HeldInv, Unstored, Latest, OfLatest
  <2>4. /\ \A p : InQueue(p) => InQueue(p)'
        /\ discarded => outbox' = <<>>
    <3>1. CASE CycleStop
      BY <3>1, Zenon DEF CycleStop, InQueue, QueuedInv
    <3>2. CASE UploadTimesOut
      <4>1. Ready # {} /\ outbox' = [outbox EXCEPT ![Oldest].wait = TRUE]
        BY <3>2 DEF UploadTimesOut, Sends, deferBatch
      <4>2. Oldest \in DOMAIN outbox
        BY <1>0, <4>1, OldestIsReady
      <4>3. ~discarded
        BY <4>2 DEF QueuedInv
      <4>4. \A p : InQueue(p) => InQueue(p)'
        BY <1>0, <4>1, <4>2, QueuedRow, WaitQueued, ZenonT(60)
      <4> QED BY <4>3, <4>4
    <3> QED BY <1>2, <3>1, <3>2
  <2>5. discarded => ckpt'.digest = NoSnapshot
    BY <1>1 DEF QueuedInv
  <2>6. QueuedInv'
    BY <1>0, <1>1, <2>2, <2>4, <2>5, QueuedFrame
  <2> QED BY <1>1, <2>3, <2>6
<1>3. ASSUME UNCHANGED outboxVars, HeldInv', Stores, receipts \subseteq receipts' PROVE HeldInv' /\ QueuedInv'
  <2>1. UNCHANGED outbox
    BY <1>3 DEF outboxVars
  <2>2. \A p : InQueue(p) => InQueue(p)'
    BY <2>1 DEF InQueue
  <2>3. discarded => outbox' = <<>> /\ ckpt'.digest = NoSnapshot
    BY <1>1, <2>1 DEF QueuedInv
  <2> QED BY <1>0, <1>1, <1>3, <2>2, <2>3, QueuedFrame
<1>4. CASE \/ \E part \in late : DeliverLate(part)
           \/ \E p \in Peers : \E r \in DOMAIN PeerReports[p] : PeerUpload(p, r)
  <2>1. UNCHANGED outboxVars
    BY <1>4 DEF DeliverLate, PeerUpload
  <2>2. PICK c, part, reply : Accept(c, part, reply) /\ (c = Me => part \in late)
    BY <1>4, ReportingAssumption DEF DeliverLate, PeerUpload
  <2>3. c = Me => part \in Exported(log)
    BY <1>0, <2>2 DEF DeviceInv
  <2>4. Stores
    BY <1>0, <1>1, <2>2, <2>3, AcceptKeeps
  <2>5. HeldInv'
    BY <1>0, <1>1, <2>2, <2>3, AcceptHeld
  <2>6. receipts \subseteq receipts'
    BY <2>2, AcceptConfirms
  <2> QED BY <1>1, <1>3, <2>1, <2>4, <2>5, <2>6
<1>5. CASE CenterNext /\ UNCHANGED late /\ UNCHANGED outboxVars
  <2>1. Stores /\ HeldInv'
    BY <1>0, <1>1, <1>5, ServersKeep, ServersHeld
  <2>2. receipts \subseteq receipts'
    BY <1>5, Zenon DEF CenterNext, Worker, Claim, CleanupPublication, Read, Refuse, StageUsage,
       CommitPublication, GiveBack, Die, CollectSelect, CollectDelete, LeaseExpires
  <2> QED BY <1>1, <1>3, <1>5, <2>1, <2>2
<1> QED BY <1>1, <1>2, <1>4, <1>5

-----------------------------------------------------------------------------
\* Nothing is lost

\* At first there is no export to deliver.
LEMMA InitiallyDelivered == Init => DeliveryInv
<1> SUFFICES ASSUME Init PROVE DeliveryInv
  OBVIOUS
<1>1. IInv
  BY Initially
<1>2. log = <<>> /\ Len(log) = 0 /\ ~Unstored
  BY DEF Init, OutboxInit, Unstored
<1>3. HeldInv
  BY <1>2, FS_EmptySet DEF Init, CenterInit, HeldInv
<1>4. ckpt.acked = 0 /\ discarded \in BOOLEAN /\ ~discarded
  BY Zenon DEF Init, OutboxInit
<1>5. ckpt.acked \in 0..Len(log) /\ ~(ckpt.acked > 0)
  BY <1>2, <1>4
<1>6. QueuedInv
  BY <1>2, <1>4, <1>5 DEF QueuedInv
<1> QED BY <1>1, <1>3, <1>6 DEF DeliveryInv

\* The inductive step for the delivery of the latest export.
LEMMA StepsDeliver == DeliveryInv /\ [Next]_vars => DeliveryInv'
<1> SUFFICES ASSUME DeliveryInv, [Next]_vars PROVE DeliveryInv'
  OBVIOUS
<1>1. IInv /\ HeldInv /\ QueuedInv /\ IInv'
  BY Steps DEF DeliveryInv
<1>2. CASE OutboxNext /\ UNCHANGED late /\ UNCHANGED centerVars
  BY <1>1, <1>2, OutboxDelivers DEF DeliveryInv
<1>3. CASE UploadAnswered
  BY <1>1, <1>3, AnswerDelivers DEF DeliveryInv
<1>4. CASE UNCHANGED vars
  <2>1. UNCHANGED <<log, ckpt, outbox, discarded, source, chunks, jobs, receipts>>
    BY <1>4 DEF vars
  <2>2. HeldInv'
    BY <1>1, <2>1 DEF HeldInv, Unstored, Latest, OfLatest
  <2>3. QueuedInv'
    BY <1>1, <2>1 DEF QueuedInv, Unstored, Latest, InQueue
  <2> QED BY <1>1, <2>2, <2>3 DEF DeliveryInv
<1>5. ASSUME \/ UploadTimesOut \/ CycleStop
             \/ \E part \in late : DeliverLate(part)
             \/ \E p \in Peers : \E r \in DOMAIN PeerReports[p] : PeerUpload(p, r)
             \/ CenterNext /\ UNCHANGED late /\ UNCHANGED outboxVars
      PROVE  DeliveryInv'
  BY <1>1, <1>5, OthersDeliver DEF DeliveryInv
<1> QED BY <1>2, <1>3, <1>4, <1>5 DEF Next

\* The latest export is stored, or some part of it is queued and the others are
\* queued or staged.
LEMMA LatestIsSafe ==
    ASSUME DeliveryInv, log # <<>>, ~discarded
    PROVE  Safe(Len(log))
<1>1. log \in Seq(Exports) /\ HeldInv /\ QueuedInv
  BY DEF DeliveryInv, IInv, DeviceInv
<1> SUFFICES ASSUME source[Me].rev # Len(log)
             PROVE  /\ Queued(Len(log)) # {}
                    /\ 1..PartCount(log[Len(log)]) \subseteq Queued(Len(log)) \cup Staged(Len(log))
  BY DEF Safe
<1>2. Unstored
  BY DEF Unstored
<1>3. \A p \in Latest : InQueue(p) => p.idx \in Queued(Len(log))
  BY DEF Latest, InQueue, Queued
<1>4. ASSUME NEW p \in Latest, Upload(Me, p) \in receipts PROVE p.idx \in Staged(Len(log))
  <2>1. Upload(Me, p) \in chunks
    BY <1>1, <1>2, <1>4 DEF HeldInv
  <2>2. Upload(Me, p) \in PartsOf(Me, Len(log)) /\ Upload(Me, p).part = p
    BY <2>1, UploadFields DEF PartsOf, Latest
  <2> QED BY <2>2 DEF Staged
<1>5. \A p \in Latest : InQueue(p) \/ Upload(Me, p) \in receipts
  BY <1>1, <1>2 DEF QueuedInv
<1>6. PICK p \in Latest : Upload(Me, p) \notin receipts
  BY <1>1, <1>2 DEF HeldInv
<1>7. Queued(Len(log)) # {}
  BY <1>3, <1>5, <1>6
<1>8. ASSUME NEW i \in 1..PartCount(log[Len(log)]) PROVE i \in Queued(Len(log)) \cup Staged(Len(log))
  <2>1. LastPart(i) \in Latest /\ LastPart(i).idx = i
    BY <1>1, LatestParts
  <2> QED BY <1>3, <1>4, <1>5, <2>1
<1> QED BY <1>7, <1>8

\* The latest export of a session is never lost between the outbox and the
\* centre, whatever is lost, late, retried, refused or interrupted on the way,
\* and what counts as acknowledged is stored (state.go Enqueue and Ack,
\* reporting.go Accept, publications.go).
THEOREM LatestNotLost == Spec => []NoLoss
<1>1. DeliveryInv => NoLoss
  <2> SUFFICES ASSUME DeliveryInv PROVE NoLoss
    OBVIOUS
  <2>1. /\ discarded => ckpt.digest = NoSnapshot
        /\ ckpt.acked > 0 /\ ckpt.acked = Len(log) => source[Me].rev = ckpt.acked
    BY DEF DeliveryInv, QueuedInv
  <2> QED BY <2>1, LatestIsSafe DEF NoLoss
<1> QED BY <1>1, InitiallyDelivered, StepsDeliver, PTL DEF Spec

-----------------------------------------------------------------------------
\* Full sync

\* The premise of SyncInv.
Nothing(f, n) == f.state = "running" /\ f.base = n /\ ~f.gone

\* A step that neither exports nor starts a full sync, and touches the sweep
\* and the cycle only in ways a full sync without an export allows.
LEMMA SyncFrame ==
    ASSUME SyncInv, SyncT', log' = log, fsync' = fsync, local' = local,
           ckpt'.digest \in {ckpt.digest, NoSnapshot},
           Nothing(fsync, Len(log)) =>
              /\ ~cursor'.past /\ cursor'.due
              /\ cyc'.pc = "idle" \/ (cyc'.pc = "drain" /\ cyc'.failed)
    PROVE  SyncInv'
BY DEF SyncInv, Nothing

\* After an export the full sync has done its part.
LEMMA ExportSync ==
    ASSUME SyncInv, SyncT', Len(log) \in Nat, Len(log') = Len(log) + 1, fsync' = fsync
    PROVE  SyncInv'
<1>1. fsync.base \in Nat /\ (fsync.state = "running" => fsync.base <= Len(log))
  BY DEF SyncInv, SyncT, FullSyncT, CursorT, CycleT
<1>2. fsync.state = "running" => fsync.base <= Len(log') /\ fsync.base # Len(log')
  BY <1>1
<1> QED BY <1>2 DEF SyncInv

\* The client's own steps.  Until it exports the session again, a full sync
\* cannot pass the session: the export of its page fails, or it is stopped.
LEMMA OutboxSync ==
    ASSUME DeliveryInv, SyncInv, OutboxNext, UNCHANGED centerVars
    PROVE  SyncInv'
<1>0. DeviceInv /\ CenterInv /\ HeldInv /\ QueuedInv /\ Len(log) \in Nat
  BY LenProperties DEF DeliveryInv, IInv, DeviceInv
<1>1. SyncT
  BY DEF SyncInv
<1>2. Nothing(fsync, Len(log)) =>
        /\ local # NoSnapshot /\ ckpt.digest = NoSnapshot /\ ~cursor.past /\ cursor.due
        /\ cyc.pc = "idle" \/ (cyc.pc = "drain" /\ cyc.failed)
  BY DEF SyncInv, Nothing
<1>3. CASE LocalChange
  <2>1. /\ cyc.pc = "idle" /\ UNCHANGED <<ckpt, cursor, cyc, log>> /\ indexed' \in BOOLEAN
        /\ fsync' = [fsync EXCEPT !.gone = fsync.state = "running" /\ (@ \/ local' = NoSnapshot)]
    BY <1>3 DEF LocalChange
  <2>2. /\ fsync'.state = fsync.state /\ fsync'.base = fsync.base
        /\ fsync'.gone = (fsync.state = "running" /\ (fsync.gone \/ local' = NoSnapshot))
        /\ fsync' \in FullSyncT
    BY <1>1, <2>1, Zenon DEF SyncT, FullSyncT, CursorT, CycleT
  <2>3. SyncT'
    BY <1>1, <2>1, <2>2 DEF SyncT, FullSyncT, CursorT, CycleT
  <2> QED BY <1>1, <1>2, <2>1, <2>2, <2>3 DEF SyncInv, Nothing, SyncT, FullSyncT, CursorT, CycleT
<1>4. CASE IndexComplete
  <2>1. indexed' = TRUE /\ UNCHANGED <<local, ckpt, cursor, fsync, cyc, log>>
    BY <1>4 DEF IndexComplete
  <2>2. SyncT'
    BY <1>1, <2>1 DEF SyncT, FullSyncT, CursorT, CycleT
  <2> QED BY <1>2, <2>1, <2>2, SyncFrame
<1>5. CASE SweepDue \/ SyncNow
  <2>1. cursor' = [cursor EXCEPT !.due = TRUE] /\ UNCHANGED <<local, indexed, ckpt, fsync, cyc, log>>
    BY <1>5 DEF SweepDue, SyncNow
  <2>2. SyncT' /\ cursor'.past = cursor.past /\ cursor'.due = TRUE
    BY <1>1, <2>1, Zenon DEF SyncT, FullSyncT, CursorT, CycleT
  <2> QED BY <1>2, <2>1, <2>2, SyncFrame
<1>6. CASE \E i \in DOMAIN outbox : RetryDue(i)
  <2>1. UNCHANGED <<local, indexed, ckpt, cursor, fsync, cyc, log>>
    BY <1>6 DEF RetryDue
  <2>2. SyncT'
    BY <1>1, <2>1 DEF SyncT, FullSyncT, CursorT, CycleT
  <2> QED BY <1>2, <2>1, <2>2, SyncFrame
<1>7. ASSUME NEW enable \in BOOLEAN, NEW clear \in BOOLEAN, Configure(enable, clear)
      PROVE  SyncInv'
  <2>1. /\ cursor' = cursor \/ cursor' = [cursor EXCEPT !.due = TRUE]
        /\ ckpt' = ckpt \/ ckpt' = [ckpt EXCEPT !.digest = NoSnapshot]
        /\ UNCHANGED <<local, indexed, fsync, cyc, log>>
    BY <1>7 DEF Configure
  <2>2. SyncT' /\ cursor'.past = cursor.past /\ (cursor.due => cursor'.due)
    BY <1>1, <2>1, ZenonT(60) DEF SyncT, FullSyncT, CursorT, CycleT
  <2>3. ckpt'.digest \in {ckpt.digest, NoSnapshot}
    BY <1>0, <2>1 DEF DeviceInv, Checkpoint
  <2> QED BY <1>2, <2>1, <2>2, <2>3, SyncFrame
<1>8. CASE FullSync
  <2>1. /\ cyc.pc = "idle" /\ UNCHANGED <<local, indexed, cyc, log>>
        /\ ckpt' = [ckpt EXCEPT !.digest = NoSnapshot]
        /\ cursor' = [cursor EXCEPT !.past = FALSE, !.authority = TRUE, !.due = TRUE]
        /\ fsync' = [state |-> "running", base |-> Len(log), gone |-> local = NoSnapshot]
    BY <1>8 DEF FullSync
  <2>2. cursor' \in CursorT
    BY <1>1, <2>1, Zenon DEF SyncT, FullSyncT, CursorT, CycleT
  <2>3. fsync' \in FullSyncT
    BY <1>0, <2>1 DEF FullSyncT
  <2>4. SyncT'
    BY <1>1, <2>1, <2>2, <2>3 DEF SyncT, FullSyncT, CursorT, CycleT
  <2>5. cursor'.past = FALSE /\ cursor'.due = TRUE
    BY <1>1, <2>1 DEF SyncT, FullSyncT, CursorT, CycleT
  <2>6. ckpt'.digest = NoSnapshot
    BY <1>0, <2>1 DEF DeviceInv, Checkpoint
  <2>7. fsync'.base = Len(log) /\ fsync'.gone = (local = NoSnapshot)
    BY <2>1
  <2>8. fsync'.base <= Len(log')
    BY <1>0, <2>1, <2>7
  <2>9. local' = NoSnapshot => fsync'.gone
    BY <2>1, Zenon
  <2>10. cyc'.pc = "idle"
    BY <2>1
  <2> QED BY <2>4, <2>5, <2>6, <2>8, <2>9, <2>10 DEF SyncInv
<1>9. CASE ExportPage \/ EndSweep
  <2>1. PICK s \in Exports \cup {NoSnapshot} :
           EnqueueFound(s) /\ (s = local \/ cursor.past \/ local = NoSnapshot)
    <3>1. Missing \in Exports \cup {NoSnapshot} /\ local \in Exports \cup {NoSnapshot}
      BY <1>0 DEF Missing, Removed, Exports, DeviceInv
    <3>2. CASE ExportPage
      BY <3>1, <3>2 DEF ExportPage
    <3>3. CASE EndSweep
      BY <3>1, <3>3 DEF EndSweep, SweepEnds
    <3> QED BY <1>9, <3>2, <3>3
  <2>2. /\ log' = log \/ Len(log') = Len(log) + 1
        /\ s # NoSnapshot /\ ckpt.digest = NoSnapshot => Len(log') = Len(log) + 1
    BY <1>0, <2>1, FoundDelivers
  <2>3. UNCHANGED <<local, indexed, cursor, fsync>>
    BY <1>9 DEF ExportPage, EndSweep
  <2>4. cyc' \in CycleT
    BY <1>1, <1>9, Zenon DEF ExportPage, EndSweep, Started, NoCycle, SyncT, FullSyncT, CursorT, CycleT
  <2>5. SyncT'
    BY <1>1, <2>3, <2>4 DEF SyncT, FullSyncT, CursorT, CycleT
  <2>6. CASE Len(log') = Len(log) + 1
    BY <1>0, <2>3, <2>5, <2>6, ExportSync
  <2>7. CASE Len(log') # Len(log) + 1
    <3>1. ~Nothing(fsync, Len(log)) /\ log' = log
      BY <1>2, <2>1, <2>2, <2>7
    <3> QED BY <2>3, <2>5, <3>1 DEF SyncInv, Nothing
  <2> QED BY <2>6, <2>7
<1>10. CASE SaveCursor
  <2>1. /\ cyc.pc = "save" /\ cyc' = [cyc EXCEPT !.pc = "drain", !.authority = FALSE]
        /\ UNCHANGED <<local, indexed, fsync, log>>
        /\ \/ cursor' = [cursor EXCEPT !.past = TRUE, !.saved = TRUE, !.authority = cyc.authority]
           \/ cursor' = [past |-> FALSE, authority |-> TRUE, due |-> FALSE, saved |-> TRUE]
    BY <1>10 DEF SaveCursor
  <2>2. SyncT'
    <3>1. cyc' \in CycleT
      BY <1>1, <2>1, Zenon DEF SyncT, CycleT
    <3>2. [past |-> FALSE, authority |-> TRUE, due |-> FALSE, saved |-> TRUE] \in CursorT
      BY DEF CursorT
    <3>3. [cursor EXCEPT !.past = TRUE, !.saved = TRUE, !.authority = cyc.authority] \in CursorT
      BY <1>1, Zenon DEF SyncT, CursorT, CycleT
    <3> QED BY <1>1, <2>1, <3>1, <3>2, <3>3, ZenonT(60) DEF SyncT
  <2>3. ~Nothing(fsync, Len(log))
    BY <1>2, <2>1
  <2> QED BY <2>1, <2>2, <2>3 DEF SyncInv, Nothing
<1>11. CASE SkipExport
  <2>1. ~cursor.due /\ UNCHANGED <<local, indexed, ckpt, cursor, fsync, log>>
        /\ cyc' = [Started EXCEPT !.pc = "drain"]
    BY <1>11 DEF SkipExport
  <2>2. SyncT'
    BY <1>1, <2>1, Zenon DEF SyncT, FullSyncT, CursorT, CycleT, Started, NoCycle
  <2> QED BY <1>2, <2>1, <2>2, SyncFrame
<1>12. CASE ExportFails
  <2>1. /\ UNCHANGED <<local, indexed, ckpt, cursor, fsync, log>>
        /\ \/ cyc' = [Started EXCEPT !.pc = "drain", !.failed = TRUE]
           \/ cyc' = [Started EXCEPT !.pc = "drain", !.failed = fsync.state = "running"]
    BY <1>12 DEF ExportFails
  <2>2. SyncT' /\ cyc'.pc = "drain" /\ (fsync.state = "running" => cyc'.failed)
    BY <1>1, <2>1, Zenon DEF SyncT, FullSyncT, CursorT, CycleT, Started, NoCycle
  <2> QED BY <1>2, <2>1, <2>2, SyncFrame DEF Nothing
<1>13. CASE CycleEnd
  <2>1. /\ UNCHANGED <<local, indexed, ckpt, cursor, log>> /\ cyc' = NoCycle
        /\ fsync' = fsync \/ fsync' = [state |-> "completed", base |-> 0, gone |-> FALSE]
    BY <1>13 DEF CycleEnd
  <2>2. SyncT' /\ cyc'.pc = "idle"
    <3>1. cyc' \in CycleT /\ cyc'.pc = "idle"
      BY <2>1 DEF CycleT, NoCycle
    <3>2. [state |-> "completed", base |-> 0, gone |-> FALSE] \in FullSyncT
      BY DEF FullSyncT
    <3> QED BY <1>1, <2>1, <3>1, <3>2, ZenonT(60) DEF SyncT
  <2>3. CASE fsync' = fsync
    BY <1>2, <2>1, <2>2, <2>3, SyncFrame
  <2>4. CASE fsync'.state = "completed"
    BY <2>2, <2>4 DEF SyncInv
  <2> QED BY <2>1, <2>3, <2>4
<1> QED BY <1>3, <1>4, <1>5, <1>6, <1>7, <1>8, <1>9, <1>10, <1>11, <1>12, <1>13 DEF OutboxNext

\* The inductive step for a full sync.
LEMMA StepsSync == DeliveryInv /\ SyncInv /\ [Next]_vars => SyncInv'
<1> SUFFICES ASSUME DeliveryInv, SyncInv, [Next]_vars PROVE SyncInv'
  OBVIOUS
<1>0. IInv /\ HeldInv /\ QueuedInv /\ SyncT
  BY DEF DeliveryInv, SyncInv
<1>1. Nothing(fsync, Len(log)) =>
        /\ ~cursor.past /\ cursor.due
        /\ cyc.pc = "idle" \/ (cyc.pc = "drain" /\ cyc.failed)
  BY DEF SyncInv, Nothing
<1>2. ASSUME UNCHANGED <<local, indexed, cursor, fsync, log>>, ckpt'.digest = ckpt.digest,
             \/ cyc' = cyc
             \/ cyc' = NoCycle
             \/ cyc.pc = "drain" /\ cyc' = [cyc EXCEPT !.pc = "drain", !.deferred = TRUE]
      PROVE  SyncInv'
  <2>1. /\ SyncT'
        /\ cyc'.pc = cyc.pc \/ cyc'.pc = "idle"
        /\ cyc'.pc = "drain" => cyc'.failed = cyc.failed
    <3>1. NoCycle \in CycleT /\ NoCycle.pc = "idle"
      BY DEF CycleT, NoCycle
    <3> DEFINE d == [cyc EXCEPT !.pc = "drain", !.deferred = TRUE]
    <3>2. d \in CycleT /\ d.pc = "drain" /\ d.failed = cyc.failed
      BY <1>0, Zenon DEF SyncT, CycleT
    <3> HIDE DEF d
    <3>3. cyc' = cyc \/ cyc' = NoCycle \/ (cyc.pc = "drain" /\ cyc' = d)
      BY <1>2 DEF d
    <3>4. cyc' \in CycleT
      BY <1>0, <3>1, <3>2, <3>3 DEF SyncT
    <3> QED BY <1>0, <1>2, <3>1, <3>2, <3>3, <3>4 DEF SyncT
  <2> QED BY <1>1, <1>2, <2>1, SyncFrame
<1>3. CASE UploadAnswered
  <2>1. ckpt'.digest = ckpt.digest
    BY <1>0, <1>3, AnswerDelivers
  <2>2. UNCHANGED <<local, indexed, cursor, fsync, log>> /\ cyc.pc = "drain"
    BY <1>3 DEF UploadAnswered, Sends
  <2>3. cyc' \in {cyc, NoCycle, [cyc EXCEPT !.pc = "drain", !.deferred = TRUE]}
    BY <1>3 DEF UploadAnswered, Answered, deferBatch
  <2> QED BY <1>2, <2>1, <2>2, <2>3
<1>4. CASE UploadTimesOut \/ CycleStop
  <2>1. /\ UNCHANGED <<local, indexed, cursor, fsync, log, ckpt>>
        /\ \/ cyc' = NoCycle
           \/ cyc.pc = "drain" /\ cyc' = [cyc EXCEPT !.pc = "drain", !.deferred = TRUE]
    BY <1>4 DEF UploadTimesOut, CycleStop, Sends, deferBatch
  <2> QED BY <1>2, <2>1
<1>5. ASSUME UNCHANGED outboxVars PROVE SyncInv'
  <2>1. UNCHANGED <<local, indexed, cursor, fsync, log, ckpt, cyc>>
    BY <1>5 DEF outboxVars
  <2> QED BY <1>2, <2>1
<1>6. UNCHANGED vars => UNCHANGED outboxVars
  BY DEF vars, outboxVars
<1> QED BY <1>3, <1>4, <1>5, <1>6, OutboxSync DEF Next, DeliverLate, PeerUpload

\* At first no full sync is running.
LEMMA InitiallySynced == Init => SyncInv
BY DEF Init, OutboxInit, SyncInv, SyncT, FullSyncT, CursorT, CycleT, NoCycle

\* full_sync.go finishFullSync: a full sync is reported as completed only when
\* the session was exported again or was gone meanwhile, and what was exported
\* last is stored, unless it was discarded by hand.
THEOREM FullSyncCompletes == Spec => FullSyncHonest
<1> DEFINE Honest == fsync.state = "running" /\ fsync'.state = "completed" =>
                        \/ discarded
                        \/ /\ source[Me].rev = Len(log)
                           /\ Len(log) > fsync.base \/ fsync.gone
<1>1. DeliveryInv /\ SyncInv /\ [Next]_vars => [Honest]_vars
  <2> SUFFICES ASSUME DeliveryInv, SyncInv, Next, fsync.state = "running",
                      fsync'.state = "completed", ~discarded
               PROVE  /\ source[Me].rev = Len(log)
                      /\ Len(log) > fsync.base \/ fsync.gone
    OBVIOUS
  <2>1. CycleEnd
    <3>1. fsync \in FullSyncT
      BY DEF SyncInv, SyncT, FullSyncT, CursorT, CycleT
    <3>2. fsync' # fsync /\ ~UNCHANGED outboxVars
      BY DEF outboxVars
    <3>3. OutboxNext
      BY <3>2, Zenon DEF Next, UploadAnswered, UploadTimesOut, CycleStop, DeliverLate, PeerUpload
    <3>4. ~LocalChange /\ ~FullSync
      BY <3>1 DEF LocalChange, FullSync, FullSyncT
    <3> QED BY <3>2, <3>3, <3>4
            DEF OutboxNext, IndexComplete, SweepDue, RetryDue, Configure, SyncNow, ExportPage,
                EndSweep, SaveCursor, SkipExport, ExportFails
  <2>2. cyc.pc = "drain" /\ outbox = <<>> /\ ~cyc.failed
    BY <2>1 DEF CycleEnd
  <2>3. ASSUME source[Me].rev # Len(log) PROVE FALSE
    <3>1. log # <<>>
      <4>1. source[Me].rev \in 0..Len(log)
        BY DEF DeliveryInv, IInv, CenterInv, StoredOK
      <4> QED BY <2>3, <4>1
    <3>2. Unstored
      BY <2>3, <3>1 DEF Unstored
    <3>3. PICK p \in Latest : Upload(Me, p) \notin receipts
      BY <3>2 DEF DeliveryInv, HeldInv
    <3>4. InQueue(p)
      BY <3>2, <3>3 DEF DeliveryInv, QueuedInv
    <3> QED BY <2>2, <3>4 DEF InQueue
  <2>4. ~Nothing(fsync, Len(log)) /\ fsync.base <= Len(log) /\ fsync.base \in Nat /\ fsync.gone \in BOOLEAN
    BY <2>2 DEF SyncInv, Nothing, SyncT, FullSyncT, CursorT, CycleT
  <2>5. Len(log) \in Nat
    BY LenProperties DEF DeliveryInv, IInv, DeviceInv
  <2> QED BY <2>3, <2>4, <2>5 DEF Nothing
<1>2. Spec => [](DeliveryInv /\ SyncInv)
  BY InitiallyDelivered, InitiallySynced, StepsDeliver, StepsSync, PTL DEF Spec
<1>3. FullSyncHonest <=> [][Honest]_vars
  BY DEF FullSyncHonest
<1> QED BY <1>1, <1>2, <1>3, PTL DEF Spec
=============================================================================
