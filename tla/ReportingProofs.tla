----------------------------- MODULE ReportingProofs -----------------------------
(***************************************************************************)
(* Reporting implements ReportLog, for any reports, peers, servers, chunk  *)
(* size, queue budget and number of disturbances: whatever is lost, late,  *)
(* repeated or reordered, the centre stores exports of the device, whole   *)
(* and in order, and never has a reason to reject one.                     *)
(*                                                                         *)
(* The argument is one of provenance.  Every part of the device that       *)
(* exists anywhere (queued, in flight, staged, in a job or in a worker's   *)
(* hand) is a part of one of its exports (Exported), and carries that      *)
(* export's revision and digest.  So two contents never meet under one     *)
(* revision, and what a worker assembles is the export itself.  Parts cut  *)
(* from a snapshot can always be assembled again (SplitAssembles).         *)
(***************************************************************************)
EXTENDS Reporting, SequenceTheorems, WellFoundedInduction, TLAPS

\* A leaf that names no prover is tried with SMT, then with Zenon.
USE SMTT(30), ZenonT(30)

\* What a device may export.
Exports == Reports \cup {Tombstone}

\* The parts of the exports in a log.
Exported(l) == UNION {{SplitSnapshot(l[r], r)[i] : i \in 1..PartCount(l[r])} : r \in DOMAIN l}

QueueT(l) == [part : Exported(l), wait : BOOLEAN]

\* The checkpoint of revision n.
Checkpoint(c, n) == c = [rev |-> n, digest |-> c.digest, seen |-> c.seen,
                         deleted |-> c.deleted, acked |-> c.acked]

\* The device: its checkpoint has the revision of its last export, and what it
\* queued or sent are parts of exports.
DeviceInv ==
    /\ local \in Reports \cup {NoSnapshot}
    /\ log \in Seq(Exports)
    /\ Checkpoint(ckpt, Len(log))
    /\ outbox \in Seq(QueueT(log))
    /\ late \subseteq Exported(log)

\* What a worker holds of the device's uploads; what it has built holds the
\* export the job is about.
Holds(x, l) ==
    /\ x.pc \in {"claimed", "build"} /\ x.job.client = Me => x.job.part \in Exported(l)
    /\ x.pc = "build" =>
         /\ x = [pc |-> "build", job |-> x.job, snap |-> x.snap, stamp |-> x.stamp,
                 cur |-> x.cur, todo |-> x.todo]
         /\ x.job.client = Me => x.snap = l[x.job.part.rev]

\* The stored revision of the device is one of its exports.
StoredOK(x, l) == x.rev \in 0..Len(l) /\ (x.rev > 0 => x.snap = l[x.rev])

\* The centre: staged parts, jobs and workers.
CenterInv ==
    /\ \A k \in chunks : k.client = Me => k.part \in Exported(log)
    /\ \A u \in DOMAIN jobs : u.client = Me => u.part \in Exported(log)
    /\ DOMAIN work = Servers
    /\ \A w \in Servers : Holds(work[w], log)
    /\ DOMAIN source = Clients
    /\ StoredOK(source[Me], log)

IInv == DeviceInv /\ CenterInv /\ NeverRejected

\* A step stores nothing of the device, or a later one of its exports.
Stores ==
    \/ source'[Me] = source[Me]
    \/ \E r \in DOMAIN log : r > source[Me].rev /\ source'[Me] = [rev |-> r, snap |-> log[r]]

-----------------------------------------------------------------------------
\* Parts and exports

\* What a device exports is a snapshot; a deletion is one without rows.
LEMMA ExportIsSnapshot == ASSUME NEW s \in Exports PROVE IsSnapshot(s)
<1>1. CASE s \in Reports
  BY <1>1, ReportsAssumption
<1>2. CASE s = Tombstone
  <2>1. s = [rows |-> <<>>, complete |-> TRUE, deleted |-> TRUE]
    BY <1>2 DEF Tombstone
  <2>2. s.rows = <<>> /\ s = [rows |-> s.rows, complete |-> s.complete, deleted |-> s.deleted]
    BY <2>1
  <2> QED BY <2>2, EmptySeq DEF IsSnapshot
<1> QED BY <1>1, <1>2 DEF Exports

\* chunks.go SplitSnapshot: a snapshot has a number of parts, at least one.
LEMMA PartsOfSnapshot == ASSUME NEW s, IsSnapshot(s) PROVE PartCount(s) \in Nat \ {0}
<1>1. Len(s.rows) \in Nat
  BY LenProperties DEF IsSnapshot
<1>2. ChunkFacts \in Nat \ {0}
  BY ChunkAssumption
<1> DEFINE a == Len(s.rows) + ChunkFacts - 1
<1>3. ASSUME ~(Len(s.rows) <= ChunkFacts) PROVE a \div ChunkFacts \in Nat \ {0}
  <2>1. a \in Nat /\ a >= ChunkFacts
    BY <1>1, <1>2, <1>3
  <2> HIDE DEF a
  <2> QED BY <1>2, <2>1
<1> QED BY <1>3 DEF PartCount

\* The parts of an export can be counted.
LEMMA PartCountNat == ASSUME NEW s \in Exports PROVE PartCount(s) \in Nat
BY PartsOfSnapshot, ExportIsSnapshot

\* Every part repeats revision and digest of its export.
LEMMA PartOfExport ==
    ASSUME NEW l \in Seq(Exports), NEW p \in Exported(l)
    PROVE  p.rev \in 1..Len(l) /\ p.digest = l[p.rev]
<1>1. PICK r \in DOMAIN l : \E i \in 1..PartCount(l[r]) : p = SplitSnapshot(l[r], r)[i]
  BY DEF Exported
<1>2. PICK i \in 1..PartCount(l[r]) : p = SplitSnapshot(l[r], r)[i]
  BY <1>1
<1>3. p.rev = r /\ p.digest = l[r]
  BY <1>2 DEF SplitSnapshot
<1> QED BY <1>3

\* A part knows how many there are.
LEMMA PartCountPositive ==
    ASSUME log \in Seq(Exports), NEW p \in Exported(log), p.count # 1
    PROVE  p.count > 1
<1>1. PICK r \in DOMAIN log : \E i \in 1..PartCount(log[r]) : p = SplitSnapshot(log[r], r)[i]
  BY DEF Exported
<1>2. PICK i \in 1..PartCount(log[r]) : p = SplitSnapshot(log[r], r)[i]
  BY <1>1
<1>3. p.count = PartCount(log[r])
  BY <1>2 DEF SplitSnapshot
<1>4. log[r] \in Exports
  BY ElementOfSeq, LenProperties
<1> QED BY <1>2, <1>3, <1>4, PartCountNat

\* An export keeps the earlier ones and adds its own parts.
LEMMA ExportedGrows ==
    ASSUME NEW l \in Seq(Exports), NEW s \in Exports
    PROVE  LET m == Append(l, s) IN
           /\ m \in Seq(Exports) /\ Len(m) = Len(l) + 1
           /\ \A r \in DOMAIN l : m[r] = l[r]
           /\ Exported(l) \subseteq Exported(m)
           /\ \A i \in 1..PartCount(s) : SplitSnapshot(s, Len(l) + 1)[i] \in Exported(m)
<1> DEFINE m == Append(l, s)
<1>1. /\ m \in Seq(Exports) /\ Len(m) = Len(l) + 1 /\ Len(l) \in Nat
      /\ \A r \in 1..Len(l) : m[r] = l[r]
      /\ m[Len(l) + 1] = s
  BY AppendProperties, LenProperties
<1>2. DOMAIN m = 1..(Len(l) + 1) /\ DOMAIN l = 1..Len(l)
  BY <1>1, LenProperties
<1> HIDE DEF m
<1>3. Exported(l) \subseteq Exported(m)
  <2> SUFFICES ASSUME NEW r \in DOMAIN l, NEW i \in 1..PartCount(l[r])
               PROVE  SplitSnapshot(l[r], r)[i] \in Exported(m)
    BY DEF Exported
  <2>1. r \in DOMAIN m /\ m[r] = l[r]
    BY <1>1, <1>2
  <2> QED BY <2>1 DEF Exported
<1>4. \A i \in 1..PartCount(s) : SplitSnapshot(s, Len(l) + 1)[i] \in Exported(m)
  <2>1. Len(l) + 1 \in DOMAIN m /\ m[Len(l) + 1] = s
    BY <1>1, <1>2
  <2> QED BY <2>1 DEF Exported
<1> QED BY <1>1, <1>2, <1>3, <1>4 DEF m

-----------------------------------------------------------------------------
\* The queue

\* A set of naturals has a least element.
LEMMA LeastNat ==
    ASSUME NEW S, S \subseteq Nat, S # {}
    PROVE  \E i \in S : \A j \in S : i <= j
<1> DEFINE R == {ss \in Nat \X Nat : ss[1] < ss[2]}
<1>1. OpToRel(<, Nat) = R
  BY Zenon DEF OpToRel
<1>2. IsWellFoundedOn(R, Nat)
  BY <1>1, NatLessThanWellFounded, Zenon
<1>3. PICK i \in S : \A j \in S : ~(<<j, i>> \in R)
  BY <1>2, WFMin, Zenon
<1>4. ASSUME NEW j \in S PROVE i <= j
  <2>1. <<j, i>> \in Nat \X Nat /\ i \in Nat /\ j \in Nat
    OBVIOUS
  <2>2. ~(j < i)
    BY <1>3, <2>1
  <2> QED BY <2>1, <2>2
<1> QED BY <1>4

\* state.go next: there is an oldest row among those that may be sent.
LEMMA OldestIsReady ==
    ASSUME NEW Q, outbox \in Seq(Q), Ready # {}
    PROVE  Oldest \in DOMAIN outbox
<1>1. Ready \subseteq Nat /\ Ready \subseteq DOMAIN outbox
  BY LenProperties DEF Ready
<1>2. PICK i \in Ready : \A j \in Ready : i <= j
  BY <1>1, LeastNat, Zenon
<1> QED BY <1>1, <1>2, Zenon DEF Oldest

\* state.go Ack: the other rows stay.
LEMMA AckKeeps ==
    ASSUME NEW Q, NEW q \in Seq(Q), NEW i \in DOMAIN q
    PROVE  SubSeq(q, 1, i - 1) \o SubSeq(q, i + 1, Len(q)) \in Seq(Q)
<1>1. Len(q) \in Nat /\ DOMAIN q = 1..Len(q) /\ \A j \in 1..Len(q) : q[j] \in Q
  BY LenProperties, ElementOfSeq
<1>2. SubSeq(q, 1, i - 1) \in Seq(Q)
  BY <1>1, SubSeqProperties
<1>3. SubSeq(q, i + 1, Len(q)) \in Seq(Q)
  BY <1>1, SubSeqProperties
<1> QED BY <1>2, <1>3, ConcatProperties

\* state.go deferBatch, and a deferred row that is due: only the wait changes.
LEMMA WaitKeeps ==
    ASSUME NEW P, NEW q \in Seq([part : P, wait : BOOLEAN]), NEW i \in DOMAIN q, NEW b \in BOOLEAN
    PROVE  [q EXCEPT ![i].wait = b] \in Seq([part : P, wait : BOOLEAN])
<1> DEFINE Q == [part : P, wait : BOOLEAN]
           e == [q[i] EXCEPT !.wait = b]
<1>1. i \in 1..Len(q) /\ q[i] \in Q
  BY LenProperties, ElementOfSeq, Zenon
<1>2. e \in Q
  BY <1>1
<1>3. [q EXCEPT ![i] = e] \in Seq(Q)
  BY <1>1, <1>2, ExceptSeq
<1> QED BY <1>3

\* A queue of parts of a log is one of parts of any longer log.
LEMMA QueueGrows ==
    ASSUME NEW l, NEW m, Exported(l) \subseteq Exported(m), NEW q \in Seq(QueueT(l))
    PROVE  q \in Seq(QueueT(m))
<1>1. QueueT(l) \subseteq QueueT(m)
  BY DEF QueueT
<1> QED BY <1>1, SeqMonotonic

\* Only an export changes the revision of a checkpoint.
LEMMA CheckpointKept ==
    ASSUME NEW c, NEW n, Checkpoint(c, n), NEW v
    PROVE  /\ Checkpoint([c EXCEPT !.seen = v], n)
           /\ Checkpoint([c EXCEPT !.digest = v], n)
           /\ Checkpoint([c EXCEPT !.acked = v], n)
<1> DEFINE d == [rev |-> n, digest |-> c.digest, seen |-> c.seen,
                 deleted |-> c.deleted, acked |-> c.acked]
<1>1. c = d
  BY DEF Checkpoint
<1>2. Checkpoint([d EXCEPT !.seen = v], n)
  BY DEF Checkpoint
<1>3. Checkpoint([d EXCEPT !.digest = v], n)
  BY DEF Checkpoint
<1>4. Checkpoint([d EXCEPT !.acked = v], n)
  BY DEF Checkpoint
<1> HIDE DEF d
<1> QED BY <1>1, <1>2, <1>3, <1>4

\* state.go Enqueue: a changed snapshot takes the next revision and all its
\* parts are queued.
LEMMA EnqueueKeeps ==
    ASSUME DeviceInv, NEW s \in Exports, Enqueue(s), UNCHANGED <<local, late>>
    PROVE  /\ DeviceInv'
           /\ log' = log \/ log' = Append(log, s)
<1> USE DEF DeviceInv
<1>1. CASE Unchanged(s)
  <2>1. ckpt' = [ckpt EXCEPT !.seen = TRUE] /\ UNCHANGED <<outbox, log>>
    BY <1>1 DEF Enqueue
  <2>2. Checkpoint(ckpt', Len(log))
    BY <2>1, CheckpointKept, Zenon
  <2> QED BY <2>1, <2>2
<1>2. CASE ~Unchanged(s)
  <2> DEFINE n == PartCount(s)
             part(i) == SplitSnapshot(s, Len(log) + 1)[i]
             new == [i \in 1..n |-> [part |-> part(i), wait |-> FALSE]]
  <2>1. /\ ckpt' = [ckpt EXCEPT !.rev = @ + 1, !.digest = s, !.seen = TRUE, !.deleted = s.deleted]
        /\ outbox' = outbox \o [i \in 1..PartCount(s) |->
                         [part |-> SplitSnapshot(s, ckpt.rev + 1)[i], wait |-> FALSE]]
        /\ log' = Append(log, s)
    BY <1>2, Zenon DEF Enqueue
  <2>2. ckpt.rev = Len(log)
    BY DEF Checkpoint
  <2>3. outbox' = outbox \o new
    BY <2>1, <2>2
  <2>4. /\ log' \in Seq(Exports) /\ Len(log') = Len(log) + 1
        /\ Exported(log) \subseteq Exported(log')
        /\ \A i \in 1..n : part(i) \in Exported(log')
    BY <2>1, ExportedGrows
  <2>5. n \in Nat
    BY PartCountNat
  <2>6. new \in Seq(QueueT(log'))
    <3>1. \A i \in 1..n : [part |-> part(i), wait |-> FALSE] \in QueueT(log')
      BY <2>4 DEF QueueT
    <3> HIDE DEF n, part
    <3> QED BY <2>5, <3>1
  <2>7. outbox \in Seq(QueueT(log'))
    BY <2>4, QueueGrows
  <2>8. outbox' \in Seq(QueueT(log'))
    BY <2>3, <2>6, <2>7, ConcatProperties
  <2>9. Checkpoint(ckpt', Len(log'))
    BY <2>1, <2>2, <2>4, Zenon DEF Checkpoint
  <2> QED BY <2>1, <2>4, <2>8, <2>9
<1> QED BY <1>1, <1>2

\* What a page or the end of a sweep finds is exported, or nothing is.
LEMMA FoundKeeps ==
    ASSUME DeviceInv, NEW s \in Exports \cup {NoSnapshot}, EnqueueFound(s),
           UNCHANGED <<local, late>>
    PROVE  /\ DeviceInv'
           /\ log' = log \/ \E x \in Exports : log' = Append(log, x)
<1>1. CASE s = NoSnapshot
  <2>1. ckpt' = [ckpt EXCEPT !.seen = Seen] /\ UNCHANGED <<outbox, log>>
    BY <1>1 DEF EnqueueFound
  <2>2. Checkpoint(ckpt', Len(log))
    BY <2>1, CheckpointKept, Zenon DEF DeviceInv
  <2> QED BY <2>1, <2>2 DEF DeviceInv
<1>2. CASE s # NoSnapshot
  <2>1. s \in Exports /\ Enqueue(s)
    BY <1>2 DEF EnqueueFound
  <2> QED BY <2>1, EnqueueKeeps
<1> QED BY <1>1, <1>2

-----------------------------------------------------------------------------
\* The device

\* What the steps of the device keep when they export nothing.
LEMMA DeviceFrame ==
    ASSUME DeviceInv, local' \in Reports \cup {NoSnapshot}, log' = log,
           Checkpoint(ckpt', Len(log)), outbox' \in Seq(QueueT(log)), late' \subseteq Exported(log)
    PROVE  DeviceInv'
BY DEF DeviceInv

\* The steps of the client that do not involve the centre (internal/reporting)
\* export at most one snapshot, and never stop reporting.
LEMMA OutboxKeeps ==
    ASSUME DeviceInv, NeverRejected, OutboxNext, UNCHANGED late
    PROVE  /\ DeviceInv' /\ NeverRejected'
           /\ log' = log \/ \E x \in Exports : log' = Append(log, x)
<1>1. /\ local \in Reports \cup {NoSnapshot} /\ Checkpoint(ckpt, Len(log))
      /\ outbox \in Seq(QueueT(log)) /\ late \subseteq Exported(log)
      /\ mode # "protocol_rejected"
  BY DEF DeviceInv, NeverRejected
<1>2. CASE LocalChange
  BY <1>1, <1>2, DeviceFrame DEF LocalChange, NeverRejected
<1>3. CASE IndexComplete \/ SweepDue
  BY <1>1, <1>3, DeviceFrame DEF IndexComplete, SweepDue, NeverRejected
<1>4. ASSUME NEW i \in DOMAIN outbox, RetryDue(i)
      PROVE  DeviceInv' /\ NeverRejected' /\ log' = log
  <2>1. outbox' = [outbox EXCEPT ![i].wait = FALSE] /\ UNCHANGED <<local, ckpt, mode, log>>
    BY <1>4 DEF RetryDue
  <2>2. outbox' \in Seq(QueueT(log))
    BY <1>1, <2>1, WaitKeeps, Zenon DEF QueueT
  <2> QED BY <1>1, <2>1, <2>2, DeviceFrame DEF NeverRejected
<1>5. ASSUME NEW enable \in BOOLEAN, NEW clear \in BOOLEAN, Configure(enable, clear)
      PROVE  DeviceInv' /\ NeverRejected' /\ log' = log
  <2>1. /\ outbox' = IF clear THEN <<>> ELSE outbox
        /\ ckpt' = IF clear THEN [ckpt EXCEPT !.digest = NoSnapshot] ELSE ckpt
        /\ UNCHANGED <<local, log>>
    BY <1>5 DEF Configure
  <2>2. outbox' \in Seq(QueueT(log))
    BY <1>1, <2>1, EmptySeq
  <2>3. Checkpoint(ckpt', Len(log))
    BY <1>1, <2>1, CheckpointKept, Zenon
  <2>4. mode' # "protocol_rejected"
    BY <1>1, <1>5 DEF Configure
  <2> QED BY <1>1, <2>1, <2>2, <2>3, <2>4, DeviceFrame DEF NeverRejected
<1>6. CASE SyncNow \/ SkipExport \/ ExportFails \/ CycleEnd
  BY <1>1, <1>6, DeviceFrame DEF SyncNow, SkipExport, ExportFails, CycleEnd, NeverRejected
<1>7. CASE FullSync
  <2>1. ckpt' = [ckpt EXCEPT !.digest = NoSnapshot] /\ UNCHANGED <<local, outbox, mode, log>>
    BY <1>7 DEF FullSync
  <2>2. Checkpoint(ckpt', Len(log))
    BY <1>1, <2>1, CheckpointKept, Zenon
  <2> QED BY <1>1, <2>1, <2>2, DeviceFrame DEF NeverRejected
<1>8. CASE SaveCursor
  <2>1. ckpt' = ckpt \/ ckpt' = [ckpt EXCEPT !.seen = FALSE]
    BY <1>8 DEF SaveCursor
  <2>2. UNCHANGED <<local, outbox, mode, log>>
    BY <1>8 DEF SaveCursor
  <2>3. Checkpoint([ckpt EXCEPT !.seen = FALSE], Len(log))
    BY <1>1, CheckpointKept, Zenon
  <2>4. Checkpoint(ckpt', Len(log))
    BY <1>1, <2>1, <2>3, Zenon
  <2> QED BY <1>1, <2>2, <2>4, DeviceFrame DEF NeverRejected
<1>9. CASE ExportPage
  <2>1. EnqueueFound(local) /\ UNCHANGED <<local, mode>>
    BY <1>9 DEF ExportPage
  <2>2. local \in Exports \cup {NoSnapshot}
    BY <1>1 DEF Exports
  <2> QED BY <1>1, <2>1, <2>2, FoundKeeps DEF NeverRejected
<1>10. CASE EndSweep
  <2>1. EnqueueFound(Missing) /\ UNCHANGED <<local, mode>>
    BY <1>10 DEF EndSweep
  <2>2. Missing \in Exports \cup {NoSnapshot}
    <3>1. Missing \in {Tombstone, NoSnapshot}
      BY DEF Missing, Removed
    <3> QED BY <3>1 DEF Exports
  <2> QED BY <1>1, <2>1, <2>2, FoundKeeps DEF NeverRejected
<1> QED BY <1>2, <1>3, <1>4, <1>5, <1>6, <1>7, <1>8, <1>9, <1>10 DEF OutboxNext
-----------------------------------------------------------------------------
\* The centre

\* An export of the device leaves what the centre holds in order.
LEMMA CenterSurvivesExport ==
    ASSUME NEW x \in Exports, log \in Seq(Exports), CenterInv, log' = Append(log, x),
           UNCHANGED centerVars
    PROVE  CenterInv'
<1>1. /\ Len(log) \in Nat /\ Len(log') = Len(log) + 1
      /\ \A r \in 1..Len(log) : log'[r] = log[r]
      /\ Exported(log) \subseteq Exported(log')
  BY ExportedGrows, LenProperties
<1>2. UNCHANGED <<source, chunks, jobs, work>>
  BY DEF centerVars
<1>3. ASSUME NEW w \in Servers PROVE Holds(work[w], log')
  <2>1. Holds(work[w], log)
    BY DEF CenterInv
  <2>2. ASSUME work[w].pc = "build", work[w].job.client = Me
        PROVE  work[w].snap = log'[work[w].job.part.rev]
    <3>1. work[w].job.part \in Exported(log) /\ work[w].snap = log[work[w].job.part.rev]
      BY <2>1, <2>2 DEF Holds
    <3>2. work[w].job.part.rev \in 1..Len(log)
      BY <3>1, PartOfExport
    <3> QED BY <1>1, <3>1, <3>2
  <2> QED BY <1>1, <2>1, <2>2, Zenon DEF Holds
<1>4. StoredOK(source[Me], log')
  BY <1>1 DEF CenterInv, StoredOK
<1> QED BY <1>1, <1>2, <1>3, <1>4 DEF CenterInv

\* An upload of an exported part stores it, whole, or keeps it for later; it
\* is never answered with a conflict (reporting.go Accept, chunks.go).  The
\* upload of another device changes nothing of this one.
LEMMA AcceptKeeps ==
    ASSUME log \in Seq(Exports), CenterInv, NEW c, NEW part, NEW reply,
           c = Me => part \in Exported(log),
           Accept(c, part, reply), log' = log
    PROVE  CenterInv' /\ Stores /\ (c = Me => reply # "conflict")
<1>0. Me \in Clients
  BY ReportingAssumption
<1>1. ASSUME c = Me
      PROVE  /\ part.rev \in 1..Len(log) /\ part.digest = log[part.rev]
             /\ part.rev \in DOMAIN log
  BY <1>1, PartOfExport, LenProperties
<1>2. CASE AcceptOld(c, part, reply)
  <2>1. UNCHANGED <<source, chunks, jobs, work>>
    BY <1>2 DEF AcceptOld, centerVars
  <2>2. c = Me => ~Disagrees(c, part)
    BY <1>1 DEF Disagrees, CenterInv, StoredOK
  <2>3. c = Me => reply # "conflict"
    BY <1>2, <2>2 DEF AcceptOld
  <2> QED BY <2>1, <2>3 DEF CenterInv, Stores
<1>3. CASE AcceptJob(c, part, reply)
  <2>1. UNCHANGED <<source, chunks, jobs, work>> /\ reply # "conflict"
    BY <1>3 DEF AcceptJob, centerVars
  <2> QED BY <2>1 DEF CenterInv, Stores
<1>4. CASE AcceptSession(c, part, reply)
  <2>1. /\ source' = [source EXCEPT ![c] = [rev |-> part.rev, snap |-> part.digest]]
        /\ ~(part.rev <= source[c].rev)
        /\ UNCHANGED <<chunks, jobs, work>> /\ reply # "conflict"
    BY <1>4 DEF AcceptSession, Superseded
  <2>2. CASE c = Me
    <3>1. source'[Me] = [rev |-> part.rev, snap |-> log[part.rev]] /\ DOMAIN source' = Clients
      BY <1>0, <1>1, <2>1, <2>2 DEF CenterInv
    <3>2. part.rev \in DOMAIN log /\ part.rev > source[Me].rev
      BY <1>1, <2>1, <2>2 DEF CenterInv, StoredOK
    <3>3. StoredOK(source'[Me], log)
      BY <1>1, <2>2, <3>1 DEF StoredOK
    <3> QED BY <2>1, <3>1, <3>2, <3>3 DEF CenterInv, Stores
  <2>3. CASE c # Me
    <3>1. source'[Me] = source[Me] /\ DOMAIN source' = Clients
      BY <1>0, <2>1, <2>3 DEF CenterInv
    <3> QED BY <2>1, <3>1 DEF CenterInv, Stores
  <2> QED BY <2>2, <2>3
<1>5. CASE AcceptChunk(c, part, reply) \/ AcceptWhole(c, part, reply)
  <2>1. UNCHANGED <<source, work>> /\ reply # "conflict"
    BY <1>5 DEF AcceptChunk, AcceptWhole
  <2>2. chunks' \subseteq chunks \cup {Upload(c, part)}
    BY <1>5 DEF AcceptChunk, AcceptWhole
  <2>3. DOMAIN jobs' \subseteq DOMAIN jobs \cup {Upload(c, part)}
    BY <1>5 DEF AcceptChunk, AcceptWhole, SaveJob
  <2>4. Upload(c, part).client = c /\ Upload(c, part).part = part
    BY DEF Upload
  <2> QED BY <2>1, <2>2, <2>3, <2>4 DEF CenterInv, Stores
<1> QED BY <1>2, <1>3, <1>4, <1>5 DEF Accept

\* A step of a worker that stores nothing.
LEMMA WorkerFrame ==
    ASSUME CenterInv, log' = log, source' = source, chunks' \subseteq chunks,
           DOMAIN jobs' = DOMAIN jobs, NEW w \in Servers, NEW x, Holds(x, log),
           work' = [work EXCEPT ![w] = x]
    PROVE  CenterInv' /\ Stores
<1>1. DOMAIN work' = Servers /\ \A v \in Servers : work'[v] = IF v = w THEN x ELSE work[v]
  BY DEF CenterInv
<1>2. \A v \in Servers : Holds(work'[v], log)
  BY <1>1 DEF CenterInv
<1> QED BY <1>1, <1>2 DEF CenterInv, Stores

\* A worker that holds no job holds nothing of the device.
LEMMA NothingHeld ==
    ASSUME NEW x, NEW l, x.pc \notin {"claimed", "build"}
    PROVE  Holds(x, l)
BY DEF Holds

\* An idle worker holds nothing.
LEMMA IdleHolds == ASSUME NEW l PROVE Holds(Idle, l)
<1>1. Idle.pc = "idle"
  BY DEF Idle
<1> QED BY <1>1, NothingHeld

\* publications.go: what a worker assembles from the parts of an export is the
\* export.
LEMMA AssembledIsExport ==
    ASSUME log \in Seq(Exports), CenterInv, NEW u, u.client = Me, u.part \in Exported(log),
           u.part.count > 1 => Assembles(JobParts(u))
    PROVE  JobSnapshot(u) = log[u.part.rev]
<1>1. CASE u.part.count = 1
  BY <1>1, PartOfExport DEF JobSnapshot
<1>2. CASE u.part.count # 1
  <2> DEFINE p == CHOOSE q \in JobParts(u) : q.idx = 1
  <2>1. \E q \in JobParts(u) : q.idx = 1
    <3>1. u.part.count > 1
      BY <1>2, PartCountPositive
    <3> QED BY <3>1, Zenon DEF Assembles
  <2>2. p \in JobParts(u)
    BY <2>1
  <2>3. p \in Exported(log) /\ p.rev = u.part.rev
    BY <2>2, Zenon DEF JobParts, PartsOf, CenterInv
  <2>4. p.digest = log[u.part.rev]
    BY <2>3, PartOfExport
  <2> QED BY <1>2, <2>4 DEF JobSnapshot, Assembled
<1> QED BY <1>1, <1>2

\* What a worker assembles from the parts of the device is its export.
LEMMA ReadKeeps ==
    ASSUME log \in Seq(Exports), CenterInv, NEW w \in Servers, Read(w), log' = log
    PROVE  CenterInv' /\ Stores
<1> DEFINE u == work[w].job
           b == [pc |-> "build", job |-> u, snap |-> JobSnapshot(u), stamp |-> source,
                 cur |-> session, todo |-> {}]
           x == [b EXCEPT !.todo = ToStage(b)]
<1>1. /\ work[w].pc = "claimed"
      /\ u.part.count > 1 => Assembles(JobParts(u))
      /\ work' = [work EXCEPT ![w] = x]
      /\ UNCHANGED <<source, chunks, jobs>>
  BY DEF Read
<1>2. x = [pc |-> "build", job |-> u, snap |-> JobSnapshot(u), stamp |-> source,
           cur |-> session, todo |-> ToStage(b)]
  OBVIOUS
<1>3. ASSUME u.client = Me PROVE u.part \in Exported(log) /\ JobSnapshot(u) = log[u.part.rev]
  <2>1. u.part \in Exported(log)
    BY <1>1, <1>3 DEF CenterInv, Holds
  <2> QED BY <1>1, <1>3, <2>1, AssembledIsExport
<1>4. Holds(x, log)
  <2> HIDE DEF u
  <2>1. /\ x.pc = "build" /\ x.job = u /\ x.snap = JobSnapshot(u) /\ x.stamp = source
        /\ x.cur = session /\ x.todo = ToStage(b)
    BY <1>2
  <2>2. x = [pc |-> "build", job |-> x.job, snap |-> x.snap, stamp |-> x.stamp,
             cur |-> x.cur, todo |-> x.todo]
    BY <1>2, <2>1
  <2> HIDE DEF x
  <2> QED BY <1>3, <2>1, <2>2 DEF Holds
<1> HIDE DEF x
<1> QED BY <1>1, <1>4, WorkerFrame, Zenon

\* Staging usage changes nothing of what a worker holds.
LEMMA StageKeeps ==
    ASSUME CenterInv, NEW w \in Servers, StageUsage(w), log' = log
    PROVE  CenterInv' /\ Stores
<1>1. PICK r : work' = [work EXCEPT ![w].todo = @ \ {r}]
  BY Zenon DEF StageUsage
<1>2. work[w].pc = "build" /\ UNCHANGED <<source, chunks, jobs>>
  BY DEF StageUsage
<1> DEFINE y == work[w]
           t == y.todo \ {r}
           x == [y EXCEPT !.todo = t]
<1>3. Holds(y, log) /\ y.pc = "build"
  BY <1>2 DEF CenterInv
<1>4. work' = [work EXCEPT ![w] = x]
  BY <1>1
<1> HIDE DEF y, t
<1>5. x = [pc |-> "build", job |-> y.job, snap |-> y.snap, stamp |-> y.stamp,
           cur |-> y.cur, todo |-> t]
  BY <1>3 DEF Holds
<1>6. Holds(x, log)
  <2>1. /\ x.pc = "build" /\ x.job = y.job /\ x.snap = y.snap /\ x.stamp = y.stamp
        /\ x.cur = y.cur /\ x.todo = t
    BY <1>5
  <2>2. x = [pc |-> "build", job |-> x.job, snap |-> x.snap, stamp |-> x.stamp,
             cur |-> x.cur, todo |-> x.todo]
    BY <1>5, <2>1
  <2> HIDE DEF x
  <2> QED BY <1>3, <2>1, <2>2 DEF Holds
<1> HIDE DEF x
<1> QED BY <1>2, <1>4, <1>6, WorkerFrame, Zenon

\* publications.go, the final transaction: what is stored is the export of the
\* job, and later than what was stored.
LEMMA CommitKeeps ==
    ASSUME log \in Seq(Exports), CenterInv, NEW w \in Servers, CommitPublication(w), log' = log
    PROVE  CenterInv' /\ Stores
<1> DEFINE b == work[w]
           c == b.job.client
           rev == b.job.part.rev
<1>0. Me \in Clients
  BY ReportingAssumption
<1>1. /\ b.pc = "build" /\ source = b.stamp
      /\ source' = IF Stale(b) THEN source ELSE [source EXCEPT ![c] = Own(b)]
      /\ work' = [work EXCEPT ![w] = Idle]
      /\ UNCHANGED chunks
  BY DEF CommitPublication, Current
<1>2. DOMAIN jobs' = DOMAIN jobs
  BY DEF CommitPublication, FinishJob
<1>3. CASE source'[Me] = source[Me]
  <2>1. DOMAIN source' = Clients
    BY <1>1 DEF CenterInv
  <2>2. DOMAIN work' = Servers /\ \A v \in Servers : work'[v] \in {Idle, work[v]}
    BY <1>1 DEF CenterInv
  <2>3. \A v \in Servers : Holds(work'[v], log)
    BY <2>2, IdleHolds DEF CenterInv
  <2> QED BY <1>1, <1>2, <1>3, <2>1, <2>2, <2>3 DEF CenterInv, Stores
<1>4. CASE source'[Me] # source[Me]
  <2>1. ~Stale(b) /\ c = Me
    BY <1>0, <1>1, <1>4 DEF CenterInv
  <2>2. b.job.part \in Exported(log) /\ b.snap = log[rev]
    BY <1>1, <2>1 DEF CenterInv, Holds
  <2>3. rev \in 1..Len(log) /\ rev \in DOMAIN log
    BY <2>2, PartOfExport, LenProperties
  <2>4. source'[Me] = [rev |-> rev, snap |-> log[rev]] /\ DOMAIN source' = Clients
    BY <1>0, <1>1, <2>1, <2>2 DEF Own, CenterInv
  <2>5. rev > source[Me].rev
    BY <1>1, <2>1, <2>3 DEF Stale, CenterInv, StoredOK
  <2>6. StoredOK(source'[Me], log)
    BY <2>3, <2>4 DEF StoredOK
  <2>7. DOMAIN work' = Servers /\ \A v \in Servers : work'[v] \in {Idle, work[v]}
    BY <1>1 DEF CenterInv
  <2>8. \A v \in Servers : Holds(work'[v], log)
    BY <2>7, IdleHolds DEF CenterInv
  <2>9. Stores
    BY <2>3, <2>4, <2>5 DEF Stores
  <2> QED BY <1>1, <1>2, <2>4, <2>6, <2>7, <2>8, <2>9 DEF CenterInv
<1> QED BY <1>3, <1>4

\* The steps of the servers keep what they hold of the device and store at most
\* a later export of it (publications.go ProcessPublication, the clean-ups).
LEMMA ServersKeep ==
    ASSUME log \in Seq(Exports), CenterInv, CenterNext, log' = log
    PROVE  CenterInv' /\ Stores
<1>1. ASSUME NEW w \in Servers, NEW u \in DOMAIN jobs, Claim(w, u)
      PROVE  CenterInv' /\ Stores
  <2> DEFINE x == [pc |-> "claimed", job |-> u]
  <2>1. /\ work' = [work EXCEPT ![w] = x] /\ DOMAIN jobs' = DOMAIN jobs
        /\ UNCHANGED <<source, chunks>>
    BY <1>1 DEF Claim
  <2>2. Holds(x, log)
    BY DEF Holds, CenterInv
  <2> HIDE DEF x
  <2> QED BY <2>1, <2>2, WorkerFrame, Zenon
<1>2. ASSUME NEW w \in Servers, NEW u \in DOMAIN jobs, CleanupPublication(w, u)
      PROVE  CenterInv' /\ Stores
  <2>1. /\ chunks' \subseteq chunks /\ DOMAIN jobs' = DOMAIN jobs
        /\ UNCHANGED <<source, work>>
    BY <1>2 DEF CleanupPublication
  <2> QED BY <2>1 DEF CenterInv, Stores
<1>3. ASSUME NEW w \in Servers, Refuse(w) \/ GiveBack(w) \/ Die(w) \/ CollectDelete(w)
      PROVE  CenterInv' /\ Stores
  <2>1. /\ work' = [work EXCEPT ![w] = Idle] /\ UNCHANGED <<source, chunks>>
        /\ DOMAIN jobs' = DOMAIN jobs
    BY <1>3 DEF Refuse, GiveBack, Die, CollectDelete, FinishJob
  <2> QED BY <2>1, IdleHolds, WorkerFrame, Zenon
<1>4. ASSUME NEW w \in Servers, CollectSelect(w) PROVE CenterInv' /\ Stores
  <2> DEFINE x == [pc |-> "collect", rows |-> {r \in usage : r.gen # pub}]
  <2>1. work' = [work EXCEPT ![w] = x] /\ UNCHANGED <<source, chunks, jobs>>
    BY <1>4 DEF CollectSelect
  <2>2. Holds(x, log)
    BY NothingHeld
  <2> HIDE DEF x
  <2> QED BY <2>1, <2>2, WorkerFrame, Zenon
<1>5. ASSUME NEW u \in DOMAIN jobs, LeaseExpires(u) PROVE CenterInv' /\ Stores
  <2>1. DOMAIN jobs' = DOMAIN jobs /\ UNCHANGED <<source, chunks, work>>
    BY <1>5 DEF LeaseExpires
  <2> QED BY <2>1 DEF CenterInv, Stores
<1> QED BY <1>1, <1>2, <1>3, <1>4, <1>5, ReadKeeps, StageKeeps, CommitKeeps
        DEF CenterNext, Worker

-----------------------------------------------------------------------------
\* Device and centre

\* An answered upload: the row goes or waits; it is never rejected.
LEMMA UploadAnsweredKeeps ==
    ASSUME IInv, UploadAnswered
    PROVE  IInv' /\ Stores /\ log' = log
<1> DEFINE i == Oldest
<1>1. PICK reply \in Replies : Accept(Me, outbox[i].part, reply) /\ Answered(i, reply)
  BY DEF UploadAnswered
<1>2. Ready # {} /\ UNCHANGED <<local, log, late>>
  BY DEF UploadAnswered, Sends
<1>3. i \in DOMAIN outbox
  BY <1>2, OldestIsReady DEF IInv, DeviceInv
<1> HIDE DEF i
<1>4. outbox[i].part \in Exported(log)
  <2>1. outbox[i] \in QueueT(log)
    BY <1>3, ElementOfSeq, LenProperties DEF IInv, DeviceInv
  <2> QED BY <2>1 DEF QueueT
<1>5. CenterInv' /\ Stores /\ reply # "conflict"
  BY <1>1, <1>2, <1>4, AcceptKeeps DEF IInv, DeviceInv
<1>6. CASE reply = "receipt"
  <2>1. /\ outbox' = SubSeq(outbox, 1, i - 1) \o SubSeq(outbox, i + 1, Len(outbox))
        /\ UNCHANGED mode
    BY <1>1, <1>6, Zenon DEF Answered, Ack
  <2>2. outbox' \in Seq(QueueT(log))
    BY <1>3, <2>1, AckKeeps DEF IInv, DeviceInv
  <2>3. Checkpoint(ckpt', Len(log))
    <3>1. PICK v : ckpt' = [ckpt EXCEPT !.acked = v]
      BY <1>1, <1>6, Zenon DEF Answered, Ack
    <3> QED BY <3>1, CheckpointKept, Zenon DEF IInv, DeviceInv
  <2> QED BY <1>2, <1>5, <2>1, <2>2, <2>3, DeviceFrame DEF IInv, DeviceInv, NeverRejected
<1>7. CASE reply # "receipt"
  <2>1. outbox' = [outbox EXCEPT ![i].wait = TRUE] /\ UNCHANGED <<ckpt, mode>>
    BY <1>1, <1>5, <1>7 DEF Answered, deferBatch, Replies
  <2>2. outbox' \in Seq(QueueT(log))
    BY <1>3, <2>1, WaitKeeps, Zenon DEF IInv, DeviceInv, QueueT
  <2> QED BY <1>2, <1>5, <2>1, <2>2, DeviceFrame DEF IInv, DeviceInv, NeverRejected
<1> QED BY <1>2, <1>6, <1>7

\* A request that is given up is a part of an export, and may arrive later.
LEMMA GivingUpKeeps ==
    ASSUME IInv, UploadTimesOut \/ CycleStop
    PROVE  IInv' /\ Stores /\ log' = log
<1> USE DEF IInv
<1>1. UNCHANGED <<local, ckpt, mode, log>> /\ UNCHANGED centerVars
  BY DEF UploadTimesOut, CycleStop
<1>2. CenterInv' /\ Stores
  BY <1>1 DEF CenterInv, Stores, centerVars
<1>3. late' = late \/ (Ready # {} /\ late' = late \cup {outbox[Oldest].part})
  BY DEF UploadTimesOut, CycleStop, Abandon, Sends
<1>4. ASSUME Ready # {} PROVE Oldest \in DOMAIN outbox /\ outbox[Oldest].part \in Exported(log)
  <2>1. Oldest \in DOMAIN outbox
    BY <1>4, OldestIsReady DEF DeviceInv
  <2>2. outbox[Oldest] \in QueueT(log)
    BY <2>1, ElementOfSeq, LenProperties DEF DeviceInv
  <2> QED BY <2>1, <2>2 DEF QueueT
<1>5. late' \subseteq Exported(log)
  BY <1>3, <1>4 DEF DeviceInv
<1>6. outbox' \in Seq(QueueT(log))
  <2>1. CASE UploadTimesOut
    <3>1. Ready # {} /\ outbox' = [outbox EXCEPT ![Oldest].wait = TRUE]
      BY <2>1 DEF UploadTimesOut, Sends, deferBatch
    <3> QED BY <1>4, <3>1, WaitKeeps, Zenon DEF DeviceInv, QueueT
  <2>2. CASE CycleStop
    BY <2>2 DEF CycleStop, DeviceInv
  <2> QED BY <2>1, <2>2
<1> QED BY <1>1, <1>2, <1>5, <1>6, DeviceFrame DEF DeviceInv, NeverRejected

\* A request that is handled late, and an upload of another device.
LEMMA LateAndPeersKeep ==
    ASSUME IInv, \/ \E part \in late : DeliverLate(part)
                 \/ \E p \in Peers : \E r \in DOMAIN PeerReports[p] : PeerUpload(p, r)
    PROVE  IInv' /\ Stores /\ log' = log
<1>1. UNCHANGED outboxVars /\ late' \subseteq late
  BY DEF DeliverLate, PeerUpload
<1>2. UNCHANGED <<local, ckpt, outbox, mode, log>>
  BY <1>1 DEF outboxVars
<1>3. PICK c, part, reply : Accept(c, part, reply) /\ (c = Me => part \in late)
  BY ReportingAssumption DEF DeliverLate, PeerUpload
<1>4. CenterInv' /\ Stores
  BY <1>2, <1>3, AcceptKeeps DEF IInv, DeviceInv
<1> QED BY <1>1, <1>2, <1>4, DeviceFrame DEF IInv, DeviceInv, NeverRejected

\* At first nothing is exported and nothing is stored.
LEMMA Initially == Init => IInv /\ Promise!Init
<1> SUFFICES ASSUME Init PROVE IInv /\ Promise!Init
  OBVIOUS
<1> USE DEF Init, OutboxInit, CenterInit
<1>0. Me \in Clients
  BY ReportingAssumption
<1>1. log = <<>> /\ log \in Seq(Exports) /\ Len(log) = 0
  BY EmptySeq
<1>2. DeviceInv
  BY <1>1, EmptySeq DEF DeviceInv, Checkpoint
<1>3. source[Me] = [rev |-> 0, snap |-> NoSnapshot] /\ DOMAIN source = Clients
  BY <1>0
<1>4. DOMAIN work = Servers /\ \A w \in Servers : Holds(work[w], log)
  <2>1. \A w \in Servers : work[w].pc \in {"idle", "off"}
    BY DEF Idle, Off
  <2> QED BY <2>1, NothingHeld
<1>5. CenterInv
  BY <1>1, <1>3, <1>4 DEF CenterInv, StoredOK
<1> QED BY <1>1, <1>2, <1>3, <1>5 DEF IInv, NeverRejected, Promise!Init

\* The inductive step, and that every step is one of the promise or none.
LEMMA Steps ==
    IInv /\ [Next]_vars => IInv' /\ [Promise!Next]_<<log, source[Me]>>
<1> SUFFICES ASSUME IInv, [Next]_vars PROVE IInv' /\ [Promise!Next]_<<log, source[Me]>>
  OBVIOUS
<1>1. ASSUME IInv', Stores, log' = log PROVE IInv' /\ [Promise!Next]_<<log, source[Me]>>
  BY <1>1 DEF Stores, Promise!Next, Promise!Store
<1>2. CASE OutboxNext /\ UNCHANGED late /\ UNCHANGED centerVars
  <2>1. /\ DeviceInv' /\ NeverRejected'
        /\ log' = log \/ \E x \in Exports : log' = Append(log, x)
    BY <1>2, OutboxKeeps DEF IInv
  <2>2. source' = source
    BY <1>2 DEF centerVars
  <2>3. CASE log' = log
    <3>1. CenterInv'
      BY <1>2, <2>3 DEF IInv, CenterInv, centerVars
    <3> QED BY <1>1, <2>1, <2>2, <2>3, <3>1 DEF IInv, Stores
  <2>4. ASSUME NEW x \in Exports, log' = Append(log, x)
        PROVE  IInv' /\ [Promise!Next]_<<log, source[Me]>>
    <3>1. CenterInv'
      BY <1>2, <2>4, CenterSurvivesExport DEF IInv, DeviceInv
    <3>2. Len(log') = Len(log) + 1 /\ \A r \in DOMAIN log : log'[r] = log[r]
      BY <2>4, ExportedGrows DEF IInv, DeviceInv
    <3> QED BY <2>1, <2>2, <3>1, <3>2 DEF IInv, Promise!Next, Promise!Export
  <2> QED BY <2>1, <2>3, <2>4
<1>3. CASE CenterNext /\ UNCHANGED late /\ UNCHANGED outboxVars
  <2>1. UNCHANGED <<local, ckpt, outbox, mode, log>>
    BY <1>3 DEF outboxVars
  <2>2. CenterInv' /\ Stores
    BY <1>3, <2>1, ServersKeep DEF IInv, DeviceInv
  <2>3. DeviceInv' /\ NeverRejected'
    BY <1>3, <2>1, DeviceFrame DEF IInv, DeviceInv, NeverRejected
  <2> QED BY <1>1, <2>1, <2>2, <2>3 DEF IInv
<1>4. CASE UNCHANGED vars
  <2>1. UNCHANGED <<local, ckpt, outbox, mode, log, late, source, chunks, jobs, work>>
    BY <1>4 DEF vars
  <2>2. CenterInv' /\ Stores
    BY <2>1 DEF IInv, CenterInv, Stores
  <2>3. DeviceInv' /\ NeverRejected'
    BY <2>1, DeviceFrame DEF IInv, DeviceInv, NeverRejected
  <2> QED BY <1>1, <2>1, <2>2, <2>3 DEF IInv
<1> QED BY <1>1, <1>2, <1>3, <1>4, UploadAnsweredKeeps, GivingUpKeeps, LateAndPeersKeep DEF Next

\* Whatever happens to uploads, cycles, workers and settings, what the centre
\* stores of the device is one of its exports, whole, and only moves forward
\* (client.go Upload, reporting.go Accept, publications.go ProcessPublication).
THEOREM ExportsStored == Spec => StoresExports
<1>1. Spec => []IInv
  BY Initially, Steps, PTL DEF Spec
<1> QED BY <1>1, Initially, Steps, PTL DEF Spec, StoresExports, Promise!Spec

\* The device never sends another content under a revision it used before, so
\* it never meets the conflict that stops reporting (runtime.go finiteState).
THEOREM NoRejection == Spec => []NeverRejected
<1>1. IInv => NeverRejected
  BY DEF IInv
<1> QED BY <1>1, Initially, Steps, PTL DEF Spec

-----------------------------------------------------------------------------
\* What a publication points at

Published == pub # NoGen /\ ~session.deleted

JobT == [state : {"pending", "failed", "published", "completed"}, lease : Servers \cup {"none"}]

\* A worker's job is in the table; under its own lease all it has to publish is
\* staged or still to do.
Builds(w) ==
    LET x == work[w]
    IN /\ x.pc \in {"claimed", "build"} => x.job \in DOMAIN jobs
       /\ x.pc = "build" =>
            /\ x = [pc |-> "build", job |-> x.job, snap |-> x.snap, stamp |-> x.stamp,
                    cur |-> x.cur, todo |-> x.todo]
            /\ jobs[x.job].lease = w => ToStage(x) \subseteq usage \cup x.todo

\* A collector chose nothing of the publication.
Spares(w) ==
    work[w].pc = "collect" /\ Published /\ ~raced => work[w].rows \cap RowsOf(session) = {}

PubInv ==
    /\ \A u \in DOMAIN jobs : jobs[u] \in JobT
    /\ DOMAIN work = Servers
    /\ \A w \in Servers : Builds(w) /\ Spares(w)
    /\ PublishedKept

\* Uploads do not touch what a publication consists of.
LEMMA AcceptKeepsPublished ==
    ASSUME PubInv, NEW c, NEW part, NEW reply, Accept(c, part, reply)
    PROVE  PubInv'
<1>1. UNCHANGED <<pub, usage, work, raced>>
  BY DEF Accept, AcceptOld, AcceptSession, AcceptJob, AcceptChunk, AcceptWhole, centerVars
<1>2. session' = session \/ pub = NoGen
  BY DEF Accept, AcceptOld, AcceptSession, AcceptJob, AcceptChunk, AcceptWhole, centerVars,
         Deferred
<1>3. jobs' = jobs \/ SaveJob(c, part)
  BY DEF Accept, AcceptOld, AcceptSession, AcceptJob, AcceptChunk, AcceptWhole, centerVars
<1>4. /\ DOMAIN jobs \subseteq DOMAIN jobs' /\ \A u \in DOMAIN jobs : jobs'[u] = jobs[u]
      /\ \A u \in DOMAIN jobs' : jobs'[u] \in JobT
  <2>1. CASE jobs' = jobs
    BY <2>1 DEF PubInv
  <2>2. CASE SaveJob(c, part)
    BY <2>2 DEF SaveJob, PubInv, JobT
  <2> QED BY <1>3, <2>1, <2>2
<1>5. ASSUME NEW w \in Servers PROVE Builds(w)' /\ Spares(w)'
  <2>1. Builds(w) /\ Spares(w)
    BY DEF PubInv
  <2>2. Builds(w)'
    BY <1>1, <1>4, <2>1 DEF Builds
  <2>3. Spares(w)'
    BY <1>1, <1>2, <2>1 DEF Spares, Published
  <2> QED BY <2>2, <2>3
<1>6. PublishedKept'
  BY <1>1, <1>2 DEF PubInv, PublishedKept
<1> QED BY <1>1, <1>4, <1>5, <1>6 DEF PubInv

\* A step of worker w that publishes and deletes nothing, and gives no lease to
\* another worker.
LEMMA PublicationFrame ==
    ASSUME PubInv, NEW w \in Servers, NEW x, work' = [work EXCEPT ![w] = x],
           UNCHANGED <<session, pub, raced>>, usage \subseteq usage',
           DOMAIN jobs' = DOMAIN jobs,
           \A u \in DOMAIN jobs : jobs'[u] \in JobT,
           \A u \in DOMAIN jobs, v \in Servers \ {w} : jobs'[u].lease = v => jobs[u].lease = v,
           Builds(w)', Spares(w)'
    PROVE  PubInv'
<1>1. DOMAIN work' = Servers /\ \A v \in Servers \ {w} : work'[v] = work[v]
  BY DEF PubInv
<1>2. ASSUME NEW v \in Servers \ {w} PROVE Builds(v)' /\ Spares(v)'
  <2>1. Builds(v) /\ Spares(v) /\ work'[v] = work[v]
    BY <1>1 DEF PubInv
  <2>2. Builds(v)'
    BY <2>1 DEF Builds
  <2>3. Spares(v)'
    BY <2>1 DEF Spares, Published
  <2> QED BY <2>2, <2>3
<1>3. PublishedKept'
  BY DEF PubInv, PublishedKept
<1> QED BY <1>1, <1>2, <1>3 DEF PubInv

\* A worker that holds no job and collects nothing.
LEMMA IdleBuilds ==
    ASSUME PubInv, NEW w \in Servers, work' = [work EXCEPT ![w] = Idle]
    PROVE  Builds(w)' /\ Spares(w)'
<1>1. work'[w].pc = "idle"
  BY DEF PubInv, Idle
<1> QED BY <1>1 DEF Builds, Spares

\* Whatever a worker finishes a job with, jobs stay well formed.
LEMMA FinishKeepsJobs ==
    ASSUME PubInv, NEW w \in Servers, NEW u, NEW state \in {"pending", "failed", "published"},
           FinishJob(w, u, state)
    PROVE  /\ DOMAIN jobs' = DOMAIN jobs
           /\ \A t \in DOMAIN jobs : jobs'[t] \in JobT
           /\ \A t \in DOMAIN jobs, v \in Servers : jobs'[t].lease = v => jobs[t].lease = v
<1> DEFINE e == [state |-> state, lease |-> "none"]
<1>1. e \in JobT /\ e.lease = "none"
  BY DEF JobT
<1>2. jobs' = jobs \/ jobs' = [jobs EXCEPT ![u] = e]
  BY DEF FinishJob
<1> HIDE DEF e
<1> QED BY <1>1, <1>2, ServersAssumption DEF PubInv

\* What is to be staged does not depend on what is left to do.
LEMMA StageOfBuild ==
    ASSUME NEW u, NEW s, NEW st, NEW c, NEW d1, NEW d2
    PROVE  LET x == [pc |-> "build", job |-> u, snap |-> s, stamp |-> st, cur |-> c, todo |-> d1]
               y == [pc |-> "build", job |-> u, snap |-> s, stamp |-> st, cur |-> c, todo |-> d2]
           IN ToStage(x) = ToStage(y)
BY Zenon DEF ToStage, Publishes, Plan, Stale, Own

\* A worker reads: what it has to stage is what it will publish.
LEMMA ReadKeepsPublished ==
    ASSUME PubInv, NEW w \in Servers, Read(w)
    PROVE  PubInv'
<1> DEFINE u == work[w].job
           b == [pc |-> "build", job |-> u, snap |-> JobSnapshot(u), stamp |-> source,
                 cur |-> session, todo |-> {}]
           x == [b EXCEPT !.todo = ToStage(b)]
<1>1. work[w].pc = "claimed" /\ work' = [work EXCEPT ![w] = x]
  BY DEF Read
<1>2. UNCHANGED <<session, jobs, pub, usage, raced>>
  BY DEF Read
<1>3. x = [pc |-> "build", job |-> u, snap |-> JobSnapshot(u), stamp |-> source,
           cur |-> session, todo |-> ToStage(b)]
  OBVIOUS
<1>4. ToStage(x) = ToStage(b)
  BY <1>3, StageOfBuild
<1>5. u \in DOMAIN jobs
  BY <1>1 DEF PubInv, Builds
<1> HIDE DEF u, b
<1>6. /\ x.pc = "build" /\ x.job = u /\ x.todo = ToStage(b)
      /\ x = [pc |-> "build", job |-> x.job, snap |-> x.snap, stamp |-> x.stamp,
              cur |-> x.cur, todo |-> x.todo]
  BY <1>3
<1> HIDE DEF x
<1>7. work'[w] = x
  BY <1>1 DEF PubInv
<1>8. Builds(w)'
  BY <1>2, <1>4, <1>5, <1>6, <1>7 DEF Builds
<1>9. Spares(w)'
  BY <1>6, <1>7 DEF Spares
<1> QED BY <1>1, <1>2, <1>8, <1>9, PublicationFrame, Zenon DEF PubInv

\* A staged row leaves the worker's list and is in the usage.
LEMMA StageKeepsPublished ==
    ASSUME PubInv, NEW w \in Servers, StageUsage(w)
    PROVE  PubInv'
<1>1. PICK r : usage' = usage \cup {r} /\ work' = [work EXCEPT ![w].todo = @ \ {r}]
  BY Zenon DEF StageUsage
<1>2. work[w].pc = "build" /\ UNCHANGED <<session, jobs, pub, raced>>
  BY DEF StageUsage
<1> DEFINE y == work[w]
           t == y.todo \ {r}
           x == [y EXCEPT !.todo = t]
<1>3. /\ y = [pc |-> "build", job |-> y.job, snap |-> y.snap, stamp |-> y.stamp,
              cur |-> y.cur, todo |-> y.todo]
      /\ y.job \in DOMAIN jobs
      /\ jobs[y.job].lease = w => ToStage(y) \subseteq usage \cup y.todo
  BY <1>2 DEF PubInv, Builds
<1>4. work' = [work EXCEPT ![w] = x]
  BY <1>1
<1>5. t = y.todo \ {r}
  OBVIOUS
<1> HIDE DEF y, t
<1>6. x = [pc |-> "build", job |-> y.job, snap |-> y.snap, stamp |-> y.stamp,
           cur |-> y.cur, todo |-> t]
  BY <1>3
<1>7. ToStage(x) = ToStage(y)
  BY <1>3, <1>6, StageOfBuild
<1>8. /\ x.pc = "build" /\ x.job = y.job /\ x.todo = t
      /\ x = [pc |-> "build", job |-> x.job, snap |-> x.snap, stamp |-> x.stamp,
              cur |-> x.cur, todo |-> x.todo]
  BY <1>6
<1> HIDE DEF x
<1>9. work'[w] = x
  BY <1>4 DEF PubInv
<1>10. Builds(w)'
  BY <1>1, <1>2, <1>3, <1>5, <1>7, <1>8, <1>9 DEF Builds
<1>11. Spares(w)'
  BY <1>8, <1>9 DEF Spares
<1> QED BY <1>1, <1>2, <1>4, <1>10, <1>11, PublicationFrame, Zenon DEF PubInv

\* publications.go, the final transaction: the rows it publishes are staged,
\* because nobody could delete them while the lease was held.
LEMMA CommitKeepsPublished ==
    ASSUME PubInv, NEW w \in Servers, CommitPublication(w)
    PROVE  PubInv'
<1> DEFINE b == work[w]
<1>1. /\ b.pc = "build" /\ b.todo = {} /\ session = b.cur /\ jobs[b.job].lease = w
      /\ session' = Plan(b)
      /\ pub' = IF Publishes(b) THEN GenOf(Plan(b)) ELSE pub
      /\ FinishJob(w, b.job, "published")
      /\ work' = [work EXCEPT ![w] = Idle]
      /\ raced' = (raced \/ \E v \in Servers \ {w} :
                              work[v].pc = "collect" /\ work[v].rows \cap ToStage(b) # {})
      /\ usage' = usage
  BY DEF CommitPublication, Current
<1>2. ToStage(b) \subseteq usage
  BY <1>1 DEF PubInv, Builds
<1>3. /\ DOMAIN jobs' = DOMAIN jobs
      /\ \A t \in DOMAIN jobs : jobs'[t] \in JobT
      /\ \A t \in DOMAIN jobs, v \in Servers : jobs'[t].lease = v => jobs[t].lease = v
  BY <1>1, FinishKeepsJobs
<1>4. DOMAIN work' = Servers /\ \A v \in Servers \ {w} : work'[v] = work[v]
  <2>1. DOMAIN work = Servers /\ work' = [work EXCEPT ![w] = Idle]
    BY <1>1, Zenon DEF PubInv
  <2> QED BY <2>1
<1>5. Builds(w)' /\ Spares(w)'
  BY <1>1, IdleBuilds, ZenonT(60)
<1>6. ASSUME NEW v \in Servers \ {w} PROVE Builds(v)'
  <2>1. Builds(v) /\ work'[v] = work[v]
    BY <1>4 DEF PubInv
  <2> QED BY <1>1, <1>3, <2>1 DEF Builds
<1> HIDE DEF b
<1>7. CASE Publishes(b)
  <2>1. pub' = GenOf(session') /\ ToStage(b) = RowsOf(session')
    <3>1. session' = Plan(b) /\ pub' = IF Publishes(b) THEN GenOf(Plan(b)) ELSE pub
      BY <1>1, Zenon
    <3> QED BY <3>1, <1>7, Zenon DEF ToStage
  <2>2. PublishedKept'
    <3>1. usage' = usage
      BY <1>1, Zenon
    <3> QED BY <1>2, <2>1, <3>1, ZenonT(60) DEF PublishedKept
  <2>3. ASSUME NEW v \in Servers \ {w} PROVE Spares(v)'
    BY <1>1, <1>4, <2>1, ZenonT(60) DEF Spares
  <2> QED BY <1>3, <1>4, <1>5, <1>6, <2>2, <2>3 DEF PubInv
<1>8. CASE ~Publishes(b)
  <2>1. pub' = pub /\ (session' = session \/ session'.deleted)
    BY <1>1, <1>8 DEF Publishes
  <2>2. PublishedKept'
    BY <1>1, <2>1, Zenon DEF PubInv, PublishedKept
  <2>3. ASSUME NEW v \in Servers \ {w} PROVE Spares(v)'
    <3>1. Spares(v) /\ work'[v] = work[v]
      BY <1>4 DEF PubInv
    <3> QED BY <1>1, <2>1, <3>1, ZenonT(60) DEF Spares, Published
  <2> QED BY <1>3, <1>4, <1>5, <1>6, <2>2, <2>3 DEF PubInv
<1> QED BY <1>7, <1>8

\* payload.go: what the collector chose is not of the publication, and it
\* deletes nothing while a lease is held.
LEMMA CollectKeepsPublished ==
    ASSUME PubInv, NEW w \in Servers, CollectDelete(w)
    PROVE  PubInv'
<1>1. /\ work[w].pc = "collect" /\ work' = [work EXCEPT ![w] = Idle]
      /\ usage' = IF LeaseHeld THEN usage ELSE usage \ work[w].rows
      /\ UNCHANGED <<session, jobs, pub, raced>>
  BY DEF CollectDelete
<1>2. CASE LeaseHeld
  BY <1>1, <1>2, IdleBuilds, PublicationFrame, Zenon DEF PubInv
<1>3. CASE ~LeaseHeld
  <2>1. DOMAIN work' = Servers /\ \A v \in Servers \ {w} : work'[v] = work[v]
    BY <1>1 DEF PubInv
  <2>2. ASSUME NEW v \in Servers \ {w} PROVE Builds(v)' /\ Spares(v)'
    <3>1. Builds(v) /\ Spares(v) /\ work'[v] = work[v]
      BY <2>1 DEF PubInv
    <3>2. \A u \in DOMAIN jobs : jobs[u].lease # v
      BY <1>3, ServersAssumption DEF LeaseHeld
    <3>3. Builds(v)'
      BY <1>1, <3>1, <3>2 DEF Builds
    <3>4. Spares(v)'
      BY <1>1, <3>1 DEF Spares, Published
    <3> QED BY <3>3, <3>4
  <2>3. PublishedKept'
    <3>1. Spares(w) /\ PublishedKept
      BY DEF PubInv
    <3> QED BY <1>1, <1>3, <3>1 DEF PublishedKept, Spares, Published
  <2> QED BY <1>1, <2>1, <2>2, <2>3, IdleBuilds, Zenon DEF PubInv
<1> QED BY <1>2, <1>3

\* The servers keep publication, staged usage and collectors in order.
LEMMA ServersKeepPublished == ASSUME PubInv, CenterNext PROVE PubInv'
<1>1. ASSUME NEW w \in Servers, NEW u \in DOMAIN jobs, Claim(w, u) PROVE PubInv'
  <2> DEFINE x == [pc |-> "claimed", job |-> u]
  <2>1. /\ jobs' = [jobs EXCEPT ![u].lease = w] /\ work' = [work EXCEPT ![w] = x]
        /\ UNCHANGED <<session, pub, usage, raced>>
    BY <1>1 DEF Claim
  <2>2. /\ DOMAIN jobs' = DOMAIN jobs
        /\ \A t \in DOMAIN jobs : jobs'[t] \in JobT
        /\ \A t \in DOMAIN jobs, v \in Servers \ {w} : jobs'[t].lease = v => jobs[t].lease = v
    BY <2>1 DEF PubInv, JobT
  <2>3. work'[w].pc = "claimed" /\ work'[w].job = u
    BY <2>1 DEF PubInv
  <2>4. Builds(w)' /\ Spares(w)'
    BY <2>2, <2>3 DEF Builds, Spares
  <2> HIDE DEF x
  <2> QED BY <2>1, <2>2, <2>4, PublicationFrame, Zenon
<1>2. ASSUME NEW u \in DOMAIN jobs,
             LeaseExpires(u) \/ \E w \in Servers : CleanupPublication(w, u)
      PROVE  PubInv'
  <2>1. UNCHANGED <<session, pub, usage, work, raced>>
    BY <1>2 DEF CleanupPublication, LeaseExpires
  <2>2. \/ jobs' = jobs
        \/ jobs' = [jobs EXCEPT ![u].state = "completed"]
        \/ jobs' = [jobs EXCEPT ![u].lease = "none"]
    BY <1>2 DEF CleanupPublication, LeaseExpires
  <2>3. /\ DOMAIN jobs' = DOMAIN jobs
        /\ \A t \in DOMAIN jobs : jobs'[t] \in JobT
        /\ \A t \in DOMAIN jobs, v \in Servers : jobs'[t].lease = v => jobs[t].lease = v
    BY <2>2, ServersAssumption DEF PubInv, JobT
  <2>4. ASSUME NEW v \in Servers PROVE Builds(v)' /\ Spares(v)'
    <3>1. Builds(v) /\ Spares(v)
      BY DEF PubInv
    <3> QED BY <2>1, <2>3, <3>1 DEF Builds, Spares, Published
  <2> QED BY <2>1, <2>3, <2>4 DEF PubInv, PublishedKept
<1>3. ASSUME NEW w \in Servers, Refuse(w) \/ GiveBack(w) PROVE PubInv'
  <2>1. /\ work' = [work EXCEPT ![w] = Idle] /\ UNCHANGED <<session, pub, usage, raced>>
        /\ \E s \in {"pending", "failed", "published"} : FinishJob(w, work[w].job, s)
    BY <1>3 DEF Refuse, GiveBack
  <2>2. /\ DOMAIN jobs' = DOMAIN jobs
        /\ \A t \in DOMAIN jobs : jobs'[t] \in JobT
        /\ \A t \in DOMAIN jobs, v \in Servers : jobs'[t].lease = v => jobs[t].lease = v
    BY <2>1, FinishKeepsJobs
  <2>3. Builds(w)' /\ Spares(w)'
    BY <2>1, IdleBuilds, Zenon
  <2> QED BY <2>1, <2>2, <2>3, PublicationFrame, Zenon
<1>4. ASSUME NEW w \in Servers, Die(w) PROVE PubInv'
  <2>1. work' = [work EXCEPT ![w] = Idle] /\ UNCHANGED <<session, pub, usage, raced, jobs>>
    BY <1>4 DEF Die
  <2> QED BY <2>1, IdleBuilds, PublicationFrame, Zenon DEF PubInv
<1>5. ASSUME NEW w \in Servers, CollectSelect(w) PROVE PubInv'
  <2> DEFINE x == [pc |-> "collect", rows |-> {r \in usage : r.gen # pub}]
  <2>1. work' = [work EXCEPT ![w] = x] /\ UNCHANGED <<session, pub, usage, raced, jobs>>
    BY <1>5 DEF CollectSelect
  <2>2. work'[w] = x
    BY <2>1 DEF PubInv
  <2>3. Builds(w)'
    BY <2>2 DEF Builds
  <2>4. Spares(w)'
    <3>1. ASSUME Published PROVE x.rows \cap RowsOf(session) = {}
      BY <3>1 DEF PubInv, PublishedKept, Published, RowsOf
    <3> QED BY <2>1, <2>2, <3>1 DEF Spares, Published
  <2> HIDE DEF x
  <2> QED BY <2>1, <2>3, <2>4, PublicationFrame, Zenon DEF PubInv
<1> QED BY <1>1, <1>2, <1>3, <1>4, <1>5, ReadKeepsPublished, StageKeepsPublished,
           CommitKeepsPublished, CollectKeepsPublished
        DEF CenterNext, Worker

\* At first nothing is published.
LEMMA InitiallyPublished == Init => PubInv
<1> SUFFICES ASSUME Init PROVE PubInv
  OBVIOUS
<1> USE DEF Init, CenterInit
<1>1. \A u \in DOMAIN jobs : jobs[u] \in JobT
  OBVIOUS
<1>2. DOMAIN work = Servers /\ \A w \in Servers : work[w].pc \in {"idle", "off"}
  BY DEF Idle, Off
<1> QED BY <1>1, <1>2 DEF PubInv, Builds, Spares, PublishedKept

\* The inductive step for publications.
LEMMA StepsKeepPublished == PubInv /\ [Next]_vars => PubInv'
<1> SUFFICES ASSUME PubInv, [Next]_vars PROVE PubInv'
  OBVIOUS
<1>1. CASE UNCHANGED <<session, jobs, pub, usage, work, raced>>
  <2>1. ASSUME NEW w \in Servers PROVE Builds(w)' /\ Spares(w)'
    <3>1. Builds(w) /\ Spares(w)
      BY DEF PubInv
    <3> QED BY <1>1, <3>1 DEF Builds, Spares, Published
  <2> QED BY <1>1, <2>1 DEF PubInv, PublishedKept
<1>2. \/ UNCHANGED <<session, jobs, pub, usage, work, raced>>
      \/ CenterNext
      \/ \E c, part, reply : Accept(c, part, reply)
  <2>1. CASE UNCHANGED centerVars \/ UNCHANGED vars
    BY <2>1 DEF centerVars, vars
  <2>2. CASE UploadAnswered
    BY <2>2 DEF UploadAnswered
  <2>3. ASSUME NEW part \in late, DeliverLate(part) PROVE \E reply : Accept(Me, part, reply)
    BY <2>3 DEF DeliverLate
  <2>4. ASSUME NEW p \in Peers, NEW r \in DOMAIN PeerReports[p], PeerUpload(p, r)
        PROVE  \E part, reply : Accept(p, part, reply)
    BY <2>4 DEF PeerUpload
  <2>5. CASE UploadTimesOut \/ CycleStop
    BY <2>5 DEF UploadTimesOut, CycleStop, centerVars
  <2>6. CASE OutboxNext /\ UNCHANGED late /\ UNCHANGED centerVars
    BY <2>1, <2>6
  <2> QED BY <2>1, <2>2, <2>3, <2>4, <2>5, <2>6, Zenon DEF Next
<1> QED BY <1>1, <1>2, AcceptKeepsPublished, ServersKeepPublished

\* The usage a publication points at is there and is the canonical snapshot's
\* (publications.go stages it before the pointer moves, payload.go collects only
\* what no publication names), for any number of servers and devices; except
\* after a collector chose rows that another server then published.
THEOREM PublicationKept == Spec => []PublishedKept
<1>1. PubInv => PublishedKept
  BY DEF PubInv
<1> QED BY <1>1, InitiallyPublished, StepsKeepPublished, PTL DEF Spec

-----------------------------------------------------------------------------
\* Cutting and assembling

INSTANCE FiniteSetTheorems

\* Where the i-th part ends.
End(s, i) == IF i * ChunkFacts < Len(s.rows) THEN i * ChunkFacts ELSE Len(s.rows)

\* chunks.go SplitSnapshot: every part begins within the rows, and the last one
\* reaches their end.
LEMMA PartBounds ==
    ASSUME NEW s, IsSnapshot(s)
    PROVE  /\ \A i \in 1..PartCount(s) : (i - 1) * ChunkFacts <= Len(s.rows)
           /\ PartCount(s) * ChunkFacts >= Len(s.rows)
<1> DEFINE n == Len(s.rows)
           C == ChunkFacts
           q == PartCount(s)
<1>1. n \in Nat /\ C \in Nat \ {0} /\ q \in Nat \ {0}
  BY LenProperties, ChunkAssumption, PartsOfSnapshot DEF IsSnapshot
<1>2. CASE n <= C
  <2>1. q = 1
    BY <1>2 DEF PartCount
  <2> HIDE DEF q, n, C
  <2>2. \A i \in 1..1 : (i - 1) * C <= n
    BY <1>1
  <2> QED BY <1>1, <1>2, <2>1, <2>2 DEF q, n, C
<1>3. CASE ~(n <= C)
  <2> DEFINE a == n + C - 1
  <2>1. q = a \div C /\ a \in Nat
    BY <1>1, <1>3 DEF PartCount
  <2> HIDE DEF q, n, C, a
  <2>2. C * q <= a /\ a < C * q + C
    BY <1>1, <2>1
  <2>3. q * C >= n /\ (q - 1) * C <= n
    BY <1>1, <2>2 DEF a
  <2>4. ASSUME NEW i \in 1..q PROVE (i - 1) * C <= n
    <3>1. (i - 1) * C <= (q - 1) * C
      BY <1>1
    <3>2. (i - 1) * C \in Int /\ (q - 1) * C \in Int
      BY <1>1
    <3> HIDE DEF q
    <3> QED BY <1>1, <2>3, <3>1, <3>2
  <2> QED BY <2>3, <2>4 DEF q, n, C
<1> QED BY <1>2, <1>3

\* The facts of the parts, one after the other, as Joined computes them.
JoinPass(parts, g, m) ==
    [i \in 0..m |-> IF i = 0 THEN <<>>
                    ELSE g[i - 1] \o (CHOOSE p \in parts : p.idx = i).body.rows]

\* chunks.go AssembleSnapshot: the facts of the parts of a snapshot are its
\* facts, in their order.
LEMMA PartsJoin ==
    ASSUME NEW s, IsSnapshot(s), NEW parts,
           \A i \in 1..PartCount(s) :
              (CHOOSE p \in parts : p.idx = i).body.rows = Slice(s.rows, i)
    PROVE  Joined(parts, PartCount(s)) = s.rows
<1> DEFINE n == Len(s.rows)
           C == ChunkFacts
           q == PartCount(s)
           R == {s.rows[i] : i \in DOMAIN s.rows}
           T == [i \in 0..q |-> SubSeq(s.rows, 1, End(s, i))]
<1>1. \A i \in 0..q : T[i] = SubSeq(s.rows, 1, End(s, i))
  OBVIOUS
<1>2. n \in Nat /\ C \in Nat \ {0} /\ q \in Nat \ {0} /\ s.rows \in Seq(R)
  BY LenProperties, ChunkAssumption, PartsOfSnapshot DEF IsSnapshot
<1>3. ASSUME NEW i \in 1..q
      PROVE  T[i] = T[i - 1] \o Slice(s.rows, i)
  <2>1. (i - 1) * C <= n /\ (i - 1) * C \in Nat /\ i * C = (i - 1) * C + C /\ i * C \in Nat
    BY <1>2, PartBounds
  <2> DEFINE k == (i - 1) * C
             e == End(s, i)
  <2>2. End(s, i - 1) = k
    BY <1>2, <2>1 DEF End
  <2>3. e \in k..n
    BY <1>2, <2>1 DEF End
  <2>4. k \in 0..n /\ 1 \in 1..(n + 1)
    BY <1>2, <2>1
  <2>5. Slice(s.rows, i) = SubSeq(s.rows, k + 1, e)
    BY DEF Slice, End
  <2>6. T[i] = SubSeq(s.rows, 1, e) /\ T[i - 1] = SubSeq(s.rows, 1, k)
    <3>1. i \in 0..q /\ i - 1 \in 0..q
      BY <1>2
    <3> HIDE DEF T, q
    <3> QED BY <1>1, <2>2, <3>1
  <2> HIDE DEF k, e, T
  <2>7. SubSeq(s.rows, 1, k) \o SubSeq(s.rows, k + 1, e) = SubSeq(s.rows, 1, e)
    BY <1>2, <2>3, <2>4, ConcatAdjacentSubSeq
  <2> QED BY <2>5, <2>6, <2>7
<1>4. T[0] = <<>>
  <2>1. End(s, 0) = 0
    BY <1>2 DEF End
  <2> QED BY <1>2, <2>1, SubSeqEmpty
<1>5. T[q] = s.rows
  <2>1. q * C >= n /\ q * C \in Nat
    BY <1>2, PartBounds
  <2>2. End(s, q) = n
    BY <1>2, <2>1 DEF End
  <2>3. q \in 0..q
    BY <1>2
  <2> HIDE DEF T
  <2>4. T[q] = SubSeq(s.rows, 1, n)
    BY <1>1, <2>2, <2>3, Zenon
  <2> QED BY <1>2, <2>4, SubSeqFull
<1>6. T = JoinPass(parts, T, q)
  <2> DEFINE J(i) == IF i = 0 THEN <<>>
                     ELSE T[i - 1] \o (CHOOSE p \in parts : p.idx = i).body.rows
  <2>1. ASSUME NEW i \in 0..q PROVE T[i] = J(i)
    <3> HIDE DEF T
    <3>1. CASE i = 0
      BY <1>4, <3>1
    <3>2. CASE i # 0
      <4>1. i \in 1..q
        BY <1>2, <3>2
      <4> QED BY <1>3, <3>2, <4>1
    <3> QED BY <3>1, <3>2
  <2>2. T = [i \in 0..q |-> T[i]]
    OBVIOUS
  <2> HIDE DEF T
  <2>3. [i \in 0..q |-> T[i]] = [i \in 0..q |-> J(i)]
    BY <2>1
  <2> QED BY <2>2, <2>3 DEF JoinPass
<1>7. ASSUME NEW g, g = JoinPass(parts, g, q) PROVE g[q] = s.rows
  <2>1. /\ g[0] = <<>>
        /\ \A i \in 1..q : g[i] = g[i - 1] \o Slice(s.rows, i)
    <3>1. \A i \in 0..q : g[i] = IF i = 0 THEN <<>>
                                 ELSE g[i - 1] \o (CHOOSE p \in parts : p.idx = i).body.rows
      BY <1>7, Zenon DEF JoinPass
    <3>2. 0 \in 0..q /\ \A i \in 1..q : i \in 0..q /\ i # 0
      BY <1>2
    <3>3. ASSUME NEW i \in 1..q PROVE g[i] = g[i - 1] \o Slice(s.rows, i)
      <4>1. g[i] = g[i - 1] \o (CHOOSE p \in parts : p.idx = i).body.rows
        BY <3>1, <3>2, Zenon
      <4>2. (CHOOSE p \in parts : p.idx = i).body.rows = Slice(s.rows, i)
        BY Zenon
      <4> QED BY <4>1, <4>2, Zenon
    <3> QED BY <3>1, <3>2, <3>3, Zenon
  <2> DEFINE Bad == {i \in 0..q : g[i] # T[i]}
  <2>2. ASSUME Bad # {} PROVE FALSE
    <3> HIDE DEF T
    <3>1. PICK i \in Bad : \A j \in Bad : i <= j
      <4>1. Bad \subseteq Nat
        BY <1>2
      <4> QED BY <2>2, <4>1, LeastNat, Zenon
    <3>2. i \in 0..q /\ g[i] # T[i]
      OBVIOUS
    <3>3. i # 0
      BY <1>4, <2>1, <3>2
    <3>4. i \in 1..q /\ i - 1 \in 0..q /\ ~(i <= i - 1)
      BY <1>2, <3>2, <3>3
    <3>5. g[i - 1] = T[i - 1]
      BY <3>1, <3>4, Zenon
    <3> QED BY <1>3, <2>1, <3>2, <3>4, <3>5
  <2>3. q \in 0..q
    BY <1>2
  <2>4. g[q] = T[q]
    BY <2>2, <2>3
  <2> QED BY <1>5, <2>4
<1>8. Joined(parts, q) = (CHOOSE g : g = JoinPass(parts, g, q))[q]
  BY Zenon DEF Joined, JoinPass
<1>9. (CHOOSE g : g = JoinPass(parts, g, q)) =
          JoinPass(parts, CHOOSE g : g = JoinPass(parts, g, q), q)
  <2> HIDE DEF T
  <2> QED BY <1>6, Zenon
<1> HIDE DEF q, T
<1>10. Joined(parts, q) = s.rows
  BY <1>7, <1>8, <1>9, Zenon
<1> QED BY <1>10 DEF q

\* The parts a snapshot is cut into.
Parts(s, r) == {SplitSnapshot(s, r)[i] : i \in 1..PartCount(s)}

\* What the i-th part says.
LEMMA PartFields ==
    ASSUME NEW s, IsSnapshot(s), NEW r, NEW i \in 1..PartCount(s)
    PROVE  LET p == SplitSnapshot(s, r)[i]
           IN /\ p.rev = r /\ p.idx = i /\ p.count = PartCount(s) /\ p.digest = s
              /\ p.body = [rows |-> Slice(s.rows, i), complete |-> s.complete,
                           deleted |-> s.deleted]
<1> DEFINE p == SplitSnapshot(s, r)[i]
           b == [s EXCEPT !.rows = Slice(s.rows, i)]
<1>1. p = [rev |-> r, idx |-> i, count |-> PartCount(s), digest |-> s, body |-> b]
  BY DEF SplitSnapshot
<1>2. b = [rows |-> Slice(s.rows, i), complete |-> s.complete, deleted |-> s.deleted]
  BY DEF IsSnapshot
<1> HIDE DEF p, b
<1>3. p.rev = r /\ p.idx = i /\ p.count = PartCount(s) /\ p.digest = s /\ p.body = b
  BY <1>1
<1> QED BY <1>2, <1>3, Zenon DEF p

\* A snapshot has as many parts as it says.
LEMMA PartsCounted ==
    ASSUME NEW s, IsSnapshot(s), NEW r
    PROVE  IsFiniteSet(Parts(s, r)) /\ Cardinality(Parts(s, r)) = PartCount(s)
<1> DEFINE q == PartCount(s)
           P == Parts(s, r)
           f(i) == SplitSnapshot(s, r)[i]
           F == [i \in 1..q |-> f(i)]
<1>1. ASSUME NEW i \in 1..q PROVE f(i).idx = i /\ f(i) \in P
  BY DEF Parts, SplitSnapshot
<1>2. ASSUME NEW p \in P PROVE \E i \in 1..q : p = f(i)
  BY DEF Parts
<1>3. IsFiniteSet(1..q) /\ Cardinality(1..q) = q
  <2>1. q \in Nat \ {0}
    BY PartsOfSnapshot
  <2> HIDE DEF q
  <2> QED BY <2>1, FS_Interval
<1> HIDE DEF f, P, q
<1>4. F \in Bijection(1..q, P)
  <2>1. F \in [1..q -> P]
    BY <1>1
  <2>2. \A i, j \in 1..q : F[i] = F[j] => i = j
    BY <1>1
  <2>3. \A p \in P : \E i \in 1..q : F[i] = p
    BY <1>2
  <2> QED BY <2>1, <2>2, <2>3 DEF Bijection, Injection, Surjection, IsInjective
<1>5. ExistsBijection(1..q, P)
  BY <1>4, Zenon DEF ExistsBijection
<1>6. IsFiniteSet(P) /\ Cardinality(P) = q
  BY <1>3, <1>5, FS_Bijection, Zenon
<1> QED BY <1>6 DEF P, q

\* For any snapshot and any chunk size: the parts SplitSnapshot makes pass all
\* checks of AssembleSnapshot, and what they assemble to is the snapshot
\* (reporting/v1/chunks.go).
THEOREM SplitAssembles ==
    ASSUME NEW s, IsSnapshot(s), NEW r
    PROVE  Assembles(Parts(s, r)) /\ Assembled(Parts(s, r)) = s
<1> DEFINE q == PartCount(s)
           P == Parts(s, r)
           f(i) == SplitSnapshot(s, r)[i]
<1>1. q \in Nat \ {0} /\ 1 \in 1..q
  BY PartsOfSnapshot
<1>2. ASSUME NEW i \in 1..q
      PROVE  /\ f(i).rev = r /\ f(i).idx = i /\ f(i).count = q /\ f(i).digest = s
             /\ f(i).body = [rows |-> Slice(s.rows, i), complete |-> s.complete,
                             deleted |-> s.deleted]
             /\ f(i) \in P
  BY PartFields DEF Parts
<1>3. ASSUME NEW p \in P PROVE \E i \in 1..q : p = f(i)
  BY DEF Parts
<1> HIDE DEF f, P, q
<1>4. ASSUME NEW i \in 1..q PROVE (CHOOSE p \in P : p.idx = i) = f(i)
  <2>1. \A p \in P : p.idx = i => p = f(i)
    <3> SUFFICES ASSUME NEW p \in P, p.idx = i PROVE p = f(i)
      OBVIOUS
    <3>1. PICK j \in 1..q : p = f(j)
      BY <1>3, Zenon
    <3>2. f(j).idx = j
      BY <1>2, Zenon
    <3> QED BY <3>1, <3>2
  <2> QED BY <1>2, <2>1, Zenon
<1>5. \A i \in 1..q : (CHOOSE p \in P : p.idx = i).body.rows = Slice(s.rows, i)
  <2>1. ASSUME NEW i \in 1..q PROVE f(i).body.rows = Slice(s.rows, i)
    <3>1. f(i).body = [rows |-> Slice(s.rows, i), complete |-> s.complete, deleted |-> s.deleted]
      BY <1>2, Zenon
    <3> QED BY <3>1
  <2> QED BY <1>4, <2>1, ZenonT(60)
<1>6. Joined(P, q) = s.rows
  BY <1>5, PartsJoin, ZenonT(60) DEF q
<1>7. Assembled(P) = s
  BY <1>1, <1>2, <1>4 DEF Assembled
<1>8. {p.idx : p \in P} = 1..q
  <2>1. \A i \in 1..q : f(i) \in P /\ f(i).idx = i
    BY <1>2, Zenon
  <2>2. \A p \in P : p.idx \in 1..q
    BY <1>3, <2>1, Zenon
  <2> QED BY <2>1, <2>2
<1>9. Cardinality(P) = q
  BY PartsCounted DEF P, q
<1>10. [f(1).body EXCEPT !.rows = Joined(P, q)] = s
  <2>1. f(1).body = [rows |-> Slice(s.rows, 1), complete |-> s.complete, deleted |-> s.deleted]
    BY <1>1, <1>2
  <2>2. s = [rows |-> s.rows, complete |-> s.complete, deleted |-> s.deleted]
    BY DEF IsSnapshot
  <2>3. [f(1).body EXCEPT !.rows = s.rows] =
          [rows |-> s.rows, complete |-> s.complete, deleted |-> s.deleted]
    BY <2>1
  <2> QED BY <1>6, <2>2, <2>3
<1>11. ASSUME NEW p \in P
       PROVE  /\ p.rev = f(1).rev /\ p.count = f(1).count /\ p.digest = f(1).digest
              /\ p.body.complete = f(1).body.complete
              /\ p.body.deleted = f(1).body.deleted
  <2>1. PICK i \in 1..q : p = f(i)
    BY <1>3, Zenon
  <2>2. \A j \in 1..q : f(j).body.complete = s.complete /\ f(j).body.deleted = s.deleted
    <3> SUFFICES ASSUME NEW j \in 1..q
                 PROVE  f(j).body.complete = s.complete /\ f(j).body.deleted = s.deleted
      OBVIOUS
    <3>1. f(j).body = [rows |-> Slice(s.rows, j), complete |-> s.complete, deleted |-> s.deleted]
      BY <1>2, Zenon
    <3> QED BY <3>1
  <2> QED BY <1>1, <1>2, <2>1, <2>2, Zenon
<1>12. /\ f(1) \in P /\ f(1).idx = 1 /\ f(1).count = q /\ f(1).digest = s
  BY <1>1, <1>2
<1>13. Assembles(P)
  BY <1>8, <1>9, <1>10, <1>11, <1>12, Zenon DEF Assembles
<1> QED BY <1>7, <1>13 DEF P
=============================================================================
