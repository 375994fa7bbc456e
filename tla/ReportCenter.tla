------------------------------- MODULE ReportCenter -------------------------------
(***************************************************************************)
(* The central server's side of reporting (reporting_srv and its MySQL     *)
(* repository), for one session that several devices may report.  An       *)
(* upload is handled in one transaction: a small snapshot is stored and    *)
(* arbitrated at once; a part of a large one is staged, and the last part  *)
(* becomes a publication job.  Every server instance has one worker that   *)
(* claims a job under a lease, builds the new projection outside any       *)
(* transaction, stages its usage rows, and commits it in a short           *)
(* transaction if nothing it read has changed; between jobs it clears      *)
(* staged parts and unreferenced usage.                                    *)
(***************************************************************************)
EXTENDS Snapshots, Disturbances

CONSTANTS
    ClientOrder,    \* the collectors, in the order of their source ids
    Servers         \* the server instances

ASSUME ServersAssumption == "none" \notin Servers

Clients == {ClientOrder[i] : i \in DOMAIN ClientOrder}

ASSUME OrderAssumption == ClientOrder \in Seq(Clients)

VARIABLES
    source,     \* per client: the stored revision and snapshot; rev = 0: none
    session,    \* the session row and its canonical snapshot
    chunks,     \* staged parts [client, part]
    jobs,       \* publication jobs [state, lease], by upload [client, part]
    receipts,   \* uploads confirmed, by [client, part]
    pub,        \* the usage generation the session's publication points at
    usage,      \* staged usage rows [gen, row]
    work,       \* per server: what its worker is doing
    raced       \* history: a collector chose rows before they were published

centerVars == <<source, session, chunks, jobs, receipts, pub, usage, work, raced>>

NoGen == [id |-> "none", rev |-> 0, complete |-> FALSE]
Idle  == [pc |-> "idle"]
Off   == [pc |-> "off"]

CenterInit ==
    /\ source = [c \in Clients |-> [rev |-> 0, snap |-> NoSnapshot]]
    /\ session = [id |-> "none", rev |-> 0, snap |-> NoSnapshot, deleted |-> TRUE,
                  conflict |-> FALSE, fence |-> FALSE]
    /\ chunks = {}
    /\ jobs = [u \in {} |-> 0]
    /\ receipts = {}
    /\ pub = NoGen
    /\ usage = {}
    /\ work \in [Servers -> {Idle, Off}]
    /\ raced = FALSE

-----------------------------------------------------------------------------
\* The projection

\* planSession over the sources, in the order of their ids.
StoredSources(src) ==
    [i \in DOMAIN ClientOrder |->
        [id |-> ClientOrder[i], rev |-> src[ClientOrder[i]].rev,
         snap |-> src[ClientOrder[i]].snap, inconsistent |-> FALSE]]

planSession(src, cur) ==
    LET d == DecideSnapshot(StoredSources(src), cur)
    IN IF Candidates(StoredSources(src)) = {}
       THEN [cur EXCEPT !.deleted = TRUE, !.conflict = FALSE]
       ELSE [id |-> d.id, rev |-> d.rev, snap |-> d.snap, deleted |-> FALSE,
             conflict |-> d.conflict, fence |-> d.fence]

\* The key of a usage generation is a hash of the canonical snapshot.
GenOf(sess) == [id |-> sess.id, rev |-> sess.rev, complete |-> sess.snap.complete]

RowsOf(sess) == {[gen |-> GenOf(sess), row |-> i] : i \in DOMAIN sess.snap.rows}

-----------------------------------------------------------------------------
\* Uploads: Accept, with the reply the collector gets

Replies == {"receipt", "processing", "failed", "conflict"}

Upload(c, part) == [client |-> c, part |-> part]

\* A chunked part, or any snapshot of a session published in the background.
Deferred(part) == part.count > 1 \/ pub # NoGen

\* The stored revision answers for the upload.
Superseded(c, part) == part.rev <= source[c].rev

\* Mutant: any other content of a stored session is a conflict.
DisagreesStale(c, part) == part.digest # source[c].snap

Disagrees(c, part) == part.rev = source[c].rev /\ part.digest # source[c].snap

Confirm(c, part) == receipts' = receipts \cup {Upload(c, part)}

\* A batch confirmed before, or a snapshot no newer than the stored one.
AcceptOld(c, part, reply) ==
    \/ /\ Upload(c, part) \in receipts
       /\ reply = "receipt"
       /\ UNCHANGED centerVars
    \/ /\ Upload(c, part) \notin receipts \cup DOMAIN jobs
       /\ Superseded(c, part)
       /\ IF Disagrees(c, part) THEN reply = "conflict" /\ UNCHANGED receipts
          ELSE reply = "receipt" /\ Confirm(c, part)
       /\ UNCHANGED <<source, session, chunks, jobs, pub, usage, work, raced>>

\* acceptSession: store the source and rebuild the session's projection.
AcceptSession(c, part, reply) ==
    /\ Upload(c, part) \notin receipts \cup DOMAIN jobs
    /\ ~Deferred(part) /\ ~Superseded(c, part)
    /\ source' = [source EXCEPT ![c] = [rev |-> part.rev, snap |-> part.digest]]
    /\ session' = planSession(source', session)
    /\ Confirm(c, part)
    /\ reply = "receipt"
    /\ UNCHANGED <<chunks, jobs, pub, usage, work, raced>>

\* The job that answers for the upload is not done, or will never be.
AcceptJob(c, part, reply) ==
    /\ Upload(c, part) \in DOMAIN jobs \ receipts
    /\ reply = IF jobs[Upload(c, part)].state = "failed" THEN "failed" ELSE "processing"
    /\ UNCHANGED centerVars

SaveJob(c, part) ==
    jobs' = [u \in DOMAIN jobs \cup {Upload(c, part)} |->
               IF u \in DOMAIN jobs THEN jobs[u] ELSE [state |-> "pending", lease |-> "none"]]

PartsOf(c, rev) == {k \in chunks : k.client = c /\ k.part.rev = rev}

\* DeleteChunks spares the revisions of jobs that may still need them.
Needed(c, rev) ==
    \E u \in DOMAIN jobs : /\ u.client = c /\ u.part.rev = rev
                          /\ jobs[u].state \in {"pending", "failed"}

Outdated(c, rev) == {k \in chunks : k.client = c /\ k.part.rev < rev /\ ~Needed(c, k.part.rev)}

\* Mutant: the last part is confirmed when it is staged.
AcceptChunkEarly(c, part, reply) ==
    /\ Upload(c, part) \notin receipts \cup DOMAIN jobs
    /\ part.count > 1 /\ ~Superseded(c, part)
    /\ chunks' = (chunks \ Outdated(c, part.rev)) \cup {Upload(c, part)}
    /\ IF Cardinality(PartsOf(c, part.rev)) + 1 < part.count THEN UNCHANGED jobs
       ELSE SaveJob(c, part)
    /\ reply = "receipt" /\ Confirm(c, part)
    /\ UNCHANGED <<source, session, pub, usage, work, raced>>

\* acceptChunk: stage the part; the last one to arrive becomes the job.
AcceptChunk(c, part, reply) ==
    /\ Upload(c, part) \notin receipts \cup DOMAIN jobs
    /\ part.count > 1 /\ ~Superseded(c, part)
    /\ chunks' = (chunks \ Outdated(c, part.rev)) \cup {Upload(c, part)}
    /\ IF Cardinality(PartsOf(c, part.rev)) + 1 < part.count
       THEN reply = "receipt" /\ Confirm(c, part) /\ UNCHANGED jobs
       ELSE reply = "processing" /\ SaveJob(c, part) /\ UNCHANGED receipts
    /\ UNCHANGED <<source, session, pub, usage, work, raced>>

\* enqueuePublication of a whole snapshot.
AcceptWhole(c, part, reply) ==
    /\ Upload(c, part) \notin receipts \cup DOMAIN jobs
    /\ part.count = 1 /\ Deferred(part) /\ ~Superseded(c, part)
    /\ SaveJob(c, part)
    /\ reply = "processing"
    /\ UNCHANGED <<source, session, chunks, receipts, pub, usage, work, raced>>

Accept(c, part, reply) ==
    \/ AcceptOld(c, part, reply) \/ AcceptSession(c, part, reply)
    \/ AcceptJob(c, part, reply) \/ AcceptChunk(c, part, reply)
    \/ AcceptWhole(c, part, reply)

-----------------------------------------------------------------------------
\* The worker of a server: ProcessPublication

\* Mutant: the collector does not look at leases.
LeaseHeldNever == FALSE

LeaseHeld == \E u \in DOMAIN jobs : jobs[u].lease # "none"

Claim(w, u) ==
    /\ work[w].pc = "idle"
    /\ jobs[u].state = "pending" /\ jobs[u].lease = "none"
    /\ jobs' = [jobs EXCEPT ![u].lease = w]
    /\ work' = [work EXCEPT ![w] = [pc |-> "claimed", job |-> u]]
    /\ UNCHANGED <<source, session, chunks, receipts, pub, usage, raced, ops>>

\* FinishJob touches the row only under the worker's own lease.
FinishJob(w, u, state) ==
    jobs' = IF jobs[u].lease = w THEN [jobs EXCEPT ![u] = [state |-> state, lease |-> "none"]]
            ELSE jobs

JobParts(u) == {k.part : k \in PartsOf(u.client, u.part.rev)}

\* Mutant: the last part is taken for the snapshot.
JobSnapshotPart(u) == u.part.body

JobSnapshot(u) == IF u.part.count = 1 THEN u.part.digest ELSE Assembled(JobParts(u))

\* What a worker publishes, from what it read: b has the job, its snapshot,
\* and the sources (stamp) and the session (cur) it was read with.
Stale(b)      == b.job.part.rev <= b.stamp[b.job.client].rev
Own(b)        == [rev |-> b.job.part.rev, snap |-> b.snap]
Plan(b)       == IF Stale(b) THEN b.cur
                 ELSE planSession([b.stamp EXCEPT ![b.job.client] = Own(b)], b.cur)

\* The plan has usage of its own unless it changes nothing or only deletes.
Publishes(b) == Plan(b) # b.cur /\ ~Plan(b).deleted

ToStage(b) == IF Publishes(b) THEN RowsOf(Plan(b)) ELSE {}

\* Assemble, and read session and sources in one snapshot.
Read(w) ==
    LET u == work[w].job
        b == [pc |-> "build", job |-> u, snap |-> JobSnapshot(u), stamp |-> source,
              cur |-> session, todo |-> {}]
    IN /\ work[w].pc = "claimed"
       /\ u.part.count > 1 => Assembles(JobParts(u))
       /\ ~(u.part.rev = source[u.client].rev /\ JobSnapshot(u) # source[u.client].snap)
       /\ work' = [work EXCEPT ![w] = [b EXCEPT !.todo = ToStage(b)]]
       /\ UNCHANGED <<source, session, chunks, jobs, receipts, pub, usage, raced, ops>>

\* The snapshot cannot be published: parts that do not fit together, another
\* content under a stored revision, or (chosen here) a size budget exceeded.
Refuse(w) ==
    /\ work[w].pc = "claimed"
    /\ Disturb
    /\ FinishJob(w, work[w].job, "failed")
    /\ work' = [work EXCEPT ![w] = Idle]
    /\ UNCHANGED <<source, session, chunks, receipts, pub, usage, raced>>

\* StageUsage: row after row, each committed by itself; one that is there
\* already is left alone.
StageUsage(w) ==
    /\ work[w].pc = "build"
    /\ \E r \in work[w].todo :
          /\ \A o \in work[w].todo : r.row <= o.row
          /\ usage' = usage \cup {r}
          /\ work' = [work EXCEPT ![w].todo = @ \ {r}]
    /\ UNCHANGED <<source, session, chunks, jobs, receipts, pub, raced, ops>>

\* Mutant: a source that changed meanwhile goes unnoticed.
CurrentSession(w) ==
    LET b == work[w]
    IN source[b.job.client] = b.stamp[b.job.client] /\ jobs[b.job].lease = w

\* Nothing the worker read has changed, and the lease is its own.
Current(w) ==
    LET b == work[w]
    IN session = b.cur /\ source = b.stamp /\ jobs[b.job].lease = w

\* The final transaction: publish what was built if session and sources are
\* still the ones it was built from and the lease is still the worker's.
\* A stale snapshot is only confirmed.
CommitPublication(w) ==
    LET b == work[w]
    IN /\ b.pc = "build" /\ b.todo = {}
       /\ Current(w)
       /\ source' = IF Stale(b) THEN source ELSE [source EXCEPT ![b.job.client] = Own(b)]
       /\ session' = Plan(b)
       /\ pub' = IF Publishes(b) THEN GenOf(Plan(b)) ELSE pub
       /\ receipts' = receipts \cup {b.job}
       /\ FinishJob(w, b.job, "published")
       /\ work' = [work EXCEPT ![w] = Idle]
       /\ raced' = (raced \/ \E v \in Servers \ {w} :
                                work[v].pc = "collect" /\ work[v].rows \cap ToStage(b) # {})
       /\ UNCHANGED <<chunks, usage, ops>>

\* Something it read has changed, or a store error: the job is tried again.
GiveBack(w) ==
    /\ \/ work[w].pc = "build" /\ ~Current(w) /\ UNCHANGED ops
       \/ work[w].pc \in {"claimed", "build"} /\ Disturb
    /\ FinishJob(w, work[w].job, "pending")
    /\ work' = [work EXCEPT ![w] = Idle]
    /\ UNCHANGED <<source, session, chunks, receipts, pub, usage, raced>>

\* The server dies; the lease stays until its time is over.
Die(w) ==
    /\ work[w].pc \notin {"idle", "off"}
    /\ Disturb
    /\ work' = [work EXCEPT ![w] = Idle]
    /\ UNCHANGED <<source, session, chunks, jobs, receipts, pub, usage, raced>>

\* A worker gives up a minute before its lease ends, so a lease runs out
\* under a worker only if its server was suspended.
AtWork(u) == \E w \in Servers : work[w].pc \in {"claimed", "build"} /\ work[w].job = u

LeaseExpires(u) ==
    /\ jobs[u].lease # "none"
    /\ IF AtWork(u) THEN Disturb ELSE UNCHANGED ops
    /\ jobs' = [jobs EXCEPT ![u].lease = "none"]
    /\ UNCHANGED <<source, session, chunks, receipts, pub, usage, work, raced>>

-----------------------------------------------------------------------------
\* Between jobs

\* CleanupPublication: one staged part of a published job, then the job.
CleanupPublication(w, u) ==
    /\ work[w].pc = "idle"
    /\ jobs[u].state = "published"
    /\ IF PartsOf(u.client, u.part.rev) # {}
       THEN /\ \E k \in PartsOf(u.client, u.part.rev) :
                  /\ \A o \in PartsOf(u.client, u.part.rev) : k.part.idx <= o.part.idx
                  /\ chunks' = chunks \ {k}
            /\ UNCHANGED jobs
       ELSE /\ jobs' = [jobs EXCEPT ![u].state = "completed"]
            /\ UNCHANGED chunks
    /\ UNCHANGED <<source, session, receipts, pub, usage, work, raced, ops>>

\* CollectVersions chooses rows no publication names and deletes them by
\* their keys, both only while no lease is held.
CollectSelect(w) ==
    /\ work[w].pc = "idle"
    /\ ~LeaseHeld
    /\ \E r \in usage : r.gen # pub
    /\ work' = [work EXCEPT ![w] = [pc |-> "collect", rows |-> {r \in usage : r.gen # pub}]]
    /\ UNCHANGED <<source, session, chunks, jobs, receipts, pub, usage, raced, ops>>

CollectDelete(w) ==
    /\ work[w].pc = "collect"
    /\ usage' = IF LeaseHeld THEN usage ELSE usage \ work[w].rows
    /\ work' = [work EXCEPT ![w] = Idle]
    /\ UNCHANGED <<source, session, chunks, jobs, receipts, pub, raced, ops>>

Worker(w) ==
    \/ \E u \in DOMAIN jobs : Claim(w, u) \/ CleanupPublication(w, u)
    \/ Read(w) \/ Refuse(w) \/ StageUsage(w) \/ CommitPublication(w) \/ GiveBack(w)
    \/ Die(w) \/ CollectSelect(w) \/ CollectDelete(w)

CenterNext ==
    \/ \E w \in Servers : Worker(w)
    \/ \E u \in DOMAIN jobs : LeaseExpires(u)
=============================================================================
