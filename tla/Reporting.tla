-------------------------------- MODULE Reporting --------------------------------
(***************************************************************************)
(* A device's reporting client and the central server, joined by uploads   *)
(* that may be lost, answered too late or arrive after the client gave up  *)
(* on them; and other devices that report the same session.                *)
(***************************************************************************)
EXTENDS ReportOutbox, ReportCenter

CONSTANTS
    Me,             \* the client id of the device that is followed
    PeerReports,    \* per other client: its snapshots, by revision
    MaxLate         \* bound: uploads in flight whose client gave up

Peers == DOMAIN PeerReports

ASSUME ReportingAssumption == Me \in Clients \ Peers
ASSUME PeersAssumption ==
    \A p \in Peers : \A r \in DOMAIN PeerReports[p] : r \in Nat /\ IsSnapshot(PeerReports[p][r])

VARIABLE late       \* requests of the device that it no longer waits for

vars == <<local, indexed, ckpt, outbox, cursor, fsync, mode, cyc, log, discarded, ops,
          source, session, chunks, jobs, receipts, pub, usage, work, raced, late>>

Init ==
    /\ OutboxInit /\ CenterInit
    /\ late = {}
    /\ ops \in 0..MaxOps

-----------------------------------------------------------------------------
\* client.Upload and the loop around it

Sends == cyc.pc = "drain" /\ Ready # {}

\* A receipt takes the row from the queue; a publication that is not done, or
\* failed, leaves it for a retry; a conflict stops reporting.
Answered(i, reply) ==
    IF reply = "receipt" THEN Ack(i) /\ UNCHANGED <<cyc, mode>>
    ELSE IF reply \in {"processing", "failed"} THEN deferBatch(i) /\ UNCHANGED <<ckpt, mode>>
    ELSE mode' = "protocol_rejected" /\ cyc' = NoCycle /\ UNCHANGED <<ckpt, outbox>>

\* The request is handled and its answer arrives in time.
UploadAnswered ==
    /\ Sends
    /\ \E reply \in Replies :
          Accept(Me, outbox[Oldest].part, reply) /\ Answered(Oldest, reply)
    /\ UNCHANGED <<local, indexed, cursor, fsync, log, discarded, late, ops>>

\* The client no longer waits: the request is lost, or is handled later, at
\* once included; nobody reads its answer.
Abandon ==
    \/ UNCHANGED late
    \/ /\ Cardinality(late) < MaxLate
       /\ late' = late \cup {outbox[Oldest].part}

UploadTimesOut ==
    /\ Sends
    /\ Disturb
    /\ deferBatch(Oldest)
    /\ Abandon
    /\ UNCHANGED <<local, indexed, ckpt, cursor, fsync, mode, log, discarded>>
    /\ UNCHANGED centerVars

\* The process dies, the cycle's minute is over, Configure cancels it, or the
\* store or an upload of other facts fails.
CycleStop ==
    /\ cyc.pc # "idle"
    /\ Disturb
    /\ cyc' = NoCycle
    /\ IF Sends THEN Abandon ELSE UNCHANGED late
    /\ UNCHANGED <<local, indexed, ckpt, outbox, cursor, fsync, mode, log, discarded>>
    /\ UNCHANGED centerVars

DeliverLate(part) ==
    /\ \E reply \in Replies : Accept(Me, part, reply)
    /\ late' = late \ {part}
    /\ UNCHANGED ops /\ UNCHANGED outboxVars

\* Another device uploads one of its revisions, in whatever order its own
\* retries produce.
PeerUpload(p, r) ==
    /\ Disturb
    /\ \E reply \in Replies : Accept(p, SplitSnapshot(PeerReports[p][r], r)[1], reply)
    /\ UNCHANGED late /\ UNCHANGED outboxVars

Next ==
    \/ OutboxNext /\ UNCHANGED late /\ UNCHANGED centerVars
    \/ CenterNext /\ UNCHANGED late /\ UNCHANGED outboxVars
    \/ UploadAnswered \/ UploadTimesOut \/ CycleStop
    \/ \E part \in late : DeliverLate(part)
    \/ \E p \in Peers : \E r \in DOMAIN PeerReports[p] : PeerUpload(p, r)

Spec == Init /\ [][Next]_vars

-----------------------------------------------------------------------------
\* Safety

Queued(r) == {outbox[i].part.idx : i \in {j \in DOMAIN outbox : outbox[j].part.rev = r}}

Staged(r) == {k.part.idx : k \in PartsOf(Me, r)}

\* Revision r is stored, or the device still asks for it and every part of it is
\* queued or staged.
Safe(r) ==
    \/ source[Me].rev = r
    \/ Queued(r) # {} /\ 1..PartCount(log[r]) \subseteq Queued(r) \cup Staged(r)

\* Whatever is lost, late or retried, the latest export of a session is never
\* lost between outbox (state.go Enqueue, Ack) and centre (Accept, publication):
\* a revision the outbox counts as acknowledged is stored.  Only an explicit
\* discard (clearPending) drops it, and that forgets its digest.
NoLoss ==
    /\ log # <<>> => IF discarded THEN ckpt.digest = NoSnapshot ELSE Safe(Len(log))
    /\ ckpt.acked > 0 /\ ckpt.acked = Len(log) => source[Me].rev = ckpt.acked

\* Retries, late requests, resets and full syncs never make the device send
\* another content under a revision it used before: the centre never answers
\* with a conflict, which would stop reporting (runtime.go finiteState).
NeverRejected == mode # "protocol_rejected"

\* However uploads and publications interleave, rebuilding the session from the
\* stored sources (planSession, as reconciliation does) finds nothing to
\* correct: it changes nothing, or takes a copy of the same facts that prices
\* more of them, which one pass of DecideSnapshot may have left behind.
Settled ==
    LET again == planSession(source, session)
    IN \/ again = session
       \/ /\ ~session.deleted /\ ~again.deleted
          /\ Ids(again.snap) = Ids(session.snap)
          /\ pricingEvidence(again.snap) > pricingEvidence(session.snap)

\* What a publication points at is there and is the session's canonical
\* snapshot (publications.go: usage is staged before the pointer moves), except
\* after another server's collector chose its rows before they were published.
PublishedKept ==
    pub # NoGen /\ ~session.deleted =>
        /\ pub = GenOf(session)
        /\ raced \/ RowsOf(session) \subseteq usage

-----------------------------------------------------------------------------
\* Steps

\* Facts leave the canonical snapshot only because the device they came from
\* stored a newer complete snapshot or deleted the session
\* (reporting_merge.go DecideSnapshot).
EvidenceKept ==
    [][LET kept == ~session'.deleted /\ containsFacts(session'.snap, session.snap)
           old  == source[session.id]
           new  == source'[session.id]
       IN ~session.deleted /\ ~kept =>
            new.rev > old.rev /\ (new.snap.complete \/ new.snap.deleted)]_vars

\* A full sync is reported as completed (full_sync.go finishFullSync) only when
\* the session was exported again since it started, or was gone meanwhile, and
\* its latest export is stored.
FullSyncHonest ==
    [][fsync.state = "running" /\ fsync'.state = "completed" =>
         \/ discarded
         \/ /\ source[Me].rev = Len(log)
            /\ Len(log) > fsync.base \/ fsync.gone]_vars

\* What the centre stores of the device is one of its exports, whole, and only
\* ever moves forward.
Promise == INSTANCE ReportLog WITH None <- NoSnapshot, stored <- source[Me]

StoresExports == Promise!Spec
=============================================================================
