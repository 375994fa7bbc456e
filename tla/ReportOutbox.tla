------------------------------- MODULE ReportOutbox -------------------------------
(***************************************************************************)
(* The reporting client of a device (internal/reporting): sweeps over the  *)
(* local index export a session whenever its digest changed, each export   *)
(* takes the next revision and queues its parts, and a cycle uploads what  *)
(* is queued.  One session is followed; other sessions of the index only   *)
(* make pages non-empty.  Durable: checkpoint, outbox, cursor, full sync   *)
(* and settings.  Lost with the process: the running cycle.                *)
(*                                                                         *)
(* Cycles, settings and full syncs exclude each other (r.operations); the  *)
(* steps of a cycle interleave with the index, the clock and the centre.   *)
(***************************************************************************)
EXTENDS Snapshots, Disturbances

CONSTANTS
    Reports,        \* the snapshots the local index may hold
    QueueBudget     \* rows the outbox may hold

ASSUME OutboxAssumption == QueueBudget \in Nat
ASSUME ReportsAssumption == \A s \in Reports : IsSnapshot(s)

VARIABLES
    local,      \* the indexed snapshot; NoSnapshot: the session is not there
    indexed,    \* whether the index may be taken as evidence of deletions
    ckpt,       \* the session's export checkpoint; rev = 0: none
    outbox,     \* the queued rows [part, wait], oldest first
    cursor,     \* the sweep: past the session?, authority, due
    fsync,      \* the full sync
    mode,       \* "ready", "disabled" or "protocol_rejected"
    cyc,        \* the running cycle
    log,        \* history: the snapshot exported as each revision
    discarded   \* history: queued rows were discarded, nothing exported since

outboxVars == <<local, indexed, ckpt, outbox, cursor, fsync, mode, cyc, log, discarded>>

NoCycle == [pc |-> "idle", again |-> FALSE, failed |-> FALSE, deferred |-> FALSE,
            authority |-> FALSE]

OutboxInit ==
    /\ local \in Reports \cup {NoSnapshot}
    /\ indexed = TRUE
    /\ ckpt = [rev |-> 0, digest |-> NoSnapshot, seen |-> FALSE, deleted |-> FALSE, acked |-> 0]
    /\ outbox = <<>>
    /\ cursor = [past |-> FALSE, authority |-> TRUE, due |-> TRUE, saved |-> FALSE]
    /\ fsync = [state |-> "none", base |-> 0, gone |-> FALSE]
    /\ mode = "ready"
    /\ cyc = NoCycle
    /\ log = <<>>
    /\ discarded = FALSE

-----------------------------------------------------------------------------
\* The device around the client

\* The index takes in a change, or loses the session.  While it rescans, an
\* absent session proves nothing.  A cycle reads the index once, when it
\* exports a page, so a change during a cycle is one before or after it.
LocalChange ==
    /\ cyc.pc = "idle"
    /\ Disturb
    /\ \E s \in (Reports \cup {NoSnapshot}) \ {local} : local' = s
    /\ indexed' \in BOOLEAN
    /\ fsync' = [fsync EXCEPT !.gone = fsync.state = "running" /\ (@ \/ local' = NoSnapshot)]
    /\ UNCHANGED <<ckpt, outbox, cursor, mode, cyc, log, discarded>>

IndexComplete ==
    /\ cyc.pc = "idle" /\ ~indexed
    /\ indexed' = TRUE
    /\ UNCHANGED <<local, ckpt, outbox, cursor, fsync, mode, cyc, log, discarded, ops>>

\* Time: the next sweep is due; a deferred row may be sent again.  The clock
\* is read when a cycle starts and when it looks for a row to send.
SweepDue ==
    /\ cyc.pc = "idle" /\ ~cursor.due
    /\ cursor' = [cursor EXCEPT !.due = TRUE]
    /\ UNCHANGED <<local, indexed, ckpt, outbox, fsync, mode, cyc, log, discarded, ops>>

RetryDue(i) ==
    /\ cyc.pc \in {"idle", "drain"} /\ outbox[i].wait
    /\ outbox' = [outbox EXCEPT ![i].wait = FALSE]
    /\ UNCHANGED <<local, indexed, ckpt, cursor, fsync, mode, cyc, log, discarded, ops>>

-----------------------------------------------------------------------------
\* Settings

\* Configure: the running cycle is cancelled and waited for before.
Configure(enable, clear) ==
    /\ cyc.pc = "idle"
    /\ Disturb
    /\ mode' = IF ~enable THEN "disabled"
               ELSE IF mode = "protocol_rejected" THEN mode ELSE "ready"
    /\ outbox' = IF clear THEN <<>> ELSE outbox
    /\ ckpt' = IF clear THEN [ckpt EXCEPT !.digest = NoSnapshot] ELSE ckpt
    /\ cursor' = IF enable \/ clear THEN [cursor EXCEPT !.due = TRUE] ELSE cursor
    /\ discarded' = (discarded \/ (clear /\ outbox # <<>>))
    /\ UNCHANGED <<local, indexed, fsync, cyc, log>>

SyncNow ==
    /\ cyc.pc = "idle"
    /\ mode # "disabled"
    /\ \/ mode = "protocol_rejected" \/ ~cursor.due
    /\ mode' = "ready"
    /\ cursor' = [cursor EXCEPT !.due = TRUE]
    /\ UNCHANGED <<local, indexed, ckpt, outbox, fsync, cyc, log, discarded, ops>>

\* Mutant: the sweep goes on where it was.
FullSyncMidway ==
    /\ cyc.pc = "idle"
    /\ mode = "ready"
    /\ fsync.state # "running"
    /\ Disturb
    /\ ckpt' = [ckpt EXCEPT !.digest = NoSnapshot]
    /\ cursor' = [cursor EXCEPT !.due = TRUE]
    /\ fsync' = [state |-> "running", base |-> Len(log), gone |-> local = NoSnapshot]
    /\ UNCHANGED <<local, indexed, outbox, mode, cyc, log, discarded>>

\* FullSync: forget the digests so that everything is exported again; the
\* queue, the revisions and the identity of the sweep stay.
FullSync ==
    /\ cyc.pc = "idle"
    /\ mode = "ready"
    /\ fsync.state # "running"
    /\ Disturb
    /\ ckpt' = [ckpt EXCEPT !.digest = NoSnapshot]
    /\ cursor' = [cursor EXCEPT !.past = FALSE, !.authority = TRUE, !.due = TRUE]
    /\ fsync' = [state |-> "running", base |-> Len(log), gone |-> local = NoSnapshot]
    /\ UNCHANGED <<local, indexed, outbox, mode, cyc, log, discarded>>

-----------------------------------------------------------------------------
\* The cycle

\* A cycle exports one page, if a sweep is due, then sends what is queued.
\* Rows that failed before and still wait keep it from being a success.
CycleStarts == cyc.pc = "idle" /\ mode = "ready"

Started == [NoCycle EXCEPT !.deferred = \E i \in DOMAIN outbox : outbox[i].wait]

\* Enqueue, one transaction: an unchanged digest only marks the checkpoint as
\* seen; a changed one takes the next revision and queues its parts.
Unchanged(s) == ckpt.rev > 0 /\ ckpt.digest = s

Fits(s) == Unchanged(s) \/ Len(outbox) + PartCount(s) <= QueueBudget

Enqueue(s) ==
    IF Unchanged(s)
    THEN /\ ckpt' = [ckpt EXCEPT !.seen = TRUE]
         /\ UNCHANGED <<outbox, log, discarded>>
    ELSE /\ ckpt' = [ckpt EXCEPT !.rev = @ + 1, !.digest = s, !.seen = TRUE,
                                 !.deleted = s.deleted]
         /\ outbox' = outbox \o [i \in 1..PartCount(s) |->
                         [part |-> SplitSnapshot(s, ckpt.rev + 1)[i], wait |-> FALSE]]
         /\ log' = Append(log, s)
         /\ discarded' = FALSE

\* A cursor that was never saved starts a sweep of a new identity.
Seen == ckpt.seen /\ cursor.saved

EnqueueFound(s) ==
    IF s = NoSnapshot
    THEN ckpt' = [ckpt EXCEPT !.seen = Seen] /\ UNCHANGED <<outbox, log, discarded>>
    ELSE Enqueue(s)

\* removed: what no page of this sweep had and is not yet reported deleted.
Removed == IF ckpt.rev > 0 /\ ~ckpt.deleted /\ ~Seen THEN Tombstone ELSE NoSnapshot

\* What a sweep that ends here reports; a page that is not authoritative, now
\* or earlier in the sweep, is no evidence that the session is gone.
Missing == IF cursor.authority /\ indexed THEN Removed ELSE NoSnapshot

SweepEnds == cursor.past \/ local = NoSnapshot

\* exportSessions, a page with sessions in it: this one if it is there.
ExportPage ==
    /\ CycleStarts /\ cursor.due /\ ~cursor.past
    /\ local = NoSnapshot \/ Fits(local)
    /\ EnqueueFound(local)
    /\ cyc' = [Started EXCEPT !.pc = "save", !.again = TRUE,
                              !.authority = cursor.authority /\ indexed]
    /\ UNCHANGED <<local, indexed, cursor, fsync, mode, ops>>

\* exportSessions, an empty page: the sweep is over.
EndSweep ==
    /\ CycleStarts /\ cursor.due /\ SweepEnds
    /\ Missing = NoSnapshot \/ Fits(Missing)
    /\ EnqueueFound(Missing)
    /\ cyc' = [Started EXCEPT !.pc = "save"]
    /\ UNCHANGED <<local, indexed, cursor, fsync, mode, ops>>

\* The cursor is saved in a transaction of its own; after the end of a sweep
\* it names a new sweep, in which nothing has been seen.
SaveCursor ==
    /\ cyc.pc = "save"
    /\ cyc' = [cyc EXCEPT !.pc = "drain", !.authority = FALSE]
    /\ IF cyc.again
       THEN /\ cursor' = [cursor EXCEPT !.past = TRUE, !.saved = TRUE,
                                        !.authority = cyc.authority]
            /\ UNCHANGED ckpt
       ELSE /\ cursor' = [past |-> FALSE, authority |-> TRUE, due |-> FALSE, saved |-> TRUE]
            /\ ckpt' = [ckpt EXCEPT !.seen = FALSE]
    /\ UNCHANGED <<local, indexed, outbox, fsync, mode, log, discarded, ops>>

Ready == {i \in DOMAIN outbox : ~outbox[i].wait}

\* No sweep is due.  A cycle with nothing to send either is left out.
SkipExport ==
    /\ CycleStarts /\ ~cursor.due
    /\ Ready # {} \/ fsync.state = "running"
    /\ cyc' = [Started EXCEPT !.pc = "drain"]
    /\ UNCHANGED <<local, indexed, ckpt, outbox, cursor, fsync, mode, log, discarded, ops>>

\* The queue is full, or the index cannot be read: the cursor stays.  An
\* unreadable index is an error of the cycle only during a full sync.
ExportFails ==
    /\ CycleStarts
    /\ \/ /\ cursor.due
          /\ \/ ~cursor.past /\ local # NoSnapshot /\ ~Fits(local)
             \/ SweepEnds /\ Missing # NoSnapshot /\ ~Fits(Missing)
          /\ cyc' = [Started EXCEPT !.pc = "drain", !.failed = TRUE]
          /\ UNCHANGED ops
       \/ /\ Disturb
          /\ cyc' = [Started EXCEPT !.pc = "drain", !.failed = fsync.state = "running"]
    /\ UNCHANGED <<local, indexed, ckpt, outbox, cursor, fsync, mode, log, discarded>>

-----------------------------------------------------------------------------
\* Draining the outbox

\* next: the oldest row that is not waiting for its retry.
Oldest == CHOOSE i \in Ready : \A j \in Ready : i <= j

\* Ack, one transaction: the row goes, and with the last row of a revision
\* that revision counts as acknowledged.
Ack(i) ==
    LET rev  == outbox[i].part.rev
        last == \A j \in DOMAIN outbox : j # i => outbox[j].part.rev # rev
    IN /\ outbox' = SubSeq(outbox, 1, i - 1) \o SubSeq(outbox, i + 1, Len(outbox))
       /\ ckpt' = [ckpt EXCEPT !.acked = IF last /\ @ < rev THEN rev ELSE @]

deferBatch(i) ==
    /\ outbox' = [outbox EXCEPT ![i].wait = TRUE]
    /\ cyc' = [cyc EXCEPT !.pc = "drain", !.deferred = TRUE]

\* Nothing left to send now.  A full sync is complete if nothing was deferred
\* or failed, no page is left and the queue is empty.
CycleEnd ==
    /\ cyc.pc = "drain" /\ Ready = {}
    /\ cyc' = NoCycle
    /\ fsync' = IF /\ fsync.state = "running" /\ outbox = <<>>
                   /\ ~cyc.deferred /\ ~cyc.failed /\ ~cyc.again
                THEN [state |-> "completed", base |-> 0, gone |-> FALSE] ELSE fsync
    /\ UNCHANGED <<local, indexed, ckpt, outbox, cursor, mode, log, discarded, ops>>

\* The steps that do not involve the centre.
OutboxNext ==
    \/ LocalChange \/ IndexComplete \/ SweepDue
    \/ \E i \in DOMAIN outbox : RetryDue(i)
    \/ \E enable, clear \in BOOLEAN : Configure(enable, clear)
    \/ SyncNow \/ FullSync
    \/ ExportPage \/ EndSweep \/ SaveCursor \/ SkipExport
    \/ ExportFails \/ CycleEnd
=============================================================================
