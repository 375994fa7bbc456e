-------------------------------- MODULE LightIndex --------------------------------
(***************************************************************************)
(* The light index (internal/lightindex and store/lightindex): a worker    *)
(* that follows the App Server's list of threads and counts the tokens in  *)
(* their rollout files.  A pass visits the listed sessions in slices; a    *)
(* session is scanned batch by batch into a durable scan row, either a new *)
(* generation beside the visible one or, if its file only grew, in place.  *)
(* Files, list and process change under it at any time.                    *)
(*                                                                         *)
(* A file is measured in half lines: its size is twice its lines, plus one *)
(* if its last line is not finished.  Its version stands for its content:  *)
(* growing keeps it, every other change of the content starts a new one,   *)
(* and files of different versions differ within the prefix that is        *)
(* compared.  A scan row remembers of which content its lines were.        *)
(***************************************************************************)
EXTENDS Integers, Sequences, FiniteSets, Disturbances

CONSTANTS
    Order,      \* the sessions, in the order of the index
    Paths,      \* the places a rollout file may be at
    Restless,   \* bound: the sessions whose files and threads change
    MaxLines    \* bound: lines of a file

Sessions == {Order[i] : i \in DOMAIN Order}

ASSUME LightAssumption == MaxLines \in Nat /\ Restless \subseteq Sessions

VARIABLES
    file,       \* per session: its rollout file
    threads,    \* per session: what the App Server lists
    meta,       \* per session: its row; active and pending are generations, or 0
    scans,      \* per session: its scan rows
    gen,        \* the generation of the metadata; 0: the index has no state yet
    total,      \* the state of the index: "idle", "running", "partial", "complete"
    parser,     \* the version of the parser in the running program
    wk          \* the worker

stored == <<meta, scans, gen, total>>
vars == <<file, threads, stored, parser, wk, ops>>

NoFile == [size |-> -1]
NoMeta == [gen |-> 0]
NoScan == [gen |-> 0]
Down   == [pc |-> "down"]
Wait   == [pc |-> "wait"]

Init ==
    /\ file \in [Sessions -> {[path |-> p, inode |-> 0, ver |-> 0, mtime |-> 0, size |-> n] :
                                 p \in Paths, n \in 0..2 * MaxLines}]
    /\ threads = [s \in Sessions |-> [listed |-> TRUE, path |-> file[s].path, stamp |-> 0]]
    /\ meta = [s \in Sessions |-> NoMeta]
    /\ scans = [s \in Sessions |-> {}]
    /\ gen = 0
    /\ total = "idle"
    /\ parser = 0
    /\ wk = Down
    /\ ops \in 0..MaxOps

-----------------------------------------------------------------------------
\* Around the worker.  ops' numbers contents, inodes, times and parsers that
\* are new.

\* Codex writes a line, the start of one, or the rest of it.
FileGrows(s) ==
    /\ Disturb
    /\ file[s] # NoFile
    /\ \E n \in {file[s].size + 1, file[s].size + 2} :
          /\ n <= 2 * MaxLines
          /\ file' = [file EXCEPT ![s].size = n, ![s].mtime = ops']
    /\ UNCHANGED <<threads, stored, parser, wk>>

\* Another file takes its place, or it is written anew in place.
FileReplaced(s) ==
    /\ Disturb
    /\ file[s] # NoFile
    /\ \E n \in 0..2 * MaxLines, i \in {file[s].inode, ops'} :
          file' = [file EXCEPT ![s].size = n, ![s].inode = i, ![s].ver = ops', ![s].mtime = ops']
    /\ UNCHANGED <<threads, stored, parser, wk>>

\* Only its time changes, forwards or back.
FileTouched(s) ==
    /\ Disturb
    /\ file[s] # NoFile
    /\ \E t \in {-ops', ops'} : file' = [file EXCEPT ![s].mtime = t]
    /\ UNCHANGED <<threads, stored, parser, wk>>

\* It is archived, and the list may follow later; or it is deleted.
FileMoved(s) ==
    /\ Disturb
    /\ file[s] # NoFile
    /\ \E p \in Paths \ {file[s].path} : file' = [file EXCEPT ![s].path = p]
    /\ UNCHANGED <<threads, stored, parser, wk>>

FileRemoved(s) ==
    /\ Disturb
    /\ file[s] # NoFile
    /\ file' = [file EXCEPT ![s] = NoFile]
    /\ UNCHANGED <<threads, stored, parser, wk>>

\* A thread goes, loses its path or changes in another way; it may come back.
ListChanges(s) ==
    /\ Disturb
    /\ \E l \in BOOLEAN, p \in {threads[s].path, "none"} :
          threads' = [threads EXCEPT ![s] = [listed |-> l, path |-> p, stamp |-> ops']]
    /\ UNCHANGED <<file, stored, parser, wk>>

ListReturns(s) ==
    /\ ~threads[s].listed
    /\ threads' = [threads EXCEPT ![s].listed = TRUE]
    /\ UNCHANGED <<file, stored, parser, wk, ops>>

ListFollows(s) ==
    /\ file[s] # NoFile
    /\ threads[s].path # file[s].path
    /\ threads' = [threads EXCEPT ![s].path = file[s].path]
    /\ UNCHANGED <<file, stored, parser, wk, ops>>

\* The process ends at any point, or its run is cancelled; the next one may
\* come with another parser.
Crash ==
    /\ Disturb
    /\ wk # Down
    /\ wk' = Down
    /\ parser' \in {parser, ops'}
    /\ UNCHANGED <<file, threads, stored>>

-----------------------------------------------------------------------------
\* Metadata.

Scan(rows, g) == IF \E r \in rows : r.gen = g THEN CHOOSE r \in rows : r.gen = g ELSE NoScan
Put(rows, row) == {r \in rows : r.gen # row.gen} \cup {row}

Matches(s) ==
    IF threads[s].listed
    THEN meta[s] # NoMeta /\ meta[s].path = threads[s].path /\ meta[s].stamp = threads[s].stamp
    ELSE meta[s] = NoMeta

\* replaceLightMetadata: a row that changed keeps its scans and its state, a new
\* one is "pending", and one that is not listed any more goes with its scans.
Reconciled(s) ==
    IF Matches(s) THEN meta[s]
    ELSE IF ~threads[s].listed THEN NoMeta
    ELSE IF meta[s] = NoMeta
    THEN [gen |-> gen + 1, path |-> threads[s].path, stamp |-> threads[s].stamp,
          state |-> "pending", active |-> 0, pending |-> 0]
    ELSE [meta[s] EXCEPT !.gen = gen + 1, !.path = threads[s].path, !.stamp = threads[s].stamp]

Metadata == [s \in Sessions |-> Reconciled(s)]
KeptScans == [s \in Sessions |-> IF threads[s].listed THEN scans[s] ELSE {}]

refreshMetadata ==
    /\ meta' = Metadata
    /\ scans' = KeptScans
    /\ gen' = IF gen > 0 /\ \A s \in Sessions : Matches(s) THEN gen ELSE gen + 1
    /\ UNCHANGED total

-----------------------------------------------------------------------------
\* A pass.

\* What is loaded of a session: its row m, and of its rows of scans the visible
\* one and the one being built.
Loaded(s, m, rows) ==
    [id |-> s, meta |-> m, active |-> Scan(rows, m.active), pending |-> Scan(rows, m.pending)]
ListLightSessionScans(metas, rows) ==
    {Loaded(s, metas[s], rows[s]) : s \in {t \in Sessions : metas[t] # NoMeta}}

\* The continuation: the sessions that are still to come, and whether one was
\* put off.
NoPass == [loaded |-> FALSE]
Pass(todo, deferred) == [loaded |-> TRUE, todo |-> todo, deferred |-> deferred]
Without(pass, v) == Pass(pass.todo \ {v}, pass.deferred)

Before(s, t) == \E i, j \in DOMAIN Order : i <= j /\ Order[i] = s /\ Order[j] = t

\* fresh: nothing of the slice's budget is spent.
Slice(pass, fresh) == [pc |-> "slice", pass |-> pass, fresh |-> fresh]
Yield(pass) == [pc |-> "yield", pass |-> pass]
Begin(list) == wk' = Slice(Pass(list, FALSE), TRUE)

\* The program starts; the list may fail to arrive.
Start ==
    /\ wk = Down
    /\ \/ refreshMetadata /\ Begin(ListLightSessionScans(Metadata, KeptScans)) /\ UNCHANGED ops
       \/ Disturb /\ UNCHANGED stored /\ Begin(ListLightSessionScans(meta, scans))
    /\ UNCHANGED <<file, threads, parser>>

\* The tick after a pass, or a trigger.
Wake ==
    /\ wk = Wait
    /\ refreshMetadata
    /\ Begin(ListLightSessionScans(Metadata, KeptScans))
    /\ UNCHANGED <<file, threads, parser, ops>>

Resume(metas, rows) ==
    IF wk.pass.loaded THEN wk' = Slice(wk.pass, TRUE)
    ELSE Begin(ListLightSessionScans(metas, rows))

\* Mutant: a refresh between two slices starts the pass again.
NextSliceRestarts ==
    /\ wk.pc = "yield"
    /\ \/ refreshMetadata /\ Begin(ListLightSessionScans(Metadata, KeptScans))
       \/ UNCHANGED stored /\ Resume(meta, scans)
    /\ UNCHANGED <<file, threads, parser, ops>>

\* Between two slices: the worker yields, and refreshes the metadata if a tick
\* or a trigger came, but keeps its place in the pass.
NextSlice ==
    /\ wk.pc = "yield"
    /\ \/ refreshMetadata /\ Resume(Metadata, KeptScans)
       \/ UNCHANGED stored /\ Resume(meta, scans)
    /\ UNCHANGED <<file, threads, parser, ops>>

\* The loop's test before a session: the slice may be used up.
SliceEnds ==
    /\ wk.pc = "slice" /\ ~wk.fresh
    /\ wk.pass.todo # {}
    /\ wk' = Yield(wk.pass)
    /\ UNCHANGED <<file, threads, stored, parser, ops>>

\* After the last session.  A pass that put one off is followed by another;
\* FinishLightScanPass fails where there is no state of an index.
PassEnds ==
    /\ wk.pc = "slice" /\ wk.pass.todo = {}
    /\ IF wk.pass.deferred
       THEN wk' = Yield(NoPass) /\ UNCHANGED total
       ELSE /\ wk' = Wait
            /\ total' = IF gen = 0 THEN total
                        ELSE IF \A s \in Sessions : meta[s] = NoMeta \/ meta[s].state = "complete"
                        THEN "complete" ELSE "partial"
    /\ UNCHANGED <<file, threads, meta, scans, gen, parser, ops>>

-----------------------------------------------------------------------------
\* A session.

At(s, path) == IF file[s] # NoFile /\ file[s].path = path THEN file[s] ELSE NoFile

\* discoverer.Unchanged looks at the stat of the file alone.
Unchanged(row, f) == row.inode = f.inode /\ row.size = f.size /\ row.mtime = f.mtime

sameIdentity(row, f) == row.path = f.path /\ row.ver = f.ver /\ Unchanged(row, f)

DecideRefresh(row, f) ==
    IF \/ row.parser # parser
       \/ row.path # f.path
       \/ row.inode # f.inode
       \/ f.size < row.size
       \/ f.size < row.offset
       \/ row.ver # f.ver
       \/ f.mtime < row.mtime
       \/ f.size = row.size /\ f.mtime # row.mtime
    THEN "rebuild"
    ELSE IF f.size = row.size /\ row.complete /\ row.offset = f.size
    THEN "reuse"
    ELSE "append"

\* What scanSessionData and scanExistingPending want to do with what they know
\* of a session.
Plan(v) == LET f == At(v.id, v.meta.path) IN
    IF f = NoFile THEN "missing"
    ELSE IF v.pending # NoScan
    THEN IF DecideRefresh(v.pending, f) = "rebuild" THEN "restart"
         ELSE IF sameIdentity(v.pending, f) THEN "resume" ELSE "update"
    ELSE IF v.active = NoScan THEN "rebuild"
    ELSE IF \/ v.active.parser = parser /\ v.active.path = f.path /\ Unchanged(v.active, f)
            \/ DecideRefresh(v.active, f) = "reuse"
    THEN "reuse"
    ELSE DecideRefresh(v.active, f)

\* Whether the store agrees: the checks of its transactions.
Allowed(v) == LET m == meta[v.id]
                  f == At(v.id, v.meta.path)
                  active == Scan(scans[v.id], m.active)
                  pending == Scan(scans[v.id], m.pending) IN
    CASE Plan(v) = "rebuild" -> m.path = f.path /\ m.pending = 0
      [] Plan(v) = "append" ->
            /\ m.active > 0 /\ m.pending = 0 /\ m.path = f.path
            /\ active.state = "active" /\ active.parser = parser
            /\ active.path = f.path /\ active.inode = f.inode /\ active.ver = f.ver
            /\ f.size > active.size /\ f.mtime >= active.mtime
      [] Plan(v) = "restart" ->
            /\ m.pending > 0 /\ m.path = f.path
            /\ pending.state = "building" /\ sameIdentity(pending, v.pending)
      [] Plan(v) = "update" ->
            /\ m.pending > 0 /\ m.path = f.path
            /\ pending.state = "building" /\ sameIdentity(pending, v.pending)
            /\ pending.parser = parser /\ pending.inode = f.inode /\ pending.ver = f.ver
            /\ f.size >= pending.size /\ f.mtime >= pending.mtime
      [] Plan(v) = "resume" -> m.pending = v.pending.gen

\* The first attempt works with what the pass loaded; after a conflict the scans
\* are read again, but the path is still the one that was loaded.
Reread(v) == IF meta[v.id] = NoMeta THEN [v EXCEPT !.active = NoScan, !.pending = NoScan]
             ELSE [Loaded(v.id, meta[v.id], scans[v.id]) EXCEPT !.meta = v.meta]
Conflict(v) ==
    /\ Plan(v) \notin {"missing", "reuse"}
    /\ meta[v.id] # NoMeta
    /\ ~Allowed(v)

View(v) == IF Conflict(v) THEN Reread(v) ELSE v

\* It is the turn of what was loaded as v.
Turn(v) ==
    /\ wk.pc = "slice"
    /\ v \in wk.pass.todo
    /\ \A w \in wk.pass.todo : Before(v.id, w.id)
    /\ UNCHANGED <<file, threads, gen, parser, ops>>

Done(v) == wk' = Slice(Without(wk.pass, v), FALSE)

\* SetLightScanState marks the row only if it is still the one that was loaded,
\* and "complete" only if it has a complete active generation.
SetLightScanState(v, state) ==
    LET m == meta[v.id] IN
    meta' = IF /\ m # NoMeta /\ m.gen = v.meta.gen /\ m.path = v.meta.path
               /\ state = "complete" =>
                     Scan(scans[v.id], m.active).gen > 0 /\ Scan(scans[v.id], m.active).complete
                     /\ Scan(scans[v.id], m.active).state = "active"
            THEN [meta EXCEPT ![v.id].state = state]
            ELSE meta

NoRollout(v) ==
    /\ Turn(v)
    /\ v.meta.path = "none"
    /\ SetLightScanState(v, "deferred")
    /\ Done(v)
    /\ UNCHANGED <<scans, total>>

\* The file is not there, the store refuses again after the retries, or
\* StartLightTokenRebuild does not find the session: the next session's turn.
SourceFails(v) ==
    /\ Turn(v)
    /\ v.meta.path # "none"
    /\ \E w \in {View(v)} : \/ Plan(w) = "missing"
                            \/ Conflict(w)
                            \/ Plan(w) = "rebuild" /\ meta[w.id] = NoMeta
    /\ SetLightScanState(v, "failed")
    /\ Done(v)
    /\ UNCHANGED <<scans, total>>

Reuse(v) ==
    /\ Turn(v)
    /\ v.meta.path # "none"
    /\ \E w \in {View(v)} : Plan(w) = "reuse"
    /\ IF v.meta.state = "complete" THEN UNCHANGED meta
       ELSE SetLightScanState(v, "complete")
    /\ Done(v)
    /\ UNCHANGED <<scans, total>>

\* The other transactions give up the pass if they do not find the session.
SessionGone(v) ==
    /\ Turn(v)
    /\ v.meta.path # "none"
    /\ meta[v.id] = NoMeta
    /\ \E w \in {View(v)} : Plan(w) \in {"append", "update", "restart", "resume"}
    /\ wk' = Wait
    /\ UNCHANGED <<meta, scans, total>>

NewScan(f, g) ==
    [gen |-> g, path |-> f.path, inode |-> f.inode, ver |-> f.ver, size |-> f.size,
     mtime |-> f.mtime, parser |-> parser, offset |-> 0, counted |-> {},
     complete |-> FALSE, state |-> "building"]
Grown(row, f) == [row EXCEPT !.size = f.size, !.mtime = f.mtime, !.complete = FALSE]

\* Mutant: the state of the session is not reset.
ScanningUnmarked(s, g, rows) ==
    /\ scans' = [scans EXCEPT ![s] = rows]
    /\ meta' = [meta EXCEPT ![s].pending = g]
    /\ total' = "running"

Scanning(s, g, rows) ==
    /\ scans' = [scans EXCEPT ![s] = rows]
    /\ meta' = [meta EXCEPT ![s].pending = g, ![s].state = "scanning"]
    /\ total' = "running"

StartLightTokenRebuild(s, f) ==
    Scanning(s, meta[s].active + 1, Put(scans[s], NewScan(f, meta[s].active + 1)))

\* Mutant: the lines are counted again from the start, in place.
AppendFromStart(s, f) ==
    Scanning(s, meta[s].active,
             Put(scans[s], [Grown(Scan(scans[s], meta[s].active), f) EXCEPT !.state = "building", !.offset = 0]))

StartLightTokenAppend(s, f) ==
    Scanning(s, meta[s].active,
             Put(scans[s], [Grown(Scan(scans[s], meta[s].active), f) EXCEPT !.state = "building"]))

UpdateLightTokenPendingIdentity(s, f) ==
    /\ scans' = [scans EXCEPT ![s] = Put(scans[s], Grown(Scan(scans[s], meta[s].pending), f))]
    /\ UNCHANGED <<meta, total>>

\* Mutant: the scan that is given up is not deleted.
RestartBeside(s, f) ==
    LET kept == {[r EXCEPT !.state = "active"] : r \in scans[s]} IN
    Scanning(s, meta[s].active + 1, kept \cup {NewScan(f, meta[s].active + 1)})

\* A row that was being extended in place stays visible, as it is.
RestartLightTokenPendingRebuild(s, f) ==
    LET kept == IF meta[s].pending = meta[s].active
                THEN Put(scans[s], [Scan(scans[s], meta[s].active) EXCEPT !.state = "active"])
                ELSE {r \in scans[s] : r.gen # meta[s].pending} IN
    Scanning(s, meta[s].active + 1, kept \cup {NewScan(f, meta[s].active + 1)})

BeginScan(v) ==
    /\ Turn(v)
    /\ v.meta.path # "none"
    /\ meta[v.id] # NoMeta
    /\ \E w \in {View(v)} : \E plan \in {Plan(w)}, f \in {At(v.id, v.meta.path)} :
          /\ plan \notin {"missing", "reuse"} /\ Allowed(w)
          /\ CASE plan = "rebuild" -> StartLightTokenRebuild(v.id, f)
               [] plan = "append"  -> StartLightTokenAppend(v.id, f)
               [] plan = "update"  -> UpdateLightTokenPendingIdentity(v.id, f)
               [] plan = "restart" -> RestartLightTokenPendingRebuild(v.id, f)
               [] plan = "resume"  -> UNCHANGED <<meta, scans, total>>
          /\ wk' = [pc |-> "scan", pass |-> Without(wk.pass, v), view |-> v, snap |-> f]

AtBatch == wk.pc = "scan" /\ UNCHANGED <<file, threads, gen, parser>>
PutOff == wk' = Yield(Pass(wk.pass.todo, TRUE))

\* The slice has no budget for even the first batch.
NoBudget ==
    /\ AtBatch
    /\ Disturb
    /\ PutOff
    /\ UNCHANGED <<meta, scans, total>>

\* Mutant: the reader only needs the file to be there.
ReadPath(s) == At(s, wk.snap.path) # NoFile

\* The reader compares stat and prefix with the snapshot, before and after.
ReadLimited(s) == At(s, wk.snap.path) = wk.snap

ChangedDuringScan ==
    /\ AtBatch
    /\ ~ReadLimited(wk.view.id)
    /\ SetLightScanState(wk.view, "failed")
    /\ wk' = Slice(wk.pass, FALSE)
    /\ UNCHANGED <<scans, total, ops>>

\* One batch: the next line, if it is finished.
Advanced(row, f) ==
    IF row.offset + 2 <= row.size
    THEN [row EXCEPT !.offset = @ + 2, !.counted = @ \cup {<<f.ver, parser>>}]
    ELSE row

CommitLightTokenBatch(s, row) ==
    IF row.offset = row.size
    THEN /\ scans' = [scans EXCEPT ![s] = {[row EXCEPT !.complete = TRUE, !.state = "active"]}]
         /\ meta' = [meta EXCEPT ![s].active = row.gen, ![s].pending = 0, ![s].state = "complete"]
    ELSE /\ scans' = [scans EXCEPT ![s] = Put(scans[s], row)]
         /\ meta' = [meta EXCEPT ![s].state = "partial"]

\* At the end of the file the next session follows, whether or not the last line
\* was finished; before it, this one goes on or is put off.
ScanBatch ==
    /\ AtBatch
    /\ ReadLimited(wk.view.id)
    /\ \E s \in {wk.view.id} : \E row \in {Advanced(Scan(scans[s], meta[s].pending), file[s])} :
          /\ CommitLightTokenBatch(s, row)
          /\ IF row.offset + 1 >= row.size
             THEN wk' = Slice(wk.pass, FALSE)
             ELSE \/ wk' = wk
                  \/ PutOff
    /\ UNCHANGED <<total, ops>>

Work == \/ Start \/ Wake \/ NextSlice \/ SliceEnds \/ PassEnds
        \/ wk.pc = "slice" /\ \E v \in wk.pass.todo :
              NoRollout(v) \/ SourceFails(v) \/ Reuse(v) \/ SessionGone(v) \/ BeginScan(v)
        \/ ChangedDuringScan \/ ScanBatch

Next ==
    \/ Work \/ NoBudget \/ Crash
    \/ \E s \in Restless : \/ FileGrows(s) \/ FileReplaced(s) \/ FileTouched(s)
                           \/ FileMoved(s) \/ FileRemoved(s)
                           \/ ListChanges(s) \/ ListReturns(s) \/ ListFollows(s)

\* The goroutine of the worker runs, its ticker ticks and the program is started
\* again after a crash.
Fairness == WF_vars(Work)
Spec == Init /\ [][Next]_vars

-----------------------------------------------------------------------------
\* Safety

Has(rows, g) == \E r \in rows : r.gen = g
Consistent(m, rows) ==
    IF m = NoMeta THEN rows = {}
    ELSE /\ \A r \in rows : r.gen \in {m.active, m.pending}
         /\ \A g \in {m.active, m.pending} : g # 0 => Has(rows, g)
         /\ \A q, r \in rows : q.gen = r.gen => q = r
         /\ m.pending \in {0, m.active, m.active + 1}
         /\ \A r \in rows : (r.state = "building") <=> (r.gen = m.pending)
         /\ m.pending = 0 => \A r \in rows : r.complete

\* The scan rows of a session are those its row names: the visible generation,
\* and one that is being built, which is the visible one or its successor.  Only
\* the one being built is "building", and where nothing is being built the
\* visible one is complete (StartLightToken*, CommitLightTokenBatch,
\* RestartLightTokenPendingRebuild; ListLightSessionScans gives up the pass, and
\* every later one, where this is not so).
ScanRows == \A s \in Sessions : Consistent(meta[s], scans[s])

Pure(r) ==
    /\ r.counted \subseteq {<<r.ver, r.parser>>}
    /\ r.offset <= r.size
    /\ r.complete => r.offset = r.size

\* The counts of a scan row come from one content of the file, read by one
\* version of the parser, a complete row has counted all of it and no offset is
\* past its end: whatever happens to file and program between two batches, a row
\* never mixes two files (DecideRefresh, the checks of the store's
\* transactions, SnapshotReader.read).
OneContent == \A s \in Sessions : \A r \in scans[s] : Pure(r)

Honest(m, rows) ==
    m # NoMeta /\ m.state = "complete" =>
        /\ m.pending = 0
        /\ Scan(rows, m.active) # NoScan /\ Scan(rows, m.active).complete

\* A session that is shown as complete has a complete visible generation and
\* nothing left to scan (SetLightScanState, CommitLightTokenBatch).
CompleteHonest == \A s \in Sessions : Honest(meta[s], scans[s])

Visible(m, rows) == IF m = NoMeta THEN NoScan ELSE Scan(rows, m.active)
Keeps(old, new) ==
    old # NoScan =>
        /\ new # NoScan
        /\ new.gen # old.gen => new.complete
        /\ new.ver = old.ver => new.offset >= old.offset

\* What the queries show of a session (LightSessionTokenUsage) is replaced only
\* by a complete count, and a count of the same content never goes down, while
\* the session stays in the list.
VisibleKept == [][\A s \in Sessions :
    meta'[s] # NoMeta => Keeps(Visible(meta[s], scans[s]), Visible(meta'[s], scans'[s]))]_vars

Countable(s) == /\ threads[s].listed /\ file[s] # NoFile
                /\ threads[s].path = file[s].path /\ file[s].size % 2 = 0
Counted(s) == LET r == Visible(meta[s], scans[s]) IN
              /\ meta[s] # NoMeta /\ meta[s].state = "complete"
              /\ r # NoScan /\ r.complete /\ sameIdentity(r, file[s]) /\ r.parser = parser

\* Once files, list and program are left alone, every listed session whose file
\* is where the list says and ends with a finished line is shown as complete with
\* the count of that file by the running parser, sessions that are not listed are
\* gone, and if nothing else is listed the index says it is complete (run,
\* scanBudgetedSlice: no session is starved by slices, passes or other sessions).
CatchesUp == <>[]
    /\ \A s \in Sessions : Countable(s) => Counted(s)
    /\ \A s \in Sessions : ~threads[s].listed => meta[s] = NoMeta
    /\ (\A s \in Sessions : ~threads[s].listed \/ Countable(s)) => total = "complete"
=============================================================================
