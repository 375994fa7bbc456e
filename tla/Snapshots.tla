-------------------------------- MODULE Snapshots --------------------------------
(***************************************************************************)
(* What devices and centre exchange about one session: a snapshot of its   *)
(* usage, cut into parts that travel apart (reporting/v1/chunks.go), and   *)
(* the arbitration by which the centre picks one device's snapshot as the  *)
(* session's canonical one (reporting_srv/reporting_merge.go).             *)
(*                                                                         *)
(* A snapshot is [rows, complete, deleted]; a row is a contribution        *)
(* [id, cost], its cost "unknown" or a price.  A digest is the snapshot    *)
(* itself: SHA-256 is taken to be injective.                               *)
(***************************************************************************)
EXTENDS Integers, Sequences, FiniteSets

CONSTANT ChunkFacts     \* contributions in a part (1000 in the code)

ASSUME ChunkAssumption == ChunkFacts \in Nat \ {0}

\* A snapshot's facts are finitely many, in an order.
IsSnapshot(s) ==
    /\ s = [rows |-> s.rows, complete |-> s.complete, deleted |-> s.deleted]
    /\ s.rows \in Seq({s.rows[i] : i \in DOMAIN s.rows})

NoSnapshot == [rows |-> <<>>, complete |-> FALSE, deleted |-> FALSE]

\* removed() empties the facts and sets Deleted; whatever else the metadata
\* holds, a deleted source takes no part in the arbitration.
Tombstone == [rows |-> <<>>, complete |-> TRUE, deleted |-> TRUE]

-----------------------------------------------------------------------------
\* Splitting and assembling

PartCount(s) == IF Len(s.rows) <= ChunkFacts THEN 1
                ELSE (Len(s.rows) + ChunkFacts - 1) \div ChunkFacts

Slice(rows, i) == SubSeq(rows, (i - 1) * ChunkFacts + 1,
                    IF i * ChunkFacts < Len(rows) THEN i * ChunkFacts ELSE Len(rows))

\* Every part repeats the metadata and the manifest: revision, count, digest.
SplitSnapshot(s, rev) ==
    [i \in 1..PartCount(s) |->
        [rev |-> rev, idx |-> i, count |-> PartCount(s), digest |-> s,
         body |-> [s EXCEPT !.rows = Slice(s.rows, i)]]]

\* The facts of the first n parts, one after the other.
Joined(parts, n) ==
    LET rows[i \in 0..n] ==
            IF i = 0 THEN <<>>
            ELSE rows[i - 1] \o (CHOOSE p \in parts : p.idx = i).body.rows
    IN rows[n]

\* AssembleSnapshot checks manifest, count, metadata and the whole digest.
Assembles(parts) ==
    \E first \in parts :
        /\ first.idx = 1
        /\ {p.idx : p \in parts} = 1..first.count
        /\ Cardinality(parts) = first.count
        /\ \A p \in parts :
              /\ p.rev = first.rev /\ p.count = first.count /\ p.digest = first.digest
              /\ p.body.complete = first.body.complete
              /\ p.body.deleted = first.body.deleted
        /\ [first.body EXCEPT !.rows = Joined(parts, first.count)] = first.digest

Assembled(parts) == (CHOOSE p \in parts : p.idx = 1).digest

-----------------------------------------------------------------------------
\* Arbitration

Ids(s) == {s.rows[i].id : i \in DOMAIN s.rows}

containsFacts(a, b) == Ids(b) \subseteq Ids(a)

pricingEvidence(s) == Cardinality({i \in DOMAIN s.rows : s.rows[i].cost # "unknown"})

\* Rows of one identity may gain a price; two known prices must agree.
enrichable(a, b) ==
    \A i \in DOMAIN a.rows, j \in DOMAIN b.rows :
        (a.rows[i].id = b.rows[j].id /\ "unknown" \notin {a.rows[i].cost, b.rows[j].cost})
        => a.rows[i].cost = b.rows[j].cost

\* A source is [id, rev, snap, inconsistent]; rev = 0: nothing stored.  The
\* candidates are the positions of those that take part: mergeCandidates drops
\* the deleted ones; the union of Cursor's dashboard periods is not modelled.
Candidates(sources) ==
    {i \in DOMAIN sources : sources[i].rev > 0 /\ ~sources[i].snap.deleted}

Beats(inc, cur, fence, hasPrevious) ==
    /\ ~fence
    /\ containsFacts(inc, cur)
    /\ \/ ~containsFacts(cur, inc)
       \/ /\ enrichable(cur, inc)
          /\ \/ pricingEvidence(inc) > pricingEvidence(cur)
             \/ ~hasPrevious /\ inc.complete /\ ~cur.complete

\* Mutant: the latest revision always replaces the accepted one.
replacesAlways(mine, previous) == TRUE

\* A partial revision does not erase evidence accepted as complete.
replaces(mine, previous) == mine.snap.complete \/ containsFacts(mine.snap, previous.snap)

\* previous: the accepted canonical snapshot [id, rev, snap, fence]; its own
\* source, if that is still a candidate.
Accepted(sources, previous) == {i \in Candidates(sources) : sources[i].id = previous.id}

\* A complete correction of the accepted source is not undone by copies.
correctionFence(sources, previous) ==
    \E i \in Accepted(sources, previous) :
        \/ previous.fence
        \/ /\ sources[i].snap.complete
           /\ sources[i].rev > previous.rev
           /\ ~containsFacts(sources[i].snap, previous.snap)

\* Where the arbitration starts: with the accepted source, or, where a partial
\* revision of it lacks facts, with the accepted snapshot; else with the first.
KeptSnapshot(previous) ==
    [id |-> previous.id, rev |-> previous.rev, inconsistent |-> TRUE,
     snap |-> [rows |-> previous.snap.rows, complete |-> FALSE,
               deleted |-> previous.snap.deleted]]

Selected(sources, previous) ==
    LET cands == Candidates(sources)
        mine  == sources[CHOOSE i \in Accepted(sources, previous) : TRUE]
    IN IF Accepted(sources, previous) = {}
       THEN sources[CHOOSE i \in cands : \A j \in cands : i <= j]
       ELSE IF replaces(mine, previous) THEN mine ELSE KeptSnapshot(previous)

\* The next candidate replaces the selected one if it beats it.
Better(sources, previous, i, selected) ==
    IF /\ i \in Candidates(sources)
       /\ sources[i].id # selected.id
       /\ Beats(sources[i].snap, selected.snap, correctionFence(sources, previous),
                Accepted(sources, previous) # {})
    THEN sources[i] ELSE selected

\* What is selected after the first n sources.
Selections(sources, previous) ==
    LET pick[n \in 0..Len(sources)] ==
            IF n = 0 THEN Selected(sources, previous)
            ELSE Better(sources, previous, n, pick[n - 1])
    IN pick

Conflict(sources, chosen, fence) ==
    \/ chosen.inconsistent
    \/ \E i \in {j \in Candidates(sources) : sources[j].id # chosen.id} :
          \/ sources[i].inconsistent
          \/ fence /\ ~containsFacts(chosen.snap, sources[i].snap)
          \/ /\ ~containsFacts(chosen.snap, sources[i].snap)
             /\ ~containsFacts(sources[i].snap, chosen.snap)
          \/ ~enrichable(chosen.snap, sources[i].snap)

DecideSnapshot(sources, previous) ==
    LET chosen == Selections(sources, previous)[Len(sources)]
        fence  == correctionFence(sources, previous)
    IN [id |-> chosen.id, rev |-> chosen.rev, snap |-> chosen.snap,
        conflict |-> Conflict(sources, chosen, fence), fence |-> fence]
=============================================================================
