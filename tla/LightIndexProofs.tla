------------------------------ MODULE LightIndexProofs ------------------------------
(***************************************************************************)
(* Proofs about the light index, for any sessions, files and disturbances: *)
(* the rows of a session's scans are consistent and of one content, what   *)
(* is shown as complete is, and what is shown is kept.                     *)
(*                                                                         *)
(* The first part is about one session and has no primes: what each        *)
(* transaction of the store does to a row m and its scans.  The second     *)
(* part is the inductive invariant.  It needs what the worker remembers:   *)
(* what a pass loaded of a session stays true of a scan that is being      *)
(* built until it is the session's turn, and a scan that is being read is  *)
(* one of the snapshot it is read from.                                    *)
(***************************************************************************)
EXTENDS LightIndex, TLAPS

\* A leaf that names no prover is tried with SMT, then with Zenon.
USE SMTT(30), ZenonT(30)

PathT  == Paths \cup {"none"}
StateT == {"pending", "scanning", "partial", "complete", "failed", "deferred"}
FileT  == [path : PathT, inode : Int, ver : Int, mtime : Int, size : Nat]
MetaT  == [gen : Nat \ {0}, path : PathT, stamp : Nat, state : StateT, active : Nat, pending : Nat]
ScanT  == [gen : Nat \ {0}, path : PathT, inode : Int, ver : Int, size : Nat, mtime : Int,
           parser : Nat, offset : Nat, counted : SUBSET (Int \X Nat), complete : BOOLEAN,
           state : {"building", "active"}]
ViewT  == [id : Sessions, meta : MetaT, active : ScanT \cup {NoScan}, pending : ScanT \cup {NoScan}]

\* A scan that is being built beside the visible one has at least its size,
\* where both are of one content.
Longer(m, rows) == \A q, r \in rows :
    m # NoMeta /\ q.gen = m.active /\ r.gen = m.pending /\ q.ver = r.ver => q.size <= r.size

\* All there is to say about one session.
Good(m, rows) ==
    /\ m \in MetaT \cup {NoMeta}
    /\ rows \subseteq ScanT
    /\ Consistent(m, rows)
    /\ Honest(m, rows)
    /\ Longer(m, rows)
    /\ \A r \in rows : Pure(r) /\ r.offset <= r.size

-----------------------------------------------------------------------------
\* The scan of a generation is the row with it, if there is one.
LEMMA ScanIs ==
    ASSUME NEW rows, \A q, r \in rows : q.gen = r.gen => q = r, NEW r \in rows
    PROVE  Scan(rows, r.gen) = r
<1>1. \E q \in rows : q.gen = r.gen
  OBVIOUS
<1>2. (CHOOSE q \in rows : q.gen = r.gen) \in rows /\ (CHOOSE q \in rows : q.gen = r.gen).gen = r.gen
  BY <1>1
<1> QED BY <1>1, <1>2 DEF Scan

\* A row that exists is the one Scan returns.
LEMMA ScanHas ==
    ASSUME NEW rows, NEW g, Has(rows, g)
    PROVE  Scan(rows, g) \in rows /\ Scan(rows, g).gen = g
<1>1. PICK r \in rows : r.gen = g
  BY DEF Has
<1>2. (CHOOSE q \in rows : q.gen = g) \in rows /\ (CHOOSE q \in rows : q.gen = g).gen = g
  BY <1>1
<1> QED BY <1>1, <1>2 DEF Scan

\* Where there is no row, Scan returns the zero one.
LEMMA ScanHasNot ==
    ASSUME NEW rows, NEW g, ~Has(rows, g)
    PROVE  Scan(rows, g) = NoScan
BY DEF Scan, Has

\* No session and no scan is its placeholder.
LEMMA Placeholders ==
    /\ \A m \in MetaT : m # NoMeta
    /\ \A r \in ScanT : r # NoScan
    /\ \A f \in FileT : f # NoFile
<1>1. ASSUME NEW m \in MetaT PROVE m # NoMeta
  <2>1. m.gen # 0 BY DEF MetaT
  <2>2. NoMeta.gen = 0 BY DEF NoMeta
  <2> QED BY <2>1, <2>2
<1>2. ASSUME NEW r \in ScanT PROVE r # NoScan
  <2>1. r.gen # 0 BY DEF ScanT
  <2>2. NoScan.gen = 0 BY DEF NoScan
  <2> QED BY <2>1, <2>2
<1>3. ASSUME NEW f \in FileT PROVE f # NoFile
  <2>1. f.size >= 0 BY DEF FileT
  <2>2. NoFile.size = -1 BY DEF NoFile
  <2> QED BY <2>1, <2>2
<1> QED BY <1>1, <1>2, <1>3

\* In a good session, the scans its row names are there.
LEMMA Named ==
    ASSUME NEW m, NEW rows, Good(m, rows), m # NoMeta, NEW g \in {m.active, m.pending}, g # 0
    PROVE  Scan(rows, g) \in rows /\ Scan(rows, g).gen = g /\ Scan(rows, g) \in ScanT
BY ScanHas DEF Good, Consistent

\* Marking a session keeps it good; it is marked "complete" only if it is.
Marked(m, st) == [m EXCEPT !.state = st]

\* Marking a session keeps it in order, if only a completed scan makes it complete.
LEMMA GoodMark ==
    ASSUME NEW m, NEW rows, Good(m, rows), m # NoMeta, NEW st \in StateT,
           st = "complete" => /\ m.pending = 0
                              /\ Scan(rows, m.active) # NoScan /\ Scan(rows, m.active).complete
    PROVE  LET n == Marked(m, st) IN
           n # NoMeta /\ n.active = m.active /\ n.pending = m.pending /\ Good(n, rows)
<1> DEFINE n == Marked(m, st)
<1>1. m \in MetaT
  BY DEF Good
<1>2. n \in MetaT /\ n.active = m.active /\ n.pending = m.pending /\ n.state = st
  BY <1>1 DEF MetaT, Marked
<1>3. n # NoMeta
  BY <1>2, Placeholders
<1> HIDE DEF n
<1>4. Consistent(n, rows)
  BY <1>2, <1>3 DEF Good, Consistent
<1>5. Honest(n, rows)
  BY <1>2, <1>3 DEF Honest
<1>6. Longer(n, rows)
  BY <1>2, <1>3 DEF Good, Longer
<1>7. Good(n, rows)
  BY <1>2, <1>4, <1>5, <1>6 DEF Good
<1> QED BY <1>2, <1>3, <1>7 DEF n

\* A refresh of the metadata keeps the scans of a session, or starts without any.
Renewed(m, g, p, t) == [m EXCEPT !.gen = g, !.path = p, !.stamp = t]

\* So does a refresh of its metadata.
LEMMA GoodRenewed ==
    ASSUME NEW m, NEW rows, Good(m, rows), m # NoMeta,
           NEW g \in Nat \ {0}, NEW p \in PathT, NEW t \in Nat
    PROVE  LET n == Renewed(m, g, p, t) IN
           n # NoMeta /\ n.active = m.active /\ n.pending = m.pending /\ Good(n, rows)
<1> DEFINE n == Renewed(m, g, p, t)
<1>1. m \in MetaT
  BY DEF Good
<1>2. n \in MetaT /\ n.active = m.active /\ n.pending = m.pending /\ n.state = m.state
  BY <1>1, Zenon DEF MetaT, Renewed
<1>3. n # NoMeta
  BY <1>2, Placeholders
<1> HIDE DEF n
<1>4. Consistent(n, rows)
  BY <1>2, <1>3 DEF Good, Consistent
<1>5. Honest(n, rows) /\ Longer(n, rows)
  BY <1>2, <1>3 DEF Good, Honest, Longer
<1>6. Good(n, rows)
  BY <1>2, <1>4, <1>5 DEF Good
<1> QED BY <1>2, <1>3, <1>6 DEF n

\* A session that is listed for the first time is in order.
LEMMA GoodNew ==
    ASSUME NEW g \in Nat \ {0}, NEW p \in PathT, NEW t \in Nat
    PROVE  Good([gen |-> g, path |-> p, stamp |-> t, state |-> "pending",
                 active |-> 0, pending |-> 0], {})
<1> DEFINE n == [gen |-> g, path |-> p, stamp |-> t, state |-> "pending", active |-> 0, pending |-> 0]
<1>1. n \in MetaT /\ n.active = 0 /\ n.pending = 0 /\ n.state = "pending"
  BY DEF MetaT, StateT
<1>2. n # NoMeta
  BY <1>1, Placeholders
<1> HIDE DEF n
<1> QED BY <1>1, <1>2 DEF Good, Consistent, Honest, Longer, n

-----------------------------------------------------------------------------
\* What is known of the scan that is being built after a transaction of the
\* store, and of what is shown.
Builds(m, rows, f) ==
    /\ m # NoMeta /\ m.pending # 0
    /\ Scan(rows, m.pending).ver = f.ver
    /\ Scan(rows, m.pending).size = f.size
    /\ Scan(rows, m.pending).parser = parser

\* No scan is longer than the file it was read from.
Covers(f, rows) == \A r \in rows : r.ver = f.ver => r.size <= f.size

\* A new scan is an empty row for the file it is opened on.
LEMMA NewScanType ==
    ASSUME NEW f \in FileT, NEW g \in Nat \ {0}, parser \in Nat
    PROVE  LET r == NewScan(f, g) IN
           /\ r \in ScanT /\ r.gen = g /\ r.ver = f.ver /\ r.size = f.size /\ r.parser = parser
           /\ r.offset = 0 /\ r.state = "building" /\ ~r.complete /\ Pure(r) /\ r.offset <= r.size
<1> DEFINE r == NewScan(f, g)
<1>1. r \in ScanT
  BY DEF NewScan, ScanT, FileT
<1>2. r.gen = g /\ r.ver = f.ver /\ r.size = f.size /\ r.parser = parser /\ r.offset = 0
  BY DEF NewScan
<1>3. r.state = "building" /\ ~r.complete /\ r.counted = {}
  BY DEF NewScan
<1> QED BY <1>1, <1>2, <1>3 DEF Pure, FileT

\* The row of a session that a scan is started of.
Started(m, g) == [m EXCEPT !.pending = g, !.state = "scanning"]

\* Starting a scan names the pending generation and leaves the active one.
LEMMA StartedMeta ==
    ASSUME NEW m \in MetaT, NEW g \in Nat
    PROVE  LET n == Started(m, g) IN
           /\ n \in MetaT /\ n # NoMeta /\ n.active = m.active /\ n.pending = g
           /\ n.state = "scanning"
<1> DEFINE n == Started(m, g)
<1>1. n \in MetaT /\ n.active = m.active /\ n.pending = g /\ n.state = "scanning"
  BY Zenon DEF MetaT, StateT, Started
<1> QED BY <1>1, Placeholders

\* Of the scans of a session, only the visible one is left.
OnlyVisible(m, rows) ==
    /\ rows \subseteq ScanT
    /\ \A r \in rows : r.gen = m.active /\ r.state = "active" /\ Pure(r) /\ r.offset <= r.size
    /\ \A q, r \in rows : q = r
    /\ m.active # 0 => rows # {}

\* A new scan beside the visible one.
LEMMA GoodBeside ==
    ASSUME NEW m \in MetaT, NEW kept, NEW f \in FileT, parser \in Nat,
           OnlyVisible(m, kept), Covers(f, kept)
    PROVE  LET n == Started(m, m.active + 1)
               rows == kept \cup {NewScan(f, m.active + 1)} IN
           /\ Good(n, rows)
           /\ Builds(n, rows, f)
           /\ \A r \in kept : Visible(n, rows) = r
<1> DEFINE n == Started(m, m.active + 1)
           new == NewScan(f, m.active + 1)
           rows == kept \cup {new}
<1> USE DEF OnlyVisible
<1>1. m.active \in Nat /\ m.active + 1 \in Nat \ {0}
  BY DEF MetaT
<1>2. /\ n \in MetaT /\ n # NoMeta /\ n.active = m.active /\ n.pending = m.active + 1
      /\ n.state = "scanning"
  BY <1>1, StartedMeta, Zenon
<1>3. /\ new \in ScanT /\ new.gen = m.active + 1 /\ new.ver = f.ver /\ new.size = f.size
      /\ new.parser = parser /\ new.offset = 0 /\ new.state = "building" /\ ~new.complete
      /\ Pure(new) /\ new.offset <= new.size
  BY <1>1, NewScanType
<1> HIDE DEF n, new
<1>4. rows \subseteq ScanT /\ \A r \in rows : Pure(r) /\ r.offset <= r.size
  BY <1>3
<1>5. \A q, r \in rows : q.gen = r.gen => q = r
  BY <1>1, <1>3
<1>6. Consistent(n, rows)
  <2>1. \A r \in rows : r.gen \in {n.active, n.pending}
    BY <1>2, <1>3
  <2>2. \A g \in {n.active, n.pending} : g # 0 => Has(rows, g)
    BY <1>2, <1>3 DEF Has
  <2>3. \A r \in rows : (r.state = "building") <=> (r.gen = n.pending)
    BY <1>1, <1>2, <1>3
  <2>4. n.pending \in {0, n.active, n.active + 1} /\ n.pending # 0
    BY <1>1, <1>2
  <2> QED BY <1>2, <1>5, <2>1, <2>2, <2>3, <2>4 DEF Consistent
<1>7. Longer(n, rows)
  BY <1>1, <1>2, <1>3 DEF Longer, Covers
<1>8. Good(n, rows)
  BY <1>2, <1>4, <1>6, <1>7 DEF Good, Honest
<1>9. Scan(rows, n.pending) = new
  <2>1. new \in rows /\ new.gen = n.pending
    BY <1>2, <1>3
  <2> QED BY <1>5, <2>1, ScanIs, Zenon
<1>10. Builds(n, rows, f)
  BY <1>1, <1>2, <1>3, <1>9 DEF Builds
<1>11. ASSUME NEW r \in kept PROVE Visible(n, rows) = r
  <2>1. r \in rows /\ r.gen = n.active
    BY <1>2
  <2> QED BY <1>2, <1>5, <2>1, ScanIs, Zenon DEF Visible
<1> QED BY <1>8, <1>10, <1>11 DEF n, new

\* A visible scan that only changes its state, or nothing, is kept.
LEMMA KeepsSame ==
    ASSUME NEW q \in ScanT \cup {NoScan}, NEW r \in ScanT \cup {NoScan},
           q # NoScan => r # NoScan /\ r.gen = q.gen /\ r.offset >= q.offset
    PROVE  Keeps(q, r)
BY DEF Keeps

\* What a reader sees is a scan row or nothing.
LEMMA VisibleType ==
    ASSUME NEW m, NEW rows, Good(m, rows)
    PROVE  Visible(m, rows) \in ScanT \cup {NoScan}
<1>1. CASE m = NoMeta
  BY <1>1 DEF Visible
<1>2. CASE m # NoMeta /\ Has(rows, m.active)
  BY <1>2, ScanHas DEF Visible, Good
<1>3. CASE m # NoMeta /\ ~Has(rows, m.active)
  BY <1>3, ScanHasNot DEF Visible
<1> QED BY <1>1, <1>2, <1>3

\* StartLightTokenRebuild.
LEMMA GoodRebuild ==
    ASSUME NEW m, NEW rows, Good(m, rows), m # NoMeta, m.pending = 0,
           NEW f \in FileT, parser \in Nat, Covers(f, rows)
    PROVE  LET n == Started(m, m.active + 1)
               rr == Put(rows, NewScan(f, m.active + 1)) IN
           Good(n, rr) /\ Builds(n, rr, f) /\ Keeps(Visible(m, rows), Visible(n, rr))
<1> DEFINE n == Started(m, m.active + 1)
           new == NewScan(f, m.active + 1)
           rr == Put(rows, new)
           kept == {r \in rows : r.gen # new.gen}
<1>1. m \in MetaT /\ m.active \in Nat /\ m.active + 1 \in Nat \ {0}
  BY DEF Good, MetaT
<1>2. new.gen = m.active + 1
  BY <1>1, NewScanType
<1>3. \A r \in rows : r \in ScanT /\ r.gen # 0 /\ r.gen = m.active
  BY DEF Good, Consistent, ScanT
<1>4. kept = rows
  BY <1>1, <1>2, <1>3
<1>5. \A r \in rows : r.state = "active"
  BY <1>3 DEF Good, Consistent, ScanT
<1>6. \A q, r \in rows : q = r
  BY <1>3 DEF Good, Consistent
<1>7. m.active # 0 => rows # {}
  BY DEF Good, Consistent, Has
<1>8. Good(n, rows \cup {new}) /\ Builds(n, rows \cup {new}, f) /\ \A r \in rows : Visible(n, rows \cup {new}) = r
  <2>1. \A r \in rows : r.gen = m.active /\ r.state = "active" /\ Pure(r) /\ r.offset <= r.size
    BY <1>3, <1>5 DEF Good
  <2>2. rows \subseteq ScanT
    BY DEF Good
  <2>3. OnlyVisible(m, rows)
    BY <1>6, <1>7, <2>1, <2>2 DEF OnlyVisible
  <2> QED BY <1>1, <2>3, GoodBeside, ZenonT(40)
<1>9. rr = rows \cup {new}
  BY <1>4 DEF Put
<1>10. Keeps(Visible(m, rows), Visible(n, rr))
  <2>1. CASE Visible(m, rows) = NoScan
    BY <2>1 DEF Keeps
  <2>2. CASE Visible(m, rows) # NoScan
    <3>1. Has(rows, m.active)
      BY <2>2, ScanHasNot DEF Visible
    <3>2. Visible(m, rows) \in rows
      BY <3>1, ScanHas DEF Visible
    <3>3. Visible(n, rr) = Visible(m, rows)
      BY <1>8, <1>9, <3>2
    <3>4. Visible(m, rows) \in ScanT
      BY <3>2 DEF Good
    <3> QED BY <3>3, <3>4, <2>2, KeepsSame DEF ScanT
  <2> QED BY <2>1, <2>2
<1> QED BY <1>8, <1>9, <1>10

\* RestartLightTokenPendingRebuild: what it keeps.
Remaining(m, rows) ==
    IF m.pending = m.active
    THEN Put(rows, [Scan(rows, m.active) EXCEPT !.state = "active"])
    ELSE {r \in rows : r.gen # m.pending}

\* Restarting a scan begins a new one and keeps what a reader sees.
LEMMA GoodRestart ==
    ASSUME NEW m, NEW rows, Good(m, rows), m # NoMeta, m.pending # 0,
           NEW f \in FileT, parser \in Nat, Covers(f, rows)
    PROVE  LET n == Started(m, m.active + 1)
               rr == Remaining(m, rows) \cup {NewScan(f, m.active + 1)} IN
           Good(n, rr) /\ Builds(n, rr, f) /\ Keeps(Visible(m, rows), Visible(n, rr))
<1> DEFINE n == Started(m, m.active + 1)
           kept == Remaining(m, rows)
           rr == kept \cup {NewScan(f, m.active + 1)}
<1>1. m \in MetaT /\ m.active \in Nat /\ m.pending \in Nat
  BY DEF Good, MetaT
<1>2. \A r \in rows : r \in ScanT /\ Pure(r) /\ r.offset <= r.size /\ r.gen # 0
  BY DEF Good, ScanT
<1>3. SUFFICES OnlyVisible(m, kept) /\ Covers(f, kept)
                 /\ (Visible(m, rows) # NoScan => \E r \in kept :
                        /\ r.gen = Visible(m, rows).gen /\ r.offset = Visible(m, rows).offset)
  <2>1. Good(n, rr) /\ Builds(n, rr, f) /\ \A r \in kept : Visible(n, rr) = r
    BY <1>1, <1>3, GoodBeside, Zenon
  <2>2. Keeps(Visible(m, rows), Visible(n, rr))
    <3>1. CASE Visible(m, rows) = NoScan
      BY <3>1 DEF Keeps
    <3>2. CASE Visible(m, rows) # NoScan
      <4>1. PICK r \in kept : r.gen = Visible(m, rows).gen /\ r.offset = Visible(m, rows).offset
        BY <1>3, <3>2
      <4>2. Visible(n, rr) = r /\ r \in ScanT
        BY <1>3, <2>1 DEF OnlyVisible
      <4>3. r # NoScan /\ r.offset \in Nat
        BY <4>2, Placeholders DEF ScanT
      <4>4. Visible(m, rows) \in ScanT \cup {NoScan}
        BY VisibleType
      <4> HIDE DEF n, rr, kept
      <4>5. r.offset >= Visible(m, rows).offset
        BY <4>1, <4>3
      <4> QED BY <4>1, <4>2, <4>3, <4>4, <4>5, KeepsSame
    <3> QED BY <3>1, <3>2
  <2> QED BY <2>1, <2>2
<1>4. CASE m.pending = m.active
  <2> DEFINE a == Scan(rows, m.active)
             b == [a EXCEPT !.state = "active"]
  <2>1. a \in rows /\ a.gen = m.active /\ a \in ScanT
    BY <1>4, Named
  <2>2. /\ b \in ScanT /\ b.gen = a.gen /\ b.ver = a.ver /\ b.size = a.size /\ b.offset = a.offset
        /\ b.complete = a.complete /\ b.counted = a.counted /\ b.parser = a.parser
        /\ b.state = "active"
    BY <2>1 DEF ScanT
  <2>3. Pure(b) /\ b.offset <= b.size
    BY <1>2, <2>1, <2>2 DEF Pure
  <2> HIDE DEF b
  <2>4. kept = {b}
    <3>1. \A r \in rows : r.gen = m.active
      BY <1>4 DEF Good, Consistent
    <3>2. kept = Put(rows, b)
      BY <1>4 DEF Remaining, b
    <3> QED BY <2>1, <2>2, <3>1, <3>2 DEF Put
  <2>5. Visible(m, rows) = a
    BY DEF Visible
  <2> HIDE DEF a, kept
  <2>6. OnlyVisible(m, kept)
    BY <2>1, <2>2, <2>3, <2>4 DEF OnlyVisible
  <2>7. Covers(f, kept)
    BY <2>1, <2>2, <2>4 DEF Covers
  <2> QED BY <2>1, <2>2, <2>4, <2>5, <2>6, <2>7
<1>5. CASE m.pending # m.active
  <2>1. kept = {r \in rows : r.gen # m.pending}
    BY <1>5 DEF Remaining
  <2> HIDE DEF kept
  <2>2. \A r \in kept : r \in rows /\ r.gen = m.active /\ r.state = "active"
    BY <1>2, <1>5, <2>1 DEF Good, Consistent, ScanT
  <2>3. \A q, r \in kept : q = r
    BY <2>2 DEF Good, Consistent
  <2>4. m.active # 0 => Scan(rows, m.active) \in kept /\ Scan(rows, m.active).gen = m.active
    BY <1>5, <2>1, Named
  <2>5. OnlyVisible(m, kept)
    BY <1>2, <2>2, <2>3, <2>4 DEF OnlyVisible
  <2>6. Covers(f, kept)
    BY <2>2 DEF Covers
  <2>7. Visible(m, rows) # NoScan => Visible(m, rows) \in kept
    <3>1. Visible(m, rows) # NoScan => Has(rows, m.active)
      BY ScanHasNot DEF Visible
    <3>2. Has(rows, m.active) => m.active # 0
      BY <1>2 DEF Has
    <3> QED BY <2>4, <3>1, <3>2 DEF Visible
  <2> QED BY <2>5, <2>6, <2>7
<1> QED BY <1>4, <1>5

\* The scan b is a later state of the scan p that is being built.
Follows(p, b) ==
    /\ p \in ScanT /\ b \in ScanT /\ b.gen = p.gen /\ b.ver = p.ver /\ b.state = "building"
    /\ b.size >= p.size /\ b.offset >= p.offset /\ b.offset <= b.size /\ Pure(b)

\* Storing a later state of the scan being built keeps what a reader sees.
LEMMA GoodPut ==
    ASSUME NEW m, NEW rows, Good(m, rows), m # NoMeta, m.pending # 0,
           NEW n \in MetaT, n.active = m.active, n.pending = m.pending, n.state # "complete",
           NEW b, Follows(Scan(rows, m.pending), b)
    PROVE  /\ Good(n, Put(rows, b))
           /\ Scan(Put(rows, b), n.pending) = b
           /\ Keeps(Visible(m, rows), Visible(n, Put(rows, b)))
<1> DEFINE p == Scan(rows, m.pending)
           rr == Put(rows, b)
<1>1. m \in MetaT /\ m.active \in Nat /\ m.pending \in Nat
  BY DEF Good, MetaT
<1>2. p \in rows /\ p.gen = m.pending /\ p \in ScanT
  BY Named
<1>3. n # NoMeta
  BY Placeholders
<1>4. b \in ScanT /\ b.gen = m.pending /\ b \in rr
  BY <1>2 DEF Follows, Put
<1>5. \A r \in rr : r = b \/ (r \in rows /\ r.gen # m.pending)
  BY <1>4 DEF Put
<1>6. \A r \in rows : r.gen # m.pending => r \in rr
  BY <1>4 DEF Put
<1> HIDE DEF rr, p
<1>7. \A q, r \in rr : q.gen = r.gen => q = r
  BY <1>4, <1>5 DEF Good, Consistent
<1>8. Consistent(n, rr)
  <2>1. \A r \in rr : r.gen \in {n.active, n.pending}
    BY <1>4, <1>5 DEF Good, Consistent
  <2>2. \A g \in {n.active, n.pending} : g # 0 => Has(rr, g)
    <3>1. Has(rr, n.pending)
      BY <1>4 DEF Has
    <3>2. n.active # 0 /\ n.active # n.pending => Has(rr, n.active)
      <4>1. n.active # 0 => Has(rows, n.active)
        BY DEF Good, Consistent
      <4> QED BY <1>6, <4>1 DEF Has
    <3> QED BY <3>1, <3>2
  <2>3. \A r \in rr : (r.state = "building") <=> (r.gen = n.pending)
    BY <1>4, <1>5 DEF Good, Consistent, Follows
  <2>4. n.pending \in {0, n.active, n.active + 1}
    BY DEF Good, Consistent
  <2> QED BY <1>3, <1>7, <2>1, <2>2, <2>3, <2>4 DEF Consistent
<1>9. Longer(n, rr)
  <2> SUFFICES ASSUME NEW q \in rr, NEW r \in rr, q.gen = n.active, r.gen = n.pending, q.ver = r.ver
               PROVE  q.size <= r.size
    BY DEF Longer
  <2>1. r = b
    BY <1>5
  <2>2. CASE q = b
    BY <1>4, <2>1, <2>2 DEF ScanT
  <2>3. CASE q # b
    <3>1. q \in rows
      BY <1>5, <2>3
    <3>2. p.ver = b.ver /\ p.size <= b.size
      BY <1>2, <1>4 DEF Follows, p, ScanT
    <3>3. q.size <= p.size
      BY <1>2, <2>1, <3>1, <3>2 DEF Good, Longer
    <3>4. q.size \in Nat /\ p.size \in Nat /\ b.size \in Nat
      BY <1>2, <1>4, <3>1 DEF Good, ScanT
    <3> QED BY <2>1, <3>2, <3>3, <3>4
  <2> QED BY <2>2, <2>3
<1>10. \A r \in rr : r \in ScanT /\ Pure(r) /\ r.offset <= r.size
  BY <1>4, <1>5 DEF Good, Follows
<1>11. Good(n, rr)
  BY <1>8, <1>9, <1>10 DEF Good, Honest
<1>12. Scan(rr, n.pending) = b
  BY <1>4, <1>7, ScanIs
<1>13. Keeps(Visible(m, rows), Visible(n, rr))
  <2>1. CASE m.active = m.pending
    <3>1. Visible(m, rows) = p /\ Visible(n, rr) = b
      BY <1>3, <1>12, <2>1 DEF Visible, p
    <3>2. b # NoScan
      BY <1>4, Placeholders
    <3>3. b.offset >= p.offset
      BY DEF Follows, p
    <3> QED BY <1>2, <1>4, <3>1, <3>2, <3>3, KeepsSame
  <2>2. CASE m.active # m.pending /\ Has(rows, m.active)
    <3> DEFINE a == Scan(rows, m.active)
    <3>1. a \in rows /\ a.gen = m.active
      BY <2>2, ScanHas
    <3>2. a \in rr
      BY <1>6, <2>2, <3>1
    <3>3. Scan(rr, n.active) = a
      BY <1>7, <3>1, <3>2, ScanIs
    <3>4. Visible(m, rows) = a /\ Visible(n, rr) = a
      BY <1>3, <3>3 DEF Visible
    <3>5. a \in ScanT
      BY <3>1 DEF Good
    <3> HIDE DEF a
    <3> QED BY <3>4, <3>5, KeepsSame DEF ScanT
  <2>3. CASE ~Has(rows, m.active)
    BY <2>3, ScanHasNot DEF Visible, Keeps
  <2> QED BY <2>1, <2>2, <2>3
<1> QED BY <1>11, <1>12, <1>13 DEF rr

\* A scan that is taken to a longer file of the same content.
LEMMA GrownFollows ==
    ASSUME NEW r \in ScanT, NEW f \in FileT, Pure(r), r.offset <= r.size, r.size <= f.size
    PROVE  LET b == Grown(r, f) IN
           /\ b \in ScanT /\ b.gen = r.gen /\ b.ver = r.ver /\ b.size = f.size /\ b.parser = r.parser
           /\ b.offset = r.offset /\ b.state = r.state /\ ~b.complete /\ Pure(b)
           /\ b.offset <= b.size
           /\ r.state = "building" => Follows(r, b)
<1> DEFINE b == Grown(r, f)
<1>1. b \in ScanT
  BY Zenon DEF Grown, ScanT, FileT
<1>2. /\ b.gen = r.gen /\ b.ver = r.ver /\ b.size = f.size /\ b.parser = r.parser
      /\ b.offset = r.offset /\ b.state = r.state /\ b.complete = FALSE /\ b.counted = r.counted
  BY DEF Grown, ScanT
<1>3. r.size \in Nat /\ f.size \in Nat /\ r.offset \in Nat
  BY DEF ScanT, FileT
<1> HIDE DEF b
<1>4. Pure(b) /\ b.offset <= b.size
  BY <1>2, <1>3 DEF Pure
<1>5. r.state = "building" => Follows(r, b)
  BY <1>1, <1>2, <1>3, <1>4 DEF Follows
<1> QED BY <1>1, <1>2, <1>4, <1>5 DEF b

\* StartLightTokenAppend.
LEMMA GoodAppend ==
    ASSUME NEW m, NEW rows, Good(m, rows), m # NoMeta, m.active # 0, m.pending = 0,
           NEW f \in FileT, Scan(rows, m.active).ver = f.ver,
           Scan(rows, m.active).parser = parser, Scan(rows, m.active).size <= f.size
    PROVE  LET n == Started(m, m.active)
               rr == Put(rows, [Grown(Scan(rows, m.active), f) EXCEPT !.state = "building"]) IN
           Good(n, rr) /\ Builds(n, rr, f) /\ Keeps(Visible(m, rows), Visible(n, rr))
<1> DEFINE n == Started(m, m.active)
           a == Scan(rows, m.active)
           c == Grown(a, f)
           b == [c EXCEPT !.state = "building"]
           rr == Put(rows, b)
<1>1. m \in MetaT /\ m.active \in Nat
  BY DEF Good, MetaT
<1>2. a \in rows /\ a.gen = m.active /\ a \in ScanT /\ Pure(a) /\ a.offset <= a.size
  BY Named DEF Good
<1>3. /\ n \in MetaT /\ n # NoMeta /\ n.active = m.active /\ n.pending = m.active
      /\ n.state = "scanning"
  BY <1>1, StartedMeta
<1>4. /\ c \in ScanT /\ c.gen = a.gen /\ c.ver = a.ver /\ c.size = f.size /\ c.parser = a.parser
      /\ c.offset = a.offset /\ Pure(c) /\ c.offset <= c.size
  BY <1>2, GrownFollows
<1> HIDE DEF n, a, c
<1>5. /\ b \in ScanT /\ b.gen = c.gen /\ b.ver = c.ver /\ b.size = c.size /\ b.parser = c.parser
      /\ b.offset = c.offset /\ b.counted = c.counted /\ b.complete = c.complete
      /\ b.state = "building"
  BY <1>4 DEF ScanT
<1> HIDE DEF b
<1>6. Pure(b) /\ b.offset <= b.size
  BY <1>4, <1>5 DEF Pure
<1>7. \A r \in rows : r.gen = m.active
  BY DEF Good, Consistent, ScanT
<1>8. rr = {b}
  BY <1>2, <1>4, <1>5, <1>7 DEF Put
<1> HIDE DEF rr
<1>9. Consistent(n, rr)
  BY <1>2, <1>3, <1>4, <1>5, <1>8 DEF Consistent, Has
<1>10. Longer(n, rr)
  BY <1>5, <1>8 DEF Longer, ScanT
<1>11. Good(n, rr)
  BY <1>3, <1>5, <1>6, <1>8, <1>9, <1>10 DEF Good, Honest
<1>12. Scan(rr, m.active) = b
  BY <1>2, <1>4, <1>5, <1>8, ScanIs, ZenonT(40)
<1>13. Builds(n, rr, f)
  BY <1>3, <1>4, <1>5, <1>12 DEF Builds, a
<1>14. Keeps(Visible(m, rows), Visible(n, rr))
  <2>1. Visible(m, rows) = a /\ Visible(n, rr) = b
    BY <1>3, <1>12 DEF Visible, a
  <2>2. b # NoScan /\ b.offset >= a.offset
    BY <1>2, <1>4, <1>5, Placeholders DEF ScanT
  <2> QED BY <1>2, <1>4, <1>5, <2>1, <2>2, KeepsSame
<1> QED BY <1>11, <1>13, <1>14 DEF n, rr, b, c, a

\* UpdateLightTokenPendingIdentity.
LEMMA GoodUpdate ==
    ASSUME NEW m, NEW rows, Good(m, rows), m # NoMeta, m.pending # 0,
           NEW f \in FileT, Scan(rows, m.pending).ver = f.ver,
           Scan(rows, m.pending).parser = parser, Scan(rows, m.pending).size <= f.size
    PROVE  LET rr == Put(rows, Grown(Scan(rows, m.pending), f)) IN
           Good(m, rr) /\ Builds(m, rr, f) /\ Keeps(Visible(m, rows), Visible(m, rr))
<1> DEFINE p == Scan(rows, m.pending)
           b == Grown(p, f)
<1>1. m \in MetaT /\ m.state # "complete"
  BY DEF Good, Honest
<1>2. p \in rows /\ p.gen = m.pending /\ p \in ScanT
  BY Named
<1>3. p.state = "building" /\ Pure(p) /\ p.offset <= p.size
  BY <1>2 DEF Good, Consistent
<1>4. Follows(p, b) /\ b.ver = p.ver /\ b.size = f.size /\ b.parser = p.parser
  BY <1>2, <1>3, GrownFollows
<1> HIDE DEF b
<1>5. /\ Good(m, Put(rows, b)) /\ Scan(Put(rows, b), m.pending) = b
      /\ Keeps(Visible(m, rows), Visible(m, Put(rows, b)))
  BY <1>1, <1>4, GoodPut
<1> QED BY <1>4, <1>5 DEF Builds, b

\* One batch read from a file of the content of the scan.
LEMMA AdvancedFollows ==
    ASSUME NEW p \in ScanT, NEW f \in FileT, Pure(p), p.offset <= p.size, p.state = "building",
           f.ver = p.ver, parser = p.parser
    PROVE  LET b == Advanced(p, f) IN
           Follows(p, b) /\ b.size = p.size /\ b.parser = p.parser
<1> DEFINE b == Advanced(p, f)
<1>1. p.offset \in Nat /\ p.size \in Nat /\ p.counted \in SUBSET (Int \X Nat)
      /\ p.ver \in Int /\ p.parser \in Nat /\ p.complete \in BOOLEAN
  BY DEF ScanT
<1>2. CASE p.offset + 2 <= p.size
  <2> DEFINE cc == p.counted \cup {<<f.ver, parser>>}
             o == p.offset + 2
             d == [p EXCEPT !.offset = o, !.counted = cc]
  <2>1. b = d
    BY <1>2 DEF Advanced
  <2>2. cc \in SUBSET (Int \X Nat) /\ cc \subseteq {<<p.ver, p.parser>>} /\ o \in Nat
    BY <1>1 DEF Pure
  <2> HIDE DEF cc, o
  <2>3. d \in ScanT
    BY <2>2, Zenon DEF ScanT
  <2>4. /\ d.gen = p.gen /\ d.ver = p.ver /\ d.state = p.state /\ d.size = p.size
        /\ d.offset = o /\ d.counted = cc /\ d.parser = p.parser /\ d.complete = p.complete
    BY DEF ScanT
  <2> HIDE DEF d, b
  <2>5. Pure(d)
    <3>1. ~p.complete
      BY <1>1, <1>2 DEF Pure
    <3>2. o <= p.size
      BY <1>2 DEF o
    <3> QED BY <2>2, <2>4, <3>1, <3>2 DEF Pure
  <2>6. Follows(p, d)
    BY <1>1, <1>2, <2>3, <2>4, <2>5 DEF Follows, o
  <2> QED BY <2>1, <2>4, <2>6 DEF b
<1>3. CASE ~(p.offset + 2 <= p.size)
  <2>1. b = p
    BY <1>3 DEF Advanced
  <2> QED BY <1>1, <2>1 DEF Follows
<1> QED BY <1>2, <1>3

\* CommitLightTokenBatch before the end of the file, or at a line that is not
\* finished.
LEMMA GoodPartial ==
    ASSUME NEW m, NEW rows, Good(m, rows), m # NoMeta, m.pending # 0,
           NEW b, Follows(Scan(rows, m.pending), b)
    PROVE  LET n == [m EXCEPT !.state = "partial"] IN
           /\ n # NoMeta /\ n.pending = m.pending
           /\ Good(n, Put(rows, b)) /\ Scan(Put(rows, b), n.pending) = b
           /\ Keeps(Visible(m, rows), Visible(n, Put(rows, b)))
<1> DEFINE n == [m EXCEPT !.state = "partial"]
<1>1. m \in MetaT
  BY DEF Good
<1>2. n \in MetaT /\ n.active = m.active /\ n.pending = m.pending /\ n.state = "partial"
  BY <1>1 DEF MetaT, StateT
<1>3. n # NoMeta
  BY <1>2, Placeholders
<1> HIDE DEF n
<1>4. /\ Good(n, Put(rows, b)) /\ Scan(Put(rows, b), n.pending) = b
      /\ Keeps(Visible(m, rows), Visible(n, Put(rows, b)))
  BY <1>2, GoodPut
<1> QED BY <1>2, <1>3, <1>4 DEF n

\* CommitLightTokenBatch with the last line of the file: the new scan becomes
\* the visible one.
LEMMA GoodComplete ==
    ASSUME NEW m, NEW rows, Good(m, rows), m # NoMeta, m.pending # 0,
           NEW b, Follows(Scan(rows, m.pending), b), b.offset = b.size
    PROVE  LET n == [m EXCEPT !.active = b.gen, !.pending = 0, !.state = "complete"]
               rr == {[b EXCEPT !.complete = TRUE, !.state = "active"]} IN
           n # NoMeta /\ n.pending = 0 /\ Good(n, rr) /\ Keeps(Visible(m, rows), Visible(n, rr))
<1> DEFINE p == Scan(rows, m.pending)
           c == [b EXCEPT !.complete = TRUE, !.state = "active"]
           n == [m EXCEPT !.active = b.gen, !.pending = 0, !.state = "complete"]
           rr == {c}
<1>1. m \in MetaT /\ p \in rows /\ p.gen = m.pending /\ p \in ScanT
  BY Named DEF Good
<1>2. /\ b \in ScanT /\ b.gen = p.gen /\ b.ver = p.ver /\ b.size >= p.size /\ b.offset >= p.offset
      /\ Pure(b)
  BY DEF Follows
<1>3. /\ c \in ScanT /\ c.gen = b.gen /\ c.ver = b.ver /\ c.size = b.size /\ c.offset = b.offset
      /\ c.counted = b.counted /\ c.parser = b.parser /\ c.complete = TRUE /\ c.state = "active"
  BY <1>2, Zenon DEF ScanT
<1>4. b.gen \in Nat \ {0} /\ b.offset \in Nat /\ b.size \in Nat
  BY <1>2 DEF ScanT
<1>5. n \in MetaT /\ n.active = b.gen /\ n.pending = 0 /\ n.state = "complete"
  BY <1>1, <1>4, Zenon DEF MetaT, StateT
<1>6. n # NoMeta
  BY <1>5, Placeholders
<1> HIDE DEF n, c, p
<1>7. Pure(c) /\ c.offset <= c.size
  BY <1>2, <1>3, <1>4 DEF Pure
<1>8. Scan(rr, n.active) = c
  BY <1>3, <1>5, ScanIs, Zenon
<1>9. Consistent(n, rr)
  BY <1>3, <1>4, <1>5, <1>6 DEF Consistent, Has
<1>10. Honest(n, rr)
  BY <1>3, <1>5, <1>8, Placeholders DEF Honest
<1>11. Longer(n, rr)
  BY <1>3, <1>4 DEF Longer
<1>12. Good(n, rr)
  BY <1>3, <1>5, <1>7, <1>9, <1>10, <1>11 DEF Good
<1>13. Keeps(Visible(m, rows), Visible(n, rr))
  <2>1. Visible(n, rr) = c /\ c # NoScan /\ c.complete
    BY <1>3, <1>6, <1>8, Placeholders DEF Visible
  <2>2. CASE ~Has(rows, m.active)
    BY <2>2, ScanHasNot DEF Visible, Keeps
  <2>3. CASE Has(rows, m.active)
    <3> DEFINE a == Scan(rows, m.active)
    <3>1. a \in rows /\ a.gen = m.active /\ a \in ScanT
      BY <2>3, ScanHas DEF Good
    <3>2. Visible(m, rows) = a
      BY DEF Visible
    <3>3. a.ver = p.ver => a.size <= p.size
      BY <1>1, <3>1 DEF Good, Longer
    <3>4. a.offset <= a.size /\ a.offset \in Nat /\ a.size \in Nat /\ p.size \in Nat
      BY <1>1, <3>1 DEF Good, ScanT
    <3> HIDE DEF a
    <3>5. c.ver = a.ver => c.offset >= a.offset
      BY <1>2, <1>3, <1>4, <3>3, <3>4
    <3> QED BY <2>1, <3>2, <3>5 DEF Keeps
  <2> QED BY <2>2, <2>3
<1> QED BY <1>5, <1>6, <1>12, <1>13 DEF n, c

-----------------------------------------------------------------------------
\* The inductive invariant: of what is stored ...
Recent(f, rows) ==
    /\ \A r \in rows : r.ver <= ops
    /\ f # NoFile => f.ver <= ops /\ Covers(f, rows)

Store ==
    /\ gen \in Nat /\ parser \in Nat /\ ops \in Nat
    /\ file \in [Sessions -> FileT \cup {NoFile}]
    /\ threads \in [Sessions -> [listed : BOOLEAN, path : PathT, stamp : Nat]]
    /\ meta \in [Sessions -> MetaT \cup {NoMeta}]
    /\ scans \in [Sessions -> SUBSET ScanT]
    /\ \A s \in Sessions : Good(meta[s], scans[s]) /\ Recent(file[s], scans[s])

\* ... and of what the worker remembers.  A scan that is being built is as it was
\* loaded, until the turn of its session.
Cached(v, m, rows) == m # NoMeta /\ m.pending # 0 => v.pending = Scan(rows, m.pending)

TodoOK(todo) ==
    /\ todo \subseteq ViewT
    /\ \A v, w \in todo : v.id = w.id => v = w
    /\ \A v \in todo : Cached(v, meta[v.id], scans[v.id])

Worker ==
    /\ wk.pc \in {"slice", "scan"} => TodoOK(wk.pass.todo)
    /\ wk.pc = "yield" /\ wk.pass.loaded => TodoOK(wk.pass.todo)
    /\ wk.pc = "scan" =>
          /\ wk.view \in ViewT /\ wk.snap \in FileT
          /\ \A v \in wk.pass.todo : v.id # wk.view.id
          /\ Builds(meta[wk.view.id], scans[wk.view.id], wk.snap)

\* Every session that stays keeps what it shows.
AllKept == \A s \in Sessions :
    meta'[s] # NoMeta => Keeps(Visible(meta[s], scans[s]), Visible(meta'[s], scans'[s]))

IInv == Store /\ Worker

\* A store that does not change keeps what a reader sees.
LEMMA KeepsItself == ASSUME NEW m, NEW rows, Good(m, rows) PROVE Keeps(Visible(m, rows), Visible(m, rows))
<1>1. Visible(m, rows) \in ScanT \cup {NoScan}
  BY VisibleType
<1> QED BY <1>1, KeepsSame DEF ScanT

\* A step that changes one session.
LEMMA OneSession ==
    ASSUME Store, NEW s \in Sessions, NEW n, NEW rr,
           Good(n, rr), Keeps(Visible(meta[s], scans[s]), Visible(n, rr)),
           Recent(file[s], rr),
           meta' = [meta EXCEPT ![s] = n], scans' = [scans EXCEPT ![s] = rr],
           gen' = gen, parser' = parser, ops' = ops, file' = file, threads' = threads
    PROVE  /\ Store' /\ AllKept
           /\ meta'[s] = n /\ scans'[s] = rr
           /\ \A todo : TodoOK(todo) /\ (\A v \in todo : v.id # s) => TodoOK(todo)'
<1>1. meta'[s] = n /\ scans'[s] = rr
  BY DEF Store
<1>2. \A t \in Sessions : t # s => meta'[t] = meta[t] /\ scans'[t] = scans[t]
  BY DEF Store
<1>3. n \in MetaT \cup {NoMeta} /\ rr \in SUBSET ScanT
  BY DEF Good
<1>4. meta' \in [Sessions -> MetaT \cup {NoMeta}] /\ scans' \in [Sessions -> SUBSET ScanT]
  BY <1>3 DEF Store
<1>5. ASSUME NEW t \in Sessions
      PROVE  /\ Good(meta'[t], scans'[t]) /\ Recent(file[t], scans'[t])
             /\ Keeps(Visible(meta[t], scans[t]), Visible(meta'[t], scans'[t]))
  <2>1. CASE t = s
    BY <1>1, <2>1
  <2>2. CASE t # s
    BY <1>2, <2>2, KeepsItself DEF Store
  <2> QED BY <2>1, <2>2
<1>6. \A f, rows : Recent(f, rows)' <=> Recent(f, rows)
  BY DEF Recent
<1>7. Store'
  BY <1>4, <1>5, <1>6 DEF Store, Recent
<1>8. AllKept
  BY <1>5 DEF AllKept
<1>9. ASSUME NEW todo, TodoOK(todo), \A v \in todo : v.id # s
      PROVE  TodoOK(todo)'
  <2>1. \A v \in todo : v.id \in Sessions
    BY <1>9 DEF TodoOK, ViewT
  <2> QED BY <1>2, <1>9, <2>1 DEF TodoOK
<1> QED BY <1>1, <1>7, <1>8, <1>9

\* A step that changes nothing that is stored.
LEMMA SameStore ==
    ASSUME Store, UNCHANGED <<gen, parser, ops, file, threads, meta, scans>>
    PROVE  Store' /\ AllKept /\ \A todo : TodoOK(todo) => TodoOK(todo)'
<1>1. AllKept
  BY KeepsItself DEF AllKept, Store
<1>2. \A todo : TodoOK(todo) => TodoOK(todo)'
  BY DEF TodoOK
<1>3. Store'
  BY DEF Store, Recent
<1> QED BY <1>1, <1>2, <1>3

\* A step that changes one file.
LEMMA OneFile ==
    ASSUME Store, NEW s \in Sessions, NEW f \in FileT \cup {NoFile}, ops' \in Nat, ops <= ops',
           file' = [file EXCEPT ![s] = f], f # NoFile => f.ver <= ops' /\ Covers(f, scans[s]),
           UNCHANGED <<gen, parser, threads, meta, scans>>
    PROVE  Store' /\ AllKept /\ \A todo : TodoOK(todo) => TodoOK(todo)'
<1>1. AllKept
  BY KeepsItself DEF AllKept, Store
<1>2. \A todo : TodoOK(todo) => TodoOK(todo)'
  BY DEF TodoOK
<1>3. file' \in [Sessions -> FileT \cup {NoFile}]
  BY DEF Store
<1>4. ASSUME NEW t \in Sessions
      PROVE  Recent(file[t], scans[t])'
  <2>1. \A r \in scans[t] : r.ver <= ops /\ r.ver \in Int
    BY DEF Store, Recent, ScanT
  <2>2. \A r \in scans[t] : r.ver <= ops'
    BY <2>1 DEF Store
  <2>3. CASE t = s
    BY <2>2, <2>3 DEF Recent, Store
  <2>4. CASE t # s
    <3>1. file'[t] = file[t]
      BY <2>4 DEF Store
    <3>2. file[t] # NoFile => file[t].ver \in Int /\ file[t].ver <= ops /\ Covers(file[t], scans[t])
      BY DEF Store, Recent, FileT
    <3> QED BY <2>2, <3>1, <3>2 DEF Recent, Store
  <2> QED BY <2>3, <2>4
<1>5. Store'
  BY <1>3, <1>4 DEF Store
<1> QED BY <1>1, <1>2, <1>5

\* A disturbance counts as one.
LEMMA Disturbed == ASSUME Store, Disturb PROVE ops' \in Nat /\ ops' = ops + 1 /\ ops <= ops'
BY DEF Store, Disturb

Extended(f, n, t) == [f EXCEPT !.size = n, !.mtime = t]
Other(f, n, i, t) == [f EXCEPT !.size = n, !.inode = i, !.ver = t, !.mtime = t]

\* A file that grew is the same file.
LEMMA ExtendedFile ==
    ASSUME NEW old \in FileT, NEW size \in Nat, NEW time \in Int
    PROVE  /\ Extended(old, size, time) \in FileT
           /\ Extended(old, size, time).ver = old.ver
           /\ Extended(old, size, time).size = size
BY Zenon DEF FileT, Extended

\* A file that was replaced has a version of its own.
LEMMA OtherFile ==
    ASSUME NEW old \in FileT, NEW size \in Nat, NEW inode \in Int, NEW time \in Int
    PROVE  /\ Other(old, size, inode, time) \in FileT
           /\ Other(old, size, inode, time).ver = time
BY Zenon DEF FileT, Other

\* What happens around the worker.
LEMMA FilesKeep ==
    ASSUME Store, NEW s \in Sessions,
           FileGrows(s) \/ FileReplaced(s) \/ FileTouched(s) \/ FileMoved(s) \/ FileRemoved(s)
    PROVE  Store' /\ AllKept /\ \A todo : TodoOK(todo) => TodoOK(todo)'
<1>1. Disturb /\ file[s] # NoFile /\ UNCHANGED <<gen, parser, threads, meta, scans>>
  BY Zenon DEF FileGrows, FileReplaced, FileTouched, FileMoved, FileRemoved, stored
<1>2. ops' \in Nat /\ ops' = ops + 1 /\ ops <= ops' /\ ops \in Nat
  BY <1>1, Disturbed DEF Store
<1>3. file[s] \in FileT /\ file[s].ver \in Int /\ file[s].size \in Nat
  BY <1>1 DEF Store, FileT
<1>4. file[s].ver <= ops /\ Covers(file[s], scans[s])
  BY <1>1 DEF Store, Recent
<1>5. \A r \in scans[s] : r.ver \in Int /\ r.size \in Nat /\ r.ver <= ops
  BY DEF Store, ScanT, Recent
<1>6. SUFFICES \E f \in FileT \cup {NoFile} :
                  /\ file' = [file EXCEPT ![s] = f]
                  /\ f # NoFile => f.ver <= ops' /\ Covers(f, scans[s])
  BY <1>1, <1>2, OneFile, Zenon
<1>7. CASE FileGrows(s)
  <2>1. PICK n \in {file[s].size + 1, file[s].size + 2} :
            file' = [file EXCEPT ![s].size = n, ![s].mtime = ops']
    BY <1>7, Zenon DEF FileGrows
  <2> DEFINE f == Extended(file[s], n, ops')
  <2>2. file' = [file EXCEPT ![s] = f]
    BY <2>1, Zenon DEF Store, Extended
  <2>3. f \in FileT /\ f.ver = file[s].ver /\ f.size = n
    <3>1. n \in Nat /\ ops' \in Int
      BY <1>2, <1>3
    <3>2. \A size \in Nat, time \in Int : /\ Extended(file[s], size, time) \in FileT
                                           /\ Extended(file[s], size, time).ver = file[s].ver
                                           /\ Extended(file[s], size, time).size = size
      BY <1>3, ExtendedFile, Zenon
    <3> QED BY <3>1, <3>2, Zenon
  <2> HIDE DEF f
  <2>4. f.ver <= ops'
    BY <1>2, <1>3, <1>4, <2>3
  <2>5. Covers(f, scans[s])
    BY <1>3, <1>4, <1>5, <2>3 DEF Covers
  <2> QED BY <2>2, <2>3, <2>4, <2>5, Zenon
<1>8. CASE FileReplaced(s)
  <2>1. PICK n \in 0..2 * MaxLines, i \in {file[s].inode, ops'} :
            file' = [file EXCEPT ![s].size = n, ![s].inode = i, ![s].ver = ops', ![s].mtime = ops']
    BY <1>8, Zenon DEF FileReplaced
  <2> DEFINE f == Other(file[s], n, i, ops')
  <2>2. file' = [file EXCEPT ![s] = f]
    BY <2>1, Zenon DEF Store, Other
  <2>3. n \in Nat /\ i \in Int
    BY <1>2, <1>3, LightAssumption DEF FileT
  <2>4. f \in FileT /\ f.ver = ops'
    <3>1. ops' \in Int
      BY <1>2
    <3>2. \A size \in Nat, inode, time \in Int : /\ Other(file[s], size, inode, time) \in FileT
                                                  /\ Other(file[s], size, inode, time).ver = time
      BY <1>3, OtherFile
    <3> QED BY <2>3, <3>1, <3>2, Zenon
  <2> HIDE DEF f
  <2>5. Covers(f, scans[s]) /\ f.ver <= ops'
    BY <1>2, <1>5, <2>4 DEF Covers
  <2> QED BY <1>2, <2>2, <2>4, <2>5, Zenon
<1>9. CASE FileTouched(s)
  <2>1. PICK t \in {-ops', ops'} : file' = [file EXCEPT ![s].mtime = t]
    BY <1>9, Zenon DEF FileTouched
  <2> DEFINE f == [file[s] EXCEPT !.mtime = t]
  <2>2. file' = [file EXCEPT ![s] = f]
    BY <2>1 DEF Store
  <2>3. f \in FileT /\ f.ver = file[s].ver /\ f.size = file[s].size
    BY <1>2, <1>3 DEF FileT
  <2> HIDE DEF f
  <2>4. f.ver <= ops' /\ Covers(f, scans[s])
    BY <1>2, <1>3, <1>4, <2>3 DEF Covers
  <2> QED BY <2>2, <2>3, <2>4, Zenon
<1>10. CASE FileMoved(s)
  <2>1. PICK p \in Paths : file' = [file EXCEPT ![s].path = p]
    BY <1>10, Zenon DEF FileMoved
  <2> DEFINE f == [file[s] EXCEPT !.path = p]
  <2>2. file' = [file EXCEPT ![s] = f]
    BY <2>1 DEF Store
  <2>3. f \in FileT /\ f.ver = file[s].ver /\ f.size = file[s].size
    BY <1>3 DEF FileT, PathT
  <2> HIDE DEF f
  <2>4. f.ver <= ops' /\ Covers(f, scans[s])
    BY <1>2, <1>3, <1>4, <2>3 DEF Covers
  <2> QED BY <2>2, <2>3, <2>4, Zenon
<1>11. CASE FileRemoved(s)
  BY <1>11, Zenon DEF FileRemoved
<1> QED BY <1>7, <1>8, <1>9, <1>10, <1>11

\* A step that only changes what the App Server lists or the parser.
LEMMA OnlyOutside ==
    ASSUME Store, ops' \in Nat, ops <= ops', parser' \in Nat,
           threads' \in [Sessions -> [listed : BOOLEAN, path : PathT, stamp : Nat]],
           UNCHANGED <<gen, file, meta, scans>>
    PROVE  Store' /\ AllKept /\ \A todo : TodoOK(todo) => TodoOK(todo)'
<1>1. AllKept
  BY KeepsItself DEF AllKept, Store
<1>2. \A todo : TodoOK(todo) => TodoOK(todo)'
  BY DEF TodoOK
<1>3. ASSUME NEW t \in Sessions
      PROVE  Recent(file[t], scans[t])'
  <2>1. \A r \in scans[t] : r.ver <= ops /\ r.ver \in Int
    BY DEF Store, Recent, ScanT
  <2>2. \A r \in scans[t] : r.ver <= ops'
    BY <2>1 DEF Store
  <2>3. file[t] # NoFile => file[t].ver \in Int /\ file[t].ver <= ops /\ Covers(file[t], scans[t])
    BY DEF Store, Recent, FileT
  <2> QED BY <2>2, <2>3 DEF Recent, Store
<1>4. Store'
  BY <1>3 DEF Store
<1> QED BY <1>1, <1>2, <1>4

\* A change of the thread list keeps the store and what a pass has loaded.
LEMMA ListKeeps ==
    ASSUME Store, NEW s \in Sessions, ListChanges(s) \/ ListReturns(s) \/ ListFollows(s)
    PROVE  Store' /\ AllKept /\ \A todo : TodoOK(todo) => TodoOK(todo)'
<1> DEFINE T == [listed : BOOLEAN, path : PathT, stamp : Nat]
<1>1. threads \in [Sessions -> T] /\ threads[s] \in T
  BY DEF Store
<1>2. CASE ListChanges(s)
  <2>1. ops' \in Nat /\ ops <= ops' /\ UNCHANGED <<gen, parser, file, meta, scans>>
    BY <1>2, Disturbed DEF ListChanges, stored
  <2>2. PICK l \in BOOLEAN, p \in {threads[s].path, "none"} :
            threads' = [threads EXCEPT ![s] = [listed |-> l, path |-> p, stamp |-> ops']]
    BY <1>2, Zenon DEF ListChanges
  <2>3. p \in PathT
    BY <1>1 DEF PathT
  <2>4. [listed |-> l, path |-> p, stamp |-> ops'] \in T
    BY <2>1, <2>3
  <2>5. threads' \in [Sessions -> T]
    BY <1>1, <2>2, <2>4
  <2>6. parser' \in Nat
    BY <2>1 DEF Store
  <2> QED BY <2>1, <2>5, <2>6, OnlyOutside
<1>3. CASE ListReturns(s) \/ ListFollows(s)
  <2>1. ops' \in Nat /\ ops <= ops' /\ UNCHANGED <<gen, parser, file, meta, scans>>
    BY <1>3 DEF ListReturns, ListFollows, stored, Store
  <2>2. file[s] # NoFile => file[s].path \in PathT
    BY DEF Store, FileT
  <2>3. [threads[s] EXCEPT !.listed = TRUE] \in T
    BY <1>1, Zenon
  <2>4. file[s] # NoFile => [threads[s] EXCEPT !.path = file[s].path] \in T
    BY <1>1, <2>2
  <2>5. threads' \in [Sessions -> T]
    BY <1>1, <1>3, <2>3, <2>4, Zenon DEF ListReturns, ListFollows
  <2>6. parser' \in Nat
    BY <2>1 DEF Store
  <2> QED BY <2>1, <2>5, <2>6, OnlyOutside
<1> QED BY <1>2, <1>3

\* A crash keeps the store, whatever parser comes next.
LEMMA CrashKeeps == ASSUME Store, Crash PROVE Store' /\ AllKept
<1>1. ops' \in Nat /\ ops <= ops' /\ UNCHANGED <<gen, file, threads, meta, scans>>
  BY Disturbed DEF Crash, stored
<1>2. parser' \in Nat
  BY <1>1 DEF Crash, Store
<1>3. threads' \in [Sessions -> [listed : BOOLEAN, path : PathT, stamp : Nat]]
  BY <1>1 DEF Store
<1> QED BY <1>1, <1>2, <1>3, OnlyOutside

-----------------------------------------------------------------------------
\* What a pass loads is as it is stored.
LEMMA ScanType ==
    ASSUME NEW m, NEW rows, Good(m, rows), NEW g
    PROVE  Scan(rows, g) \in ScanT \cup {NoScan}
<1>1. CASE Has(rows, g)
  BY <1>1, ScanHas DEF Good
<1>2. CASE ~Has(rows, g)
  BY <1>2, ScanHasNot
<1> QED BY <1>1, <1>2

\* A session is loaded with the scan that is being built.
LEMMA LoadedView ==
    ASSUME NEW s \in Sessions, NEW m, NEW rows, Good(m, rows), m # NoMeta
    PROVE  Loaded(s, m, rows) \in ViewT /\ Cached(Loaded(s, m, rows), m, rows)
<1>1. m \in MetaT
  BY DEF Good
<1>2. \A g : Scan(rows, g) \in ScanT \cup {NoScan}
  BY ScanType
<1> QED BY <1>1, <1>2 DEF Loaded, ViewT, Cached

\* The list a pass works on has each session once, as it is stored.
LEMMA ListOK ==
    ASSUME NEW metas, NEW rows, \A s \in Sessions : Good(metas[s], rows[s]),
           NEW list, list = ListLightSessionScans(metas, rows)
    PROVE  /\ list \subseteq ViewT
           /\ \A v, w \in list : v.id = w.id => v = w
           /\ \A v \in list : Cached(v, metas[v.id], rows[v.id])
<1>1. \A v \in list : \E s \in Sessions : metas[s] # NoMeta /\ v = Loaded(s, metas[s], rows[s])
  BY DEF ListLightSessionScans
<1>2. \A s : Loaded(s, metas[s], rows[s]).id = s
  BY DEF Loaded
<1>3. \A v \in list : /\ v.id \in Sessions /\ metas[v.id] # NoMeta
                      /\ v = Loaded(v.id, metas[v.id], rows[v.id])
  BY <1>1, <1>2
<1>4. \A v \in list : v \in ViewT /\ Cached(v, metas[v.id], rows[v.id])
  BY <1>3, LoadedView
<1> QED BY <1>3, <1>4

\* refreshMetadata, for one session.
LEMMA RefreshedSession ==
    ASSUME Store, NEW s \in Sessions
    PROVE  /\ Good(Reconciled(s), KeptScans[s])
           /\ Recent(file[s], KeptScans[s])
           /\ Reconciled(s) # NoMeta => Keeps(Visible(meta[s], scans[s]), Visible(Reconciled(s), KeptScans[s]))
           /\ \A v : Cached(v, meta[s], scans[s]) => Cached(v, Reconciled(s), KeptScans[s])
<1> DEFINE m == meta[s]
           rows == scans[s]
           t == threads[s]
<1>1. Good(m, rows) /\ Recent(file[s], rows)
  BY DEF Store
<1>2. gen + 1 \in Nat \ {0} /\ t.path \in PathT /\ t.stamp \in Nat /\ t.listed \in BOOLEAN
  BY DEF Store
<1>3. KeptScans[s] = IF t.listed THEN rows ELSE {}
  BY DEF KeptScans
<1>4. m = NoMeta => rows = {}
  BY <1>1 DEF Good, Consistent
<1>5. CASE ~t.listed
  <2>1. Reconciled(s) = NoMeta
    BY <1>5 DEF Reconciled, Matches
  <2>2. Good(NoMeta, {})
    BY DEF Good, Consistent, Honest, Longer
  <2>3. Recent(file[s], {})
    BY <1>1 DEF Recent, Covers
  <2> QED BY <1>3, <1>5, <2>1, <2>2, <2>3 DEF Cached
<1>6. CASE t.listed /\ m # NoMeta
  <2> DEFINE g == gen + 1
             n == Renewed(m, g, t.path, t.stamp)
  <2>1. Reconciled(s) = m \/ Reconciled(s) = n
    BY <1>6 DEF Reconciled, Renewed
  <2>2. g \in Nat \ {0}
    BY <1>2
  <2> HIDE DEF g
  <2>3. n # NoMeta /\ n.active = m.active /\ n.pending = m.pending /\ Good(n, rows)
    BY <1>1, <1>2, <1>6, <2>2, GoodRenewed
  <2> HIDE DEF n
  <2>4. Keeps(Visible(m, rows), Visible(m, rows))
    BY <1>1, KeepsItself
  <2>5. Visible(n, rows) = Visible(m, rows)
    BY <1>6, <2>3 DEF Visible
  <2>6. \A v : Cached(v, m, rows) => Cached(v, n, rows)
    BY <1>6, <2>3 DEF Cached
  <2> QED BY <1>1, <1>3, <1>6, <2>1, <2>3, <2>4, <2>5, <2>6
<1>7. CASE t.listed /\ m = NoMeta
  <2> DEFINE g == gen + 1
             n == [gen |-> g, path |-> t.path, stamp |-> t.stamp, state |-> "pending",
                   active |-> 0, pending |-> 0]
  <2>1. Reconciled(s) = n
    BY <1>7 DEF Reconciled, Matches
  <2>2. g \in Nat \ {0}
    BY <1>2
  <2> HIDE DEF g
  <2>3. Good(n, {}) /\ n.pending = 0
    BY <1>2, <2>2, GoodNew
  <2> HIDE DEF n
  <2>4. Visible(m, rows) = NoScan
    BY <1>7 DEF Visible
  <2> QED BY <1>1, <1>3, <1>4, <1>7, <2>1, <2>3, <2>4 DEF Keeps, Cached
<1> QED BY <1>2, <1>5, <1>6, <1>7

\* A refresh of the metadata keeps what every session that stays shows.
LEMMA RefreshKeeps ==
    ASSUME Store, refreshMetadata, UNCHANGED <<file, threads, parser, ops>>
    PROVE  /\ Store' /\ AllKept
           /\ \A todo : TodoOK(todo) => TodoOK(todo)'
           /\ \A todo : todo = ListLightSessionScans(Metadata, KeptScans) => TodoOK(todo)'
<1>1. /\ meta' = Metadata /\ scans' = KeptScans
      /\ \A s \in Sessions : meta'[s] = Reconciled(s) /\ scans'[s] = KeptScans[s]
  BY DEF refreshMetadata, Metadata
<1>2. \A s \in Sessions : /\ Good(meta'[s], scans'[s]) /\ Recent(file[s], scans'[s])
                          /\ meta'[s] # NoMeta => Keeps(Visible(meta[s], scans[s]), Visible(meta'[s], scans'[s]))
                          /\ \A v : Cached(v, meta[s], scans[s]) => Cached(v, meta'[s], scans'[s])
  BY <1>1, RefreshedSession
<1>3. meta' \in [Sessions -> MetaT \cup {NoMeta}] /\ scans' \in [Sessions -> SUBSET ScanT]
  <2>1. \A s \in Sessions : Reconciled(s) \in MetaT \cup {NoMeta} /\ KeptScans[s] \in SUBSET ScanT
    BY <1>1, <1>2 DEF Good
  <2>2. Metadata \in [Sessions -> MetaT \cup {NoMeta}]
    BY <2>1 DEF Metadata
  <2>3. KeptScans \in [Sessions -> SUBSET ScanT]
    BY <2>1 DEF KeptScans
  <2> QED BY <1>1, <2>2, <2>3
<1>4. gen' \in Nat
  BY DEF refreshMetadata, Store
<1>5. \A f, rows : Recent(f, rows)' <=> Recent(f, rows)
  BY DEF Recent
<1>6. Store'
  BY <1>2, <1>3, <1>4, <1>5 DEF Store, Recent
<1>7. AllKept
  BY <1>2 DEF AllKept
<1>8. ASSUME NEW todo, TodoOK(todo) PROVE TodoOK(todo)'
  <2>1. \A v \in todo : v.id \in Sessions
    BY <1>8 DEF TodoOK, ViewT
  <2> QED BY <1>2, <1>8, <2>1 DEF TodoOK
<1>9. ASSUME NEW todo, todo = ListLightSessionScans(Metadata, KeptScans) PROVE TodoOK(todo)'
  <2>1. \A s \in Sessions : Good(Metadata[s], KeptScans[s])
    BY <1>1, <1>2
  <2>2. /\ todo \subseteq ViewT
        /\ \A v, w \in todo : v.id = w.id => v = w
        /\ \A v \in todo : Cached(v, Metadata[v.id], KeptScans[v.id])
    BY <1>9, <2>1, ListOK
  <2> QED BY <1>1, <2>2 DEF TodoOK
<1> QED BY <1>6, <1>7, <1>8, <1>9

-----------------------------------------------------------------------------
\* What the worker remembers after a step.
LEMMA SliceWorker ==
    ASSUME NEW todo, NEW d, NEW b, wk' = Slice(Pass(todo, d), b) \/ wk' = Yield(Pass(todo, d)), TodoOK(todo)'
    PROVE  Worker'
<1>1. /\ wk'.pc \in {"slice", "yield"} /\ wk'.pass.todo = todo
  BY DEF Slice, Yield, Pass
<1> QED BY <1>1 DEF Worker, TodoOK

\* A worker that has loaded nothing relies on nothing.
LEMMA IdleWorker ==
    ASSUME wk' \in {Down, Wait, Yield(NoPass)}
    PROVE  Worker'
<1>1. wk'.pc \notin {"slice", "scan"} /\ ~(wk'.pc = "yield" /\ wk'.pass.loaded)
  BY DEF Down, Wait, Yield, NoPass
<1> QED BY <1>1 DEF Worker

\* Taking a session off the list leaves the others cached.
LEMMA OtherSessions ==
    ASSUME NEW todo, TodoOK(todo), NEW v \in todo
    PROVE  /\ v \in ViewT /\ v.id \in Sessions /\ v.meta \in MetaT
           /\ TodoOK(todo \ {v}) /\ \A w \in todo \ {v} : w.id # v.id
<1>1. v \in ViewT
  BY DEF TodoOK
<1>2. TodoOK(todo \ {v}) /\ \A w \in todo \ {v} : w.id # v.id
  BY DEF TodoOK
<1> QED BY <1>1, <1>2 DEF ViewT

\* SetLightScanState.
LEMMA MarkKeeps ==
    ASSUME Store, NEW v \in ViewT, NEW st \in StateT, SetLightScanState(v, st),
           st = "complete" /\ meta[v.id] # NoMeta => meta[v.id].pending = 0,
           UNCHANGED <<scans, file, threads, gen, parser, ops>>
    PROVE  /\ Store' /\ AllKept
           /\ \A todo : TodoOK(todo) /\ (\A w \in todo : w.id # v.id) => TodoOK(todo)'
<1> DEFINE s == v.id
           m == meta[s]
           a == Scan(scans[s], m.active)
           n == Marked(m, st)
<1>1. s \in Sessions /\ Good(m, scans[s]) /\ Recent(file[s], scans[s])
  BY DEF Store, ViewT
<1>2. CASE meta' = meta
  <2>1. UNCHANGED <<gen, parser, ops, file, threads, meta, scans>>
    BY <1>2
  <2> QED BY <2>1, SameStore
<1>3. CASE meta' # meta
  <2>1. /\ m # NoMeta
        /\ st = "complete" => a.gen > 0 /\ a.complete
        /\ meta' = [meta EXCEPT ![s].state = st]
    BY <1>3 DEF SetLightScanState
  <2>2. a.gen > 0 => a # NoScan
    BY DEF NoScan
  <2>3. Good(n, scans[s]) /\ n # NoMeta /\ n.active = m.active
    BY <1>1, <2>1, <2>2, GoodMark
  <2>4. meta' = [meta EXCEPT ![s] = n] /\ scans' = [scans EXCEPT ![s] = scans[s]]
    BY <1>1, <2>1 DEF Store, Marked
  <2>6. Visible(n, scans[s]) = Visible(m, scans[s])
    BY <2>1, <2>3 DEF Visible
  <2>7. Keeps(Visible(m, scans[s]), Visible(n, scans[s]))
    BY <1>1, <2>6, KeepsItself
  <2> HIDE DEF n, s, m
  <2>5. gen' = gen /\ parser' = parser /\ ops' = ops /\ file' = file /\ threads' = threads
    OBVIOUS
  <2> QED BY <1>1, <2>3, <2>4, <2>5, <2>7, OneSession, Zenon DEF m, s
<1> QED BY <1>2, <1>3

-----------------------------------------------------------------------------
\* What a session is worked with after a conflict is what is stored of it.
LEMMA RereadIs ==
    ASSUME Store, NEW v \in ViewT, meta[v.id] # NoMeta, NEW w, w = Reread(v)
    PROVE  /\ w.id = v.id /\ w.meta = v.meta
           /\ w.active = Scan(scans[v.id], meta[v.id].active)
           /\ w.pending = Scan(scans[v.id], meta[v.id].pending)
BY DEF Reread, Loaded

\* The view a scan begins with agrees with the store.
LEMMA ViewIs ==
    ASSUME Store, NEW v \in ViewT, meta[v.id] # NoMeta, Cached(v, meta[v.id], scans[v.id]),
           NEW w, w = View(v)
    PROVE  /\ w.id = v.id /\ w.meta = v.meta
           /\ Cached(w, meta[v.id], scans[v.id])
           /\ w.pending \in ScanT \cup {NoScan}
<1>1. v.pending \in ScanT \cup {NoScan}
  BY DEF ViewT
<1>2. Scan(scans[v.id], meta[v.id].pending) \in ScanT \cup {NoScan}
  BY ScanType DEF Store, ViewT
<1> QED BY <1>1, <1>2, RereadIs DEF View, Cached

\* A count is reused only where nothing is being scanned.
LEMMA ReuseIdle ==
    ASSUME Store, NEW v \in ViewT, meta[v.id] # NoMeta, Cached(v, meta[v.id], scans[v.id]),
           Plan(View(v)) = "reuse"
    PROVE  meta[v.id].pending = 0
<1> DEFINE w == View(v)
           m == meta[v.id]
<1>1. w.pending = NoScan
  BY DEF Plan
<1>2. Cached(w, m, scans[v.id])
  BY ViewIs
<1>3. Good(m, scans[v.id])
  BY DEF Store, ViewT
<1> HIDE DEF w, m
<1>4. SUFFICES ASSUME m.pending # 0 PROVE FALSE
  BY DEF m
<1>5. m # NoMeta
  BY DEF m
<1>6. Scan(scans[v.id], m.pending) \in ScanT
  BY <1>3, <1>4, <1>5, Named
<1> QED BY <1>1, <1>2, <1>4, <1>5, <1>6, Placeholders DEF Cached

\* The turn of a session that is not scanned.
LEMMA TurnKeeps ==
    ASSUME IInv, wk.pc = "slice", NEW v \in wk.pass.todo,
           NoRollout(v) \/ SourceFails(v) \/ Reuse(v) \/ SessionGone(v)
    PROVE  IInv' /\ AllKept
<1>0. PICK rest : rest = wk.pass.todo \ {v}
  BY Zenon
<1>1. Store /\ TodoOK(wk.pass.todo)
  BY DEF IInv, Worker
<1>2. v \in ViewT /\ TodoOK(rest) /\ \A w \in rest : w.id # v.id
  BY <1>0, <1>1, OtherSessions
<1>3. Cached(v, meta[v.id], scans[v.id])
  BY <1>1 DEF TodoOK
<1>4. UNCHANGED <<scans, file, threads, gen, parser, ops>>
  BY DEF NoRollout, SourceFails, Reuse, SessionGone, Turn
<1>5. CASE SessionGone(v)
  <2>1. wk' = Wait /\ UNCHANGED <<gen, parser, ops, file, threads, meta, scans>>
    BY <1>4, <1>5 DEF SessionGone
  <2> QED BY <1>1, <2>1, SameStore, IdleWorker DEF IInv
<1>6. ASSUME NEW st \in StateT, SetLightScanState(v, st),
             st = "complete" /\ meta[v.id] # NoMeta => meta[v.id].pending = 0,
             Done(v)
      PROVE  IInv' /\ AllKept
  <2>1. Store' /\ AllKept /\ TodoOK(rest)'
    BY <1>1, <1>2, <1>4, <1>6, MarkKeeps
  <2>2. wk' = Slice(Pass(rest, wk.pass.deferred), FALSE)
    BY <1>0, <1>6 DEF Done, Without
  <2> QED BY <2>1, <2>2, SliceWorker, Zenon DEF IInv
<1>7. CASE NoRollout(v)
  BY <1>6, <1>7 DEF NoRollout, StateT
<1>8. CASE SourceFails(v)
  BY <1>6, <1>8 DEF SourceFails, StateT
<1>9. CASE Reuse(v)
  <2>1. meta[v.id] # NoMeta => meta[v.id].pending = 0
    BY <1>1, <1>2, <1>3, <1>9, ReuseIdle DEF Reuse
  <2>2. CASE meta' = meta
    <3>1. UNCHANGED <<gen, parser, ops, file, threads, meta, scans>>
      BY <1>4, <2>2
    <3>2. Store' /\ AllKept /\ TodoOK(rest)'
      BY <1>1, <1>2, <3>1, SameStore
    <3>3. wk' = Slice(Pass(rest, wk.pass.deferred), FALSE)
      BY <1>0, <1>9 DEF Reuse, Done, Without
    <3> QED BY <3>2, <3>3, SliceWorker, Zenon DEF IInv
  <2>3. CASE meta' # meta
    <3>1. SetLightScanState(v, "complete") /\ Done(v)
      BY <1>9, <2>3 DEF Reuse
    <3> QED BY <1>6, <2>1, <3>1 DEF StateT
  <2> QED BY <2>2, <2>3
<1> QED BY <1>5, <1>7, <1>8, <1>9

\* A new or a grown scan is recent.
LEMMA RecentPut ==
    ASSUME NEW f, NEW rows, Recent(f, rows), f # NoFile, NEW kept, NEW b,
           \A r \in kept : \E q \in rows : r.ver = q.ver /\ r.size = q.size,
           b.ver = f.ver, b.size = f.size, f.size \in Nat
    PROVE  Recent(f, kept \cup {b})
BY DEF Recent, Covers

\* A row that a restart leaves is of the file and size of one that was there.
LEMMA RecentKept ==
    ASSUME NEW m, NEW rows, Good(m, rows), m # NoMeta, m.pending # 0, NEW r \in Remaining(m, rows)
    PROVE  \E q \in rows : r.ver = q.ver /\ r.size = q.size
<1>1. CASE m.pending # m.active
  BY <1>1 DEF Remaining
<1>2. CASE m.pending = m.active
  <2> DEFINE a == Scan(rows, m.active)
             b == [a EXCEPT !.state = "active"]
  <2>1. a \in rows /\ a \in ScanT
    BY <1>2, Named
  <2> HIDE DEF a
  <2>2. b.ver = a.ver /\ b.size = a.size
    BY <2>1 DEF ScanT
  <2>3. r \in rows \/ r = b
    BY <1>2 DEF Remaining, Put, a
  <2> QED BY <2>1, <2>2, <2>3, Zenon
<1> QED BY <1>1, <1>2

\* What a transaction that starts or goes on with a scan leaves of the session.
Opened(s, f, n, rr) ==
    /\ Good(n, rr) /\ Builds(n, rr, f) /\ Keeps(Visible(meta[s], scans[s]), Visible(n, rr))
    /\ Recent(f, rr)

\* A scan that is opened anew, beside the visible one or instead of a pending one.
LEMMA Opens ==
    ASSUME Store, NEW s \in Sessions, meta[s] # NoMeta, NEW f, f = file[s], f # NoFile
    PROVE  /\ meta[s].pending = 0 =>
                 Opened(s, f, Started(meta[s], meta[s].active + 1),
                        Put(scans[s], NewScan(f, meta[s].active + 1)))
           /\ meta[s].pending # 0 =>
                 Opened(s, f, Started(meta[s], meta[s].active + 1),
                        Remaining(meta[s], scans[s]) \cup {NewScan(f, meta[s].active + 1)})
<1> DEFINE m == meta[s]
           rows == scans[s]
           b == NewScan(f, m.active + 1)
<1>1. /\ Good(m, rows) /\ Recent(f, rows) /\ Covers(f, rows) /\ f \in FileT /\ parser \in Nat
      /\ f.size \in Nat /\ m.active \in Nat
  BY DEF Store, Recent, FileT, Good, MetaT
<1>2. b.ver = f.ver /\ b.size = f.size
  BY DEF NewScan
<1>3. m # NoMeta
  OBVIOUS
<1> HIDE DEF m, rows
<1>4. ASSUME m.pending = 0
      PROVE  Opened(s, f, Started(m, m.active + 1), Put(rows, b))
  <2>1. Recent(f, Put(rows, b))
    <3> HIDE DEF b
    <3> QED BY <1>1, <1>2, RecentPut, Zenon DEF Put
  <2> QED BY <1>1, <1>3, <1>4, <2>1, GoodRebuild, Zenon DEF Opened, m, rows
<1>5. ASSUME m.pending # 0
      PROVE  Opened(s, f, Started(m, m.active + 1), Remaining(m, rows) \cup {b})
  <2>1. Recent(f, Remaining(m, rows) \cup {b})
    <3> HIDE DEF b
    <3>1. \A r \in Remaining(m, rows) : \E q \in rows : r.ver = q.ver /\ r.size = q.size
      BY <1>1, <1>3, <1>5, RecentKept
    <3> QED BY <1>1, <1>2, <3>1, RecentPut, Zenon
  <2> QED BY <1>1, <1>3, <1>5, <2>1, GoodRestart, Zenon DEF Opened, m, rows
<1> QED BY <1>4, <1>5 DEF m, rows

\* A scan that goes on in a row of the same file and parser.
LEMMA OpensInPlace ==
    ASSUME Store, NEW s \in Sessions, meta[s] # NoMeta, NEW f, f = file[s], f # NoFile,
           NEW g \in {meta[s].active, meta[s].pending}, g # 0,
           Scan(scans[s], g).ver = f.ver, Scan(scans[s], g).parser = parser,
           Scan(scans[s], g).size <= f.size
    PROVE  /\ g = meta[s].active /\ meta[s].pending = 0 =>
                 Opened(s, f, Started(meta[s], g),
                        Put(scans[s], [Grown(Scan(scans[s], g), f) EXCEPT !.state = "building"]))
           /\ g = meta[s].pending =>
                 Opened(s, f, meta[s], Put(scans[s], Grown(Scan(scans[s], g), f)))
<1> DEFINE m == meta[s]
           rows == scans[s]
           a == Scan(rows, g)
           c == Grown(a, f)
           b == [c EXCEPT !.state = "building"]
<1>1. Good(m, rows) /\ Recent(f, rows) /\ f \in FileT /\ f.size \in Nat /\ m # NoMeta
  BY DEF Store, Recent, FileT
<1>2. a \in rows /\ a \in ScanT /\ Pure(a) /\ a.offset <= a.size
  BY <1>1, Named DEF Good
<1>3. c \in ScanT /\ c.ver = f.ver /\ c.size = f.size
  BY <1>1, <1>2, GrownFollows
<1>4. b.ver = f.ver /\ b.size = f.size
  <2> HIDE DEF c
  <2> QED BY <1>3 DEF ScanT
<1>5. Recent(f, Put(rows, b))
  <2> HIDE DEF b, rows
  <2> QED BY <1>1, <1>4, RecentPut, Zenon DEF Put
<1>6. Recent(f, Put(rows, c))
  <2> HIDE DEF c, rows
  <2> QED BY <1>1, <1>3, RecentPut, Zenon DEF Put
<1> HIDE DEF m, rows
<1>7. ASSUME g = m.active, m.pending = 0
      PROVE  Opened(s, f, Started(m, g), Put(rows, b))
  BY <1>1, <1>5, <1>7, GoodAppend DEF Opened, m, rows
<1>8. ASSUME g = m.pending
      PROVE  Opened(s, f, m, Put(rows, c))
  BY <1>1, <1>6, <1>8, GoodUpdate, Zenon DEF Opened, m, rows
<1> QED BY <1>7, <1>8 DEF m, rows

\* A scan that is resumed is of the file as it is.
LEMMA Resumes ==
    ASSUME Store, NEW s \in Sessions, meta[s] # NoMeta, NEW w, w.id = s,
           w.pending \in ScanT \cup {NoScan}, Cached(w, meta[s], scans[s]),
           NEW f, f = file[s], f # NoFile, f = At(w.id, w.meta.path),
           Plan(w) = "resume", Allowed(w)
    PROVE  Opened(s, f, meta[s], scans[s])
<1>1. w.pending # NoScan /\ DecideRefresh(w.pending, f) # "rebuild" /\ sameIdentity(w.pending, f)
  <2>1. w.pending # NoScan
    BY ZenonT(60) DEF Plan, DecideRefresh
  <2>2. Plan(w) = IF DecideRefresh(w.pending, f) = "rebuild" THEN "restart"
                  ELSE IF sameIdentity(w.pending, f) THEN "resume" ELSE "update"
    BY <2>1 DEF Plan
  <2> QED BY <2>1, <2>2
<1>2. meta[s].pending = w.pending.gen
  BY DEF Allowed
<1>3. meta[s].pending # 0 /\ w.pending = Scan(scans[s], meta[s].pending)
  BY <1>1, <1>2 DEF ScanT, Cached
<1>4. w.pending.ver = f.ver /\ w.pending.size = f.size /\ w.pending.parser = parser
  BY <1>1 DEF sameIdentity, Unchanged, DecideRefresh
<1>5. Builds(meta[s], scans[s], f)
  BY <1>3, <1>4 DEF Builds
<1> QED BY <1>5, KeepsItself, Zenon DEF Opened, Store

\* What BeginScan does to the session, whatever it wants to do.
LEMMA BeginOpens ==
    ASSUME Store, NEW v \in ViewT, Cached(v, meta[v.id], scans[v.id]), BeginScan(v),
           NEW f, f = At(v.id, v.meta.path)
    PROVE  /\ f = file[v.id] /\ f # NoFile
           /\ \E n, rr : /\ Opened(v.id, f, n, rr)
                         /\ meta' = [meta EXCEPT ![v.id] = n]
                         /\ scans' = [scans EXCEPT ![v.id] = rr]
<1> DEFINE s == v.id
           m == meta[s]
<1>1. s \in Sessions /\ m # NoMeta /\ m \in MetaT /\ meta[s] = m
  BY DEF BeginScan, ViewT, Store
<1>2. PICK w : w = View(v)
  OBVIOUS
<1>3. /\ w.id = v.id /\ w.meta = v.meta /\ Cached(w, m, scans[s])
      /\ w.pending \in ScanT \cup {NoScan}
  BY <1>1, <1>2, ViewIs
<1>4. /\ Plan(w) \notin {"missing", "reuse"} /\ Allowed(w)
      /\ CASE Plan(w) = "rebuild" -> StartLightTokenRebuild(s, f)
           [] Plan(w) = "append"  -> StartLightTokenAppend(s, f)
           [] Plan(w) = "update"  -> UpdateLightTokenPendingIdentity(s, f)
           [] Plan(w) = "restart" -> RestartLightTokenPendingRebuild(s, f)
           [] Plan(w) = "resume"  -> UNCHANGED <<meta, scans, total>>
  BY <1>2, Zenon DEF BeginScan
<1>5. f = At(w.id, w.meta.path) /\ f # NoFile
  BY <1>3, <1>4 DEF Plan
<1>6. f = file[s]
  BY <1>5 DEF At
<1>7. Plan(w) \in {"rebuild", "append", "update", "restart", "resume"}
  BY <1>4, Zenon DEF Plan, DecideRefresh
<1>8. f \in FileT
  BY <1>1, <1>5, <1>6 DEF Store
<1>9. SUFFICES \E n, rr : /\ Opened(s, f, n, rr)
                         /\ meta' = [meta EXCEPT ![s] = n]
                         /\ scans' = [scans EXCEPT ![s] = rr]
  BY <1>5, <1>6, Zenon
<1>10. CASE Plan(w) = "rebuild"
  <2> DEFINE n == Started(m, m.active + 1)
             rr == Put(scans[s], NewScan(f, m.active + 1))
  <2>1. m.pending = 0
    BY <1>3, <1>4, <1>10 DEF Allowed
  <2>2. Opened(s, f, n, rr)
    BY <1>1, <1>5, <1>6, <2>1, Opens, Zenon
  <2>3. meta' = [meta EXCEPT ![s] = n] /\ scans' = [scans EXCEPT ![s] = rr]
    BY <1>1, <1>4, <1>10, Zenon DEF StartLightTokenRebuild, Scanning, Started, Store
  <2> QED BY <2>2, <2>3, Zenon
<1>11. CASE Plan(w) = "restart"
  <2> DEFINE n == Started(m, m.active + 1)
             rr == Remaining(m, scans[s]) \cup {NewScan(f, m.active + 1)}
  <2>1. m.pending > 0
    BY <1>3, <1>4, <1>11 DEF Allowed
  <2>2. Opened(s, f, n, rr)
    BY <1>1, <1>5, <1>6, <2>1, Opens
  <2>3. meta' = [meta EXCEPT ![s] = n] /\ scans' = [scans EXCEPT ![s] = rr]
    BY <1>1, <1>4, <1>11, Zenon DEF RestartLightTokenPendingRebuild, Scanning, Started, Remaining, Store
  <2> QED BY <2>2, <2>3, Zenon
<1>12. CASE Plan(w) = "append"
  <2> DEFINE a == Scan(scans[s], m.active)
             n == Started(m, m.active)
             rr == Put(scans[s], [Grown(a, f) EXCEPT !.state = "building"])
  <2>1. /\ m.active > 0 /\ m.pending = 0 /\ a.parser = parser /\ a.ver = f.ver /\ f.size > a.size
    BY <1>3, <1>4, <1>5, <1>12 DEF Allowed
  <2>2. a \in ScanT
    BY <1>1, <2>1, Named DEF Store
  <2>3. a.size <= f.size /\ m.active # 0
    BY <1>8, <2>1, <2>2 DEF ScanT, FileT
  <2>4. Opened(s, f, n, rr)
    BY <1>1, <1>5, <1>6, <2>1, <2>3, OpensInPlace, Zenon
  <2>5. meta' = [meta EXCEPT ![s] = n] /\ scans' = [scans EXCEPT ![s] = rr]
    BY <1>1, <1>4, <1>12, Zenon DEF StartLightTokenAppend, Scanning, Started, Store
  <2> QED BY <2>4, <2>5, Zenon
<1>13. CASE Plan(w) = "update"
  <2> DEFINE p == Scan(scans[s], m.pending)
             rr == Put(scans[s], Grown(p, f))
  <2>1. /\ m.pending > 0 /\ p.parser = parser /\ p.ver = f.ver /\ f.size >= p.size
    BY <1>3, <1>4, <1>5, <1>13 DEF Allowed
  <2>2. p \in ScanT
    BY <1>1, <2>1, Named DEF Store
  <2>3. p.size <= f.size /\ m.pending # 0
    BY <1>8, <2>1, <2>2 DEF ScanT, FileT
  <2>4. Opened(s, f, m, rr)
    BY <1>1, <1>5, <1>6, <2>1, <2>3, OpensInPlace, Zenon
  <2>5. meta' = [meta EXCEPT ![s] = m] /\ scans' = [scans EXCEPT ![s] = rr]
    BY <1>1, <1>4, <1>13 DEF UpdateLightTokenPendingIdentity, Store
  <2> QED BY <2>4, <2>5, Zenon
<1>14. CASE Plan(w) = "resume"
  <2>1. Opened(s, f, m, scans[s])
    BY <1>1, <1>3, <1>4, <1>5, <1>6, <1>14, Resumes, Zenon
  <2>2. meta' = [meta EXCEPT ![s] = m] /\ scans' = [scans EXCEPT ![s] = scans[s]]
    BY <1>1, <1>4, <1>14 DEF Store
  <2> QED BY <2>1, <2>2, Zenon
<1> QED BY <1>7, <1>10, <1>11, <1>12, <1>13, <1>14

\* Between two sessions the worker relies on its list only.
LEMMA PassWorker ==
    ASSUME NEW p, NEW b, wk' = Slice(p, b) \/ wk' = Yield(p), TodoOK(p.todo)'
    PROVE  Worker'
<1>1. wk'.pc \in {"slice", "yield"} /\ wk'.pass = p
  BY DEF Slice, Yield
<1> QED BY <1>1 DEF Worker, TodoOK

\* Inside a session it also relies on the scan it opened.
LEMMA ScanWorker ==
    ASSUME NEW p, NEW v \in ViewT, NEW f \in FileT,
           wk' = [pc |-> "scan", pass |-> p, view |-> v, snap |-> f],
           TodoOK(p.todo)', \A w \in p.todo : w.id # v.id, Builds(meta[v.id], scans[v.id], f)'
    PROVE  Worker'
<1>1. wk'.pc = "scan" /\ wk'.pass = p /\ wk'.view = v /\ wk'.snap = f
  OBVIOUS
<1> QED BY <1>1 DEF Worker, TodoOK, Builds

\* The transaction that opens a scan keeps the invariant and what is shown.
LEMMA BeginKeeps ==
    ASSUME IInv, wk.pc = "slice", NEW v \in wk.pass.todo, BeginScan(v)
    PROVE  IInv' /\ AllKept
<1>1. Store /\ TodoOK(wk.pass.todo)
  BY DEF IInv, Worker
<1>2. PICK p : p = Without(wk.pass, v)
  OBVIOUS
<1>3. p.todo = wk.pass.todo \ {v}
  BY <1>2 DEF Without, Pass
<1>4. v \in ViewT /\ v.id \in Sessions /\ TodoOK(p.todo) /\ \A w \in p.todo : w.id # v.id
  <2>1. PICK todo : todo = wk.pass.todo
    OBVIOUS
  <2>2. TodoOK(todo) /\ v \in todo
    BY <1>1, <2>1
  <2>3. v \in ViewT /\ v.id \in Sessions /\ TodoOK(todo \ {v}) /\ \A w \in todo \ {v} : w.id # v.id
    BY <2>2, OtherSessions
  <2>4. p.todo = todo \ {v}
    BY <1>3, <2>1
  <2> QED BY <2>3, <2>4
<1>5. Cached(v, meta[v.id], scans[v.id])
  BY <1>1 DEF TodoOK
<1>6. PICK f : f = At(v.id, v.meta.path)
  OBVIOUS
<1>7. f = file[v.id] /\ f # NoFile
  BY <1>1, <1>4, <1>5, <1>6, BeginOpens
<1>8. PICK n, rr : /\ Opened(v.id, f, n, rr)
                   /\ meta' = [meta EXCEPT ![v.id] = n]
                   /\ scans' = [scans EXCEPT ![v.id] = rr]
  BY <1>1, <1>4, <1>5, <1>6, BeginOpens
<1>9. gen' = gen /\ parser' = parser /\ ops' = ops /\ file' = file /\ threads' = threads
  BY DEF BeginScan, Turn
<1>10. /\ Good(n, rr) /\ Builds(n, rr, f) /\ Recent(file[v.id], rr)
       /\ Keeps(Visible(meta[v.id], scans[v.id]), Visible(n, rr))
  BY <1>7, <1>8 DEF Opened
<1>11. Store' /\ AllKept /\ meta'[v.id] = n /\ scans'[v.id] = rr /\ TodoOK(p.todo)'
  BY <1>1, <1>4, <1>8, <1>9, <1>10, OneSession, ZenonT(60)
<1>12. Builds(meta[v.id], scans[v.id], f)'
  BY <1>9, <1>10, <1>11 DEF Builds
<1>13. wk' = [pc |-> "scan", pass |-> p, view |-> v, snap |-> f]
  BY <1>2, <1>6 DEF BeginScan
<1>14. f \in FileT
  BY <1>1, <1>4, <1>7 DEF Store
<1> QED BY <1>4, <1>11, <1>12, <1>13, <1>14, ScanWorker DEF IInv

\* ChangedDuringScan and NoBudget.
LEMMA StopKeeps ==
    ASSUME IInv, ChangedDuringScan \/ NoBudget
    PROVE  IInv' /\ AllKept
<1>1. /\ Store /\ TodoOK(wk.pass.todo) /\ wk.view \in ViewT
      /\ \A v \in wk.pass.todo : v.id # wk.view.id
  BY Zenon DEF IInv, Worker, ChangedDuringScan, NoBudget, AtBatch
<1>2. PICK p : p = wk.pass
  OBVIOUS
<1>3. PICK v : v = wk.view
  OBVIOUS
<1>4. CASE ChangedDuringScan
  <2>1. UNCHANGED <<scans, file, threads, gen, parser, ops>> /\ SetLightScanState(v, "failed")
    BY <1>3, <1>4 DEF ChangedDuringScan, AtBatch
  <2>2. Store' /\ AllKept /\ TodoOK(p.todo)'
    BY <1>1, <1>2, <1>3, <2>1, MarkKeeps DEF StateT
  <2>3. wk' = Slice(p, FALSE)
    BY <1>2, <1>4 DEF ChangedDuringScan
  <2> QED BY <2>2, <2>3, PassWorker, Zenon DEF IInv
<1>5. CASE NoBudget
  <2>1. /\ UNCHANGED <<gen, file, meta, scans, threads, parser>>
        /\ ops' \in Nat /\ ops <= ops'
    BY <1>1, <1>5, Disturbed DEF NoBudget, AtBatch
  <2>2. parser' \in Nat /\ threads' \in [Sessions -> [listed : BOOLEAN, path : PathT, stamp : Nat]]
    BY <1>1, <2>1 DEF Store
  <2>3. Store' /\ AllKept /\ TodoOK(p.todo)'
    BY <1>1, <1>2, <2>1, <2>2, OnlyOutside
  <2>4. wk' = Yield(Pass(p.todo, TRUE))
    BY <1>2, <1>5 DEF NoBudget, PutOff
  <2>5. Pass(p.todo, TRUE).todo = p.todo
    BY DEF Pass
  <2> QED BY <2>3, <2>4, <2>5, SliceWorker, Zenon DEF IInv
<1> QED BY <1>4, <1>5

\* The next line of the scan that is being built.
LEMMA BatchFollows ==
    ASSUME Store, NEW s \in Sessions, NEW f \in FileT, f = file[s],
           Builds(meta[s], scans[s], f), NEW row, row = Advanced(Scan(scans[s], meta[s].pending), f)
    PROVE  /\ Follows(Scan(scans[s], meta[s].pending), row)
           /\ row.ver = f.ver /\ row.size = f.size /\ row.parser = parser
<1> DEFINE p == Scan(scans[s], meta[s].pending)
<1>1. Good(meta[s], scans[s]) /\ meta[s] # NoMeta /\ meta[s].pending # 0
  BY DEF Store, Builds
<1>2. p \in scans[s] /\ p.gen = meta[s].pending /\ p \in ScanT
  BY <1>1, Named
<1>3. p.ver = f.ver /\ p.size = f.size /\ p.parser = parser
  BY DEF Builds
<1>4. Pure(p) /\ p.offset <= p.size /\ p.state = "building"
  BY <1>1, <1>2, Zenon DEF Good, Consistent
<1> HIDE DEF p
<1>5. Follows(p, Advanced(p, f)) /\ Advanced(p, f).size = p.size /\ Advanced(p, f).parser = p.parser
  BY <1>2, <1>3, <1>4, AdvancedFollows
<1>6. Advanced(p, f).ver = p.ver
  BY <1>5 DEF Follows
<1> QED BY <1>3, <1>5, <1>6 DEF p

\* So does the one that stores a batch.
LEMMA BatchKeeps ==
    ASSUME IInv, ScanBatch
    PROVE  IInv' /\ AllKept
<1>1. PICK p : p = wk.pass
  OBVIOUS
<1>2. PICK v : v = wk.view
  OBVIOUS
<1>3. PICK f : f = wk.snap
  OBVIOUS
<1> DEFINE s == v.id
           m == meta[s]
           rows == scans[s]
<1>4. /\ Store /\ TodoOK(p.todo) /\ v \in ViewT /\ f \in FileT /\ s \in Sessions
      /\ \A w \in p.todo : w.id # s
      /\ Builds(m, rows, f)
  BY <1>1, <1>2, <1>3 DEF IInv, Worker, ScanBatch, AtBatch, ViewT
<1>5. f = file[s]
  <2>1. f # NoFile
    BY <1>4, Placeholders
  <2> QED BY <1>2, <1>3, <2>1 DEF ScanBatch, ReadLimited, At
<1>6. PICK row : /\ row = Advanced(Scan(rows, m.pending), f)
                 /\ CommitLightTokenBatch(s, row)
                 /\ IF row.offset + 1 >= row.size THEN wk' = Slice(p, FALSE)
                    ELSE wk' = wk \/ wk' = Yield(Pass(p.todo, TRUE))
  BY <1>1, <1>2, <1>5, ZenonT(60) DEF ScanBatch, PutOff
<1>7. /\ Follows(Scan(rows, m.pending), row)
      /\ row.ver = f.ver /\ row.size = f.size /\ row.parser = parser
  <2>1. Store /\ s \in Sessions /\ f \in FileT /\ f = file[s] /\ Builds(m, rows, f)
    BY <1>4, <1>5
  <2>2. row = Advanced(Scan(rows, m.pending), f)
    BY <1>6
  <2> QED BY <2>1, <2>2, BatchFollows
<1>8. row \in ScanT /\ row.offset \in Nat /\ row.size \in Nat
  BY <1>7 DEF Follows, ScanT
<1>9. Good(m, rows) /\ m # NoMeta /\ m.pending # 0 /\ m \in MetaT /\ Recent(f, rows)
  BY <1>4, <1>5 DEF Store, Builds
<1>10. gen' = gen /\ parser' = parser /\ ops' = ops /\ file' = file /\ threads' = threads
  BY DEF ScanBatch, AtBatch
<1>11. f # NoFile /\ f.size \in Nat
  BY <1>4, Placeholders DEF FileT
<1>12. CASE row.offset = row.size
  <2> DEFINE c == [row EXCEPT !.complete = TRUE, !.state = "active"]
             n == [m EXCEPT !.active = row.gen, !.pending = 0, !.state = "complete"]
  <2>1. meta' = [meta EXCEPT ![s] = n] /\ scans' = [scans EXCEPT ![s] = {c}]
    BY <1>4, <1>6, <1>12, Zenon DEF CommitLightTokenBatch, Store
  <2>2. Good(n, {c}) /\ Keeps(Visible(m, rows), Visible(n, {c}))
    BY <1>7, <1>9, <1>12, GoodComplete, Zenon
  <2>3. c.ver = f.ver /\ c.size = f.size
    BY <1>7, <1>8 DEF ScanT
  <2>4. Recent(f, {c})
    <3> HIDE DEF c
    <3>1. Recent(f, {} \cup {c})
      BY <1>9, <1>11, <2>3, RecentPut, Zenon
    <3> QED BY <3>1
  <2> HIDE DEF c, n
  <2>5. Store' /\ AllKept /\ TodoOK(p.todo)'
    BY <1>4, <1>5, <1>10, <2>1, <2>2, <2>4, OneSession, Zenon
  <2>6. row.offset + 1 >= row.size
    BY <1>8, <1>12
  <2>7. wk' = Slice(p, FALSE)
    BY <1>6, <2>6
  <2> QED BY <2>5, <2>7, PassWorker, Zenon DEF IInv
<1>13. CASE row.offset # row.size
  <2> DEFINE n == [m EXCEPT !.state = "partial"]
             rr == Put(rows, row)
  <2>1. meta' = [meta EXCEPT ![s] = n] /\ scans' = [scans EXCEPT ![s] = rr]
    BY <1>4, <1>6, <1>13 DEF CommitLightTokenBatch, Store
  <2>2. /\ n # NoMeta /\ n.pending = m.pending /\ Good(n, rr) /\ Scan(rr, n.pending) = row
        /\ Keeps(Visible(m, rows), Visible(n, rr))
    BY <1>7, <1>9, GoodPartial
  <2>3. Recent(f, rr)
    BY <1>7, <1>9, <1>11, RecentPut, Zenon DEF Put
  <2> HIDE DEF n, rr
  <2>4. Store' /\ AllKept /\ TodoOK(p.todo)' /\ meta'[s] = n /\ scans'[s] = rr
    BY <1>4, <1>5, <1>10, <2>1, <2>2, <2>3, OneSession, Zenon
  <2>5. CASE wk' = Slice(p, FALSE)
    BY <2>4, <2>5, PassWorker, Zenon DEF IInv
  <2>6. CASE wk' = Yield(Pass(p.todo, TRUE))
    BY <2>4, <2>6, SliceWorker, Zenon DEF IInv
  <2>7. CASE wk' = wk
    <3>1. Builds(meta[s], scans[s], f)'
      BY <1>7, <1>9, <1>10, <2>2, <2>4 DEF Builds
    <3>2. wk'.pc = "scan" /\ wk'.pass = p /\ wk'.view = v /\ wk'.snap = f
      BY <1>1, <1>2, <1>3, <2>7 DEF ScanBatch, AtBatch
    <3>3. Worker'
      BY <1>4, <2>4, <3>1, <3>2, Zenon DEF Worker, Builds, TodoOK
    <3> QED BY <2>4, <3>3 DEF IInv
  <2> QED BY <1>6, <2>5, <2>6, <2>7, Zenon
<1> QED BY <1>12, <1>13

-----------------------------------------------------------------------------
\* The steps between sessions.
LEMMA BeginWorker ==
    ASSUME NEW list, Begin(list), TodoOK(list)'
    PROVE  Worker'
BY SliceWorker, ZenonT(60) DEF Begin

\* A list read from the store agrees with it.
LEMMA StoredList ==
    ASSUME Store, NEW list, list = ListLightSessionScans(meta, scans)
    PROVE  TodoOK(list)
BY ListOK DEF Store, TodoOK

\* So does the start of a pass that refreshes the metadata.
LEMMA RefreshedBegin ==
    ASSUME IInv, refreshMetadata, Begin(ListLightSessionScans(Metadata, KeptScans)),
           UNCHANGED <<file, threads, parser, ops>>
    PROVE  IInv' /\ AllKept
<1>1. PICK list : list = ListLightSessionScans(Metadata, KeptScans)
  OBVIOUS
<1>2. Store' /\ AllKept /\ TodoOK(list)'
  BY <1>1, RefreshKeeps DEF IInv
<1>3. Begin(list)
  BY <1>1
<1> QED BY <1>2, <1>3, BeginWorker DEF IInv

\* So does the start of one that takes the stored sessions.
LEMMA StoredBegin ==
    ASSUME IInv, Begin(ListLightSessionScans(meta, scans)), ops' \in Nat, ops <= ops',
           UNCHANGED <<stored, file, threads, parser>>
    PROVE  IInv' /\ AllKept
<1>1. PICK list : list = ListLightSessionScans(meta, scans)
  OBVIOUS
<1>2. Store /\ TodoOK(list)
  BY <1>1, StoredList DEF IInv
<1>3. UNCHANGED <<gen, file, meta, scans>>
  BY DEF stored
<1>4. parser' \in Nat /\ threads' \in [Sessions -> [listed : BOOLEAN, path : PathT, stamp : Nat]]
  BY <1>2 DEF Store
<1>5. Store' /\ AllKept /\ TodoOK(list)'
  BY <1>2, <1>3, <1>4, OnlyOutside
<1>6. Begin(list)
  BY <1>1
<1> QED BY <1>5, <1>6, BeginWorker DEF IInv

\* So do the steps of the worker between sessions.
LEMMA PassKeeps ==
    ASSUME IInv, Start \/ Wake \/ NextSlice \/ SliceEnds \/ PassEnds
    PROVE  IInv' /\ AllKept
<1>1. Store
  BY DEF IInv
<1>2. ops \in Nat /\ ops <= ops
  BY <1>1 DEF Store
<1>3. CASE Start
  <2>1. CASE refreshMetadata /\ Begin(ListLightSessionScans(Metadata, KeptScans)) /\ UNCHANGED ops
    BY <1>3, <2>1, RefreshedBegin DEF Start
  <2>2. CASE Disturb /\ UNCHANGED stored /\ Begin(ListLightSessionScans(meta, scans))
    <3>1. ops' \in Nat /\ ops <= ops'
      BY <1>1, <2>2, Disturbed
    <3> QED BY <1>3, <2>2, <3>1, StoredBegin DEF Start
  <2> QED BY <1>3, <2>1, <2>2 DEF Start
<1>4. CASE Wake
  BY <1>4, RefreshedBegin DEF Wake
<1>5. CASE NextSlice
  <2>1. PICK p : p = wk.pass
    OBVIOUS
  <2>2. wk.pc = "yield" /\ UNCHANGED <<file, threads, parser, ops>>
    BY <1>5 DEF NextSlice
  <2>3. CASE ~p.loaded
    BY <1>2, <1>5, <2>1, <2>2, <2>3, RefreshedBegin, StoredBegin DEF NextSlice, Resume
  <2>4. CASE p.loaded
    <3>1. wk' = Slice(p, TRUE) /\ TodoOK(p.todo)
      BY <1>5, <2>1, <2>2, <2>4, Zenon DEF NextSlice, Resume, IInv, Worker
    <3>2. CASE refreshMetadata
      BY <1>1, <2>2, <3>1, <3>2, RefreshKeeps, PassWorker, Zenon DEF IInv
    <3>3. CASE UNCHANGED stored
      <4>1. UNCHANGED <<gen, parser, ops, file, threads, meta, scans>>
        BY <2>2, <3>3 DEF stored
      <4> QED BY <1>1, <3>1, <4>1, SameStore, PassWorker, Zenon DEF IInv
    <3> QED BY <1>5, <3>2, <3>3 DEF NextSlice
  <2> QED BY <2>3, <2>4
<1>6. CASE SliceEnds
  <2>1. PICK p : p = wk.pass
    OBVIOUS
  <2>2. wk' = Yield(p) /\ TodoOK(p.todo)
    BY <1>6, <2>1 DEF SliceEnds, IInv, Worker
  <2>3. UNCHANGED <<gen, parser, ops, file, threads, meta, scans>>
    BY <1>6 DEF SliceEnds, stored
  <2> QED BY <1>1, <2>2, <2>3, SameStore, PassWorker DEF IInv
<1>7. CASE PassEnds
  <2>1. UNCHANGED <<gen, parser, ops, file, threads, meta, scans>>
    BY <1>7 DEF PassEnds
  <2>2. wk' \in {Down, Wait, Yield(NoPass)}
    BY <1>7 DEF PassEnds
  <2> QED BY <1>1, <2>1, <2>2, SameStore, IdleWorker DEF IInv
<1> QED BY <1>3, <1>4, <1>5, <1>6, <1>7

\* A step that leaves the store, the parser and the worker leaves what it relies on.
LEMMA OutsideWorker ==
    ASSUME Worker, wk' = wk, parser' = parser, meta' = meta, scans' = scans
    PROVE  Worker'
BY DEF Worker, TodoOK, Builds

\* The invariant holds at the start.
LEMMA StartsRight == Init => IInv
<1> SUFFICES ASSUME Init PROVE IInv
  OBVIOUS
<1> USE DEF Init
<1>1. \A f \in {[path |-> p, inode |-> 0, ver |-> 0, mtime |-> 0, size |-> n] :
                                 p \in Paths, n \in 0..2 * MaxLines} :
         f \in FileT /\ f.ver = 0 /\ f.path \in PathT
  BY LightAssumption DEF FileT, PathT
<1>2. file \in [Sessions -> FileT] /\ \A s \in Sessions : file[s].ver = 0 /\ file[s].path \in PathT
  BY <1>1
<1>3. ops \in Nat
  BY DisturbAssumption
<1>4. threads \in [Sessions -> [listed : BOOLEAN, path : PathT, stamp : Nat]]
  BY <1>2
<1>5. Good(NoMeta, {})
  BY DEF Good, Consistent, Honest, Longer
<1>6. \A s \in Sessions : Recent(file[s], scans[s])
  BY <1>2, <1>3 DEF Recent, Covers
<1>7. Store
  BY <1>2, <1>3, <1>4, <1>5, <1>6 DEF Store
<1>8. Worker
  BY DEF Worker, Down
<1> QED BY <1>7, <1>8 DEF IInv

\* Every step keeps it, and what every session that stays shows.
LEMMA StepsKeep == IInv /\ [Next]_vars => IInv' /\ (AllKept \/ UNCHANGED vars)
<1> SUFFICES ASSUME IInv, [Next]_vars PROVE IInv' /\ (AllKept \/ UNCHANGED vars)
  OBVIOUS
<1>1. Store /\ Worker
  BY DEF IInv
<1>2. CASE Start \/ Wake \/ NextSlice \/ SliceEnds \/ PassEnds
  BY <1>2, PassKeeps
<1>3. ASSUME wk.pc = "slice", NEW v \in wk.pass.todo,
             NoRollout(v) \/ SourceFails(v) \/ Reuse(v) \/ SessionGone(v) \/ BeginScan(v)
      PROVE  IInv' /\ AllKept
  BY <1>3, TurnKeeps, BeginKeeps
<1>4. CASE ChangedDuringScan \/ NoBudget
  BY <1>4, StopKeeps
<1>5. CASE ScanBatch
  BY <1>5, BatchKeeps
<1>6. CASE Crash
  <2>1. wk' \in {Down, Wait, Yield(NoPass)}
    BY <1>6 DEF Crash
  <2> QED BY <1>1, <1>6, <2>1, CrashKeeps, IdleWorker DEF IInv
<1>7. ASSUME NEW s \in Restless,
             FileGrows(s) \/ FileReplaced(s) \/ FileTouched(s) \/ FileMoved(s) \/ FileRemoved(s)
      PROVE  IInv' /\ AllKept
  <2>1. s \in Sessions /\ UNCHANGED <<wk, parser, meta, scans>>
    BY <1>7, LightAssumption, Zenon DEF FileGrows, FileReplaced, FileTouched, FileMoved, FileRemoved, stored
  <2> QED BY <1>1, <1>7, <2>1, FilesKeep, OutsideWorker DEF IInv
<1>8. ASSUME NEW s \in Restless, ListChanges(s) \/ ListReturns(s) \/ ListFollows(s)
      PROVE  IInv' /\ AllKept
  <2>1. s \in Sessions /\ UNCHANGED <<wk, parser, meta, scans>>
    BY <1>8, LightAssumption DEF ListChanges, ListReturns, ListFollows, stored
  <2> QED BY <1>1, <1>8, <2>1, ListKeeps, OutsideWorker DEF IInv
<1>9. CASE UNCHANGED vars
  <2>1. UNCHANGED <<gen, parser, ops, file, threads, meta, scans, wk>>
    BY <1>9 DEF vars, stored
  <2> QED BY <1>1, <1>9, <2>1, SameStore, OutsideWorker DEF IInv
<1> QED BY <1>2, <1>3, <1>4, <1>5, <1>6, <1>7, <1>8, <1>9, Zenon DEF Next, Work

-----------------------------------------------------------------------------
\* Whatever happens to files, list and process: what is stored of every session
\* and what the worker remembers of it fit together.
THEOREM Invariance == Spec => []IInv
BY StartsRight, StepsKeep, PTL DEF Spec

\* The scan rows of a session are those its row names, in the states these
\* transactions leave them in (StartLightToken*, RestartLightTokenPendingRebuild,
\* CommitLightTokenBatch).
THEOREM RowsConsistent == Spec => []ScanRows
<1>1. IInv => ScanRows
  BY DEF IInv, Store, Good, ScanRows
<1> QED BY <1>1, Invariance, PTL

\* No scan row mixes two contents of a file or two parsers.
THEOREM ContentsNeverMix == Spec => []OneContent
<1>1. IInv => OneContent
  BY DEF IInv, Store, Good, OneContent
<1> QED BY <1>1, Invariance, PTL

\* A session shown as complete is complete.
THEOREM CompleteIsComplete == Spec => []CompleteHonest
<1>1. IInv => CompleteHonest
  BY DEF IInv, Store, Good, CompleteHonest
<1> QED BY <1>1, Invariance, PTL

\* What the queries show of a session is only replaced by a complete count, and a
\* count of the same content never goes down.
THEOREM ShownIsKept == Spec => VisibleKept
<1>1. IInv /\ [Next]_vars => [\A s \in Sessions :
          meta'[s] # NoMeta => Keeps(Visible(meta[s], scans[s]), Visible(meta'[s], scans'[s]))]_vars
  BY StepsKeep DEF AllKept
<1> QED BY <1>1, Invariance, PTL DEF Spec, VisibleKept
=============================================================================
