--------------------------------- MODULE ReportLog ---------------------------------
(***************************************************************************)
(* What reporting promises about one session of one device: the device     *)
(* exports snapshots one after the other, and what the centre has stored   *)
(* is always one of them, whole, and never an older one than before.       *)
(* Revisions may be skipped: a later snapshot replaces the earlier ones.   *)
(***************************************************************************)
EXTENDS Naturals, Sequences

CONSTANT None       \* the snapshot stored before the first upload

VARIABLES
    log,        \* the snapshots exported so far, by revision
    stored      \* [rev, snap]

Init == log = <<>> /\ stored = [rev |-> 0, snap |-> None]

Export ==
    /\ Len(log') = Len(log) + 1
    /\ \A r \in DOMAIN log : log'[r] = log[r]
    /\ UNCHANGED stored

Store ==
    /\ \E r \in DOMAIN log :
          /\ r > stored.rev
          /\ stored' = [rev |-> r, snap |-> log[r]]
    /\ UNCHANGED log

Next == Export \/ Store

Spec == Init /\ [][Next]_<<log, stored>>
=============================================================================
