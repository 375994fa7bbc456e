------------------------------- MODULE MCReporting -------------------------------
(***************************************************************************)
(* Reporting for TLC: one device and two peers report a session; with a    *)
(* second server running, one disturbance fewer.                           *)
(***************************************************************************)
EXTENDS Reporting

Row(i, c) == [id |-> i, cost |-> c]
Snap(rows, complete) == [rows |-> rows, complete |-> complete, deleted |-> FALSE]

\* A snapshot of two parts, and a smaller one the index has while it rescans.
MCReports == {Snap(<<Row("f1", "a"), Row("f2", "a")>>, TRUE), Snap(<<Row("f1", "a")>>, FALSE)}

\* A peer prices the row both know otherwise, then has lost it; the other one
\* knows no price, but is complete.
MCPeerReports ==
    [p \in {"peer", "third"} |->
        IF p = "peer"
        THEN <<Snap(<<Row("f1", "b")>>, FALSE), Snap(<<Row("f3", "b")>>, TRUE)>>
        ELSE <<Snap(<<Row("f1", "unknown")>>, TRUE)>>]
MCOrder == <<"me", "peer", "third">>

\* Three copies, after the device the session was taken from has deleted it: the
\* decision takes the complete copy, a rebuild the one that knows the price,
\* and only the next one changes nothing.
Left ==
    [c \in Clients |->
        CASE c = "me"   -> [rev |-> 2, snap |-> Tombstone]
          [] c = "peer" -> [rev |-> 1, snap |-> MCPeerReports["peer"][1]]
          [] OTHER      -> [rev |-> 1, snap |-> MCPeerReports["third"][1]]]
Gone ==
    [id |-> "me", rev |-> 1, snap |-> Snap(<<Row("f1", "a")>>, FALSE), deleted |-> FALSE,
     conflict |-> FALSE, fence |-> FALSE]

ASSUME RebuildMayMove ==
    LET once  == planSession(Left, Gone)
        twice == planSession(Left, once)
    IN once.id = "third" /\ twice.id = "peer" /\ planSession(Left, twice) = twice

MCInit ==
    /\ Init
    /\ work["s1"] = Idle
    /\ ops = IF work["s2"] = Idle THEN 1 ELSE 0

MCSpec == MCInit /\ [][Next]_vars
=============================================================================
