------------------------------- MODULE MCLightIndex -------------------------------
(***************************************************************************)
(* The light index with three sessions.  The first and the last change, so *)
(* that there are two ends of a slice, and two refreshes, between loading  *)
(* the last one and its turn.                                              *)
(***************************************************************************)
EXTENDS LightIndex

MCOrder == <<"a", "b", "c">>

MCInit ==
    /\ Init
    /\ ops = 0
    /\ \A s \in Sessions : file[s].path = "live" /\ file[s].size = IF s = "c" THEN 4 ELSE 2

MCSpec == MCInit /\ [][Next]_vars /\ Fairness
===============================================================================
