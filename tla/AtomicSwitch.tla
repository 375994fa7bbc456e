----------------------------- MODULE AtomicSwitch -----------------------------
(***************************************************************************)
(* What a Home switch promises, without its journal: every switch that is  *)
(* ever decided ends once, either completed, and the settled Home is a     *)
(* different directory one generation on, or rolled back, and nothing      *)
(* happened.  HomeSwitch implements this.                                  *)
(***************************************************************************)
EXTENDS Integers

VARIABLES
    home,   \* the Home that is settled: source, generation, data store key
    log     \* the switches that ended, each with its outcome

(* A switch that has not ended yet.                                        *)
Fresh(id) == \A e \in log : e[1] # id

Complete(id, h) ==
    /\ Fresh(id)
    /\ h.src # home.src
    /\ h.gen = home.gen + 1
    /\ home' = h
    /\ log' = log \cup {<<id, "completed">>}

RollBack(id) ==
    /\ Fresh(id)
    /\ log' = log \cup {<<id, "rolled_back">>}
    /\ UNCHANGED home

Init == log = {} /\ home.gen \in {0, 1}

Next ==
    \E e \in log' \ log :
       \/ e[2] = "completed" /\ Complete(e[1], home')
       \/ e[2] = "rolled_back" /\ RollBack(e[1])

Spec == Init /\ [][Next]_<<home, log>>
===============================================================================
