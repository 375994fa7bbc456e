------------------------------ MODULE Disturbances ------------------------------
(***************************************************************************)
(* The bound on what disturbs reporting from outside: changes of the index *)
(* and of the settings, failures of the network, of a client's cycle and   *)
(* of a server.  All of them draw on one budget, in any order.             *)
(***************************************************************************)
EXTENDS Naturals

CONSTANT MaxOps     \* bound: disturbances of a behaviour

ASSUME DisturbAssumption == MaxOps \in Nat

VARIABLE ops        \* disturbances so far

Disturb == ops < MaxOps /\ ops' = ops + 1
=============================================================================
