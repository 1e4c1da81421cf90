---- MODULE MCAdapter ----
(***************************************************************************)
(* A small account for TLC: a market with two outcomes, one outcome of a   *)
(* second market, and a dollar of two ticks.                               *)
(***************************************************************************)
EXTENDS Adapter, TLC

CONSTANTS market, other, k1, k2, k3

MCConditionOf == [k \in Tokens |-> IF k = k3 THEN other ELSE market]
MCSymmetry == Permutations(OrderIds) \cup Permutations({k1, k2})
====
