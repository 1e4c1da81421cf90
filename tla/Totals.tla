---- MODULE Totals ----
(***************************************************************************)
(* Totals of a natural-number quantity over a finite set.                  *)
(*                                                                         *)
(* The simulator adds up reserved cash, reserved shares and cost bases     *)
(* with Python's sum().  A total is defined here as the number of units    *)
(* the entries hold together, each unit tagged with its owner.  Counting   *)
(* a set needs no recursion, so TotalsProofs can derive every law of       *)
(* addition from the library's facts about cardinality.                    *)
(***************************************************************************)
EXTENDS Integers, FiniteSets

(* The units the entries of S hold: f[x] of them, all tagged x.            *)
Units(f, S) == UNION {{x} \X (1 .. f[x]) : x \in S}

(* The sum of f[x] over x in S.                                            *)
Total(f, S) == Cardinality(Units(f, S))
====
