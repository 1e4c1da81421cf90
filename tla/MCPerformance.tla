---- MODULE MCPerformance ----
(***************************************************************************)
(* Instances of Performance for TLC.                                       *)
(***************************************************************************)
EXTENDS Performance

TwoSided == {-2, 1}
====
