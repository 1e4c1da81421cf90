---- MODULE MCReplay ----
(***************************************************************************)
(* Instances of Replay for TLC: a day of two seconds, a gap of one, and a  *)
(* day of one second.                                                      *)
(***************************************************************************)
EXTENDS Replay

Starts == <<1, 4>>
Ends == <<2, 4>>
====
