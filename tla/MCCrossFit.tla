----------------------------- MODULE MCCrossFit -----------------------------
(* Two days, an artifact made again without need and two halts before the  *)
(* training; three folds as in the configuration, and three epochs with    *)
(* patience 1, which leave one epoch to train past an early stop.          *)
EXTENDS NetEdge
=============================================================================
