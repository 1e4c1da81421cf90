----------------------------- MODULE MCTraining -----------------------------
(* Four epochs of two batches, patience 2: a command that stops early has  *)
(* two epochs left to overrun into.                                        *)
EXTENDS Training
=============================================================================
