---- MODULE MCPulseCollector ----
(***************************************************************************)
(* Instances of PulseCollector for TLC.                                    *)
(***************************************************************************)
EXTENDS PulseCollector
====
