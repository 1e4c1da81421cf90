---- MODULE MCPulsePublisher ----
(***************************************************************************)
(* Instances of PulsePublisher for TLC.                                    *)
(***************************************************************************)
EXTENDS PulsePublisher

====
