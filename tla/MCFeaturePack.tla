---- MODULE MCFeaturePack ----
(***************************************************************************)
(* Instances of FeaturePack for TLC: days of three seconds, one date       *)
(* without trades, two trades in one second, resolutions within, between   *)
(* and behind the streamed days.                                           *)
(***************************************************************************)
EXTENDS FeaturePack

ThreeDays == <<<<1, 1>>, <<3, 5>>, <<10>>>>
SomeResolutions == SUBSET {0, 1, 7} \cup {{5, 10}, {1, 5, 7, 10}}
SomeActors == {{}, {1, 3}}
====
