---- MODULE MCTradeWindows ----
(***************************************************************************)
(* An instance of TradeWindows for TLC.                                    *)
(***************************************************************************)
EXTENDS TradeWindows

(* A window that is halved beside one with a busy second that cannot be;   *)
(* and two groups a run can complete.                                      *)
Traffic == {<< <<1, 1, 1>>, <<0, 3, 1>> >>, << <<0, 1, 0>>, <<1, 0, 0>> >>}
BySecond == {[g \in Groups |-> [s \in Seconds |-> t[g][s + 1]]] : t \in Traffic}
VolumeParts == [g \in Groups |-> g]
====
