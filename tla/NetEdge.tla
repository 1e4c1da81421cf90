------------------------------- MODULE NetEdge -------------------------------
(***************************************************************************)
(* From the feature pack to the result of H022: the packs and candidates   *)
(* of Packs, then the training of CrossFit from them.                      *)
(***************************************************************************)
EXTENDS Packs, CrossFit

NetEdgeInit == PackInit /\ FitInit

(* The training of H022 has its partitions in memory: what becomes of the  *)
(* packs on the disk from here on is left out.                             *)
LoadCandidates ==
    /\ training /\ study = "H022"
    /\ study' = Nothing /\ made' = Nothing /\ config' = Nothing /\ days' = Nothing
    /\ job' = Nothing /\ ended' = Nothing /\ pausing' = Nothing /\ read' = Nothing
    /\ edits' = Nothing /\ halts' = Nothing /\ writings' = Nothing
    /\ UNCHANGED training

TrainCandidates == study = Nothing /\ FitNext

NetEdgeNext ==
    \/ (PackNext \/ LoadCandidates) /\ UNCHANGED fitVars
    \/ TrainCandidates /\ UNCHANGED packVars

NetEdgeSpec ==
    NetEdgeInit /\ [][NetEdgeNext]_<<packVars, fitVars>> /\ PackFairness
=============================================================================
