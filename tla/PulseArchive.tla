---- MODULE PulseArchive ----
(***************************************************************************)
(* What Sphinx Pulse promises about a captured record: it is kept locally  *)
(* until it is in the archive, and it stays in the archive.                *)
(***************************************************************************)
CONSTANT Records

VARIABLES
    kept,         \* records in local files
    archived      \* records in published, verified releases

vars == <<kept, archived>>

Init == kept = {} /\ archived = {}

Write == \E S \in SUBSET Records : kept' = kept \cup S /\ UNCHANGED archived

Archive == \E S \in SUBSET kept : archived' = archived \cup S /\ UNCHANGED kept

Discard == \E S \in SUBSET (kept \cap archived) : kept' = kept \ S /\ UNCHANGED archived

Next == Write \/ Archive \/ Discard

Spec == Init /\ [][Next]_vars
====
