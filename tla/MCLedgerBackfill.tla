---- MODULE MCLedgerBackfill ----
(***************************************************************************)
(* An instance of LedgerBackfill for TLC: seconds 0 .. 3, window 1 .. 2.   *)
(***************************************************************************)
EXTENDS LedgerBackfill

Ascending ==
    {s \in [Blocks -> 0 .. 3] :
        s[LastBlock] = 3 /\ \A b \in 1 .. LastBlock : s[b - 1] =< s[b]}

(* No fill at all, one a block, and crowded blocks at either end.          *)
Densities ==
    {[b \in Blocks |-> 0], [b \in Blocks |-> 1],
     [b \in Blocks |-> IF b \in {1, LastBlock - 1} THEN 5 ELSE 0]}
====
