----------------------------- MODULE MCUpgrade ------------------------------
(* Two migrations, of which the first release shipped one (ids need not be *)
(* consecutive); the cfg files choose the processes.                       *)
EXTENDS Upgrade

CONSTANTS i1, i2, i3, d1, d2

TwoMigrations == {1, 3}

MixedReleases == [p \in Inits \cup Daemons |-> IF p \in {i1, d1} THEN 1 ELSE 3]
ThirdEdited   == [p \in Inits |-> IF p = i3 THEN {1} ELSE {}]
=============================================================================
