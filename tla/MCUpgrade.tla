------------------------------ MODULE MCUpgrade ------------------------------
(* Instances of Upgrade for TLC.                                           *)
EXTENDS Upgrade, TLC
CONSTANTS c1, c2, x1, x2, x3, x4
Alike == Permutations({c1, c2}) \cup Permutations({x1, x2, x3, x4})
=============================================================================
