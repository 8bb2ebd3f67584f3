----------------------------- MODULE MCBooster ------------------------------
(***************************************************************************)
(* Booster on small instances: the applications are interchangeable.       *)
(***************************************************************************)
EXTENDS Booster, TLC

AppSymmetry == Permutations(Apps)
=============================================================================
