------------------------------ MODULE MCThreads ------------------------------
(***************************************************************************)
(* Instances of the coordinator's threads for TLC.                         *)
(***************************************************************************)
EXTENDS CoordinatorThreads, TLC

CONSTANTS s1, s2, a1, b1

(* The connections are interchangeable. *)
SessionSymmetry == Permutations({s1, s2})
=============================================================================
