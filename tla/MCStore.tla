------------------------------- MODULE MCStore -------------------------------
(***************************************************************************)
(* Instances of the file store for TLC.                                    *)
(***************************************************************************)
EXTENDS FileStore, TLC

CONSTANTS s1, s2, x1, x2, pid1, pid2

StoreSymmetry == Permutations({s1, s2}) \cup Permutations({x1, x2})
=============================================================================
