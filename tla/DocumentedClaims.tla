--------------------------- MODULE DocumentedClaims ---------------------------
(***************************************************************************)
(* What a comment of the repository says about the engine and its code     *)
(* does not keep.                                                          *)
(***************************************************************************)
EXTENDS CoordinatorEngine

(* src/detail/coordinator_impl.hpp: a failed save "restores canonical      *)
(* state exactly": before a declaration is committed the coordinator still *)
(* answers for the cluster it was configured with.                         *)
RollbackRestoresIdentity == epoch = 0 => id = ConfigCluster
=============================================================================
