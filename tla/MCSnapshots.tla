------------------------------ MODULE MCSnapshots ------------------------------
(***************************************************************************)
(* Instances of the snapshot consumer for TLC.                             *)
(***************************************************************************)
EXTENDS Snapshots, MCEngine

(* Two racks, two incarnations with a publication before a restart and two *)
(* after it; an operator declares, retires and publishes snapshots and a   *)
(* domain.                                                                 *)
ConsumerRequests ==
    {Request(2, b, 1, Fresh, 0) : b \in {b1, b2}} \cup
    {Request(3, b, p, Fresh, 0) : b \in {b1, b2}, p \in 1 .. 2}

PlacementOnly == d1 :> "placement"

ConsumerDomains == {[generation |-> 1, klass |-> k1, racks |-> {r1}, evidence |-> Untimed]}

ASSUME ConsumerAssumption == LoadableInputs
=============================================================================
