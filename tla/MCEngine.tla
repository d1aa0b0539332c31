------------------------------- MODULE MCEngine -------------------------------
(***************************************************************************)
(* Instances of the commit engine for TLC.                                 *)
(***************************************************************************)
EXTENDS DocumentedClaims, TLC

CONSTANTS c1, c2, r1, r2, b1, b2, p1, d1, d2, k1, raw, sorted

Fresh == [provenance |-> "Reported", observed |-> TRUE, freshness |-> "Fresh"]
Untimed == [Fresh EXCEPT !.freshness = "Unknown"]

BaseContract ==
    [minimum_current_racks |-> 1, mandatory_racks |-> {},
     require_all_active_racks_current |-> FALSE, require_connectivity_evidence |-> FALSE,
     minimum_current_links |-> 0, required_placement_domain_classes |-> {},
     required_failure_domain_classes |-> {}, allow_partial |-> TRUE,
     allow_degraded |-> TRUE, require_no_conflicts |-> TRUE]

NoEndpoints == [e \in {Empty} |-> Empty]
NoDomains == [d \in {} |-> "placement"]

(* An agent names itself, its incarnation and its publication sequence in  *)
(* the authority and in the reference alike.                               *)
Request(coordinator, boot, publication, evidence, new) ==
    [cluster |-> c1,
     declared_lifecycle |-> "Declared", readiness_contract |-> BaseContract,
     authority |-> [cluster_epoch |-> 1, coordinator_epoch |-> coordinator, boot |-> boot,
                    publisher |-> p1, publication |-> publication],
     rack_reference |-> [generation |-> 1, publisher |-> p1, boot |-> boot,
                         publication |-> publication, evidence |-> evidence,
                         composition |-> Empty, endpoints |-> Empty],
     evidence |-> evidence, reachability |-> "Unknown", target_topology_epoch |-> 2,
     expected_rack_generation |-> 0, new_rack_generation |-> new]

(* Membership: two incarnations, two generations, fresh and untimed        *)
(* evidence.                                                               *)
MembershipRequests ==
    {Request(ce, b, p, x[1], x[2]) :
        ce \in 2 .. 3, b \in {b1, b2}, p \in 1 .. 2,
        x \in {<<Fresh, 0>>, <<Untimed, 0>>, <<Fresh, 2>>}}

OperatorRequests == {Request(ce, NoBoot, 0, Fresh, 0) : ce \in 2 .. 3}

(* Declarations also move the cluster to RETIRING, or away from it. *)
MembershipOperator ==
    OperatorRequests \cup
    {[q EXCEPT !.declared_lifecycle = "Retiring"] : q \in OperatorRequests}

IncarnationSymmetry == Permutations({b1, b2})

(* Topology: two racks of one incarnation and a link between them that     *)
(* names a network domain, published under two topology epochs.            *)
TopologyRackRequests ==
    {[Request(ce, b1, 1, Fresh, 0) EXCEPT !.reachability = "Reachable"] : ce \in 2 .. 3}

NetworkOnly == d2 :> "network"

TopologyDomains == {[generation |-> 1, klass |-> k1, racks |-> {r1}, evidence |-> Untimed]}

TopologyLinks ==
    {[generation |-> g, source |-> r1, destination |-> r2, domains |-> {d2}, boot |-> b1,
      reachability |-> "Unreachable", evidence |-> Fresh, topology_epoch |-> g] : g \in 1 .. 2}

(* Readiness: a contract with a mandatory rack, a quorum and a required    *)
(* placement and failure domain class; a constraint over the other rack.   *)
StrictContract ==
    [BaseContract EXCEPT !.mandatory_racks = {r1}, !.minimum_current_racks = 1,
                         !.required_placement_domain_classes = {k1},
                         !.required_failure_domain_classes = {k1}]

StrictContracts == {BaseContract, StrictContract}

ReadinessKinds == (d1 :> "placement") @@ (d2 :> "failure")

ReadinessRackRequests == {Request(ce, b1, 1, Fresh, 0) : ce \in 2 .. 3}

ReadinessDomains ==
    {[generation |-> 1, klass |-> k1, racks |-> {r1}, evidence |-> e] : e \in {Fresh, Untimed}}

ReadinessConstraints == {[generation |-> 1, racks |-> {r2}]}

StrictDeclaration ==
    {[Request(ce, NoBoot, 0, Fresh, 0) EXCEPT !.readiness_contract = StrictContract] :
        ce \in 2 .. 3}

(* A declaration that leaves the epochs to the coordinator; no later       *)
(* cluster request carries the epochs in force.                            *)
DeclarationOnly == {[Request(0, NoBoot, 0, Fresh, 0) EXCEPT !.authority.cluster_epoch = 0]}

(* A reference that is sent as it was configured, its endpoints unsorted. *)
SortedEndpoints == (Empty :> Empty) @@ (sorted :> sorted) @@ (raw :> sorted)

UnsortedRequests ==
    {[Request(2, b, 1, Fresh, 0) EXCEPT !.rack_reference.endpoints = raw] : b \in {b1, b2}}

(* A declaration for another cluster than the configured one. *)
OtherCluster == {[q EXCEPT !.cluster = c2] : q \in DeclarationOnly}

BaseContracts == {BaseContract}
=============================================================================
