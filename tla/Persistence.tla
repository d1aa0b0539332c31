------------------------------ MODULE Persistence ------------------------------
(***************************************************************************)
(* The durable container: the projection of canonical state a commit       *)
(* saves, the structural validation a load applies to it, and what         *)
(* recovery makes of a container that passes.                              *)
(*                                                                         *)
(* A save replaces the container atomically (write to a temporary file,    *)
(* then rename), so the container is one value, `disk'.                    *)
(***************************************************************************)
EXTENDS ClusterState

CONSTANTS
    NoContainer,   \* the store holds no container yet
    MaxRacks       \* kMaxRacksPerCluster; a load bounds the fenced list by it too

VARIABLE disk

DurableRackRecord ==
    [membership : Memberships, membership_generation : Generations,
     generation : Generations, publisher : Publishers \cup {NoPublisher},
     last_boot : Boots \cup {NoBoot}, publication : Generations,
     composition : Compositions, endpoints : EndpointLists]

PersistedState ==
    [id : ClusterIds, epoch : Generations, last_coordinator_epoch : Generations,
     counters : [Counters -> Generations], topology_epoch : Generations,
     domain_generations : [DomainKinds -> Generations],
     lifecycle : Lifecycles, readiness_contract : Contracts,
     racks : [Racks -> DurableRackRecord],
     links : [LinkIds -> LinkRecord \cup {NoRecord}],
     domains : [DomainIds -> DomainRecord \cup {NoRecord}],
     constraints : [ConstraintIds -> ConstraintRecord \cup {NoRecord}],
     retired_racks : SUBSET Racks, withdrawn_racks : SUBSET Racks,
     fenced_authorities : SUBSET Boots, unexplained : SUBSET Boots]

ASSUME ContainerAssumption == NoContainer \notin PersistedState

(* PersistedState::DurableRack: what survives of a rack record.  (A record *)
(* without a publisher would be saved under a stand-in name; registration  *)
(* and admission, the two ways to create a record, always give it one.)    *)
DurableRack(x) ==
    [membership |-> x.membership, membership_generation |-> x.membership_generation,
     generation |-> x.generation, publisher |-> x.publisher,
     last_boot |-> x.boot, publication |-> x.publication,
     composition |-> x.composition, endpoints |-> x.endpoints]

to_persisted_state ==
    [id |-> id, epoch |-> epoch, last_coordinator_epoch |-> coordinator_epoch,
     counters |-> counters, topology_epoch |-> topology_epoch,
     domain_generations |-> domain_generations,
     lifecycle |-> lifecycle, readiness_contract |-> readiness_contract,
     racks |-> [r \in Racks |-> DurableRack(racks[r])],
     links |-> links, domains |-> domains, constraints |-> constraints,
     retired_racks |-> retired_racks, withdrawn_racks |-> withdrawn_racks,
     fenced_authorities |-> fenced_authorities, unexplained |-> unexplained]

(***************************************************************************)
(* decode_persisted_state and validate_persisted_state: a container that   *)
(* fails any of these is rejected as a whole.  The bounds on the other     *)
(* lists are those the mutations already keep.  A fence needs a reason; one *)
(* too long for the format fails the save of the fence, not the load.      *)
(***************************************************************************)
DurableRackValid(x) ==
    /\ x.generation > 0
    /\ x.publisher # NoPublisher /\ x.last_boot # NoBoot
    /\ canonicalize[x.endpoints] = x.endpoints

Stored(p, r) == p.racks[r].membership # "Absent"

DurableLinkValid(p, x) ==
    /\ x.source # x.destination
    /\ Stored(p, x.source) /\ Stored(p, x.destination)
    /\ x.topology_epoch > 0
    /\ \A d \in x.domains : KindOf[d] \in {"network", "link"} => p.domains[d].generation > 0

validate_persisted_state(p) ==
    /\ p.epoch > 0 /\ p.last_coordinator_epoch > 0 /\ p.topology_epoch > 0
    /\ \A c \in Counters : p.counters[c] > 0
    /\ \A r \in Racks : Stored(p, r) => DurableRackValid(p.racks[r])
    /\ \A d \in DomainIds :
          p.domains[d].generation > 0 => \A r \in p.domains[d].racks : Stored(p, r)
    /\ \A l \in LinkIds : p.links[l].generation > 0 => DurableLinkValid(p, p.links[l])
    /\ \A c \in ConstraintIds :
          p.constraints[c].generation > 0 => \A r \in p.constraints[c].racks : Stored(p, r)
    /\ p.withdrawn_racks \cap p.retired_racks = {}
    /\ NoBoot \notin p.fenced_authorities /\ p.unexplained = {}
    /\ Cardinality(p.fenced_authorities) <= MaxRacks

(***************************************************************************)
(* from_persisted_state: declarations are restored, everything observed is *)
(* cleared, and every process incarnation on record is fenced.  The        *)
(* recorded lifecycle is not read back.                                    *)
(***************************************************************************)
RecoveredRack(x) ==
    IF x.membership = "Absent"
    THEN NoRack
    ELSE [membership |-> x.membership, membership_generation |-> x.membership_generation,
          authoritative_current |-> FALSE, currentness |-> "RevalidationRequired",
          generation |-> x.generation, publisher |-> x.publisher, boot |-> x.last_boot,
          publication |-> x.publication,
          evidence |-> [provenance |-> "Reconstructed", observed |-> TRUE,
                        freshness |-> "RevalidationRequired"],
          composition |-> x.composition, endpoints |-> x.endpoints]

(* Mutated form: a restart takes a link as it was saved. *)
LinkAsSaved(x) == x

RecoveredLink(x) ==
    IF x.generation = 0
    THEN NoRecord
    ELSE [x EXCEPT !.reachability = "Unknown",
                   !.evidence = mark_revalidation_required(x.evidence)]

RecoveredDomain(x, age) ==
    IF x.generation = 0 THEN NoRecord ELSE [x EXCEPT !.evidence = refresh(x.evidence, age)]

(* Mutated form: a restart fences the current incarnations and forgets the *)
(* earlier ones.                                                           *)
CurrentFencesOnly(p) == {p.racks[r].last_boot : r \in {q \in Racks : Stored(p, q)}}

RecoveredFences(p) ==
    p.fenced_authorities \cup {p.racks[r].last_boot : r \in {q \in Racks : Stored(p, q)}}
=============================================================================
