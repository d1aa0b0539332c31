----------------------------- MODULE ClusterState -----------------------------
(***************************************************************************)
(* The canonical cluster state of the coordinator, the readiness contract  *)
(* evaluated over it, and the structural invariants every commit is gated  *)
(* on.                                                                     *)
(*                                                                         *)
(* A std::map of records is a total function from the identities; a record *)
(* that does not exist is NoRack, or a record with generation 0 (links,    *)
(* domains, constraints: a published record always has a known             *)
(* generation).  Sorted vectors of identities (fenced, retired, withdrawn) *)
(* are sets.  Timestamps, time-to-live, health values, the lifecycle a     *)
(* rack reports, labels and explanations are left out.  A counter ranges   *)
(* over 0..MaxGeneration: 0 is the reserved UNKNOWN value, MaxGeneration   *)
(* stands for 2^64 - 1.                                                    *)
(***************************************************************************)
EXTENDS Integers, FiniteSets

CONSTANTS
    ClusterIds,      \* cluster identities a request may name
    ConfigCluster,   \* CoordinatorConfig::cluster
    Racks, LinkIds, DomainIds, ConstraintIds,
    KindOf,          \* DomainIds -> DomainKinds: the map a domain lives in
    Boots, NoBoot,   \* process incarnations; the UNKNOWN (empty) boot identity
    Publishers, NoPublisher,
    Compositions,    \* rack composition summaries
    EndpointLists,   \* endpoint list and failure-domain hints
    Empty,           \* the empty composition and the empty list
    canonicalize,    \* EndpointLists -> EndpointLists: sorted and deduplicated
    Classes,         \* placement and failure domain classes
    Contracts,       \* readiness contracts a declaration may carry
    ConfigContract,  \* CoordinatorConfig::readiness_contract
    MaxGeneration

DomainKinds == {"placement", "capacity", "failure", "network",
                "storage", "power", "cooling", "link"}

Generations == 0 .. MaxGeneration

Contract ==
    [minimum_current_racks : Nat,
     mandatory_racks : SUBSET Racks,
     require_all_active_racks_current : BOOLEAN,
     require_connectivity_evidence : BOOLEAN,
     minimum_current_links : Nat,
     required_placement_domain_classes : SUBSET Classes,
     required_failure_domain_classes : SUBSET Classes,
     allow_partial : BOOLEAN,
     allow_degraded : BOOLEAN,
     require_no_conflicts : BOOLEAN]

ASSUME StateAssumption ==
    /\ ConfigCluster \in ClusterIds
    /\ IsFiniteSet(Racks)
    /\ KindOf \in [DomainIds -> DomainKinds]
    /\ NoBoot \notin Boots
    /\ NoPublisher \notin Publishers
    /\ Empty \in Compositions /\ Empty \in EndpointLists
    /\ canonicalize \in [EndpointLists -> EndpointLists]
    /\ \A e \in EndpointLists : canonicalize[canonicalize[e]] = canonicalize[e]
    /\ canonicalize[Empty] = Empty
    /\ Contracts \subseteq Contract
    /\ ConfigContract \in Contracts
    /\ MaxGeneration \in Nat /\ MaxGeneration > 2

-----------------------------------------------------------------------------
(***************************************************************************)
(* Evidence.  MEASURED and REPORTED are one provenance, and so are         *)
(* DERIVED, ESTIMATED and SYNTHETIC: no code tells them apart.  The        *)
(* timestamp is reduced to whether it is known.                            *)
(***************************************************************************)
Evidence ==
    [provenance : {"Unknown", "Reported", "Synthetic", "Reconstructed"},
     observed : BOOLEAN,
     freshness : {"Unknown", "Fresh", "Stale", "RevalidationRequired"}]

NoEvidence == [provenance |-> "Unknown", observed |-> FALSE, freshness |-> "Unknown"]

is_current(e) ==
    e.provenance = "Reported" /\ e.observed /\ e.freshness = "Fresh"

requires_revalidation(e) ==
    e.freshness = "RevalidationRequired" \/ e.provenance = "Reconstructed"

mark_revalidation_required(e) ==
    [e EXCEPT !.freshness = "RevalidationRequired"]

(* What the clock and the time-to-live make of an observation. *)
Ages == {"Fresh", "Stale"}

refresh(e, age) ==
    IF e.freshness = "RevalidationRequired"
    THEN e
    ELSE [e EXCEPT !.freshness = IF e.observed THEN age ELSE "Unknown"]

-----------------------------------------------------------------------------
(***************************************************************************)
(* Records.                                                                *)
(***************************************************************************)
Memberships == {"Absent", "Unknown", "Active", "Unavailable", "Withdrawn", "Retired"}

RackRecord ==
    [membership : Memberships,
     membership_generation : Generations,
     authoritative_current : BOOLEAN,
     currentness : {"Unknown", "Current", "RevalidationRequired"},
     generation : Generations,
     publisher : Publishers \cup {NoPublisher},
     boot : Boots \cup {NoBoot},
     publication : Generations,
     evidence : Evidence,
     composition : Compositions,
     endpoints : EndpointLists]

NoRack ==
    [membership |-> "Absent", membership_generation |-> 0,
     authoritative_current |-> FALSE, currentness |-> "Unknown",
     generation |-> 0, publisher |-> NoPublisher, boot |-> NoBoot,
     publication |-> 0, evidence |-> NoEvidence,
     composition |-> Empty, endpoints |-> Empty]

Reachabilities == {"Unknown", "Reachable", "Unreachable", "RevalidationRequired"}

(* domains: the failure, network and link domains the link refers to. *)
LinkRecord ==
    [generation : Generations, source : Racks, destination : Racks,
     domains : SUBSET DomainIds, boot : Boots \cup {NoBoot},
     reachability : Reachabilities, evidence : Evidence,
     topology_epoch : Generations, topology_generation : Generations]

DomainRecord ==
    [generation : Generations, klass : Classes, racks : SUBSET Racks, evidence : Evidence]

ConstraintRecord == [generation : Generations, racks : SUBSET Racks]

(* A link, domain or constraint identity with no record. *)
NoRecord == [generation |-> 0]

Lifecycles == {"Declared", "Forming", "Partial", "Ready", "Degraded",
               "RevalidationRequired", "Retiring", "Retired"}

Counters == {"cluster", "membership", "topology", "connectivity",
             "health", "constraint", "snapshot", "publication"}

VARIABLES
    id, epoch, coordinator_epoch, counters, topology_epoch, domain_generations,
    lifecycle, readiness_contract,
    racks, links, domains, constraints,
    fenced_authorities, retired_racks, withdrawn_racks,
    unexplained    \* the fenced incarnations whose FencedAuthority::reason is empty

scalars == <<id, epoch, coordinator_epoch, counters, topology_epoch,
             domain_generations, lifecycle, readiness_contract>>

canonical == <<scalars, racks, links, domains, constraints,
               fenced_authorities, retired_racks, withdrawn_racks, unexplained>>

(* has_rack, and the same question for the other maps. *)
has_rack(r) == racks[r].membership # "Absent"
HasLink(l) == links[l].generation > 0
HasDomain(d) == domains[d].generation > 0
HasConstraint(c) == constraints[c].generation > 0

(* Mutated form: a registered rack counts as a member. *)
RegisteredIsMember(r) == has_rack(r)

is_rack_member(r) == racks[r].membership \notin {"Absent", "Unknown"}

is_boot_fenced(b) == b \in fenced_authorities

(* Mutated form: retirement is not remembered. *)
RetirementForgotten(r) == FALSE

is_rack_retired(r) == r \in retired_racks

-----------------------------------------------------------------------------
(***************************************************************************)
(* The readiness contract.                                                 *)
(***************************************************************************)
is_active(r) == racks[r].membership = "Active"

is_current_active(r) == is_active(r) /\ racks[r].authoritative_current

needs_revalidation(r) ==
    /\ is_active(r)
    /\ \/ racks[r].currentness = "RevalidationRequired"
       \/ requires_revalidation(racks[r].evidence)

ActiveRacks == {r \in Racks : is_active(r)}
CurrentRacks == {r \in Racks : is_current_active(r)}
AnyRevalidation == \E r \in Racks : needs_revalidation(r)

CurrentLinks == {l \in LinkIds : HasLink(l) /\ is_current(links[l].evidence)}

TooFewCurrentRacks ==
    Cardinality(CurrentRacks) < readiness_contract.minimum_current_racks

(* Mutated form: any published domain of the class counts. *)
HasSomeDomain(kind, klass) ==
    \E d \in DomainIds : KindOf[d] = kind /\ HasDomain(d) /\ domains[d].klass = klass

HasCurrentDomain(kind, klass) ==
    \E d \in DomainIds : /\ KindOf[d] = kind
                         /\ HasDomain(d)
                         /\ domains[d].klass = klass
                         /\ is_current(domains[d].evidence)

StructuralConflict ==
    \/ \E l \in LinkIds :
          HasLink(l) /\ ~(has_rack(links[l].source) /\ has_rack(links[l].destination))
    \/ \E r \in Racks :
          /\ racks[r].authoritative_current
          /\ is_boot_fenced(racks[r].boot) \/ is_rack_retired(r)

(* ReadinessEvaluation::satisfied: no blocker was recorded. *)
Satisfied ==
    LET c == readiness_contract IN
    /\ ActiveRacks # {}
    /\ ~TooFewCurrentRacks
    /\ c.mandatory_racks \subseteq CurrentRacks
    /\ c.require_all_active_racks_current => ActiveRacks \subseteq CurrentRacks
    /\ ~AnyRevalidation
    /\ c.require_connectivity_evidence => CurrentLinks # {}
    /\ Cardinality(CurrentLinks) >= c.minimum_current_links
    /\ \A k \in c.required_placement_domain_classes : HasCurrentDomain("placement", k)
    /\ \A k \in c.required_failure_domain_classes : HasCurrentDomain("failure", k)
    /\ c.require_no_conflicts => ~StructuralConflict

(* revalidation_is_required_element *)
RevalidationIsRequiredElement ==
    \/ AnyRevalidation /\ (TooFewCurrentRacks \/ ~readiness_contract.allow_degraded)
    \/ \E r \in readiness_contract.mandatory_racks :
          is_active(r) /\ ~is_current_active(r)

KnowinglyIncomplete ==
    \/ \E r \in Racks : racks[r].membership \in {"Unavailable", "Withdrawn"}
    \/ withdrawn_racks # {}

(* The lifecycle of a cluster that is neither RETIRED nor RETIRING. *)
evaluate_readiness ==
    IF RevalidationIsRequiredElement THEN "RevalidationRequired"
    ELSE IF Satisfied
         THEN IF KnowinglyIncomplete /\ readiness_contract.allow_partial
              THEN "Partial" ELSE "Ready"
         ELSE IF CurrentRacks # {} THEN "Degraded"
              ELSE IF ActiveRacks # {} THEN "Forming" ELSE "Declared"

-----------------------------------------------------------------------------
(***************************************************************************)
(* check_invariants, one definition per group of checks.  Checks that the  *)
(* representation makes true (map keys, sortedness, the topology record    *)
(* mirroring the counters) are left out.                                   *)
(***************************************************************************)
NothingRecorded ==
    /\ \A r \in Racks : ~has_rack(r)
    /\ \A l \in LinkIds : ~HasLink(l)
    /\ \A d \in DomainIds : ~HasDomain(d)
    /\ \A c \in ConstraintIds : ~HasConstraint(c)
    /\ retired_racks = {} /\ withdrawn_racks = {} /\ fenced_authorities = {}

EpochsKnown == epoch > 0 /\ coordinator_epoch > 0 /\ topology_epoch > 0

(* The checks on the counters run before the cluster generation is bumped. *)
CountersConsistent(c) ==
    /\ c["cluster"] > 0 /\ c["membership"] > 0 /\ c["topology"] > 0
    /\ c["membership"] <= c["cluster"]
    /\ c["topology"] <= c["cluster"]
    /\ c["snapshot"] <= c["publication"]

RackConsistent(r) ==
    LET x == racks[r] IN
    /\ x.generation > 0
    /\ x.membership = "Unknown" => /\ ~x.authoritative_current
                                   /\ x.currentness # "Current"
    /\ x.membership_generation <= counters["membership"]
    /\ x.authoritative_current => /\ ~is_boot_fenced(x.boot)
                                  /\ ~is_rack_retired(r)
                                  /\ x.evidence.provenance \notin {"Unknown", "Reconstructed"}

(* Mutated form: links of an older topology epoch are not looked at. *)
SupersededLinksIgnored(x) == TRUE

SupersededLinkConsistent(x) ==
    x.topology_epoch # topology_epoch =>
        /\ requires_revalidation(x.evidence)
        /\ x.reachability \notin {"Reachable", "Unreachable"}

LinkConsistent(l) ==
    LET x == links[l] IN
    /\ is_rack_member(x.source) /\ is_rack_member(x.destination)
    /\ x.source # x.destination
    /\ SupersededLinkConsistent(x)
    /\ x.topology_generation <= counters["topology"]
    /\ \A d \in x.domains : KindOf[d] = "failure" => HasDomain(d)

DomainConsistent(d) ==
    /\ \A r \in domains[d].racks : is_rack_member(r)
    /\ domains[d].generation <= domain_generations[KindOf[d]]

ConstraintConsistent(c) == \A r \in constraints[c].racks : is_rack_member(r)

WithdrawnConsistent ==
    withdrawn_racks = {r \in Racks : racks[r].membership = "Withdrawn"}

LifecycleConsistent ==
    /\ lifecycle = "Ready" => Satisfied
    /\ lifecycle = "Retired" => \A r \in Racks : ~racks[r].authoritative_current

RecordsConsistent ==
    /\ EpochsKnown
    /\ \A r \in Racks : has_rack(r) => RackConsistent(r)
    /\ \A l \in LinkIds : HasLink(l) => LinkConsistent(l)
    /\ \A d \in DomainIds : HasDomain(d) => DomainConsistent(d)
    /\ \A c \in ConstraintIds : HasConstraint(c) => ConstraintConsistent(c)
    /\ WithdrawnConsistent
    /\ LifecycleConsistent
=============================================================================
