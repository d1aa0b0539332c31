--------------------------- MODULE CoordinatorEngine ---------------------------
(***************************************************************************)
(* The commit engine: the single writer of canonical state.                *)
(*                                                                         *)
(* One action per mutation kind, per fence and per restart.  An action is  *)
(* the whole of apply_and_commit for a request that is accepted: the       *)
(* handler, the readiness evaluation, the invariant gate, the cluster      *)
(* generation bump and the save.  A request that is rejected, answered     *)
(* NO_CHANGE, refused by the gate or rolled back after a failed save       *)
(* leaves the state as it was and is a stuttering step, with the one       *)
(* exception of DeclareRolledBack.  A store is configured and              *)
(* persist_on_commit is set.                                               *)
(*                                                                         *)
(* A request is a MutationRequest; the fields of one kind that no other    *)
(* kind reads are quantified separately.  An absent optional counter is 0, *)
(* an absent optional identity is NoBoot or NoPublisher.                   *)
(***************************************************************************)
EXTENDS Persistence

CONSTANTS
    RackRequests, TopologyRequests, ClusterRequests,   \* requests that reach the engine
    LinkPayloads, DomainPayloads, ConstraintPayloads,
    FenceReasons,                                      \* reasons callers fence with
    MaxLinks, MaxDomainsPerClass, MaxConstraints

Authority ==
    [cluster_epoch : Generations, coordinator_epoch : Generations,
     boot : Boots \cup {NoBoot}, publisher : Publishers \cup {NoPublisher},
     publication : Generations]

RackReference ==
    [generation : Generations, publisher : Publishers \cup {NoPublisher},
     boot : Boots \cup {NoBoot}, publication : Generations, evidence : Evidence,
     composition : Compositions, endpoints : EndpointLists]

MutationRequest ==
    [cluster : ClusterIds, authority : Authority, evidence : Evidence,
     declared_lifecycle : Lifecycles, readiness_contract : Contracts,
     rack_reference : RackReference,
     expected_rack_generation : Generations, new_rack_generation : Generations,
     target_topology_epoch : Generations, reachability : Reachabilities]

LinkPayload ==
    [generation : Generations \ {0}, source : Racks, destination : Racks,
     domains : SUBSET DomainIds, boot : Boots \cup {NoBoot},
     reachability : Reachabilities, evidence : Evidence, topology_epoch : Generations]

ASSUME RequestAssumption ==
    /\ RackRequests \cup TopologyRequests \cup ClusterRequests \subseteq MutationRequest
    /\ LinkPayloads \subseteq LinkPayload
    /\ \A x \in LinkPayloads : \A d \in x.domains : KindOf[d] \in {"failure", "network", "link"}
    /\ DomainPayloads \subseteq {x \in DomainRecord : x.generation > 0}
    /\ ConstraintPayloads \subseteq {x \in ConstraintRecord : x.generation > 0}
    /\ MaxRacks \in Nat /\ MaxLinks \in Nat
    /\ MaxDomainsPerClass \in Nat /\ MaxConstraints \in Nat

(* Reasons differ in whether they are empty.  The reasons of the sessions  *)
(* are not.                                                                *)
ASSUME ReasonAssumption == "given" \in FenceReasons /\ FenceReasons \subseteq {"", "given"}

vars == <<canonical, disk>>

identity == <<id, epoch, coordinator_epoch, readiness_contract>>
topology == <<links, domains, constraints, topology_epoch, domain_generations>>
authority_lists == <<fenced_authorities, unexplained, retired_racks, withdrawn_racks>>

-----------------------------------------------------------------------------
(***************************************************************************)
(* A coordinator process that found no usable container.                   *)
(***************************************************************************)
FirstCoordinatorEpoch == 2   \* load_durable_state: the successor of epoch 1

Init ==
    /\ id = ConfigCluster /\ epoch = 0
    /\ coordinator_epoch = FirstCoordinatorEpoch
    /\ counters = [c \in Counters |-> 0]
    /\ topology_epoch = 0
    /\ domain_generations = [k \in DomainKinds |-> 0]
    /\ lifecycle = "Declared"
    /\ readiness_contract = ConfigContract
    /\ racks = [r \in Racks |-> NoRack]
    /\ links = [l \in LinkIds |-> NoRecord]
    /\ domains = [d \in DomainIds |-> NoRecord]
    /\ constraints = [c \in ConstraintIds |-> NoRecord]
    /\ fenced_authorities = {} /\ retired_racks = {} /\ withdrawn_racks = {}
    /\ unexplained = {}
    /\ disk = NoContainer

-----------------------------------------------------------------------------
(***************************************************************************)
(* Gates.                                                                  *)
(***************************************************************************)
accepts_mutations == lifecycle # "Retired"

validate_common(q) ==
    /\ q.cluster = id
    /\ epoch > 0
    /\ q.authority.cluster_epoch = epoch
    /\ q.authority.coordinator_epoch = coordinator_epoch
    /\ accepts_mutations

(* Authoritative content; boot and publisher are compared separately. *)
same_authoritative_content(x, y) ==
    /\ x.generation = y.generation
    /\ x.composition = y.composition
    /\ canonicalize[x.endpoints] = canonicalize[y.endpoints]

IdenticalDuplicate(q, r) ==
    /\ q.authority.publication = racks[r].publication
    /\ q.rack_reference.boot = q.authority.boot
    /\ same_authoritative_content(racks[r], q.rack_reference)

OwnedBy(r, p) == racks[r].publisher \in {p, NoPublisher}

validate_boot(q, r) ==
    LET a == q.authority IN
    a.boot # NoBoot =>
       /\ ~is_boot_fenced(a.boot)
       /\ has_rack(r) =>
            /\ racks[r].authoritative_current => racks[r].boot = a.boot
            /\ a.publisher # NoPublisher => OwnedBy(r, a.publisher)
            /\ \/ racks[r].boot # a.boot
               \/ a.publication = 0
               \/ a.publication > racks[r].publication
               \/ IdenticalDuplicate(q, r)

validate_rack_reference(x) ==
    x.generation > 0 /\ x.publisher # NoPublisher /\ x.evidence.provenance # "Unknown"

(* bump: a counter at its maximum refuses the mutation. *)
CanBump(S) == \A c \in S : counters[c] < MaxGeneration

bump(S) == [c \in Counters |-> IF c \in S THEN counters[c] + 1 ELSE counters[c]]

(***************************************************************************)
(* The end of apply_and_commit.  c and lc are the counters and the         *)
(* lifecycle the handler leaves behind; every other primed variable is set *)
(* by the handler.                                                         *)
(***************************************************************************)
(* Mutated form: the lifecycle is kept. *)
LifecycleKept(lc) == lifecycle' = lc

Evaluated(lc) ==
    lifecycle' = IF lc \in {"Retired", "Retiring"} THEN lc ELSE evaluate_readiness'

(* Mutated form: the state before the mutation is saved. *)
PriorStateSaved == disk' = to_persisted_state

persist_now == disk' = to_persisted_state'

(* Mutated form: the cluster generation is not advanced. *)
CommitWithoutBump(c, lc) ==
    /\ Evaluated(lc)
    /\ counters' = c
    /\ NothingRecorded' \/ (CountersConsistent(c) /\ RecordsConsistent')
    /\ persist_now

apply_and_commit(c, lc) ==
    /\ Evaluated(lc)
    /\ c["cluster"] < MaxGeneration
    /\ counters' = [c EXCEPT !["cluster"] = @ + 1]
    /\ NothingRecorded' \/ (CountersConsistent(c) /\ RecordsConsistent')
    /\ persist_now

Commit(S) == CanBump(S) /\ apply_and_commit(bump(S), lifecycle)

-----------------------------------------------------------------------------
(***************************************************************************)
(* Cluster declaration and retirement.                                     *)
(***************************************************************************)
(* Mutated form: the health generation is left UNKNOWN. *)
HealthCounterUnset == [c \in Counters |-> IF c = "health" THEN 0 ELSE 1]

FirstCounters == [c \in Counters |-> 1]

DeclareCluster(q) ==
    /\ epoch = 0
    /\ id' = q.cluster
    /\ epoch' = IF q.authority.cluster_epoch > 0 THEN q.authority.cluster_epoch ELSE 1
    /\ coordinator_epoch' = IF q.authority.coordinator_epoch > 0
                            THEN q.authority.coordinator_epoch ELSE coordinator_epoch
    /\ topology_epoch' = 1
    /\ domain_generations' = [k \in DomainKinds |-> 1]
    /\ readiness_contract' = q.readiness_contract
    /\ UNCHANGED <<racks, links, domains, constraints, authority_lists>>
    /\ apply_and_commit(FirstCounters, "Declared")

(* A first declaration whose save fails: the journal restores every scalar *)
(* but the cluster identity.                                               *)
DeclareRolledBack(q) ==
    /\ epoch = 0
    /\ id' = q.cluster
    /\ UNCHANGED <<epoch, coordinator_epoch, readiness_contract, counters, lifecycle,
                   racks, topology, authority_lists, disk>>

(* A declaration of a declared cluster skips every later gate of           *)
(* validate_common, the RETIRED one included.                              *)
RedeclareCluster(q) ==
    /\ epoch > 0
    /\ q.authority.cluster_epoch = epoch
    /\ q.readiness_contract # readiness_contract \/ q.declared_lifecycle # lifecycle
    /\ readiness_contract' = q.readiness_contract
    /\ UNCHANGED <<id, epoch, coordinator_epoch, racks, topology, authority_lists>>
    /\ apply_and_commit(counters, q.declared_lifecycle)

RetireCluster(q) ==
    /\ validate_common(q)
    /\ racks' = [r \in Racks |->
                    IF racks[r].authoritative_current
                    THEN [racks[r] EXCEPT !.authoritative_current = FALSE,
                                          !.currentness = "RevalidationRequired"]
                    ELSE racks[r]]
    /\ UNCHANGED <<identity, topology, authority_lists>>
    /\ apply_and_commit(counters, "Retired")

-----------------------------------------------------------------------------
(***************************************************************************)
(* Rack mutations.                                                         *)
(***************************************************************************)
RackCapacityLeft == Cardinality({x \in Racks : has_rack(x)}) < MaxRacks

(* The generation of the request stands for the one its authority names    *)
(* or, without one, that of the reference.                                 *)
RegisterRackPublisher(q, r) ==
    /\ validate_common(q)
    /\ ~is_rack_retired(r)
    /\ q.authority.publisher # NoPublisher
    /\ ~has_rack(r)
    /\ RackCapacityLeft
    /\ q.rack_reference.generation > 0
    /\ racks' = [racks EXCEPT ![r] =
          [NoRack EXCEPT !.membership = "Unknown",
                         !.membership_generation = counters["membership"],
                         !.generation = q.rack_reference.generation,
                         !.publisher = q.authority.publisher,
                         !.boot = IF q.authority.boot # NoBoot THEN q.authority.boot
                                  ELSE q.rack_reference.boot,
                         !.publication = q.authority.publication,
                         !.evidence = q.evidence,
                         !.composition = q.rack_reference.composition]]
    /\ UNCHANGED <<identity, topology, authority_lists>>
    /\ Commit({})

(* A registered rack that was never admitted. *)
Placeholder(r) == racks[r].membership = "Unknown" /\ ~racks[r].authoritative_current

(* The checks of apply_add_rack against an existing record; x is the       *)
(* canonical incoming reference.                                           *)
MayReplace(r, x) ==
    LET old == racks[r] IN
    \/ /\ x.generation > old.generation \/ (x.generation = old.generation /\ Placeholder(r))
       /\ OwnedBy(r, x.publisher)
    \/ /\ x.generation = old.generation /\ ~Placeholder(r)
       /\ same_authoritative_content(old, x)
       /\ old.boot = x.boot => x.publication > old.publication

AddRack(q, r, age) ==
    LET x == [q.rack_reference EXCEPT !.endpoints = canonicalize[@]]
        e == IF x.evidence.freshness = "Unknown" THEN refresh(x.evidence, age) ELSE x.evidence
        bumped == IF ~is_active(r) \/ x.generation > racks[r].generation
                  THEN {"membership"} ELSE {}
    IN
    /\ validate_common(q)
    /\ validate_rack_reference(x)
    /\ ~is_rack_retired(r)
    /\ validate_boot(q, r)
    /\ IF has_rack(r) THEN MayReplace(r, x) ELSE RackCapacityLeft
    /\ racks' = [racks EXCEPT ![r] =
          [membership |-> "Active",
           membership_generation |-> IF bumped = {} THEN @.membership_generation
                                     ELSE counters["membership"] + 1,
           authoritative_current |-> is_current(e), currentness |-> "Current",
           generation |-> x.generation, publisher |-> x.publisher, boot |-> x.boot,
           publication |-> x.publication, evidence |-> e,
           composition |-> x.composition, endpoints |-> x.endpoints]]
    /\ withdrawn_racks' = withdrawn_racks \ {r}
    /\ UNCHANGED <<identity, topology, fenced_authorities, unexplained, retired_racks>>
    /\ Commit(bumped)

(* A non-empty list or summary of the request replaces the recorded one. *)
Replaced(old, new) == IF new = Empty THEN old ELSE new

UpdatedRack(x, q) ==
    LET a == q.authority IN
    [membership |-> x.membership,
     membership_generation |-> counters["membership"] + 1,
     authoritative_current |-> is_current(q.evidence), currentness |-> "Current",
     generation |-> q.new_rack_generation,
     publisher |-> IF a.publisher # NoPublisher THEN a.publisher ELSE x.publisher,
     boot |-> IF a.boot # NoBoot THEN a.boot ELSE x.boot,
     publication |-> a.publication, evidence |-> q.evidence,
     composition |-> Replaced(x.composition, q.rack_reference.composition),
     endpoints |-> x.endpoints]

UpdateRackGeneration(q, r) ==
    /\ validate_common(q)
    /\ has_rack(r)
    /\ validate_boot(q, r)
    /\ q.expected_rack_generation \in {0, racks[r].generation}
    /\ q.new_rack_generation > racks[r].generation
    /\ racks' = [racks EXCEPT ![r] = UpdatedRack(racks[r], q)]
    /\ UNCHANGED <<identity, topology, authority_lists>>
    /\ Commit({"membership"})

(* MarkRackUnavailable, WithdrawRack and RetireRack. *)
membership_change(q, r, target) ==
    /\ validate_common(q)
    /\ has_rack(r)
    /\ validate_boot(q, r)
    /\ racks[r].membership \notin {target, "Retired"}
    /\ racks' = [racks EXCEPT ![r] =
          [@ EXCEPT !.membership = target,
                    !.authoritative_current = FALSE,
                    !.currentness = "RevalidationRequired",
                    !.membership_generation = counters["membership"] + 1]]
    /\ withdrawn_racks' = IF target = "Withdrawn" THEN withdrawn_racks \cup {r}
                          ELSE withdrawn_racks \ {r}
    /\ retired_racks' = IF target = "Retired" THEN retired_racks \cup {r} ELSE retired_racks
    /\ UNCHANGED <<identity, topology, fenced_authorities, unexplained>>
    /\ Commit({"membership"})

MarkRackUnavailable(q, r) == membership_change(q, r, "Unavailable")
WithdrawRack(q, r) == membership_change(q, r, "Withdrawn")
RetireRack(q, r) == membership_change(q, r, "Retired")

(* The endpoints come from the request as sent, not from its canonical form. *)
RecoveredBy(x, q) ==
    LET a == q.authority IN
    [membership |-> "Active",
     membership_generation |-> counters["membership"] + 1,
     authoritative_current |-> is_current(q.evidence), currentness |-> "Current",
     generation |-> IF q.new_rack_generation = 0 THEN x.generation ELSE q.new_rack_generation,
     publisher |-> IF a.publisher # NoPublisher THEN a.publisher ELSE x.publisher,
     boot |-> a.boot, publication |-> a.publication, evidence |-> q.evidence,
     composition |-> Replaced(x.composition, q.rack_reference.composition),
     endpoints |-> Replaced(x.endpoints, q.rack_reference.endpoints)]

RecoverRack(q, r) ==
    LET a == q.authority IN
    /\ validate_common(q)
    /\ ~is_rack_retired(r)
    /\ has_rack(r)
    /\ a.boot # NoBoot
    /\ ~is_boot_fenced(a.boot)
    /\ racks[r].boot = a.boot => racks[r].authoritative_current
    /\ q.new_rack_generation = 0 \/ q.new_rack_generation >= racks[r].generation
    /\ racks' = [racks EXCEPT ![r] = RecoveredBy(racks[r], q)]
    /\ withdrawn_racks' = withdrawn_racks \ {r}
    /\ UNCHANGED <<identity, topology, fenced_authorities, unexplained, retired_racks>>
    /\ Commit({"membership"})

-----------------------------------------------------------------------------
(***************************************************************************)
(* Domains, constraints and topology.                                      *)
(***************************************************************************)
DomainCapacityLeft(d) ==
    Cardinality({x \in DomainIds : KindOf[x] = KindOf[d] /\ HasDomain(x)}) < MaxDomainsPerClass

(* 64-bit arithmetic: the successor of the maximum is 0. *)
advance_aggregate(k, record) ==
    LET candidate == (domain_generations[k] + 1) % (MaxGeneration + 1)
        value == IF candidate >= record THEN candidate ELSE record
    IN  /\ value >= domain_generations[k] /\ value # 0
        /\ domain_generations' = [domain_generations EXCEPT ![k] = value]

publish_domain_record(q, d, x) ==
    /\ validate_common(q)
    /\ \A r \in x.racks : is_rack_member(r)
    /\ IF HasDomain(d) THEN x.generation > domains[d].generation ELSE DomainCapacityLeft(d)
    /\ advance_aggregate(KindOf[d], x.generation)
    /\ domains' = [domains EXCEPT ![d] = x]
    /\ UNCHANGED <<identity, racks, links, constraints, topology_epoch, authority_lists>>
    /\ Commit({"topology"})

PublishConstraint(q, c, x) ==
    /\ validate_common(q)
    /\ \A r \in x.racks : is_rack_member(r)
    /\ IF HasConstraint(c) THEN x.generation > constraints[c].generation
       ELSE Cardinality({y \in ConstraintIds : HasConstraint(y)}) < MaxConstraints
    /\ constraints' = [constraints EXCEPT ![c] = x]
    /\ UNCHANGED <<identity, racks, links, domains, topology_epoch, domain_generations,
                   authority_lists>>
    /\ Commit({"constraint"})

(* Mutated form: only failure domains are looked up. *)
FailureDomainsExist(x) == \A d \in x.domains : KindOf[d] = "failure" => HasDomain(d)

LinkDomainsExist(x) == \A d \in x.domains : HasDomain(d)

PublishInterRackLink(q, l, x) ==
    /\ validate_common(q)
    /\ x.source # x.destination
    /\ is_rack_member(x.source) /\ is_rack_member(x.destination)
    /\ LinkDomainsExist(x)
    /\ IF HasLink(l) THEN x.generation > links[l].generation
       ELSE Cardinality({y \in LinkIds : HasLink(y)}) < MaxLinks
    /\ x.topology_epoch = topology_epoch
    /\ links' = [links EXCEPT ![l] =
          [generation |-> x.generation, source |-> x.source, destination |-> x.destination,
           domains |-> x.domains, boot |-> x.boot, reachability |-> x.reachability,
           evidence |-> x.evidence, topology_epoch |-> x.topology_epoch,
           topology_generation |-> counters["topology"]]]
    /\ UNCHANGED <<identity, racks, domains, constraints, topology_epoch,
                   domain_generations, authority_lists>>
    /\ Commit({"topology", "connectivity"})

WithdrawInterRackLink(q, l) ==
    /\ validate_common(q)
    /\ HasLink(l)
    /\ links' = [links EXCEPT ![l] = NoRecord]
    /\ UNCHANGED <<identity, racks, domains, constraints, topology_epoch,
                   domain_generations, authority_lists>>
    /\ Commit({"topology", "connectivity"})

SupersedeTopology(q) ==
    /\ validate_common(q)
    /\ q.target_topology_epoch > topology_epoch
    /\ topology_epoch' = q.target_topology_epoch
    /\ links' = [l \in LinkIds |->
                    IF HasLink(l)
                    THEN [links[l] EXCEPT !.evidence = mark_revalidation_required(links[l].evidence),
                                          !.reachability = "Unknown"]
                    ELSE links[l]]
    /\ UNCHANGED <<identity, racks, domains, constraints, domain_generations, authority_lists>>
    /\ Commit({"topology", "connectivity"})

-----------------------------------------------------------------------------
(***************************************************************************)
(* Evidence.                                                               *)
(***************************************************************************)
Incident(l, r) == HasLink(l) /\ r \in {links[l].source, links[l].destination}

(* A publication that repeats health and observation time is NO_CHANGE;    *)
(* health values are left out, so every publication here differs.          *)
PublishHealthCurrentness(q, r) ==
    /\ validate_common(q)
    /\ has_rack(r)
    /\ ~is_rack_retired(r)
    /\ validate_boot(q, r)
    /\ racks' = [racks EXCEPT ![r] =
          [@ EXCEPT !.evidence = q.evidence,
                    !.publication = q.authority.publication,
                    !.authoritative_current = is_current(q.evidence)]]
    /\ links' = [l \in LinkIds |->
                    IF q.reachability # "Unknown" /\ Incident(l, r)
                    THEN [links[l] EXCEPT !.reachability = q.reachability,
                                          !.evidence = q.evidence]
                    ELSE links[l]]
    /\ UNCHANGED <<identity, domains, constraints, topology_epoch, domain_generations,
                   authority_lists>>
    /\ Commit(IF q.reachability = "Unknown" THEN {"health"} ELSE {"health", "connectivity"})

EvidenceSelectors == {"rack_evidence", "rack_health", "reachability"}

WithdrawEvidence(q, r, selector) ==
    LET reaches_links == selector \in {"rack_evidence", "reachability"} IN
    /\ validate_common(q)
    /\ has_rack(r)
    /\ racks' = [racks EXCEPT ![r] =
          [@ EXCEPT !.evidence = mark_revalidation_required(racks[r].evidence),
                    !.currentness = "RevalidationRequired",
                    !.authoritative_current = FALSE]]
    /\ links' = [l \in LinkIds |->
                    IF reaches_links /\ Incident(l, r)
                    THEN [links[l] EXCEPT !.reachability = "RevalidationRequired",
                                          !.evidence = mark_revalidation_required(links[l].evidence)]
                    ELSE links[l]]
    /\ UNCHANGED <<identity, domains, constraints, topology_epoch, domain_generations,
                   authority_lists>>
    /\ Commit(IF reaches_links THEN {"health", "connectivity"} ELSE {"health"})

PublishSnapshot(q) ==
    /\ validate_common(q)
    /\ UNCHANGED <<identity, racks, topology, authority_lists>>
    /\ Commit({"snapshot", "publication"})

(* candidates: the racks the request names, or every rack when it names none. *)
RevalidateRecoveredState(q, named) ==
    LET candidates == IF named = {} THEN {r \in Racks : has_rack(r)} ELSE named IN
    /\ validate_common(q)
    /\ candidates # {}
    /\ \A r \in candidates : /\ has_rack(r)
                             /\ racks[r].authoritative_current
                             /\ is_current(racks[r].evidence)
    /\ UNCHANGED <<identity, racks, topology, authority_lists>>
    /\ Commit({})

-----------------------------------------------------------------------------
(***************************************************************************)
(* apply_fence: the death of a process incarnation.  A boot that owns      *)
(* neither a rack record nor a link is not recorded as fenced.  The        *)
(* invariant gate does not run.  The reason is stored as the caller of     *)
(* fence_boot gave it, unless the boot is fenced already; the fence of a   *)
(* session that ended always has one.                                      *)
(***************************************************************************)
(* Mutated form: the evidence is marked, the authority is kept. *)
FencedEvidenceOnly(x) == [x EXCEPT !.evidence = mark_revalidation_required(x.evidence)]

FencedRack(x) ==
    [x EXCEPT !.authoritative_current = FALSE,
              !.currentness = "RevalidationRequired",
              !.evidence = mark_revalidation_required(x.evidence)]

FencedLink(x) ==
    [x EXCEPT !.reachability = "Unknown", !.evidence = mark_revalidation_required(x.evidence)]

RacksOf(b) == {r \in Racks : has_rack(r) /\ racks[r].boot = b}
LinksOf(b) == {l \in LinkIds : HasLink(l) /\ links[l].boot = b}

Fence(b, reason) ==
    /\ RacksOf(b) # {} \/ LinksOf(b) # {}
    /\ racks' = [r \in Racks |-> IF r \in RacksOf(b) THEN FencedRack(racks[r]) ELSE racks[r]]
    /\ links' = [l \in LinkIds |-> IF l \in LinksOf(b) THEN FencedLink(links[l]) ELSE links[l]]
    /\ fenced_authorities' = fenced_authorities \cup {b}
    /\ unexplained' = IF reason = "" THEN unexplained \cup ({b} \ fenced_authorities)
                                     ELSE unexplained
    /\ UNCHANGED <<identity, domains, constraints, topology_epoch, domain_generations,
                   retired_racks, withdrawn_racks>>
    /\ Evaluated(lifecycle)
    /\ CanBump({"cluster", "health"})
    /\ counters' = bump({"cluster", "health"})
    /\ persist_now

-----------------------------------------------------------------------------
(***************************************************************************)
(* The coordinator process dies, at any point between two commits, and a   *)
(* new one starts from the store.  A rejected container is treated like a  *)
(* missing one; it stays in place until the first commit overwrites it.    *)
(* The new coordinator epoch is not saved before the first commit either.  *)
(***************************************************************************)
ContainerLoads == disk # NoContainer /\ validate_persisted_state(disk)

NextEpoch(e) == IF e < MaxGeneration THEN e + 1 ELSE e

RestartRecovered(age) ==
    /\ ContainerLoads
    /\ id' = disk.id /\ epoch' = disk.epoch
    /\ coordinator_epoch' = NextEpoch(disk.last_coordinator_epoch)
    /\ counters' = disk.counters
    /\ topology_epoch' = disk.topology_epoch
    /\ domain_generations' = disk.domain_generations
    /\ readiness_contract' = disk.readiness_contract
    /\ racks' = [r \in Racks |-> RecoveredRack(disk.racks[r])]
    /\ links' = [l \in LinkIds |-> RecoveredLink(disk.links[l])]
    /\ domains' = [d \in DomainIds |-> RecoveredDomain(disk.domains[d], age[d])]
    /\ constraints' = disk.constraints
    /\ fenced_authorities' = RecoveredFences(disk) /\ unexplained' = disk.unexplained
    /\ retired_racks' = disk.retired_racks
    /\ withdrawn_racks' = disk.withdrawn_racks
    /\ lifecycle' = evaluate_readiness'
    /\ UNCHANGED disk

StartFresh ==
    /\ id' = ConfigCluster /\ epoch' = 0
    /\ coordinator_epoch' = FirstCoordinatorEpoch
    /\ counters' = [c \in Counters |-> 0]
    /\ topology_epoch' = 0
    /\ domain_generations' = [k \in DomainKinds |-> 0]
    /\ lifecycle' = "Declared"
    /\ readiness_contract' = ConfigContract
    /\ racks' = [r \in Racks |-> NoRack]
    /\ links' = [l \in LinkIds |-> NoRecord]
    /\ domains' = [d \in DomainIds |-> NoRecord]
    /\ constraints' = [c \in ConstraintIds |-> NoRecord]
    /\ fenced_authorities' = {} /\ retired_racks' = {} /\ withdrawn_racks' = {}
    /\ unexplained' = {}
    /\ UNCHANGED disk

RestartFresh == ~ContainerLoads /\ StartFresh

(* A container that would load cannot be opened or read, and the new       *)
(* coordinator starts as if there were none (FilePersistenceStore::load).  *)
RestartUnread == ContainerLoads /\ StartFresh

-----------------------------------------------------------------------------
RackMutation(q, r) ==
    \/ RegisterRackPublisher(q, r)
    \/ \E age \in Ages : AddRack(q, r, age)
    \/ UpdateRackGeneration(q, r)
    \/ MarkRackUnavailable(q, r) \/ WithdrawRack(q, r) \/ RetireRack(q, r)
    \/ RecoverRack(q, r)
    \/ PublishHealthCurrentness(q, r)
    \/ \E selector \in EvidenceSelectors : WithdrawEvidence(q, r, selector)

TopologyMutation(q) ==
    \/ \E d \in DomainIds, x \in DomainPayloads : publish_domain_record(q, d, x)
    \/ \E c \in ConstraintIds, x \in ConstraintPayloads : PublishConstraint(q, c, x)
    \/ \E l \in LinkIds, x \in LinkPayloads : PublishInterRackLink(q, l, x)
    \/ \E l \in LinkIds : WithdrawInterRackLink(q, l)
    \/ SupersedeTopology(q)

ClusterMutation(q) ==
    \/ DeclareCluster(q) \/ DeclareRolledBack(q) \/ RedeclareCluster(q)
    \/ RetireCluster(q)
    \/ PublishSnapshot(q)
    \/ \E named \in SUBSET Racks : RevalidateRecoveredState(q, named)

Serve ==
    \/ \E q \in RackRequests, r \in Racks : RackMutation(q, r)
    \/ \E q \in TopologyRequests : TopologyMutation(q)
    \/ \E q \in ClusterRequests : ClusterMutation(q)
    \/ \E b \in Boots, reason \in FenceReasons : Fence(b, reason)

Restart ==
    \/ \E age \in [DomainIds -> Ages] : RestartRecovered(age)
    \/ RestartFresh

Next == Serve \/ Restart

Spec == Init /\ [][Next]_vars

(* The store may also fail to deliver a container it holds. *)
UnreadNext == Next \/ RestartUnread

UnreadSpec == Init /\ [][UnreadNext]_vars

-----------------------------------------------------------------------------
(***************************************************************************)
(* Properties.                                                             *)
(***************************************************************************)
Declared == epoch > 0

ScalarsTyped ==
    /\ id \in ClusterIds
    /\ epoch \in Generations /\ coordinator_epoch \in Generations \ {0}
    /\ counters \in [Counters -> Generations]
    /\ topology_epoch \in Generations
    /\ domain_generations \in [DomainKinds -> Generations]
    /\ lifecycle \in Lifecycles
    /\ readiness_contract \in Contracts

RecordsTyped ==
    /\ racks \in [Racks -> RackRecord]
    /\ links \in [LinkIds -> LinkRecord \cup {NoRecord}]
    /\ domains \in [DomainIds -> DomainRecord \cup {NoRecord}]
    /\ constraints \in [ConstraintIds -> ConstraintRecord \cup {NoRecord}]

ListsTyped ==
    /\ fenced_authorities \subseteq Boots /\ unexplained \subseteq Boots
    /\ retired_racks \subseteq Racks /\ withdrawn_racks \subseteq Racks

(* The types of the canonical state; once a cluster is declared, the       *)
(* epochs and every counter have left the reserved UNKNOWN value.          *)
TypeOK ==
    /\ ScalarsTyped /\ RecordsTyped /\ ListsTyped
    /\ disk \in PersistedState \cup {NoContainer}
    /\ Declared => /\ topology_epoch > 0
                   /\ \A c \in Counters : counters[c] > 0
                   /\ \A k \in DomainKinds : domain_generations[k] > 0

(* A rack is authoritatively current only while its publishing process     *)
(* incarnation is alive, the rack and the cluster are not retired, and the *)
(* evidence behind it is still fresh first-hand evidence.  The gate checks *)
(* less (any provenance but UNKNOWN and RECONSTRUCTED, no freshness), and  *)
(* neither a fence nor a restart runs the gate.                            *)
AuthorityIsLive ==
    \A r \in Racks : racks[r].authoritative_current =>
        /\ racks[r].membership \notin {"Absent", "Unknown", "Retired"}
        /\ racks[r].boot \notin fenced_authorities
        /\ is_current(racks[r].evidence)
        /\ lifecycle # "Retired"

(* The lists of retired and withdrawn racks say what the rack records say, *)
(* through every order of withdrawal, readmission, recovery, retirement    *)
(* and restart.  The gate compares only the withdrawn list.                *)
ListsMirrorMembership ==
    /\ retired_racks = {r \in Racks : racks[r].membership = "Retired"}
    /\ withdrawn_racks = {r \in Racks : racks[r].membership = "Withdrawn"}

(* The published lifecycle is the readiness of the published state: no     *)
(* fence, no restart and no rolled back mutation leaves a lifecycle that   *)
(* was evaluated over other records.                                       *)
LifecycleIsEvaluated ==
    lifecycle \notin {"Retired", "Retiring"} => lifecycle = evaluate_readiness

(* READY and PARTIAL are claims a consumer acts on: every mandatory rack is *)
(* active under a live incarnation with current evidence, enough racks are, *)
(* and every required domain class has a domain with current evidence.     *)
(* Stated over the records, not over the evaluation.                       *)
ReadyIsBacked ==
    LET Backed == {r \in Racks : /\ racks[r].membership = "Active"
                                 /\ racks[r].authoritative_current
                                 /\ racks[r].boot \notin fenced_authorities
                                 /\ is_current(racks[r].evidence)}
        Offered(kind) == {domains[d].klass : d \in
                              {x \in DomainIds : /\ KindOf[x] = kind
                                                 /\ domains[x].generation > 0
                                                 /\ is_current(domains[x].evidence)}}
        c == readiness_contract
    IN  lifecycle \in {"Ready", "Partial"} =>
            /\ Cardinality(Backed) >= c.minimum_current_racks
            /\ c.mandatory_racks \subseteq Backed
            /\ c.required_placement_domain_classes \subseteq Offered("placement")
            /\ c.required_failure_domain_classes \subseteq Offered("failure")

(* Every acknowledged change is in the container, so a crash at any point  *)
(* loses none of it.  The container may lag only in what recovery          *)
(* recomputes: the coordinator epoch and the fences a restart added, the   *)
(* lifecycle, and the observations recovery cleared.                       *)
CommittedIsDurable ==
    Declared =>
        /\ disk # NoContainer
        /\ disk.id = id /\ disk.epoch = epoch
        /\ coordinator_epoch \in {disk.last_coordinator_epoch,
                                  NextEpoch(disk.last_coordinator_epoch)}
        /\ disk.counters = counters
        /\ disk.topology_epoch = topology_epoch
        /\ disk.domain_generations = domain_generations
        /\ disk.readiness_contract = readiness_contract
        /\ \A r \in Racks : disk.racks[r] = DurableRack(racks[r])
        /\ \A l \in LinkIds : RecoveredLink(disk.links[l]) = RecoveredLink(links[l])
        /\ \A d \in DomainIds, age \in Ages :
              RecoveredDomain(disk.domains[d], age) = RecoveredDomain(domains[d], age)
        /\ disk.constraints = constraints
        /\ disk.retired_racks = retired_racks /\ disk.withdrawn_racks = withdrawn_racks
        /\ disk.fenced_authorities \subseteq fenced_authorities
        /\ fenced_authorities \subseteq RecoveredFences(disk)
        /\ disk.unexplained = unexplained

(* The membership and topology generations stay below the cluster          *)
(* generation, and no snapshot is numbered past the publications: a commit *)
(* is never refused for the counters it is about to publish.               *)
CountersOrdered ==
    Declared => /\ counters["membership"] < counters["cluster"]
                /\ counters["topology"] < counters["cluster"]
                /\ counters["snapshot"] <= counters["publication"]

(* No published link, domain or constraint refers to a rack that is absent *)
(* or was only registered, or to a domain that does not exist.  The gate   *)
(* looks at the failure domains of a link only.                            *)
ReferencesResolve ==
    LET Known == {r \in Racks : racks[r].membership \notin {"Absent", "Unknown"}} IN
    /\ \A l \in LinkIds : links[l].generation > 0 =>
          /\ {links[l].source, links[l].destination} \subseteq Known
          /\ \A d \in links[l].domains : domains[d].generation > 0
    /\ \A d \in DomainIds : domains[d].generation > 0 => domains[d].racks \subseteq Known
    /\ \A c \in ConstraintIds :
          constraints[c].generation > 0 => constraints[c].racks \subseteq Known

(* A link that claims a reachability or carries current evidence was       *)
(* published under the topology epoch in force, however health reports,    *)
(* link publications and supersessions interleave.                         *)
LinkClaimsAreOfThisEpoch ==
    \A l \in LinkIds :
        /\ links[l].generation > 0
        /\ \/ links[l].reachability \in {"Reachable", "Unreachable"}
           \/ is_current(links[l].evidence)
        => links[l].topology_epoch = topology_epoch

(* The container a declared cluster leaves behind is one that a restart    *)
(* accepts.                                                                *)
SavedIsLoadable == disk # NoContainer => validate_persisted_state(disk)

(* What the engine takes from a request unchecked and the load checks: a   *)
(* rack reference names its incarnation, and its endpoints are canonical.  *)
LoadableRequest(q) ==
    /\ q.rack_reference.boot # NoBoot
    /\ canonicalize[q.rack_reference.endpoints] = q.rack_reference.endpoints

(* There are never more incarnations to fence than a load admits.  (An     *)
(* engine with requests or incarnations beyond this saves containers that  *)
(* it will reject.)                                                        *)
FencesFit == \A s \in SUBSET Boots : Cardinality(s) <= MaxRacks

(* A caller of fence_boot gives a reason, which the engine does not check. *)
ReasonsGiven == "" \notin FenceReasons

LoadableInputs ==
    FencesFit /\ ReasonsGiven /\ \A q \in RackRequests : LoadableRequest(q)

(* While a cluster stays declared, across fences and restarts, no counter, *)
(* epoch or rack generation moves back, no fence is lifted and no rack     *)
(* leaves retirement.                                                      *)
MovesForward ==
    /\ epoch' = epoch /\ coordinator_epoch' >= coordinator_epoch
    /\ topology_epoch' >= topology_epoch
    /\ \A c \in Counters : counters'[c] >= counters[c]
    /\ \A k \in DomainKinds : domain_generations'[k] >= domain_generations[k]
    /\ \A r \in Racks : /\ racks'[r].generation >= racks[r].generation
                        /\ racks'[r].membership_generation >= racks[r].membership_generation
    /\ fenced_authorities \subseteq fenced_authorities'
    /\ retired_racks \subseteq retired_racks'

NothingMovesBack == [][Declared /\ epoch' > 0 => MovesForward]_vars
=============================================================================
