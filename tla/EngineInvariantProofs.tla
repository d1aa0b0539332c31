----------------------- MODULE EngineInvariantProofs ------------------------
(***************************************************************************)
(* The inductive invariant of the commit engine, and what the gate before  *)
(* every commit contributes to it.                                         *)
(***************************************************************************)
EXTENDS EngineStepProofs

(* An undeclared cluster holds no record, and its store holds nothing a    *)
(* restart would accept: a restart recovers exactly what was declared.     *)
UndeclaredIsEmpty == ~Declared => NothingRecorded /\ ~ContainerLoads

IInv ==
    /\ TypeOK /\ RecordsSound /\ UndeclaredIsEmpty
    /\ AuthorityIsLive
    /\ ListsMirrorMembership
    /\ LifecycleIsEvaluated
    /\ CommittedIsDurable
    /\ CountersOrdered
    /\ LinkClaimsAreOfThisEpoch
    /\ ReferencesResolve

(* A step through apply_and_commit: gated, evaluated and saved. *)
GatedStep ==
    /\ NothingRecorded' \/ RecordsConsistent'
    /\ lifecycle' \in {"Retired", "Retiring"} \/ lifecycle' = evaluate_readiness'
    /\ disk' = to_persisted_state'

(* apply_and_commit is a gated step. *)
LEMMA CommitIsGated ==
    ASSUME NEW c, NEW lc, apply_and_commit(c, lc)
    PROVE  GatedStep
BY Zenon DEF apply_and_commit, Evaluated, persist_now, GatedStep

(* The container just saved agrees with the state it was saved from. *)
LEMMA SavedAgrees ==
    ASSUME disk' = to_persisted_state', TypeOK'
    PROVE  CommittedIsDurable'
<1>1. /\ disk'.id = id' /\ disk'.epoch = epoch'
      /\ disk'.last_coordinator_epoch = coordinator_epoch'
      /\ disk'.counters = counters' /\ disk'.topology_epoch = topology_epoch'
      /\ disk'.domain_generations = domain_generations'
      /\ disk'.readiness_contract = readiness_contract'
      /\ disk'.racks = [r \in Racks |-> DurableRack(racks'[r])]
      /\ disk'.links = links' /\ disk'.domains = domains' /\ disk'.constraints = constraints'
      /\ disk'.retired_racks = retired_racks' /\ disk'.withdrawn_racks = withdrawn_racks'
      /\ disk'.fenced_authorities = fenced_authorities' /\ disk'.unexplained = unexplained'
  BY Zenon DEF to_persisted_state, DurableRack
<1>2. disk' # NoContainer
  <2>1. ScalarsTyped' /\ RecordsTyped' /\ ListsTyped'
    BY Zenon DEF TypeOK
  <2>2. (ScalarsTyped /\ RecordsTyped /\ ListsTyped => to_persisted_state \in PersistedState)'
    BY ContainerType, PTL
  <2> QED BY <2>1, <2>2, ContainerAssumption, Zenon
<1>3. fenced_authorities' \subseteq RecoveredFences(disk')
  BY <1>1, Zenon DEF RecoveredFences
<1> QED BY <1>1, <1>2, <1>3, Zenon DEF CommittedIsDurable, DurableRack, RecoveredLink, RecoveredDomain,
                               RecoveredFences, Stored

(* What the gate enforces, together with sound records. *)
LEMMA GateEnforces ==
    ASSUME GatedStep, SoundStep
    PROVE  /\ AuthorityIsLive' /\ ListsMirrorMembership' /\ LifecycleIsEvaluated'
           /\ CommittedIsDurable' /\ LinkClaimsAreOfThisEpoch' /\ UndeclaredIsEmpty'
<1>1. TypeOK' /\ RecordsSound' /\ epoch' > 0
  BY Zenon DEF SoundStep
<1>2. CommittedIsDurable'
  BY <1>1, SavedAgrees, Zenon DEF GatedStep
<1>3. UndeclaredIsEmpty'
  BY <1>1, Zenon DEF UndeclaredIsEmpty, Declared
<1>4. LifecycleIsEvaluated'
  BY Zenon DEF GatedStep, LifecycleIsEvaluated
<1>5. retired_racks' = {r \in Racks : racks'[r].membership = "Retired"}
  BY <1>1, Zenon DEF RecordsSound, TypeOK, ListsTyped
<1>6. CASE NothingRecorded'
  <2>1. \A r \in Racks : racks'[r].membership = "Absent" /\ ~racks'[r].authoritative_current
    BY <1>1, <1>6 DEF NothingRecorded, has_rack, RecordsSound, NoRack
  <2>2. AuthorityIsLive'
    BY <2>1, Zenon DEF AuthorityIsLive
  <2>3. withdrawn_racks' = {r \in Racks : racks'[r].membership = "Withdrawn"}
    BY <2>1, <1>6, Zenon DEF NothingRecorded
  <2>4. LinkClaimsAreOfThisEpoch'
    BY <1>6, Zenon DEF NothingRecorded, HasLink, LinkClaimsAreOfThisEpoch
  <2> QED BY <1>2, <1>3, <1>4, <1>5, <2>2, <2>3, <2>4, Zenon DEF ListsMirrorMembership
<1>7. CASE RecordsConsistent'
  <2>1. \A r \in Racks : racks'[r].authoritative_current => racks'[r].membership # "Absent"
    BY <1>1 DEF RecordsSound, NoRack
  <2>2. \A r \in Racks : racks'[r].authoritative_current =>
           /\ racks'[r].membership # "Unknown" /\ racks'[r].boot \notin fenced_authorities'
           /\ r \notin retired_racks'
    BY <1>7, <2>1, Zenon DEF RecordsConsistent, RackConsistent, has_rack, is_boot_fenced, is_rack_retired
  <2>3. \A r \in Racks : racks'[r].authoritative_current => lifecycle' # "Retired"
    BY <1>7, Zenon DEF RecordsConsistent, LifecycleConsistent
  <2>4. \A r \in Racks : racks'[r].authoritative_current => is_current(racks'[r].evidence)
    BY <1>1, Zenon DEF RecordsSound, is_current
  <2>5. AuthorityIsLive'
    BY <2>1, <2>2, <2>3, <2>4, <1>5, Zenon DEF AuthorityIsLive, is_current
  <2>6. withdrawn_racks' = {r \in Racks : racks'[r].membership = "Withdrawn"}
    BY <1>7, Zenon DEF RecordsConsistent, WithdrawnConsistent
  <2>7. LinkClaimsAreOfThisEpoch'
    BY <1>7, Zenon DEF RecordsConsistent, LinkConsistent, SupersededLinkConsistent, HasLink,
                LinkClaimsAreOfThisEpoch, is_current, requires_revalidation
  <2> QED BY <1>2, <1>3, <1>4, <1>5, <2>5, <2>6, <2>7, Zenon DEF ListsMirrorMembership
<1> QED BY <1>6, <1>7, Zenon DEF GatedStep

(* A commit that advances no counter but the cluster generation past its   *)
(* bound keeps the counters in order.                                      *)
LEMMA CommitKeepsOrder ==
    ASSUME TypeOK, Declared, CountersOrdered, NEW S \in SUBSET (Counters \ {"cluster"}),
           "snapshot" \in S <=> "publication" \in S, Commit(S)
    PROVE  CountersOrdered'
<1>1. /\ \A c \in Counters : counters[c] \in Generations /\ counters'[c] \in Generations
      /\ \A c \in Counters \ {"cluster"} :
            counters'[c] = IF c \in S THEN counters[c] + 1 ELSE counters[c]
      /\ counters'["cluster"] >= counters["cluster"] + 1
  BY CommitCounters, Zenon
<1>2. /\ "cluster" \in Counters /\ "membership" \in Counters \ {"cluster"}
      /\ "topology" \in Counters \ {"cluster"} /\ "snapshot" \in Counters \ {"cluster"}
      /\ "publication" \in Counters \ {"cluster"}
  BY Zenon DEF Counters
<1>3. \A c \in Counters : counters[c] \in Int /\ counters'[c] \in Int
  BY <1>1, GenerationBound DEF Generations
<1>4. /\ counters["membership"] < counters["cluster"]
      /\ counters["topology"] < counters["cluster"]
      /\ counters["snapshot"] <= counters["publication"]
  BY Zenon DEF CountersOrdered
<1>5. /\ counters'["membership"] <= counters["membership"] + 1
      /\ counters'["topology"] <= counters["topology"] + 1
  BY <1>1, <1>2, <1>3
<1>6. counters'["snapshot"] <= counters'["publication"]
  BY <1>1, <1>2, <1>3, <1>4
<1> QED BY <1>1, <1>2, <1>3, <1>4, <1>5, <1>6 DEF CountersOrdered

(* Every domain a published link refers to exists. *)
LinksResolve ==
    \A l \in LinkIds : links[l].generation > 0 =>
        \A d \in links[l].domains : domains[d].generation > 0

(* No domain disappears, and no link appears or changes its domains. *)
LinksStay ==
    /\ \A d \in DomainIds : domains[d].generation > 0 => domains'[d].generation > 0
    /\ \A l \in LinkIds : links'[l].generation > 0 =>
          links[l].generation > 0 /\ links'[l].domains = links[l].domains

(* Links that stay keep resolving. *)
LEMMA LinksKeepResolving ==
    ASSUME TypeOK, ReferencesResolve, LinksStay
    PROVE  LinksResolve'
<1> SUFFICES ASSUME NEW l \in LinkIds, links'[l].generation > 0, NEW d \in links'[l].domains
             PROVE  domains'[d].generation > 0
  BY Zenon DEF LinksResolve
<1>1. links[l].generation > 0 /\ d \in links[l].domains
  BY Zenon DEF LinksStay
<1>2. d \in DomainIds
  BY <1>1 DEF TypeOK, RecordsTyped, LinkRecord, NoRecord
<1>3. domains[d].generation > 0
  BY <1>1, Zenon DEF ReferencesResolve
<1> QED BY <1>2, <1>3, Zenon DEF LinksStay

(* The gate checks every reference but the network and link domains of a   *)
(* link.                                                                   *)
LEMMA GateResolves ==
    ASSUME GatedStep, TypeOK', LinksResolve'
    PROVE  ReferencesResolve'
<1>1. CASE NothingRecorded'
  BY <1>1, Zenon DEF NothingRecorded, HasLink, HasDomain, HasConstraint, ReferencesResolve
<1>2. CASE RecordsConsistent'
  <2>1. ASSUME NEW l \in LinkIds, links'[l].generation > 0
        PROVE  \A r \in {links'[l].source, links'[l].destination} :
                  r \in Racks /\ racks'[r].membership \notin {"Absent", "Unknown"}
    <3>1. links'[l].source \in Racks /\ links'[l].destination \in Racks
      BY <2>1 DEF TypeOK, RecordsTyped, LinkRecord, NoRecord
    <3> QED BY <1>2, <2>1, <3>1, Zenon DEF RecordsConsistent, LinkConsistent, HasLink, is_rack_member
  <2>2. ASSUME NEW d \in DomainIds, domains'[d].generation > 0
        PROVE  \A r \in domains'[d].racks :
                  r \in Racks /\ racks'[r].membership \notin {"Absent", "Unknown"}
    <3>1. domains'[d].racks \subseteq Racks
      BY <2>2 DEF TypeOK, RecordsTyped, DomainRecord, NoRecord
    <3> QED BY <1>2, <2>2, <3>1, Zenon DEF RecordsConsistent, DomainConsistent, HasDomain, is_rack_member
  <2>3. ASSUME NEW c \in ConstraintIds, constraints'[c].generation > 0
        PROVE  \A r \in constraints'[c].racks :
                  r \in Racks /\ racks'[r].membership \notin {"Absent", "Unknown"}
    <3>1. constraints'[c].racks \subseteq Racks
      BY <2>3 DEF TypeOK, RecordsTyped, ConstraintRecord, NoRecord
    <3> QED BY <1>2, <2>3, <3>1, Zenon DEF RecordsConsistent, ConstraintConsistent, HasConstraint,
                                    is_rack_member
  <2> QED BY <2>1, <2>2, <2>3, Zenon DEF LinksResolve, ReferencesResolve
<1> QED BY <1>1, <1>2, Zenon DEF GatedStep

(* A commit of a declared cluster preserves the whole invariant. *)
LEMMA CommitPreserves ==
    ASSUME IInv, Declared, NEW S \in SUBSET (Counters \ {"cluster"}),
           "snapshot" \in S <=> "publication" \in S,
           Commit(S), SoundStep, LinksResolve'
    PROVE  IInv'
<1>1. GatedStep
  BY CommitIsGated, Zenon DEF Commit
<1>2. TypeOK /\ CountersOrdered /\ TypeOK' /\ RecordsSound'
  BY Zenon DEF IInv, SoundStep
<1>3. CountersOrdered'
  BY <1>2, CommitKeepsOrder, Zenon
<1>4. ReferencesResolve'
  BY <1>1, <1>2, GateResolves, Zenon
<1> QED BY <1>1, <1>2, <1>3, <1>4, GateEnforces, Zenon DEF IInv

-----------------------------------------------------------------------------
(***************************************************************************)
(* Every request preserves the invariant.                                  *)
(***************************************************************************)
Served == IInv' /\ (Declared => MovesForward)

(* Links and domains left alone, or changed in evidence and reachability   *)
(* only.                                                                   *)
LEMMA LinksUntouched ==
    ASSUME TypeOK, UNCHANGED <<links, domains>>
    PROVE  LinksStay
BY Zenon DEF LinksStay

(* A rack mutation that leaves links and domains alone. *)
LEMMA RackCommit ==
    ASSUME IInv, Declared, NEW S \in {{}, {"membership"}}, Commit(S), SoundStep,
           UNCHANGED topology
    PROVE  Served
<1>1. S \in SUBSET (Counters \ {"cluster"}) /\ ("snapshot" \in S <=> "publication" \in S)
  BY Zenon DEF Counters
<1>2. LinksResolve'
  BY LinksUntouched, LinksKeepResolving, Zenon DEF IInv, topology
<1> QED BY <1>1, <1>2, CommitPreserves, Zenon DEF Served, SoundStep

(* Readiness depends only on the contract, the records and the lists. *)
LEMMA ReadinessUnchanged ==
    ASSUME UNCHANGED <<readiness_contract, racks, links, domains, authority_lists>>
    PROVE  evaluate_readiness' = evaluate_readiness
<1>0. UNCHANGED <<fenced_authorities, unexplained, retired_racks, withdrawn_racks>>
  BY Zenon DEF authority_lists
<1>1. ActiveRacks' = ActiveRacks /\ CurrentRacks' = CurrentRacks
  BY Zenon DEF ActiveRacks, CurrentRacks, is_active, is_current_active
<1>2. AnyRevalidation' = AnyRevalidation
  BY Zenon DEF AnyRevalidation, needs_revalidation, is_active, requires_revalidation
<1>3. CurrentLinks' = CurrentLinks
  BY Zenon DEF CurrentLinks, HasLink, is_current
<1>4. TooFewCurrentRacks' = TooFewCurrentRacks
  BY <1>1, Zenon DEF TooFewCurrentRacks
<1>5. ASSUME NEW kind, NEW klass
      PROVE  HasCurrentDomain(kind, klass)' = HasCurrentDomain(kind, klass)
  BY Zenon DEF HasCurrentDomain, HasDomain, is_current
<1>6. StructuralConflict' = StructuralConflict
  BY <1>0, Zenon DEF StructuralConflict, HasLink, has_rack, is_boot_fenced, is_rack_retired
<1>7. Satisfied' = Satisfied
  <2> HIDE DEF HasCurrentDomain
  <2> QED BY <1>1, <1>2, <1>3, <1>4, <1>5, <1>6, Zenon DEF Satisfied
<1>8. RevalidationIsRequiredElement' = RevalidationIsRequiredElement
  BY <1>2, <1>4, Zenon DEF RevalidationIsRequiredElement, is_active, is_current_active
<1>9. KnowinglyIncomplete' = KnowinglyIncomplete
  BY <1>0, Zenon DEF KnowinglyIncomplete
<1> QED BY <1>1, <1>7, <1>8, <1>9, Zenon DEF evaluate_readiness

(* A gated step of a cluster whose links and domains stay. *)
LEMMA GatedPreserves ==
    ASSUME IInv, GatedStep, SoundStep, CountersOrdered', UNCHANGED <<links, domains>>
    PROVE  Served
<1>1. TypeOK /\ ReferencesResolve /\ TypeOK' /\ RecordsSound'
  BY Zenon DEF IInv, SoundStep
<1>2. ReferencesResolve'
  BY <1>1, LinksUntouched, LinksKeepResolving, GateResolves, Zenon
<1> QED BY <1>1, <1>2, GateEnforces, Zenon DEF IInv, Served, SoundStep

(* A step that only advances the cluster generation keeps the order. *)
LEMMA ClusterBumpKeepsOrder ==
    ASSUME TypeOK, Declared, CountersOrdered, NEW lc \in Lifecycles,
           apply_and_commit(counters, lc)
    PROVE  CountersOrdered'
<1>1. counters \in [Counters -> Generations]
  BY Zenon DEF TypeOK, ScalarsTyped
<1>2. counters' = [counters EXCEPT !["cluster"] = counters["cluster"] + 1]
  BY <1>1, CommitTypes, Zenon
<1>3. \A c \in Counters : counters[c] \in Int
  BY <1>1, GenerationBound DEF Generations
<1> QED BY <1>1, <1>2, <1>3 DEF CountersOrdered, Counters

-----------------------------------------------------------------------------
(***************************************************************************)
(* Every request the commit thread applies preserves the invariant.        *)
(***************************************************************************)

(* Every rack mutation. *)
LEMMA RackMutationServed ==
    ASSUME IInv, NEW q \in MutationRequest, NEW r \in Racks, RackMutation(q, r)
    PROVE  Served
<1>0. TypeOK /\ RecordsSound /\ ReferencesResolve
  BY Zenon DEF IInv
<1>1. CASE RegisterRackPublisher(q, r)
  <2>1. Declared /\ Commit({}) /\ UNCHANGED topology
    BY <1>1, Zenon DEF RegisterRackPublisher, validate_common, Declared
  <2> QED BY <1>0, <1>1, <2>1, RegisterRackPublisherStep, RackCommit, Zenon
<1>2. ASSUME NEW age \in Ages, AddRack(q, r, age)
      PROVE  Served
  <2>1. /\ Declared /\ UNCHANGED topology
        /\ \E S \in {{}, {"membership"}} : Commit(S)
    BY <1>2, Zenon DEF AddRack, validate_common, Declared
  <2> QED BY <1>0, <1>2, <2>1, AddRackStep, RackCommit, Zenon
<1>3. CASE UpdateRackGeneration(q, r)
  <2>1. Declared /\ Commit({"membership"}) /\ UNCHANGED topology
    BY <1>3, Zenon DEF UpdateRackGeneration, validate_common, Declared
  <2> QED BY <1>0, <1>3, <2>1, UpdateRackGenerationStep, RackCommit, Zenon
<1>4. ASSUME NEW target \in {"Unavailable", "Withdrawn", "Retired"},
             membership_change(q, r, target)
      PROVE  Served
  <2>1. Declared /\ Commit({"membership"}) /\ UNCHANGED topology
    BY <1>4, Zenon DEF membership_change, validate_common, Declared
  <2> QED BY <1>0, <1>4, <2>1, MembershipChangeStep, RackCommit, Zenon
<1>5. CASE RecoverRack(q, r)
  <2>1. Declared /\ Commit({"membership"}) /\ UNCHANGED topology
    BY <1>5, Zenon DEF RecoverRack, validate_common, Declared
  <2> QED BY <1>0, <1>5, <2>1, RecoverRackStep, RackCommit, Zenon
<1>6. CASE PublishHealthCurrentness(q, r)
  <2> DEFINE S == IF q.reachability = "Unknown" THEN {"health"} ELSE {"health", "connectivity"}
  <2>1. Declared /\ Commit(S) /\ UNCHANGED domains
    BY <1>6, Zenon DEF PublishHealthCurrentness, validate_common, Declared
  <2>2. S \in SUBSET (Counters \ {"cluster"}) /\ ("snapshot" \in S <=> "publication" \in S)
    BY Zenon DEF Counters
  <2> HIDE DEF S
  <2>3. \A l \in LinkIds : links'[l].generation > 0 =>
           links[l].generation > 0 /\ links'[l].domains = links[l].domains
    <3> SUFFICES ASSUME NEW l \in LinkIds, links'[l].generation > 0
                 PROVE  links[l].generation > 0 /\ links'[l].domains = links[l].domains
      BY Zenon
    <3>1. \/ links'[l] = links[l]
          \/ /\ HasLink(l)
             /\ links'[l] = [links[l] EXCEPT !.reachability = q.reachability,
                                             !.evidence = q.evidence]
      BY <1>6, Zenon DEF PublishHealthCurrentness, Incident
    <3>2. HasLink(l) => links[l] \in LinkRecord
      BY <1>0 DEF TypeOK, RecordsTyped, HasLink, NoRecord
    <3> QED BY <3>1, <3>2, Zenon DEF HasLink, LinkRecord
  <2>4. LinksResolve'
    BY <1>0, <2>1, <2>3, LinksKeepResolving, Zenon DEF LinksStay
  <2> QED BY <1>0, <1>6, <2>1, <2>2, <2>4, PublishHealthCurrentnessStep, CommitPreserves, Zenon
          DEF Served, SoundStep
<1>7. ASSUME NEW selector \in EvidenceSelectors, WithdrawEvidence(q, r, selector)
      PROVE  Served
  <2> DEFINE S == IF selector \in {"rack_evidence", "reachability"}
                  THEN {"health", "connectivity"} ELSE {"health"}
  <2>1. Declared /\ Commit(S) /\ UNCHANGED domains
    BY <1>7, Zenon DEF WithdrawEvidence, validate_common, Declared
  <2>2. S \in SUBSET (Counters \ {"cluster"}) /\ ("snapshot" \in S <=> "publication" \in S)
    BY Zenon DEF Counters
  <2> HIDE DEF S
  <2>3. \A l \in LinkIds : links'[l].generation > 0 =>
           links[l].generation > 0 /\ links'[l].domains = links[l].domains
    <3> SUFFICES ASSUME NEW l \in LinkIds, links'[l].generation > 0
                 PROVE  links[l].generation > 0 /\ links'[l].domains = links[l].domains
      BY Zenon
    <3>1. \/ links'[l] = links[l]
          \/ /\ HasLink(l)
             /\ links'[l] = [links[l] EXCEPT
                         !.reachability = "RevalidationRequired",
                         !.evidence = mark_revalidation_required(links[l].evidence)]
      BY <1>7, Zenon DEF WithdrawEvidence, Incident
    <3>2. HasLink(l) => links[l] \in LinkRecord
      BY <1>0 DEF TypeOK, RecordsTyped, HasLink, NoRecord
    <3> QED BY <3>1, <3>2, Zenon DEF HasLink, LinkRecord
  <2>4. LinksResolve'
    BY <1>0, <2>1, <2>3, LinksKeepResolving, Zenon DEF LinksStay
  <2> QED BY <1>0, <1>7, <2>1, <2>2, <2>4, WithdrawEvidenceStep, CommitPreserves, Zenon
          DEF Served, SoundStep
<1> QED BY <1>1, <1>2, <1>3, <1>4, <1>5, <1>6, <1>7, Zenon
        DEF RackMutation, MarkRackUnavailable, WithdrawRack, RetireRack

(* Publishing a domain, whatever the record says. *)
LEMMA PublishDomainServed ==
    ASSUME IInv, NEW q \in MutationRequest, NEW d \in DomainIds, NEW x \in DomainRecord,
           x.generation > 0, publish_domain_record(q, d, x)
    PROVE  Served
<1>0. TypeOK /\ RecordsSound /\ ReferencesResolve
  BY Zenon DEF IInv
<1>1. /\ Declared /\ Commit({"topology"}) /\ UNCHANGED links
      /\ domains' = [domains EXCEPT ![d] = x]
  BY Zenon DEF publish_domain_record, validate_common, Declared
<1>2. LinksStay
  BY <1>0, <1>1, Zenon DEF LinksStay, TypeOK, RecordsTyped
<1>3. /\ {"topology"} \in SUBSET (Counters \ {"cluster"})
      /\ "snapshot" \in {"topology"} <=> "publication" \in {"topology"}
  BY Zenon DEF Counters
<1> QED BY <1>0, <1>1, <1>2, <1>3, LinksKeepResolving, PublishDomainStep, CommitPreserves, Zenon
        DEF Served, SoundStep

(* Publishing a link, whatever the record says. *)
LEMMA PublishLinkServed ==
    ASSUME IInv, NEW q \in MutationRequest, NEW l \in LinkIds, NEW x \in LinkPayload,
           PublishInterRackLink(q, l, x)
    PROVE  Served
<1> DEFINE S == {"topology", "connectivity"}
<1>0. TypeOK /\ RecordsSound /\ ReferencesResolve
  BY Zenon DEF IInv
<1>1. S \in SUBSET (Counters \ {"cluster"}) /\ ("snapshot" \in S <=> "publication" \in S)
  BY Zenon DEF Counters
<1>2. /\ Declared /\ Commit(S) /\ UNCHANGED domains
      /\ \A d \in x.domains : domains[d].generation > 0
  BY Zenon DEF PublishInterRackLink, validate_common, Declared, LinkDomainsExist, HasDomain
<1>3. \A k \in LinkIds : links'[k] = links[k] \/ links'[k].domains = x.domains
  BY <1>0, Zenon DEF PublishInterRackLink, TypeOK, RecordsTyped
<1>4. LinksResolve'
  BY <1>0, <1>2, <1>3, Zenon DEF LinksResolve, ReferencesResolve
<1> HIDE DEF S
<1> QED BY <1>0, <1>1, <1>2, <1>4, PublishInterRackLinkStep, CommitPreserves, Zenon
        DEF Served, SoundStep

(* Every topology mutation. *)
LEMMA TopologyMutationServed ==
    ASSUME IInv, NEW q \in MutationRequest, TopologyMutation(q)
    PROVE  Served
<1>0. TypeOK /\ RecordsSound /\ ReferencesResolve
  BY Zenon DEF IInv
<1>1. ASSUME NEW d \in DomainIds, NEW x \in DomainPayloads, publish_domain_record(q, d, x)
      PROVE  Served
  <2>1. x \in DomainRecord /\ x.generation > 0
    BY RequestAssumption, Zenon
  <2> QED BY <1>1, <2>1, PublishDomainServed, Zenon
<1>2. ASSUME NEW c \in ConstraintIds, NEW x \in ConstraintPayloads, PublishConstraint(q, c, x)
      PROVE  Served
  <2>1. Declared /\ Commit({"constraint"}) /\ UNCHANGED <<links, domains>>
    BY <1>2, Zenon DEF PublishConstraint, validate_common, Declared
  <2>2. /\ {"constraint"} \in SUBSET (Counters \ {"cluster"})
        /\ "snapshot" \in {"constraint"} <=> "publication" \in {"constraint"}
    BY Zenon DEF Counters
  <2> QED BY <1>0, <1>2, <2>1, <2>2, LinksUntouched, LinksKeepResolving, PublishConstraintStep,
             CommitPreserves, Zenon DEF Served, SoundStep
<1> DEFINE S == {"topology", "connectivity"}
<1>3. S \in SUBSET (Counters \ {"cluster"}) /\ ("snapshot" \in S <=> "publication" \in S)
  BY Zenon DEF Counters
<1>4. ASSUME NEW l \in LinkIds, NEW x \in LinkPayloads, PublishInterRackLink(q, l, x)
      PROVE  Served
  <2>1. x \in LinkPayload
    BY RequestAssumption, Zenon
  <2> QED BY <1>4, <2>1, PublishLinkServed, Zenon
<1>5. ASSUME NEW l \in LinkIds, WithdrawInterRackLink(q, l)
      PROVE  Served
  <2>1. /\ Declared /\ Commit(S) /\ UNCHANGED domains
        /\ links' = [links EXCEPT ![l] = NoRecord]
    BY <1>5, Zenon DEF WithdrawInterRackLink, validate_common, Declared
  <2>2. LinksStay
    BY <1>0, <2>1 DEF LinksStay, TypeOK, RecordsTyped, NoRecord
  <2> HIDE DEF S
  <2> QED BY <1>0, <1>3, <1>5, <2>1, <2>2, LinksKeepResolving, WithdrawInterRackLinkStep,
             CommitPreserves DEF Served, SoundStep
<1>6. CASE SupersedeTopology(q)
  <2>1. Declared /\ Commit(S) /\ UNCHANGED domains
    BY <1>6, Zenon DEF SupersedeTopology, validate_common, Declared
  <2>2. ASSUME NEW l \in LinkIds, links'[l].generation > 0
        PROVE  links[l].generation > 0 /\ links'[l].domains = links[l].domains
    <3>1. \/ links'[l] = links[l]
          \/ /\ HasLink(l)
             /\ links'[l] = [links[l] EXCEPT
                         !.evidence = mark_revalidation_required(links[l].evidence),
                         !.reachability = "Unknown"]
      BY <1>6, Zenon DEF SupersedeTopology
    <3>2. HasLink(l) => links[l] \in LinkRecord
      BY <1>0 DEF TypeOK, RecordsTyped, HasLink, NoRecord
    <3> QED BY <2>2, <3>1, <3>2, Zenon DEF HasLink, LinkRecord
  <2>3. LinksStay
    BY <2>1, <2>2, Zenon DEF LinksStay
  <2> HIDE DEF S
  <2> QED BY <1>0, <1>3, <1>6, <2>1, <2>3, LinksKeepResolving, SupersedeTopologyStep,
             CommitPreserves, Zenon DEF Served, SoundStep
<1> QED BY <1>1, <1>2, <1>4, <1>5, <1>6, Zenon DEF TopologyMutation

(* Every cluster mutation. *)
LEMMA ClusterMutationServed ==
    ASSUME IInv, NEW q \in MutationRequest, ClusterMutation(q)
    PROVE  Served
<1>0. /\ TypeOK /\ RecordsSound /\ ReferencesResolve /\ CountersOrdered
      /\ ~Declared => NothingRecorded
  BY Zenon DEF IInv, UndeclaredIsEmpty
<1>1. CASE DeclareCluster(q)
  <2>1. /\ NothingRecorded /\ apply_and_commit(FirstCounters, "Declared")
        /\ UNCHANGED <<links, domains>>
    BY <1>0, <1>1 DEF DeclareCluster, Declared
  <2>2. SoundStep
    BY <1>0, <1>1, <2>1, DeclareClusterStep, Zenon
  <2>3. counters' = [FirstCounters EXCEPT !["cluster"] = FirstCounters["cluster"] + 1]
    BY <2>1, Zenon DEF apply_and_commit
  <2>4. CountersOrdered'
    BY <2>3 DEF FirstCounters, CountersOrdered, Counters
  <2> QED BY <2>1, <2>2, <2>4, CommitIsGated, GatedPreserves, Zenon
<1>2. CASE DeclareRolledBack(q)
  <2>1. /\ epoch = 0 /\ id' \in ClusterIds
        /\ UNCHANGED <<epoch, coordinator_epoch, readiness_contract, counters, lifecycle, racks,
                       links, domains, constraints, topology_epoch, domain_generations,
                       fenced_authorities, unexplained, retired_racks, withdrawn_racks, disk>>
    BY <1>2, RequestTypes, Zenon DEF DeclareRolledBack, topology, authority_lists
  <2>2. TypeOK'
    BY <1>0, <2>1, Zenon DEF TypeOK, ScalarsTyped, RecordsTyped, ListsTyped, Declared
  <2>3. RecordsSound' /\ UndeclaredIsEmpty'
    BY <2>1, Zenon DEF IInv, RecordsSound, UndeclaredIsEmpty, Declared, NothingRecorded, ContainerLoads,
                has_rack, HasLink, HasDomain, HasConstraint
  <2>4. AuthorityIsLive' /\ ListsMirrorMembership' /\ LinkClaimsAreOfThisEpoch'
    BY <2>1, Zenon DEF IInv, AuthorityIsLive, ListsMirrorMembership, LinkClaimsAreOfThisEpoch
  <2>5. LifecycleIsEvaluated'
    BY <2>1, ReadinessUnchanged, Zenon DEF IInv, LifecycleIsEvaluated, authority_lists
  <2>6. CommittedIsDurable' /\ CountersOrdered'
    BY <2>1 DEF CommittedIsDurable, CountersOrdered, Declared
  <2>7. ReferencesResolve'
    BY <1>0, <2>1, Zenon DEF ReferencesResolve
  <2> QED BY <2>1, <2>2, <2>3, <2>4, <2>5, <2>6, <2>7 DEF IInv, Served, Declared
<1>3. CASE RedeclareCluster(q)
  <2>1. /\ Declared /\ apply_and_commit(counters, q.declared_lifecycle)
        /\ UNCHANGED <<links, domains>>
    BY <1>3, Zenon DEF RedeclareCluster, Declared, topology
  <2>2. SoundStep
    BY <1>0, <1>3, RedeclareClusterStep, Zenon
  <2>3. CountersOrdered'
    BY <1>0, <2>1, RequestTypes, ClusterBumpKeepsOrder, Zenon
  <2> QED BY <2>1, <2>2, <2>3, CommitIsGated, GatedPreserves, Zenon
<1>4. CASE RetireCluster(q)
  <2>1. /\ Declared /\ apply_and_commit(counters, "Retired") /\ UNCHANGED <<links, domains>>
    BY <1>4, Zenon DEF RetireCluster, validate_common, Declared, topology
  <2>2. SoundStep
    BY <1>0, <1>4, RetireClusterStep, Zenon
  <2>3. CountersOrdered'
    BY <1>0, <2>1, ClusterBumpKeepsOrder, Zenon DEF Lifecycles
  <2> QED BY <2>1, <2>2, <2>3, CommitIsGated, GatedPreserves, Zenon
<1>5. CASE PublishSnapshot(q)
  <2> DEFINE S == {"snapshot", "publication"}
  <2>1. /\ Declared /\ Commit(S) /\ UNCHANGED <<identity, racks, topology, authority_lists>>
        /\ UNCHANGED <<links, domains>>
    BY <1>5, Zenon DEF PublishSnapshot, validate_common, Declared, topology
  <2>2. /\ S \in SUBSET (Counters \ {"cluster"}) /\ S \in SUBSET Counters
        /\ ("snapshot" \in S <=> "publication" \in S)
    BY Zenon DEF Counters
  <2> HIDE DEF S
  <2>3. SoundStep
    BY <1>0, <2>1, <2>2, OnlyCountersMove, Zenon
  <2>4. CountersOrdered'
    BY <1>0, <2>1, <2>2, CommitKeepsOrder, Zenon
  <2> QED BY <2>1, <2>3, <2>4, CommitIsGated, GatedPreserves, Zenon DEF Commit
<1>6. ASSUME NEW named \in SUBSET Racks, RevalidateRecoveredState(q, named)
      PROVE  Served
  <2>1. /\ Declared /\ Commit({}) /\ UNCHANGED <<identity, racks, topology, authority_lists>>
    BY <1>6, Zenon DEF RevalidateRecoveredState, validate_common, Declared
  <2>2. {} \in SUBSET Counters
    BY Zenon
  <2>3. SoundStep
    BY <1>0, <2>1, <2>2, OnlyCountersMove, Zenon
  <2> QED BY <2>1, <2>3, RackCommit, Zenon
<1> QED BY <1>1, <1>2, <1>3, <1>4, <1>5, <1>6, Zenon DEF ClusterMutation

-----------------------------------------------------------------------------
(***************************************************************************)
(* A restart from a container that loads preserves the invariant: no gate  *)
(* checks what from_persisted_state makes of it.                           *)
(***************************************************************************)

(* What from_persisted_state makes of a rack that was saved: the same rack *)
(* without authority, and saving it again writes the same record.          *)
LEMMA RecoveredRackFacts ==
    ASSUME NEW x \in RackRecord, x.membership = "Absent" => x = NoRack
    PROVE  LET y == RecoveredRack(DurableRack(x)) IN
           /\ y \in RackRecord
           /\ y.membership = x.membership /\ y.generation = x.generation
           /\ y.membership_generation = x.membership_generation
           /\ ~y.authoritative_current
           /\ y.membership = "Absent" => y = NoRack
           /\ DurableRack(y) = DurableRack(x)
<1> DEFINE y == RecoveredRack(DurableRack(x))
<1>1. CASE x.membership = "Absent"
  <2>1. x = NoRack /\ y = NoRack
    BY <1>1, Zenon DEF RecoveredRack, DurableRack
  <2>2. ~NoRack.authoritative_current
    BY Zenon DEF NoRack
  <2> QED BY <2>1, <2>2, Zenon
<1>2. CASE x.membership # "Absent"
  <2>1. y = [membership |-> x.membership, membership_generation |-> x.membership_generation,
             authoritative_current |-> FALSE, currentness |-> "RevalidationRequired",
             generation |-> x.generation, publisher |-> x.publisher, boot |-> x.boot,
             publication |-> x.publication,
             evidence |-> [provenance |-> "Reconstructed", observed |-> TRUE,
                           freshness |-> "RevalidationRequired"],
             composition |-> x.composition, endpoints |-> x.endpoints]
    BY <1>2, Zenon DEF RecoveredRack, DurableRack
  <2>2. [provenance |-> "Reconstructed", observed |-> TRUE,
         freshness |-> "RevalidationRequired"] \in Evidence
    BY Zenon DEF Evidence
  <2>3. y \in RackRecord
    BY <2>1, <2>2 DEF RackRecord
  <2>4. DurableRack(y) = DurableRack(x)
    BY <2>1 DEF DurableRack
  <2> QED BY <1>2, <2>1, <2>3, <2>4
<1> QED BY <1>1, <1>2, Zenon

(* A recovered link claims nothing, refers to what it referred to, and     *)
(* recovers to itself.                                                     *)
LEMMA RecoveredLinkFacts ==
    ASSUME NEW x \in LinkRecord \cup {NoRecord}
    PROVE  LET y == RecoveredLink(x) IN
           /\ y \in LinkRecord \cup {NoRecord}
           /\ y.generation = x.generation
           /\ y.generation > 0 => /\ y.source = x.source /\ y.destination = x.destination
                                  /\ y.domains = x.domains /\ y.reachability = "Unknown"
                                  /\ ~is_current(y.evidence)
           /\ RecoveredLink(y) = y
<1> DEFINE y == RecoveredLink(x)
<1>1. CASE x.generation = 0
  <2>1. y = NoRecord /\ NoRecord.generation = 0 /\ ~(0 > 0)
    BY <1>1 DEF RecoveredLink, NoRecord
  <2>2. RecoveredLink(NoRecord) = NoRecord
    BY Zenon DEF RecoveredLink, NoRecord
  <2> QED BY <1>1, <2>1, <2>2, Zenon
<1>2. CASE x.generation # 0
  <2>1. x \in LinkRecord
    BY <1>2 DEF NoRecord
  <2> DEFINE e == mark_revalidation_required(x.evidence)
  <2>2. e \in Evidence /\ ~is_current(e)
    BY <2>1, EvidenceTypes, Zenon DEF LinkRecord
  <2>3. mark_revalidation_required(e) = e
    BY <2>1, Zenon DEF mark_revalidation_required, LinkRecord, Evidence
  <2>4. y = [x EXCEPT !.reachability = "Unknown", !.evidence = e]
    BY <1>2, Zenon DEF RecoveredLink
  <2> HIDE DEF e
  <2>5. /\ y \in LinkRecord /\ y.generation = x.generation /\ y.source = x.source
        /\ y.destination = x.destination /\ y.domains = x.domains
        /\ y.reachability = "Unknown" /\ y.evidence = e
    BY <2>1, <2>2, <2>4, Zenon DEF LinkRecord, Reachabilities
  <2> HIDE DEF y
  <2>6. RecoveredLink(y) = [y EXCEPT !.reachability = "Unknown", !.evidence = e]
    BY <1>2, <2>3, <2>5, Zenon DEF RecoveredLink
  <2>7. RecoveredLink(y) = y
    <3>1. [y EXCEPT !.reachability = "Unknown"] = y
      BY <2>5, Zenon DEF LinkRecord
    <3>2. [y EXCEPT !.evidence = e] = y
      BY <2>5, Zenon DEF LinkRecord
    <3>3. [y EXCEPT !.reachability = "Unknown", !.evidence = e]
             = [[y EXCEPT !.reachability = "Unknown"] EXCEPT !.evidence = e]
      BY Zenon
    <3> QED BY <2>6, <3>1, <3>2, <3>3, Zenon
  <2> QED BY <2>2, <2>5, <2>7, Zenon DEF y
<1> QED BY <1>1, <1>2, Zenon

(* A recovered domain keeps its racks, and recovering it again is          *)
(* recovering it once.                                                     *)
LEMMA RecoveredDomainFacts ==
    ASSUME NEW x \in DomainRecord \cup {NoRecord}, NEW a1 \in Ages
    PROVE  LET y == RecoveredDomain(x, a1) IN
           /\ y \in DomainRecord \cup {NoRecord}
           /\ y.generation = x.generation
           /\ y.generation > 0 => y.racks = x.racks
           /\ \A a2 \in Ages : RecoveredDomain(y, a2) = RecoveredDomain(x, a2)
<1> DEFINE y == RecoveredDomain(x, a1)
<1>1. CASE x.generation = 0
  <2>1. y = NoRecord /\ NoRecord.generation = 0 /\ ~(0 > 0)
    BY <1>1 DEF RecoveredDomain, NoRecord
  <2>2. \A a2 \in Ages : /\ RecoveredDomain(NoRecord, a2) = NoRecord
                         /\ RecoveredDomain(x, a2) = NoRecord
    BY <1>1, Zenon DEF RecoveredDomain, NoRecord
  <2> QED BY <1>1, <2>1, <2>2, Zenon
<1>2. CASE x.generation # 0
  <2>1. x \in DomainRecord /\ x.evidence \in Evidence
    BY <1>2 DEF NoRecord, DomainRecord
  <2>2. refresh(x.evidence, a1) \in Evidence
    BY <2>1, EvidenceTypes, Zenon
  <2>3. y = [x EXCEPT !.evidence = refresh(x.evidence, a1)]
    BY <1>2, Zenon DEF RecoveredDomain
  <2>4. /\ y \in DomainRecord /\ y.generation = x.generation /\ y.racks = x.racks
        /\ y.klass = x.klass /\ y.evidence = refresh(x.evidence, a1)
    BY <2>1, <2>2, <2>3, Zenon DEF DomainRecord
  <2> HIDE DEF y
  <2>5. ASSUME NEW a2 \in Ages
        PROVE  RecoveredDomain(y, a2) = RecoveredDomain(x, a2)
    <3>1. refresh(refresh(x.evidence, a1), a2) = refresh(x.evidence, a2)
      BY <2>1, Zenon DEF refresh, Evidence, Ages
    <3>2. /\ RecoveredDomain(y, a2) = [y EXCEPT !.evidence = refresh(x.evidence, a2)]
          /\ RecoveredDomain(x, a2) = [x EXCEPT !.evidence = refresh(x.evidence, a2)]
      BY <1>2, <2>4, <3>1, Zenon DEF RecoveredDomain
    <3> QED BY <2>1, <2>4, <3>2 DEF DomainRecord
  <2> QED BY <2>4, <2>5, Zenon DEF y
<1> QED BY <1>1, <1>2, Zenon

(* A restart from the container recovers what was committed: the           *)
(* invariant holds of the new process, and nothing declared moved back.    *)
LEMMA RestartRecoveredServed ==
    ASSUME IInv, NEW age \in [DomainIds -> Ages], RestartRecovered(age)
    PROVE  Served
<1>0. /\ TypeOK /\ RecordsSound /\ ReferencesResolve /\ CountersOrdered
      /\ ListsMirrorMembership /\ CommittedIsDurable
  BY Zenon DEF IInv
<1>1. Declared
  BY Zenon DEF IInv, UndeclaredIsEmpty, RestartRecovered
<1>2. /\ id' = id /\ epoch' = epoch /\ coordinator_epoch' = NextEpoch(disk.last_coordinator_epoch)
      /\ counters' = counters /\ topology_epoch' = topology_epoch
      /\ domain_generations' = domain_generations /\ readiness_contract' = readiness_contract
      /\ constraints' = constraints /\ retired_racks' = retired_racks
      /\ withdrawn_racks' = withdrawn_racks /\ disk' = disk
      /\ fenced_authorities' = RecoveredFences(disk) /\ unexplained' = unexplained
      /\ lifecycle' = evaluate_readiness'
  BY <1>0, <1>1, Zenon DEF RestartRecovered, CommittedIsDurable
<1>3. disk \in PersistedState
  BY <1>0, <1>1, Zenon DEF TypeOK, CommittedIsDurable
<1>4. /\ disk.last_coordinator_epoch \in Generations
      /\ disk.links \in [LinkIds -> LinkRecord \cup {NoRecord}]
      /\ disk.domains \in [DomainIds -> DomainRecord \cup {NoRecord}]
      /\ disk.racks \in [Racks -> DurableRackRecord]
      /\ disk.fenced_authorities \subseteq Boots
  BY <1>3, Zenon DEF PersistedState
<1>5. \A r \in Racks :
         /\ racks'[r] \in RackRecord
         /\ racks'[r].membership = racks[r].membership
         /\ racks'[r].generation = racks[r].generation
         /\ racks'[r].membership_generation = racks[r].membership_generation
         /\ ~racks'[r].authoritative_current
         /\ racks'[r].membership = "Absent" => racks'[r] = NoRack
         /\ DurableRack(racks'[r]) = disk.racks[r]
  <2> SUFFICES ASSUME NEW r \in Racks
               PROVE  /\ racks'[r] \in RackRecord
                      /\ racks'[r].membership = racks[r].membership
                      /\ racks'[r].generation = racks[r].generation
                      /\ racks'[r].membership_generation = racks[r].membership_generation
                      /\ ~racks'[r].authoritative_current
                      /\ racks'[r].membership = "Absent" => racks'[r] = NoRack
                      /\ DurableRack(racks'[r]) = disk.racks[r]
    BY Zenon
  <2>1. disk.racks[r] = DurableRack(racks[r]) /\ racks'[r] = RecoveredRack(disk.racks[r])
    BY <1>0, <1>1, Zenon DEF CommittedIsDurable, RestartRecovered
  <2>2. racks[r] \in RackRecord /\ (racks[r].membership = "Absent" => racks[r] = NoRack)
    BY <1>0, Zenon DEF TypeOK, RecordsTyped, RecordsSound
  <2> QED BY <2>1, <2>2, RecoveredRackFacts, SMTT(30)
<1>6. \A l \in LinkIds :
         /\ links'[l] = RecoveredLink(disk.links[l])
         /\ links'[l] = RecoveredLink(links[l])
         /\ links[l] \in LinkRecord \cup {NoRecord}
  BY <1>0, <1>1, Zenon DEF RestartRecovered, CommittedIsDurable, TypeOK, RecordsTyped
<1>7. \A l \in LinkIds :
         /\ links'[l] \in LinkRecord \cup {NoRecord}
         /\ links'[l].generation = links[l].generation
         /\ links'[l].generation > 0 =>
               /\ links'[l].source = links[l].source
               /\ links'[l].destination = links[l].destination
               /\ links'[l].domains = links[l].domains /\ links'[l].reachability = "Unknown"
               /\ ~is_current(links'[l].evidence)
         /\ RecoveredLink(disk.links[l]) = RecoveredLink(links'[l])
  BY <1>6, RecoveredLinkFacts
<1>8. \A d \in DomainIds :
         /\ domains'[d] \in DomainRecord \cup {NoRecord}
         /\ domains'[d].generation = domains[d].generation
         /\ domains'[d].generation > 0 => domains'[d].racks = domains[d].racks
         /\ \A a \in Ages : RecoveredDomain(disk.domains[d], a) = RecoveredDomain(domains'[d], a)
  <2> SUFFICES ASSUME NEW d \in DomainIds
               PROVE  /\ domains'[d] \in DomainRecord \cup {NoRecord}
                      /\ domains'[d].generation = domains[d].generation
                      /\ domains'[d].generation > 0 => domains'[d].racks = domains[d].racks
                      /\ \A a \in Ages : RecoveredDomain(disk.domains[d], a)
                                           = RecoveredDomain(domains'[d], a)
    BY Zenon
  <2>1. /\ domains'[d] = RecoveredDomain(disk.domains[d], age[d]) /\ age[d] \in Ages
        /\ domains[d] \in DomainRecord \cup {NoRecord}
    BY <1>0, Zenon DEF RestartRecovered, TypeOK, RecordsTyped
  <2>2. \A a \in Ages : RecoveredDomain(disk.domains[d], a) = RecoveredDomain(domains[d], a)
    BY <1>0, <1>1, Zenon DEF CommittedIsDurable
  <2>3. domains'[d] = RecoveredDomain(domains[d], age[d])
    BY <2>1, <2>2, Zenon
  <2> QED BY <2>1, <2>2, <2>3, RecoveredDomainFacts
<1>9. coordinator_epoch' \in Generations \ {0} /\ coordinator_epoch' >= coordinator_epoch
  <2>1. /\ coordinator_epoch \in {disk.last_coordinator_epoch,
                                  NextEpoch(disk.last_coordinator_epoch)}
        /\ coordinator_epoch \in Generations \ {0}
    BY <1>0, <1>1, Zenon DEF CommittedIsDurable, TypeOK, ScalarsTyped
  <2> QED BY <1>2, <1>4, <2>1, GenerationBound, SMTT(30) DEF NextEpoch, Generations
<1>10. lifecycle' \in Lifecycles
  <2>1. evaluate_readiness' \in Lifecycles
    BY Zenon DEF evaluate_readiness, Lifecycles
  <2> QED BY <1>2, <2>1, Zenon
<1>11. fenced_authorities' \subseteq Boots
  <2>1. ASSUME NEW r \in Racks, Stored(disk, r)
        PROVE  disk.racks[r].last_boot \in Boots
    <3>1. disk.racks[r].last_boot # NoBoot
      BY <2>1, Zenon DEF RestartRecovered, ContainerLoads, validate_persisted_state, DurableRackValid
    <3> QED BY <1>4, <3>1, Zenon DEF DurableRackRecord
  <2> QED BY <1>2, <1>4, <2>1, Zenon DEF RecoveredFences
<1>12. TypeOK'
  <2>1. ScalarsTyped'
    BY <1>0, <1>2, <1>9, <1>10, Zenon DEF TypeOK, ScalarsTyped
  <2>2. racks' \in [Racks -> RackRecord]
    BY <1>5, Zenon DEF RestartRecovered
  <2>3. links' \in [LinkIds -> LinkRecord \cup {NoRecord}]
    BY <1>7, Zenon DEF RestartRecovered
  <2>4. domains' \in [DomainIds -> DomainRecord \cup {NoRecord}]
    BY <1>8, Zenon DEF RestartRecovered
  <2>5. RecordsTyped' /\ ListsTyped'
    BY <1>0, <1>2, <1>11, <2>2, <2>3, <2>4 DEF TypeOK, RecordsTyped, ListsTyped
  <2> QED BY <1>0, <1>1, <1>2, <2>1, <2>5, Zenon DEF TypeOK, Declared
<1>13. RecordsSound'
  BY <1>0, <1>2, <1>5, Zenon DEF RecordsSound
<1>14. UndeclaredIsEmpty' /\ AuthorityIsLive' /\ LifecycleIsEvaluated' /\ CountersOrdered'
  <2>1. UndeclaredIsEmpty'
    BY <1>1, <1>2, Zenon DEF UndeclaredIsEmpty, Declared
  <2>2. AuthorityIsLive'
    BY <1>5, Zenon DEF AuthorityIsLive
  <2>3. LifecycleIsEvaluated'
    BY <1>2, Zenon DEF LifecycleIsEvaluated
  <2>4. CountersOrdered'
    BY <1>0, <1>1, <1>2, Zenon DEF CountersOrdered
  <2> QED BY <2>1, <2>2, <2>3, <2>4, Zenon
<1>15. ListsMirrorMembership'
  BY <1>0, <1>2, <1>5, Zenon DEF ListsMirrorMembership
<1>16. CommittedIsDurable'
  <2>1. disk # NoContainer /\ disk.id = id' /\ disk.epoch = epoch'
    BY <1>0, <1>1, <1>2, Zenon DEF CommittedIsDurable
  <2>2. /\ disk.counters = counters' /\ disk.topology_epoch = topology_epoch'
        /\ disk.domain_generations = domain_generations'
        /\ disk.readiness_contract = readiness_contract'
        /\ disk.constraints = constraints'
        /\ disk.retired_racks = retired_racks' /\ disk.withdrawn_racks = withdrawn_racks'
        /\ disk.unexplained = unexplained'
    BY <1>0, <1>1, <1>2, Zenon DEF CommittedIsDurable
  <2>3. disk.fenced_authorities \subseteq fenced_authorities'
    BY <1>2, Zenon DEF RecoveredFences
  <2>4. \A r \in Racks : disk.racks[r] = DurableRack(racks'[r])
    BY <1>5, Zenon
  <2>5. /\ \A l \in LinkIds : RecoveredLink(disk.links[l]) = RecoveredLink(links'[l])
        /\ \A d \in DomainIds, a \in Ages :
              RecoveredDomain(disk.domains[d], a) = RecoveredDomain(domains'[d], a)
    BY <1>7, <1>8, Zenon
  <2>6. /\ coordinator_epoch' \in {disk.last_coordinator_epoch,
                                   NextEpoch(disk.last_coordinator_epoch)}
        /\ fenced_authorities' \subseteq RecoveredFences(disk)
    BY <1>2, Zenon
  <2> QED BY <1>2, <2>1, <2>2, <2>3, <2>4, <2>5, <2>6, Zenon
          DEF CommittedIsDurable, DurableRack, RecoveredLink, RecoveredDomain, RecoveredFences,
              Stored, NextEpoch
<1>17. LinkClaimsAreOfThisEpoch'
  BY <1>7, Zenon DEF LinkClaimsAreOfThisEpoch, is_current
<1>18. ReferencesResolve'
  <2>1. \A r \in Racks : racks'[r].membership = racks[r].membership
    BY <1>5, Zenon
  <2>2. ASSUME NEW l \in LinkIds, links'[l].generation > 0
        PROVE  /\ links[l].generation > 0 /\ links[l].domains \subseteq DomainIds
               /\ links'[l].source = links[l].source
               /\ links'[l].destination = links[l].destination
               /\ links'[l].domains = links[l].domains
    <3>1. links[l].generation > 0
      BY <1>7, <2>2, Zenon
    <3>2. links[l] \in LinkRecord
      BY <1>6, <3>1 DEF NoRecord
    <3> QED BY <1>7, <2>2, <3>1, <3>2, Zenon DEF LinkRecord
  <2>3. \A d \in DomainIds : /\ domains'[d].generation = domains[d].generation
                             /\ domains'[d].generation > 0 => domains'[d].racks = domains[d].racks
    BY <1>8, Zenon
  <2>4. constraints' = constraints
    BY <1>2, Zenon
  <2>5. {r \in Racks : racks'[r].membership \notin {"Absent", "Unknown"}}
            = {r \in Racks : racks[r].membership \notin {"Absent", "Unknown"}}
    BY <2>1, Zenon
  <2>6. \A l \in LinkIds : links'[l].generation > 0 =>
           /\ {links'[l].source, links'[l].destination}
                 \subseteq {r \in Racks : racks[r].membership \notin {"Absent", "Unknown"}}
           /\ \A d \in links'[l].domains : domains'[d].generation > 0
    <3>1. ASSUME NEW l \in LinkIds, links'[l].generation > 0
          PROVE  /\ {links[l].source, links[l].destination}
                       \subseteq {r \in Racks : racks[r].membership \notin {"Absent", "Unknown"}}
                 /\ \A d \in links[l].domains : domains[d].generation > 0
      BY <1>0, <2>2, <3>1, Zenon DEF ReferencesResolve
    <3> QED BY <2>2, <2>3, <3>1
  <2>7. \A d \in DomainIds : domains'[d].generation > 0 =>
           domains'[d].racks
               \subseteq {r \in Racks : racks[r].membership \notin {"Absent", "Unknown"}}
    BY <1>0, <2>3, Zenon DEF ReferencesResolve
  <2>8. \A c \in ConstraintIds : constraints'[c].generation > 0 =>
           constraints'[c].racks
              \subseteq {r \in Racks : racks[r].membership \notin {"Absent", "Unknown"}}
    BY <1>0, <2>4, Zenon DEF ReferencesResolve
  <2> QED BY <2>5, <2>6, <2>7, <2>8, Zenon DEF ReferencesResolve
<1>19. MovesForward
  <2>1. \A r \in Racks : racks[r].generation \in Int /\ racks[r].membership_generation \in Int
    BY <1>0, RackTypes, Zenon
  <2>2. /\ topology_epoch \in Int /\ \A c \in Counters : counters[c] \in Int
        /\ \A k \in DomainKinds : domain_generations[k] \in Int
    BY <1>0, GenerationBound DEF TypeOK, ScalarsTyped, Generations
  <2>3. fenced_authorities \subseteq fenced_authorities'
    BY <1>0, <1>1, <1>2, Zenon DEF CommittedIsDurable
  <2> QED BY <1>2, <1>5, <1>9, <2>1, <2>2, <2>3 DEF MovesForward
<1> QED BY <1>12, <1>13, <1>14, <1>15, <1>16, <1>17, <1>18, <1>19 DEF IInv, Served
=============================================================================
