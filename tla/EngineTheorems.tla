--------------------------- MODULE EngineTheorems ---------------------------
(***************************************************************************)
(* The invariant is inductive, and what follows from it, for every value   *)
(* of the constants.                                                       *)
(***************************************************************************)
EXTENDS EngineInvariantProofs

-----------------------------------------------------------------------------
(***************************************************************************)
(* Fences and restarts from nothing: the other steps no gate checks.       *)
(***************************************************************************)

(* apply_fence preserves the invariant. *)
LEMMA FenceServed ==
    ASSUME IInv, NEW b \in Boots, NEW why \in FenceReasons, Fence(b, why)
    PROVE  Served
<1>0. /\ TypeOK /\ RecordsSound /\ ReferencesResolve /\ CountersOrdered /\ AuthorityIsLive
      /\ ListsMirrorMembership /\ LinkClaimsAreOfThisEpoch
  BY Zenon DEF IInv
<1>1. Declared
  <2>1. ~NothingRecorded
    BY Zenon DEF Fence, RacksOf, LinksOf, NothingRecorded
  <2> QED BY <2>1, Zenon DEF IInv, UndeclaredIsEmpty
<1>2. SoundStep
  BY <1>0, <1>1, FenceStep, Zenon
<1>3. TypeOK' /\ RecordsSound' /\ UndeclaredIsEmpty' /\ (Declared => MovesForward)
  BY <1>2, Zenon DEF SoundStep, UndeclaredIsEmpty, Declared
<1>4. CommittedIsDurable'
  BY <1>3, SavedAgrees, Zenon DEF Fence, persist_now
<1>5. LifecycleIsEvaluated'
  BY Zenon DEF Fence, Evaluated, LifecycleIsEvaluated
<1>6. \A r \in Racks : racks[r] \in RackRecord
  BY <1>0, Zenon DEF TypeOK, RecordsTyped
<1>7. \A r \in Racks : racks'[r] = IF r \in RacksOf(b) THEN FencedRack(racks[r]) ELSE racks[r]
  BY Zenon DEF Fence
<1>8. \A r \in Racks : racks'[r].membership = racks[r].membership
  BY <1>6, <1>7, FencedTypes
<1>9. \A r \in Racks : racks'[r].authoritative_current =>
         racks'[r] = racks[r] /\ racks[r].boot # b
  <2> SUFFICES ASSUME NEW r \in Racks, racks'[r].authoritative_current
               PROVE  racks'[r] = racks[r] /\ racks[r].boot # b
    BY Zenon
  <2>1. r \notin RacksOf(b)
    BY <1>6, <1>7, FencedTypes, Zenon
  <2>2. racks'[r] = racks[r] /\ racks[r].authoritative_current
    BY <1>7, <2>1, Zenon
  <2>3. has_rack(r)
    BY <1>0, <2>2, Zenon DEF AuthorityIsLive, has_rack
  <2> QED BY <2>1, <2>2, <2>3, Zenon DEF RacksOf
<1>10. AuthorityIsLive'
  <2>1. lifecycle # "Retired" => lifecycle' # "Retired"
    BY Zenon DEF Fence, Evaluated, evaluate_readiness
  <2>2. fenced_authorities' = fenced_authorities \cup {b}
    BY Zenon DEF Fence
  <2> SUFFICES ASSUME NEW r \in Racks, racks'[r].authoritative_current
               PROVE  /\ racks'[r].membership \notin {"Absent", "Unknown", "Retired"}
                      /\ racks'[r].boot \notin fenced_authorities'
                      /\ is_current(racks'[r].evidence)
                      /\ lifecycle' # "Retired"
    BY Zenon DEF AuthorityIsLive, is_current
  <2> QED BY <1>0, <1>9, <2>1, <2>2, Zenon DEF AuthorityIsLive
<1>11. ListsMirrorMembership'
  BY <1>0, <1>8, Zenon DEF Fence, ListsMirrorMembership
<1>12. CountersOrdered'
  <2>1. counters \in [Counters -> Generations] /\ {"cluster", "health"} \in SUBSET Counters
    BY <1>0, Zenon DEF TypeOK, ScalarsTyped, Counters
  <2>2. \A c \in Counters : counters'[c] = IF c \in {"cluster", "health"}
                                           THEN counters[c] + 1 ELSE counters[c]
    <3>1. CanBump({"cluster", "health"}) /\ counters' = bump({"cluster", "health"})
      BY Zenon DEF Fence
    <3> QED BY <2>1, <3>1, BumpTypes
  <2>3. \A c \in Counters : counters[c] \in Int
    BY <2>1, GenerationBound DEF Generations
  <2> QED BY <1>0, <1>1, <2>2, <2>3 DEF CountersOrdered, Counters
<1>13. \A l \in LinkIds :
          \/ links'[l] = links[l]
          \/ /\ links[l].generation > 0 /\ links[l] \in LinkRecord
             /\ links'[l] = FencedLink(links[l])
  <2>1. \A l \in LinkIds : links'[l] = IF l \in LinksOf(b) THEN FencedLink(links[l])
                                                          ELSE links[l]
    BY Zenon DEF Fence
  <2> QED BY <1>0, <2>1 DEF LinksOf, HasLink, TypeOK, RecordsTyped, NoRecord
<1>14. \A x \in LinkRecord :
          /\ FencedLink(x).generation = x.generation /\ FencedLink(x).source = x.source
          /\ FencedLink(x).destination = x.destination /\ FencedLink(x).domains = x.domains
          /\ FencedLink(x).reachability = "Unknown" /\ ~is_current(FencedLink(x).evidence)
  <2> SUFFICES ASSUME NEW x \in LinkRecord
               PROVE  /\ FencedLink(x).generation = x.generation
                      /\ FencedLink(x).source = x.source
                      /\ FencedLink(x).destination = x.destination
                      /\ FencedLink(x).domains = x.domains
                      /\ FencedLink(x).reachability = "Unknown"
                      /\ ~is_current(FencedLink(x).evidence)
    BY Zenon
  <2>1. ~is_current(mark_revalidation_required(x.evidence))
    BY EvidenceTypes, Zenon DEF LinkRecord
  <2> QED BY <2>1, Zenon DEF FencedLink, LinkRecord
<1>15. LinkClaimsAreOfThisEpoch'
  <2>1. topology_epoch' = topology_epoch
    BY Zenon DEF Fence
  <2> SUFFICES ASSUME NEW l \in LinkIds, links'[l].generation > 0,
                      \/ links'[l].reachability \in {"Reachable", "Unreachable"}
                      \/ is_current(links'[l].evidence)
               PROVE  links'[l].topology_epoch = topology_epoch'
    BY Zenon DEF LinkClaimsAreOfThisEpoch, is_current
  <2>2. links'[l] = links[l]
    BY <1>13, <1>14, Zenon
  <2> QED BY <1>0, <2>1, <2>2, Zenon DEF LinkClaimsAreOfThisEpoch
<1>16. ReferencesResolve'
  <2>1. UNCHANGED <<domains, constraints>>
    BY Zenon DEF Fence
  <2>2. \A l \in LinkIds : links'[l].generation > 0 =>
           /\ links[l].generation > 0 /\ links'[l].source = links[l].source
           /\ links'[l].destination = links[l].destination
           /\ links'[l].domains = links[l].domains
    BY <1>13, <1>14, Zenon
  <2> QED BY <1>0, <1>8, <2>1, <2>2 DEF ReferencesResolve
<1> QED BY <1>3, <1>4, <1>5, <1>10, <1>11, <1>12, <1>15, <1>16, Zenon DEF IInv, Served

(* The records of a process that found no usable container. *)
LEMMA EmptyRecords ==
    ASSUME racks = [r \in Racks |-> NoRack], links = [l \in LinkIds |-> NoRecord],
           domains = [d \in DomainIds |-> NoRecord],
           constraints = [c \in ConstraintIds |-> NoRecord],
           fenced_authorities = {}, unexplained = {}, retired_racks = {}, withdrawn_racks = {},
           id = ConfigCluster, epoch = 0, coordinator_epoch = FirstCoordinatorEpoch,
           counters = [c \in Counters |-> 0], topology_epoch = 0,
           domain_generations = [k \in DomainKinds |-> 0],
           lifecycle = "Declared", readiness_contract = ConfigContract,
           disk \in PersistedState \cup {NoContainer}, ~ContainerLoads
    PROVE  IInv
<1>1. NoRack \in RackRecord
  BY StateAssumption, GenerationBound
     DEF NoRack, RackRecord, NoEvidence, Evidence, Memberships, Generations
<1>2. TypeOK
  BY <1>1, StateAssumption, GenerationBound
     DEF TypeOK, ScalarsTyped, RecordsTyped, ListsTyped, Declared, Generations, Lifecycles,
         FirstCoordinatorEpoch
<1>3. /\ NoRack.membership = "Absent" /\ NoRack.authoritative_current = FALSE
      /\ NoRack.membership_generation = 0 /\ NoRecord.generation = 0 /\ ~(0 > 0)
  BY DEF NoRack, NoRecord
<1>4. RecordsSound
  BY <1>3 DEF RecordsSound, Counters
<1>5. UndeclaredIsEmpty
  BY <1>3, Zenon DEF UndeclaredIsEmpty, NothingRecorded, has_rack, HasLink, HasDomain, HasConstraint
<1>6. AuthorityIsLive /\ ListsMirrorMembership
  BY <1>3, Zenon DEF AuthorityIsLive, ListsMirrorMembership
<1>7. LifecycleIsEvaluated
  <2>1. ActiveRacks = {} /\ CurrentRacks = {} /\ ~AnyRevalidation
    BY <1>3, Zenon DEF ActiveRacks, CurrentRacks, AnyRevalidation, needs_revalidation, is_active,
                is_current_active
  <2>2. ~Satisfied
    BY <2>1, Zenon DEF Satisfied
  <2>3. \A r \in readiness_contract.mandatory_racks : ~is_active(r)
    <3>1. readiness_contract.mandatory_racks \subseteq Racks
      BY StateAssumption, Zenon DEF Contract
    <3> QED BY <1>3, <3>1, Zenon DEF is_active
  <2>4. ~RevalidationIsRequiredElement
    BY <2>1, <2>3, Zenon DEF RevalidationIsRequiredElement
  <2> QED BY <2>1, <2>2, <2>4, Zenon DEF LifecycleIsEvaluated, evaluate_readiness
<1>8. CommittedIsDurable /\ CountersOrdered
  BY <1>3, Zenon DEF CommittedIsDurable, CountersOrdered, Declared
<1>9. LinkClaimsAreOfThisEpoch /\ ReferencesResolve
  BY <1>3, Zenon DEF LinkClaimsAreOfThisEpoch, ReferencesResolve
<1> QED BY <1>2, <1>4, <1>5, <1>6, <1>7, <1>8, <1>9, Zenon DEF IInv

(* Initially the invariant holds. *)
LEMMA InitInvariant == Init => IInv
BY EmptyRecords, Zenon DEF Init, ContainerLoads

(* A restart that finds no usable container begins again. *)
LEMMA RestartFreshServed ==
    ASSUME IInv, RestartFresh
    PROVE  IInv' /\ epoch' = 0
<1>1. disk' \in PersistedState \cup {NoContainer} /\ ~ContainerLoads'
  BY Zenon DEF IInv, TypeOK, RestartFresh, StartFresh, ContainerLoads
<1>2. (/\ racks = [r \in Racks |-> NoRack] /\ links = [l \in LinkIds |-> NoRecord]
       /\ domains = [d \in DomainIds |-> NoRecord]
       /\ constraints = [c \in ConstraintIds |-> NoRecord]
       /\ fenced_authorities = {} /\ unexplained = {}
       /\ retired_racks = {} /\ withdrawn_racks = {}
       /\ id = ConfigCluster /\ epoch = 0 /\ coordinator_epoch = FirstCoordinatorEpoch
       /\ counters = [c \in Counters |-> 0] /\ topology_epoch = 0
       /\ domain_generations = [k \in DomainKinds |-> 0]
       /\ lifecycle = "Declared" /\ readiness_contract = ConfigContract
       /\ disk \in PersistedState \cup {NoContainer} /\ ~ContainerLoads
       => IInv)'
  BY EmptyRecords, PTL
<1> QED BY <1>1, <1>2, Zenon DEF RestartFresh, StartFresh

(* A rejected or rolled back request changes nothing. *)
LEMMA StutterServed ==
    ASSUME IInv, UNCHANGED vars
    PROVE  IInv'
<1>1. UNCHANGED <<id, epoch, coordinator_epoch, readiness_contract, counters, lifecycle, racks,
                  links, domains, constraints, topology_epoch, domain_generations,
                  fenced_authorities, unexplained, retired_racks, withdrawn_racks, disk>>
  BY Zenon DEF vars, canonical, scalars
<1>2. TypeOK'
  BY <1>1, Zenon DEF IInv, TypeOK, ScalarsTyped, RecordsTyped, ListsTyped, Declared
<1>3. RecordsSound' /\ UndeclaredIsEmpty'
  BY <1>1, Zenon DEF IInv, RecordsSound, UndeclaredIsEmpty, Declared, NothingRecorded, ContainerLoads,
              has_rack, HasLink, HasDomain, HasConstraint
<1>4. AuthorityIsLive' /\ ListsMirrorMembership' /\ LinkClaimsAreOfThisEpoch'
  BY <1>1, Zenon DEF IInv, AuthorityIsLive, ListsMirrorMembership, LinkClaimsAreOfThisEpoch
<1>5. LifecycleIsEvaluated'
  BY <1>1, ReadinessUnchanged, Zenon DEF IInv, LifecycleIsEvaluated, authority_lists
<1>6. CommittedIsDurable' /\ CountersOrdered'
  BY <1>1, Zenon DEF IInv, CommittedIsDurable, CountersOrdered, Declared
<1>7. ReferencesResolve'
  BY <1>1, Zenon DEF IInv, ReferencesResolve
<1> QED BY <1>2, <1>3, <1>4, <1>5, <1>6, <1>7, Zenon DEF IInv

-----------------------------------------------------------------------------
(***************************************************************************)
(* What every served request has in common.                                *)
(***************************************************************************)

(* A commit of a declared cluster: under the same identity, gated, saved,  *)
(* and at a new cluster generation.                                        *)
Committed ==
    /\ Declared /\ UNCHANGED <<id, epoch, coordinator_epoch>>
    /\ NothingRecorded' \/ RecordsConsistent'
    /\ disk' = to_persisted_state'
    /\ counters'["cluster"] > counters["cluster"]

(* The handlers that advance counters of their own. *)
LEMMA CommitCommits ==
    ASSUME TypeOK, Declared, UNCHANGED <<id, epoch, coordinator_epoch>>,
           NEW S \in SUBSET Counters, Commit(S)
    PROVE  Committed
<1>1. GatedStep
  BY CommitIsGated, Zenon DEF Commit
<1>2. counters["cluster"] \in Int /\ counters'["cluster"] \in Int
  BY CommitCounters, GenerationBound DEF Generations, Counters
<1>3. counters'["cluster"] > counters["cluster"]
  BY <1>2, CommitCounters
<1> QED BY <1>1, <1>3, Zenon DEF GatedStep, Committed

(* The handlers that advance none. *)
LEMMA PlainCommitCommits ==
    ASSUME TypeOK, Declared, UNCHANGED <<id, epoch, coordinator_epoch>>,
           NEW lc, apply_and_commit(counters, lc)
    PROVE  Committed
<1>1. GatedStep
  BY CommitIsGated, Zenon
<1>2. counters["cluster"] \in Int /\ counters \in [Counters -> Generations]
  BY GenerationBound DEF TypeOK, ScalarsTyped, Generations, Counters
<1>3. counters'["cluster"] = counters["cluster"] + 1
  BY <1>2, Zenon DEF apply_and_commit, Counters
<1> QED BY <1>1, <1>2, <1>3 DEF GatedStep, Committed

(* Every rack mutation commits. *)
LEMMA RackMutationCommits ==
    ASSUME TypeOK, NEW q, NEW r \in Racks, RackMutation(q, r)
    PROVE  Committed
<1>1. CASE RegisterRackPublisher(q, r) \/ RecoverRack(q, r) \/ UpdateRackGeneration(q, r)
  <2>1. /\ Declared /\ UNCHANGED <<id, epoch, coordinator_epoch>>
        /\ (Commit({}) \/ Commit({"membership"}))
    BY <1>1, Zenon DEF RegisterRackPublisher, RecoverRack, UpdateRackGeneration, validate_common,
                Declared, identity
  <2> QED BY <2>1, CommitCommits, Zenon DEF Counters
<1>2. ASSUME NEW age \in Ages, AddRack(q, r, age)
      PROVE  Committed
  <2>1. /\ Declared /\ UNCHANGED <<id, epoch, coordinator_epoch>>
        /\ \E S \in {{}, {"membership"}} : Commit(S)
    BY <1>2, Zenon DEF AddRack, validate_common, Declared, identity
  <2> QED BY <2>1, CommitCommits, Zenon DEF Counters
<1>3. ASSUME NEW target, membership_change(q, r, target)
      PROVE  Committed
  <2>1. /\ Declared /\ UNCHANGED <<id, epoch, coordinator_epoch>>
        /\ Commit({"membership"})
    BY <1>3, Zenon DEF membership_change, validate_common, Declared, identity
  <2> QED BY <2>1, CommitCommits, Zenon DEF Counters
<1>4. CASE PublishHealthCurrentness(q, r)
  <2>1. /\ Declared /\ UNCHANGED <<id, epoch, coordinator_epoch>>
        /\ \E S \in {{"health"}, {"health", "connectivity"}} : Commit(S)
    BY <1>4, Zenon DEF PublishHealthCurrentness, validate_common, Declared, identity
  <2> QED BY <2>1, CommitCommits, Zenon DEF Counters
<1>5. ASSUME NEW selector, WithdrawEvidence(q, r, selector)
      PROVE  Committed
  <2>1. /\ Declared /\ UNCHANGED <<id, epoch, coordinator_epoch>>
        /\ \E S \in {{"health"}, {"health", "connectivity"}} : Commit(S)
    BY <1>5, Zenon DEF WithdrawEvidence, validate_common, Declared, identity
  <2> QED BY <2>1, CommitCommits, Zenon DEF Counters
<1> QED BY <1>1, <1>2, <1>3, <1>4, <1>5, Zenon
        DEF RackMutation, MarkRackUnavailable, WithdrawRack, RetireRack

(* Publications of links, domains and constraints commit, whatever they    *)
(* publish.                                                                *)
LEMMA PublishCommits ==
    ASSUME TypeOK, NEW q, NEW i, NEW x,
           publish_domain_record(q, i, x) \/ PublishConstraint(q, i, x)
             \/ PublishInterRackLink(q, i, x)
    PROVE  Committed
<1>1. /\ Declared /\ UNCHANGED <<id, epoch, coordinator_epoch>>
      /\ \E S \in {{"topology"}, {"constraint"}, {"topology", "connectivity"}} : Commit(S)
  BY Zenon DEF publish_domain_record, PublishConstraint, PublishInterRackLink, validate_common,
         Declared, identity
<1> QED BY <1>1, CommitCommits, Zenon DEF Counters

(* So do withdrawals and supersessions. *)
LEMMA TopologyMutationCommits ==
    ASSUME TypeOK, NEW q, TopologyMutation(q)
    PROVE  Committed
<1>1. CASE SupersedeTopology(q) \/ \E l \in LinkIds : WithdrawInterRackLink(q, l)
  <2>1. /\ Declared /\ UNCHANGED <<id, epoch, coordinator_epoch>>
        /\ Commit({"topology", "connectivity"})
    BY <1>1, Zenon DEF SupersedeTopology, WithdrawInterRackLink, validate_common, Declared, identity
  <2> QED BY <2>1, CommitCommits, Zenon DEF Counters
<1> QED BY <1>1, PublishCommits, Zenon DEF TopologyMutation

(* Every cluster mutation of a declared cluster commits. *)
LEMMA ClusterMutationCommits ==
    ASSUME TypeOK, NEW q, ClusterMutation(q)
    PROVE  \/ Committed
           \/ ~Declared /\ (DeclareCluster(q) \/ DeclareRolledBack(q))
<1>1. CASE RedeclareCluster(q)
  BY <1>1, PlainCommitCommits, Zenon DEF RedeclareCluster, Declared
<1>2. CASE RetireCluster(q)
  <2>1. /\ Declared /\ UNCHANGED <<id, epoch, coordinator_epoch>>
        /\ apply_and_commit(counters, "Retired")
    BY <1>2, Zenon DEF RetireCluster, validate_common, Declared, identity
  <2> QED BY <2>1, PlainCommitCommits, Zenon
<1>3. CASE PublishSnapshot(q) \/ \E named \in SUBSET Racks : RevalidateRecoveredState(q, named)
  <2>1. /\ Declared /\ UNCHANGED <<id, epoch, coordinator_epoch>>
        /\ \E S \in {{}, {"snapshot", "publication"}} : Commit(S)
    BY <1>3, Zenon DEF PublishSnapshot, RevalidateRecoveredState, validate_common, Declared, identity
  <2> QED BY <2>1, CommitCommits, Zenon DEF Counters
<1>4. DeclareCluster(q) \/ DeclareRolledBack(q) => ~Declared
  BY DEF DeclareCluster, DeclareRolledBack, Declared
<1> QED BY <1>1, <1>2, <1>3, <1>4, Zenon DEF ClusterMutation

(* A fence too is of a declared cluster and advances its generation. *)
LEMMA FenceCommits ==
    ASSUME IInv, NEW b \in Boots, NEW why \in FenceReasons, Fence(b, why)
    PROVE  /\ Declared /\ UNCHANGED <<id, epoch, coordinator_epoch>>
           /\ disk' = to_persisted_state'
           /\ counters'["cluster"] > counters["cluster"]
<1>1. ~NothingRecorded
  BY Zenon DEF Fence, RacksOf, LinksOf, NothingRecorded
<1>2. counters["cluster"] \in Int
  BY GenerationBound DEF IInv, TypeOK, ScalarsTyped, Generations, Counters
<1>3. counters'["cluster"] = counters["cluster"] + 1
  BY Zenon DEF Fence, bump, Counters
<1>4. Declared
  BY <1>1, Zenon DEF IInv, UndeclaredIsEmpty
<1>5. UNCHANGED <<id, epoch, coordinator_epoch>> /\ disk' = to_persisted_state'
  BY Zenon DEF Fence, persist_now, identity
<1> QED BY <1>2, <1>3, <1>4, <1>5

(* The three kinds of served steps. *)
LEMMA ServeCommits ==
    ASSUME IInv, Serve
    PROVE  \/ Committed
           \/ \E b \in Boots, why \in FenceReasons : Fence(b, why)
           \/ /\ ~Declared
              /\ \E q \in ClusterRequests : DeclareCluster(q) \/ DeclareRolledBack(q)
BY RackMutationCommits, TopologyMutationCommits, ClusterMutationCommits, Zenon DEF Serve, IInv

-----------------------------------------------------------------------------
(***************************************************************************)
(* The theorems.                                                           *)
(***************************************************************************)

(* Every step preserves the invariant, and a step that leaves a declared   *)
(* cluster declared moves nothing back.                                    *)
LEMMA InductiveStep ==
    ASSUME IInv, Next
    PROVE  IInv' /\ (Declared /\ epoch' > 0 => MovesForward)
<1>1. /\ RackRequests \subseteq MutationRequest
      /\ TopologyRequests \subseteq MutationRequest
      /\ ClusterRequests \subseteq MutationRequest
  BY RequestAssumption, Zenon
<1>2. CASE Serve
  <2>1. Served
    BY <1>1, <1>2, RackMutationServed, TopologyMutationServed, ClusterMutationServed, FenceServed, Zenon
       DEF Serve
  <2> QED BY <2>1, Zenon DEF Served
<1>3. CASE Restart
  <2>1. ASSUME NEW age \in [DomainIds -> Ages], RestartRecovered(age)
        PROVE  Served
    BY <2>1, RestartRecoveredServed, Zenon
  <2>2. RestartFresh => IInv' /\ ~(epoch' > 0)
    BY RestartFreshServed
  <2> QED BY <1>3, <2>1, <2>2, Zenon DEF Restart, Served
<1> QED BY <1>2, <1>3, Zenon DEF Next

(* The inductive invariant of the engine. *)
THEOREM EngineInvariant == Spec => []IInv
<1>1. Init => IInv
  BY InitInvariant, Zenon
<1>2. IInv /\ [Next]_vars => IInv'
  BY InductiveStep, StutterServed, Zenon
<1> QED BY <1>1, <1>2, PTL DEF Spec

(* The canonical state and the container keep their types: in particular   *)
(* no counter of a declared cluster ever is the reserved UNKNOWN value, at *)
(* the end of the range included (bump, advance_aggregate).                *)
THEOREM EngineTypes == Spec => []TypeOK
<1>1. IInv => TypeOK
  BY Zenon DEF IInv
<1> QED BY <1>1, EngineInvariant, PTL

(* No rack is authoritatively current under a fenced incarnation, after    *)
(* retirement or on evidence that is not current, whichever of             *)
(* apply_and_commit, apply_fence and from_persisted_state ran last.        *)
THEOREM EngineAuthority == Spec => []AuthorityIsLive
<1>1. IInv => AuthorityIsLive
  BY Zenon DEF IInv
<1> QED BY <1>1, EngineInvariant, PTL

(* The retired and withdrawn lists agree with the rack records.            *)
THEOREM EngineLists == Spec => []ListsMirrorMembership
<1>1. IInv => ListsMirrorMembership
  BY Zenon DEF IInv
<1> QED BY <1>1, EngineInvariant, PTL

(* The lifecycle is the readiness of the state it is published with.       *)
THEOREM EngineLifecycle == Spec => []LifecycleIsEvaluated
<1>1. IInv => LifecycleIsEvaluated
  BY Zenon DEF IInv
<1> QED BY <1>1, EngineInvariant, PTL

(* A crash between any two commits loses nothing that was acknowledged     *)
(* (persist_now, from_persisted_state).                                    *)
THEOREM EngineDurability == Spec => []CommittedIsDurable
<1>1. IInv => CommittedIsDurable
  BY Zenon DEF IInv
<1> QED BY <1>1, EngineInvariant, PTL

(* The counters stay in the order check_invariants demands of them.        *)
THEOREM EngineCounters == Spec => []CountersOrdered
<1>1. IInv => CountersOrdered
  BY Zenon DEF IInv
<1> QED BY <1>1, EngineInvariant, PTL

(* A link claims reachability or currency only under the topology epoch it *)
(* was published in.                                                       *)
THEOREM EngineLinkClaims == Spec => []LinkClaimsAreOfThisEpoch
<1>1. IInv => LinkClaimsAreOfThisEpoch
  BY Zenon DEF IInv
<1> QED BY <1>1, EngineInvariant, PTL

(* Every rack and domain a published record refers to exists.              *)
THEOREM EngineReferences == Spec => []ReferencesResolve
<1>1. IInv => ReferencesResolve
  BY Zenon DEF IInv
<1> QED BY <1>1, EngineInvariant, PTL

(* Generations, epochs, fences and retirement only ever move forward while *)
(* the cluster stays declared, through fences and restarts.                *)
THEOREM EngineMovesForward == Spec => NothingMovesBack
<1>1. IInv /\ [Next]_vars => [Declared /\ epoch' > 0 => MovesForward]_vars
  BY InductiveStep, Zenon
<1> QED BY <1>1, EngineInvariant, PTL DEF Spec, NothingMovesBack

-----------------------------------------------------------------------------
(***************************************************************************)
(* The gate of apply_and_commit.  Neither apply_fence nor recovery runs    *)
(* it; the records they leave would pass it all the same.                  *)
(***************************************************************************)

(* What the gate checks and the invariant does not imply. *)
RecordsKept ==
    /\ \A r \in Racks : has_rack(r) =>
          /\ racks[r].generation > 0
          /\ racks[r].membership = "Unknown" => racks[r].currentness # "Current"
    /\ \A l \in LinkIds : HasLink(l) =>
          /\ links[l].source # links[l].destination
          /\ links[l].topology_epoch # topology_epoch => requires_revalidation(links[l].evidence)
          /\ links[l].topology_generation <= counters["topology"]
    /\ \A d \in DomainIds : HasDomain(d) =>
          domains[d].generation <= domain_generations[KindOf[d]]

(* The gate enforces it. *)
LEMMA GateKeeps ==
    ASSUME NothingRecorded \/ RecordsConsistent
    PROVE  RecordsKept
BY Zenon DEF NothingRecorded, RecordsConsistent, RecordsKept, RackConsistent, LinkConsistent,
       SupersededLinkConsistent, DomainConsistent

(* With the invariant it is what the gate checks. *)
LEMMA KeptPassGate ==
    ASSUME IInv, RecordsKept, Declared
    PROVE  CountersConsistent(counters) /\ RecordsConsistent
<1>0. /\ TypeOK /\ RecordsSound /\ AuthorityIsLive /\ ListsMirrorMembership /\ ReferencesResolve
      /\ LifecycleIsEvaluated /\ CountersOrdered /\ LinkClaimsAreOfThisEpoch
  BY Zenon DEF IInv
<1>1. CountersConsistent(counters)
  <2>1. \A c \in Counters : counters[c] \in Int /\ counters[c] > 0
    BY <1>0, GenerationBound DEF TypeOK, ScalarsTyped, Generations
  <2> QED BY <1>0, <2>1 DEF CountersConsistent, CountersOrdered, Counters
<1>2. EpochsKnown
  BY <1>0, GenerationBound DEF EpochsKnown, TypeOK, ScalarsTyped, Declared, Generations
<1>3. ASSUME NEW r \in Racks, has_rack(r)
      PROVE  RackConsistent(r)
  <2>1. /\ racks[r].generation > 0
        /\ racks[r].membership = "Unknown" => racks[r].currentness # "Current"
    BY <1>3, Zenon DEF RecordsKept
  <2>2. racks[r].authoritative_current =>
           /\ racks[r].membership \notin {"Unknown", "Retired"}
           /\ racks[r].boot \notin fenced_authorities
           /\ racks[r].evidence.provenance = "Reported"
    BY <1>0, Zenon DEF AuthorityIsLive, is_current
  <2>3. /\ racks[r].membership_generation <= counters["membership"]
        /\ r \in retired_racks => racks[r].membership = "Retired"
    BY <1>0, Zenon DEF RecordsSound
  <2> QED BY <2>1, <2>2, <2>3, Zenon DEF RackConsistent, is_boot_fenced, is_rack_retired
<1>4. ASSUME NEW l \in LinkIds, HasLink(l)
      PROVE  LinkConsistent(l)
  <2>1. /\ is_rack_member(links[l].source) /\ is_rack_member(links[l].destination)
        /\ \A d \in links[l].domains : HasDomain(d)
    BY <1>0, <1>4, Zenon DEF ReferencesResolve, is_rack_member, HasLink, HasDomain
  <2>2. /\ links[l].source # links[l].destination
        /\ links[l].topology_epoch # topology_epoch => requires_revalidation(links[l].evidence)
        /\ links[l].topology_generation <= counters["topology"]
    BY <1>4, Zenon DEF RecordsKept
  <2>3. links[l].topology_epoch # topology_epoch
           => links[l].reachability \notin {"Reachable", "Unreachable"}
    BY <1>0, <1>4, Zenon DEF LinkClaimsAreOfThisEpoch, HasLink
  <2> QED BY <2>1, <2>2, <2>3, Zenon DEF LinkConsistent, SupersededLinkConsistent
<1>5. /\ \A d \in DomainIds : HasDomain(d) => DomainConsistent(d)
      /\ \A c \in ConstraintIds : HasConstraint(c) => ConstraintConsistent(c)
  BY <1>0, Zenon DEF RecordsKept, ReferencesResolve, DomainConsistent, ConstraintConsistent, HasDomain,
              HasConstraint, is_rack_member
<1>6. WithdrawnConsistent
  BY <1>0, Zenon DEF ListsMirrorMembership, WithdrawnConsistent
<1>7. LifecycleConsistent
  <2>1. lifecycle = "Ready" => Satisfied
    BY <1>0, Zenon DEF LifecycleIsEvaluated, evaluate_readiness
  <2> QED BY <1>0, <2>1, Zenon DEF LifecycleConsistent, AuthorityIsLive
<1> QED BY <1>1, <1>2, <1>3, <1>4, <1>5, <1>6, <1>7, Zenon DEF RecordsConsistent

(* An undeclared cluster has no records to keep. *)
LEMMA UndeclaredKeeps ==
    ASSUME IInv, ~Declared
    PROVE  RecordsKept
BY GateKeeps, Zenon DEF IInv, UndeclaredIsEmpty

(* apply_fence keeps it: it only takes claims away. *)
LEMMA FenceKeeps ==
    ASSUME IInv, RecordsKept, NEW b \in Boots, NEW why \in FenceReasons, Fence(b, why)
    PROVE  RecordsKept'
<1>0. /\ racks \in [Racks -> RackRecord] /\ links \in [LinkIds -> LinkRecord \cup {NoRecord}]
      /\ counters \in [Counters -> Generations]
  BY Zenon DEF IInv, TypeOK, RecordsTyped, ScalarsTyped
<1>1. /\ UNCHANGED <<domains, topology_epoch, domain_generations>>
      /\ counters'["topology"] = counters["topology"]
  BY <1>0, Zenon DEF Fence, bump, Counters
<1>2. ASSUME NEW r \in Racks, racks'[r].membership # "Absent"
      PROVE  /\ racks'[r].generation > 0
             /\ racks'[r].membership = "Unknown" => racks'[r].currentness # "Current"
  <2>1. racks'[r] = racks[r] \/ (racks'[r] = FencedRack(racks[r]) /\ has_rack(r))
    BY Zenon DEF Fence, RacksOf
  <2>2. /\ FencedRack(racks[r]).generation = racks[r].generation
        /\ FencedRack(racks[r]).currentness = "RevalidationRequired"
    BY <1>0, Zenon DEF FencedRack, RackRecord
  <2> QED BY <1>2, <2>1, <2>2, Zenon DEF RecordsKept, has_rack
<1>3. ASSUME NEW l \in LinkIds, links'[l].generation > 0
      PROVE  /\ links'[l].source # links'[l].destination
             /\ links'[l].topology_epoch # topology_epoch
                   => requires_revalidation(links'[l].evidence)
             /\ links'[l].topology_generation <= counters["topology"]
  <2>1. links'[l] = links[l] \/ (links'[l] = FencedLink(links[l]) /\ HasLink(l))
    BY Zenon DEF Fence, LinksOf
  <2>2. HasLink(l) =>
           /\ links[l] \in LinkRecord
           /\ FencedLink(links[l]).source = links[l].source
           /\ FencedLink(links[l]).destination = links[l].destination
           /\ FencedLink(links[l]).topology_generation = links[l].topology_generation
           /\ FencedLink(links[l]).evidence = mark_revalidation_required(links[l].evidence)
    BY <1>0 DEF HasLink, NoRecord, FencedLink, LinkRecord
  <2>3. HasLink(l) => requires_revalidation(mark_revalidation_required(links[l].evidence))
    BY <2>2, Zenon DEF requires_revalidation, mark_revalidation_required, LinkRecord, Evidence
  <2>4. HasLink(l) => /\ links[l].source # links[l].destination
                      /\ links[l].topology_epoch # topology_epoch
                            => requires_revalidation(links[l].evidence)
                      /\ links[l].topology_generation <= counters["topology"]
    BY Zenon DEF RecordsKept
  <2>5. HasLink(l)
    BY <1>3, <2>1, Zenon DEF HasLink
  <2> HIDE DEF HasLink
  <2> QED BY <2>1, <2>2, <2>3, <2>4, <2>5, Zenon
<1> QED BY <1>1, <1>2, <1>3, Zenon
        DEF RecordsKept, has_rack, HasLink, HasDomain, requires_revalidation

(* Recovery keeps it: every observation it restores awaits revalidation. *)
LEMMA RestartKeeps ==
    ASSUME IInv, RecordsKept, NEW age \in [DomainIds -> Ages], RestartRecovered(age)
    PROVE  RecordsKept'
<1>0. /\ racks \in [Racks -> RackRecord] /\ links \in [LinkIds -> LinkRecord \cup {NoRecord}]
      /\ domains \in [DomainIds -> DomainRecord \cup {NoRecord}]
      /\ CommittedIsDurable /\ Declared
  BY Zenon DEF IInv, TypeOK, RecordsTyped, UndeclaredIsEmpty, RestartRecovered
<1>1. /\ counters' = counters /\ topology_epoch' = topology_epoch
      /\ domain_generations' = domain_generations
  BY <1>0, Zenon DEF CommittedIsDurable, RestartRecovered
<1>2. ASSUME NEW r \in Racks, racks'[r].membership # "Absent"
      PROVE  /\ racks'[r].generation > 0
             /\ racks'[r].currentness # "Current"
  <2>1. racks'[r] = RecoveredRack(DurableRack(racks[r]))
    BY <1>0, Zenon DEF CommittedIsDurable, RestartRecovered
  <2>2. racks[r].membership # "Absent"
    BY <1>2, <2>1 DEF RecoveredRack, DurableRack, NoRack
  <2>3. racks'[r].generation = racks[r].generation /\ racks'[r].currentness = "RevalidationRequired"
    BY <2>1, <2>2 DEF RecoveredRack, DurableRack
  <2> QED BY <2>2, <2>3, Zenon DEF RecordsKept, has_rack
<1>3. ASSUME NEW l \in LinkIds, links'[l].generation > 0
      PROVE  /\ links'[l].source # links'[l].destination
             /\ requires_revalidation(links'[l].evidence)
             /\ links'[l].topology_generation <= counters["topology"]
  <2>1. links'[l] = RecoveredLink(links[l])
    BY <1>0, Zenon DEF CommittedIsDurable, RestartRecovered
  <2>2. links[l].generation # 0
    BY <1>3, <2>1 DEF RecoveredLink, NoRecord
  <2>3. links[l] \in LinkRecord
    BY <1>0, <2>2 DEF NoRecord
  <2>4. /\ links'[l].source = links[l].source /\ links'[l].destination = links[l].destination
        /\ links'[l].topology_generation = links[l].topology_generation
        /\ links'[l].generation = links[l].generation
        /\ links'[l].evidence = mark_revalidation_required(links[l].evidence)
    BY <2>1, <2>2, <2>3, Zenon DEF RecoveredLink, LinkRecord
  <2>5. requires_revalidation(mark_revalidation_required(links[l].evidence))
    BY <2>3, Zenon DEF requires_revalidation, mark_revalidation_required, LinkRecord, Evidence
  <2> QED BY <1>3, <2>4, <2>5, Zenon DEF RecordsKept, HasLink
<1>4. ASSUME NEW d \in DomainIds, domains'[d].generation > 0
      PROVE  domains'[d].generation <= domain_generations[KindOf[d]]
  <2>1. domains'[d] = RecoveredDomain(domains[d], age[d]) /\ age[d] \in Ages
    BY <1>0, Zenon DEF CommittedIsDurable, RestartRecovered
  <2>2. domains'[d].generation = domains[d].generation
    BY <1>0, <2>1, RecoveredDomainFacts
  <2> QED BY <1>4, <2>2, Zenon DEF RecordsKept, HasDomain
<1> QED BY <1>1, <1>2, <1>3, <1>4, Zenon
        DEF RecordsKept, has_rack, HasLink, HasDomain, requires_revalidation

(* Every step of the engine keeps the invariant and passes the gate. *)
LEMMA KeptStep ==
    ASSUME IInv, RecordsKept, Next
    PROVE  IInv' /\ RecordsKept'
<1>1. IInv'
  BY InductiveStep, Zenon
<1>2. (IInv /\ ~Declared => RecordsKept)'
  BY UndeclaredKeeps, PTL
<1>3. CASE Serve
  <2>1. (NothingRecorded \/ RecordsConsistent => RecordsKept)'
    BY GateKeeps, PTL
  <2>2. ASSUME NEW q \in ClusterRequests, ~Declared, DeclareCluster(q) \/ DeclareRolledBack(q)
        PROVE  RecordsKept'
    BY <2>2, Zenon DEF IInv, UndeclaredIsEmpty, NothingRecorded, DeclareCluster, DeclareRolledBack,
                topology, RecordsKept, has_rack, HasLink, HasDomain
  <2>3. Committed => RecordsKept'
    BY <2>1, Zenon DEF Committed
  <2>4. (\E b \in Boots, why \in FenceReasons : Fence(b, why)) => RecordsKept'
    BY FenceKeeps, Zenon
  <2> QED BY <1>1, <1>3, <2>2, <2>3, <2>4, ServeCommits, Zenon
<1>4. CASE Restart
  <2>1. RestartFresh => ~Declared'
    BY DEF RestartFresh, StartFresh, Declared
  <2> QED BY <1>1, <1>2, <1>4, <2>1, RestartKeeps, Zenon DEF Restart
<1> QED BY <1>1, <1>3, <1>4, Zenon DEF Next

(* The engine's invariant and what the gate adds to it are kept together.  *)
THEOREM EngineKeepsRecords == Spec => [](IInv /\ RecordsKept)
<1>1. Init => IInv /\ RecordsKept
  BY InitInvariant, UndeclaredKeeps DEF Init, Declared
<1>2. IInv /\ RecordsKept /\ [Next]_vars => (IInv /\ RecordsKept)'
  <2>1. IInv /\ RecordsKept /\ UNCHANGED vars => (IInv /\ RecordsKept)'
    BY StutterServed, Zenon DEF RecordsKept, vars, canonical, scalars, has_rack, HasLink, HasDomain,
                         requires_revalidation
  <2> QED BY <2>1, KeptStep, Zenon
<1> QED BY <1>1, <1>2, PTL DEF Spec

-----------------------------------------------------------------------------
(***************************************************************************)
(* What is saved can be loaded, as long as the requests are LoadableInputs. *)
(***************************************************************************)

(* What validate_persisted_state checks and neither the invariant nor the  *)
(* gate implies.                                                           *)
RackLoadable(x) ==
    /\ x.publisher # NoPublisher /\ x.boot # NoBoot
    /\ canonicalize[x.endpoints] = x.endpoints

RacksLoadable == \A r \in Racks : has_rack(r) => RackLoadable(racks[r])

(* Links are, whatever was requested: a link is published under an epoch. *)
LinksWhole ==
    \A l \in LinkIds :
        links[l] = NoRecord \/ (links[l].generation > 0 /\ links[l].topology_epoch > 0)

(* Every fence has its reason. *)
FencesExplained == unexplained = {}

(* A container made of such records passes validate_persisted_state. *)
LEMMA SavedLoads ==
    ASSUME FencesFit, IInv, RecordsKept, RacksLoadable, FencesExplained, LinksWhole, Declared
    PROVE  validate_persisted_state(to_persisted_state)
<1> DEFINE p == to_persisted_state
<1>0. TypeOK /\ ReferencesResolve /\ ListsMirrorMembership
  BY Zenon DEF IInv
<1>1. /\ p.epoch = epoch /\ p.last_coordinator_epoch = coordinator_epoch
      /\ p.topology_epoch = topology_epoch /\ p.counters = counters
      /\ p.domains = domains /\ p.links = links /\ p.constraints = constraints
      /\ p.retired_racks = retired_racks /\ p.withdrawn_racks = withdrawn_racks
      /\ p.fenced_authorities = fenced_authorities /\ p.unexplained = unexplained
  BY Zenon DEF to_persisted_state
<1>2. \A r \in Racks :
          /\ p.racks[r].membership = racks[r].membership
          /\ p.racks[r].generation = racks[r].generation
          /\ p.racks[r].publisher = racks[r].publisher /\ p.racks[r].last_boot = racks[r].boot
          /\ p.racks[r].endpoints = racks[r].endpoints
  BY DEF to_persisted_state, DurableRack
<1> HIDE DEF p
<1>3. /\ p.epoch > 0 /\ p.last_coordinator_epoch > 0 /\ p.topology_epoch > 0
      /\ \A c \in Counters : p.counters[c] > 0
  BY <1>0, <1>1, GenerationBound DEF TypeOK, ScalarsTyped, Declared, Generations
<1>4. \A r \in Racks : Stored(p, r) <=> has_rack(r)
  BY <1>2, Zenon DEF Stored, has_rack
<1>5. \A r \in Racks : Stored(p, r) => DurableRackValid(p.racks[r])
  BY <1>4, <1>2 DEF DurableRackValid, RecordsKept, RacksLoadable, RackLoadable
<1>6. \A d \in DomainIds :
         p.domains[d].generation > 0 => \A r \in p.domains[d].racks : Stored(p, r)
  BY <1>0, <1>1, <1>4, Zenon DEF ReferencesResolve, has_rack
<1>7. \A c \in ConstraintIds :
         p.constraints[c].generation > 0 => \A r \in p.constraints[c].racks : Stored(p, r)
  BY <1>0, <1>1, <1>4, Zenon DEF ReferencesResolve, has_rack
<1>8. ASSUME NEW l \in LinkIds, links[l].generation > 0
      PROVE  DurableLinkValid(p, links[l])
  <2>1. /\ Stored(p, links[l].source) /\ Stored(p, links[l].destination)
        /\ \A d \in links[l].domains : domains[d].generation > 0
    BY <1>0, <1>4, <1>8, Zenon DEF ReferencesResolve, has_rack
  <2>2. links[l].source # links[l].destination
    BY <1>8, Zenon DEF RecordsKept, HasLink
  <2>3. links[l].topology_epoch > 0
    BY <1>8 DEF LinksWhole, NoRecord
  <2> QED BY <1>1, <2>1, <2>2, <2>3, Zenon DEF DurableLinkValid
<1>9. /\ p.withdrawn_racks \cap p.retired_racks = {} /\ NoBoot \notin p.fenced_authorities
      /\ p.unexplained = {}
  BY <1>0, <1>1, StateAssumption, Zenon
     DEF ListsMirrorMembership, TypeOK, ListsTyped, FencesExplained
<1>10. Cardinality(p.fenced_authorities) <= MaxRacks
  BY <1>0, <1>1, Zenon DEF FencesFit, TypeOK, ListsTyped
<1> QED BY <1>1, <1>3, <1>5, <1>6, <1>7, <1>8, <1>9, <1>10 DEF validate_persisted_state, p

(* Links stay whole when each is kept, withdrawn or published.             *)
LEMMA LinksFrame ==
    ASSUME LinksWhole,
           \A l \in LinkIds : \/ links'[l] = links[l]
                              \/ links'[l] = NoRecord
                              \/ links'[l].generation > 0 /\ links'[l].topology_epoch > 0
    PROVE  LinksWhole'
BY Zenon DEF LinksWhole

(* What a step observes of a link, or forgets, leaves it whole. *)
LEMMA ObservedLink ==
    ASSUME LinksWhole, links \in [LinkIds -> LinkRecord \cup {NoRecord}],
           NEW l \in LinkIds, HasLink(l), NEW s, NEW e,
           links'[l] = [links[l] EXCEPT !.reachability = s, !.evidence = e]
    PROVE  links'[l].generation > 0 /\ links'[l].topology_epoch > 0
<1>1. /\ links[l] \in LinkRecord /\ links[l].generation > 0
      /\ links[l].topology_epoch > 0
  BY DEF LinksWhole, HasLink, NoRecord
<1> QED BY <1>1, Zenon DEF LinkRecord

(* Rack mutations keep the links whole, *)
LEMMA RackMutationLinks ==
    ASSUME IInv, LinksWhole, NEW q, NEW r \in Racks, RackMutation(q, r)
    PROVE  LinksWhole'
<1>0. links \in [LinkIds -> LinkRecord \cup {NoRecord}]
  BY Zenon DEF IInv, TypeOK, RecordsTyped
<1>1. CASE PublishHealthCurrentness(q, r)
  <2>1. \A l \in LinkIds :
           \/ links'[l] = links[l]
           \/ /\ HasLink(l)
              /\ links'[l] = [links[l] EXCEPT !.reachability = q.reachability,
                                              !.evidence = q.evidence]
    BY <1>1, Zenon DEF PublishHealthCurrentness, Incident
  <2> QED BY <1>0, <2>1, ObservedLink, LinksFrame
<1>2. ASSUME NEW selector, WithdrawEvidence(q, r, selector)
      PROVE  LinksWhole'
  <2> DEFINE e(l) == mark_revalidation_required(links[l].evidence)
  <2>1. \A l \in LinkIds :
           \/ links'[l] = links[l]
           \/ /\ HasLink(l)
              /\ links'[l] = [links[l] EXCEPT !.reachability = "RevalidationRequired",
                                              !.evidence = e(l)]
    BY <1>2, Zenon DEF WithdrawEvidence, Incident
  <2> HIDE DEF e
  <2> QED BY <1>0, <2>1, ObservedLink, LinksFrame
<1>3. CASE /\ ~PublishHealthCurrentness(q, r)
           /\ ~\E selector \in EvidenceSelectors : WithdrawEvidence(q, r, selector)
  <2>1. UNCHANGED links
    BY <1>3, Zenon
       DEF RackMutation, RegisterRackPublisher, AddRack, UpdateRackGeneration,
           MarkRackUnavailable, WithdrawRack, RetireRack, membership_change, RecoverRack, topology
  <2> QED BY <2>1, LinksFrame, Zenon
<1> QED BY <1>1, <1>2, <1>3, Zenon

(* a published link carries the topology epoch in force, *)
LEMMA PublishLinkWhole ==
    ASSUME IInv, LinksWhole, NEW q, NEW l \in LinkIds, NEW x \in LinkPayload,
           PublishInterRackLink(q, l, x)
    PROVE  LinksWhole'
<1>1. links \in [LinkIds -> LinkRecord \cup {NoRecord}] /\ topology_epoch > 0
  BY Zenon DEF IInv, TypeOK, RecordsTyped, PublishInterRackLink, validate_common, Declared
<1>2. /\ x.topology_epoch = topology_epoch
      /\ links' = [links EXCEPT ![l] =
             [generation |-> x.generation, source |-> x.source, destination |-> x.destination,
              domains |-> x.domains, boot |-> x.boot, reachability |-> x.reachability,
              evidence |-> x.evidence, topology_epoch |-> x.topology_epoch,
              topology_generation |-> counters["topology"]]]
  BY Zenon DEF PublishInterRackLink
<1>3. x.generation > 0
  BY GenerationBound DEF LinkPayload, Generations
<1>4. \A m \in LinkIds : \/ links'[m] = links[m]
                         \/ links'[m].generation > 0 /\ links'[m].topology_epoch > 0
  BY <1>1, <1>2, <1>3, Zenon
<1> QED BY <1>4, LinksFrame, Zenon

(* and the other mutations of the topology, *)
LEMMA TopologyMutationLinks ==
    ASSUME IInv, LinksWhole, NEW q, TopologyMutation(q)
    PROVE  LinksWhole'
<1>0. links \in [LinkIds -> LinkRecord \cup {NoRecord}]
  BY Zenon DEF IInv, TypeOK, RecordsTyped
<1>1. CASE \/ \E d \in DomainIds, x \in DomainPayloads : publish_domain_record(q, d, x)
           \/ \E c \in ConstraintIds, x \in ConstraintPayloads : PublishConstraint(q, c, x)
  <2>1. UNCHANGED links
    BY <1>1, Zenon DEF publish_domain_record, PublishConstraint
  <2> QED BY <2>1, LinksFrame, Zenon
<1>2. CASE \E l \in LinkIds, x \in LinkPayloads : PublishInterRackLink(q, l, x)
  BY <1>2, PublishLinkWhole, RequestAssumption, Zenon
<1>3. ASSUME NEW l \in LinkIds, WithdrawInterRackLink(q, l)
      PROVE  LinksWhole'
  <2>1. \A m \in LinkIds : links'[m] = links[m] \/ links'[m] = NoRecord
    BY <1>0, <1>3, Zenon DEF WithdrawInterRackLink
  <2> QED BY <2>1, LinksFrame, Zenon
<1>4. CASE SupersedeTopology(q)
  <2> DEFINE e(l) == mark_revalidation_required(links[l].evidence)
  <2>1. \A l \in LinkIds :
           \/ links'[l] = links[l]
           \/ HasLink(l) /\ links'[l] = [links[l] EXCEPT !.evidence = e(l),
                                                         !.reachability = "Unknown"]
    BY <1>4, Zenon DEF SupersedeTopology
  <2>2. ASSUME NEW l \in LinkIds, HasLink(l),
               links'[l] = [links[l] EXCEPT !.evidence = e(l), !.reachability = "Unknown"]
        PROVE  links'[l].generation > 0 /\ links'[l].topology_epoch > 0
    <3> HIDE DEF e
    <3>1. links[l] \in LinkRecord /\ links[l].generation > 0 /\ links[l].topology_epoch > 0
      BY <1>0, <2>2 DEF LinksWhole, HasLink, NoRecord
    <3> QED BY <2>2, <3>1, Zenon DEF LinkRecord
  <2> QED BY <2>1, <2>2, LinksFrame
<1> QED BY <1>1, <1>2, <1>3, <1>4 DEF TopologyMutation

(* the death of an incarnation, and recovery. *)
LEMMA LinksStep ==
    ASSUME IInv, LinksWhole, Next
    PROVE  LinksWhole'
<1>0. links \in [LinkIds -> LinkRecord \cup {NoRecord}]
  BY Zenon DEF IInv, TypeOK, RecordsTyped
<1>1. ASSUME NEW q, ClusterMutation(q)
      PROVE  LinksWhole'
  <2>1. UNCHANGED links
    BY <1>1, Zenon DEF ClusterMutation, DeclareCluster, DeclareRolledBack, RedeclareCluster,
                RetireCluster, PublishSnapshot, RevalidateRecoveredState, topology
  <2> QED BY <2>1, LinksFrame, Zenon
<1>2. ASSUME NEW b \in Boots, NEW why \in FenceReasons, Fence(b, why)
      PROVE  LinksWhole'
  <2>1. \A l \in LinkIds : \/ links'[l] = links[l]
                           \/ HasLink(l) /\ links'[l] = FencedLink(links[l])
    BY <1>2, Zenon DEF Fence, LinksOf
  <2> QED BY <1>0, <2>1, ObservedLink, LinksFrame DEF FencedLink
<1>3. ASSUME NEW age \in [DomainIds -> Ages], RestartRecovered(age)
      PROVE  LinksWhole'
  <2>1. \A l \in LinkIds : links'[l] = RecoveredLink(links[l])
    BY <1>3, Zenon DEF IInv, UndeclaredIsEmpty, RestartRecovered, CommittedIsDurable
  <2>2. ASSUME NEW l \in LinkIds
        PROVE  \/ links'[l] = NoRecord
               \/ HasLink(l) /\ links'[l] = [links[l] EXCEPT !.reachability = "Unknown",
                      !.evidence = mark_revalidation_required(links[l].evidence)]
    BY <1>0, <2>1, Zenon DEF RecoveredLink, LinksWhole, HasLink, NoRecord
  <2> QED BY <1>0, <2>2, ObservedLink, LinksFrame
<1>4. CASE RestartFresh
  BY <1>4, Zenon DEF RestartFresh, StartFresh, LinksWhole
<1> QED BY <1>1, <1>2, <1>3, <1>4, RackMutationLinks, TopologyMutationLinks, Zenon
        DEF Next, Serve, Restart

(* Racks stay loadable when they keep who published them and what they     *)
(* declared.                                                               *)
LEMMA RacksFrame ==
    ASSUME RacksLoadable,
           \A r \in Racks : racks'[r].membership # "Absent" =>
              \/ RackLoadable(racks'[r])
              \/ /\ racks[r].membership # "Absent"
                 /\ racks'[r].publisher = racks[r].publisher /\ racks'[r].boot = racks[r].boot
                 /\ racks'[r].endpoints = racks[r].endpoints
    PROVE  RacksLoadable'
BY DEF RacksLoadable, RackLoadable, has_rack

(* Every rack mutation whose reference is loadable leaves loadable racks.  *)
LEMMA RackMutationLoads ==
    ASSUME IInv, RacksLoadable, NEW q \in MutationRequest, LoadableRequest(q),
           NEW r \in Racks, RackMutation(q, r)
    PROVE  RacksLoadable'
<1> DEFINE Same(k) == /\ racks[k].membership # "Absent"
                      /\ racks'[k].publisher = racks[k].publisher
                      /\ racks'[k].boot = racks[k].boot
                      /\ racks'[k].endpoints = racks[k].endpoints
<1>0. /\ racks \in [Racks -> RackRecord]
      /\ q.rack_reference.endpoints \in EndpointLists
      /\ canonicalize[q.rack_reference.endpoints] = q.rack_reference.endpoints
      /\ q.rack_reference.boot # NoBoot
  BY RequestTypes, Zenon DEF IInv, TypeOK, RecordsTyped, LoadableRequest
<1>1. ASSUME NEW y, racks' = [racks EXCEPT ![r] = y],
             \/ RackLoadable(y)
             \/ /\ has_rack(r) /\ y.publisher = racks[r].publisher /\ y.boot = racks[r].boot
                /\ y.endpoints = racks[r].endpoints
      PROVE  RacksLoadable'
  <2>1. \A k \in Racks : racks'[k] = IF k = r THEN y ELSE racks[k]
    BY <1>0, <1>1, Zenon
  <2>2. \A k \in Racks : racks'[k].membership # "Absent" => RackLoadable(racks'[k]) \/ Same(k)
    BY <1>1, <2>1, Zenon DEF has_rack
  <2> QED BY <2>2, RacksFrame, Zenon
<1>2. CASE RegisterRackPublisher(q, r)
  <2> DEFINE y == [NoRack EXCEPT !.membership = "Unknown",
                         !.membership_generation = counters["membership"],
                         !.generation = q.rack_reference.generation,
                         !.publisher = q.authority.publisher,
                         !.boot = IF q.authority.boot # NoBoot THEN q.authority.boot
                                  ELSE q.rack_reference.boot,
                         !.publication = q.authority.publication,
                         !.evidence = q.evidence,
                         !.composition = q.rack_reference.composition]
  <2>1. /\ racks' = [racks EXCEPT ![r] = y]
        /\ q.authority.publisher # NoPublisher
    BY <1>2, Zenon DEF RegisterRackPublisher
  <2>2. /\ y.publisher = q.authority.publisher /\ y.endpoints = Empty
        /\ y.boot = IF q.authority.boot # NoBoot THEN q.authority.boot ELSE q.rack_reference.boot
    BY Zenon DEF NoRack
  <2>3. RackLoadable(y)
    BY <1>0, <2>1, <2>2, StateAssumption DEF RackLoadable
  <2> HIDE DEF y
  <2> QED BY <1>1, <2>1, <2>3, Zenon
<1>3. ASSUME NEW age \in Ages, AddRack(q, r, age)
      PROVE  RacksLoadable'
  <2> DEFINE x == [q.rack_reference EXCEPT !.endpoints = canonicalize[@]]
             e == IF x.evidence.freshness = "Unknown" THEN refresh(x.evidence, age)
                  ELSE x.evidence
             bumped == IF ~is_active(r) \/ x.generation > racks[r].generation
                       THEN {"membership"} ELSE {}
             y == [membership |-> "Active",
                   membership_generation |-> IF bumped = {} THEN racks[r].membership_generation
                                             ELSE counters["membership"] + 1,
                   authoritative_current |-> is_current(e), currentness |-> "Current",
                   generation |-> x.generation, publisher |-> x.publisher, boot |-> x.boot,
                   publication |-> x.publication, evidence |-> e,
                   composition |-> x.composition, endpoints |-> x.endpoints]
  <2>1. /\ racks' = [racks EXCEPT ![r] = y]
        /\ y.publisher = q.rack_reference.publisher /\ y.boot = q.rack_reference.boot
        /\ y.endpoints = canonicalize[q.rack_reference.endpoints]
    <3>1. racks' = [racks EXCEPT ![r] = y]
      BY <1>3, Zenon DEF AddRack
    <3>2. /\ x.publisher = q.rack_reference.publisher /\ x.boot = q.rack_reference.boot
          /\ x.endpoints = canonicalize[q.rack_reference.endpoints]
      BY Zenon DEF MutationRequest, RackReference
    <3> HIDE DEF x, e, bumped
    <3> QED BY <3>1, <3>2, Zenon
  <2>2. q.rack_reference.publisher # NoPublisher
    <3>1. [q.rack_reference EXCEPT !.endpoints = canonicalize[@]].publisher
             = q.rack_reference.publisher
      BY Zenon DEF MutationRequest, RackReference
    <3> QED BY <1>3, <3>1, Zenon DEF AddRack, validate_rack_reference
  <2> HIDE DEF y
  <2>3. RackLoadable(y)
    BY <1>0, <2>1, <2>2, Zenon DEF RackLoadable
  <2> QED BY <1>1, <2>1, <2>3, Zenon
<1>4. CASE UpdateRackGeneration(q, r)
  <2> DEFINE y == UpdatedRack(racks[r], q)
  <2>1. racks' = [racks EXCEPT ![r] = y] /\ has_rack(r)
    BY <1>4, Zenon DEF UpdateRackGeneration
  <2>2. /\ y.endpoints = racks[r].endpoints
        /\ y.publisher \in {q.authority.publisher, racks[r].publisher}
        /\ y.boot \in {q.authority.boot, racks[r].boot}
        /\ y.publisher = NoPublisher => racks[r].publisher = NoPublisher
        /\ y.boot = NoBoot => racks[r].boot = NoBoot
    BY Zenon DEF UpdatedRack
  <2>3. RackLoadable(y)
    BY <2>1, <2>2, Zenon DEF RacksLoadable, RackLoadable
  <2> HIDE DEF y
  <2> QED BY <1>1, <2>1, <2>3, Zenon
<1>5. ASSUME NEW target, membership_change(q, r, target)
      PROVE  RacksLoadable'
  <2> DEFINE y == [racks[r] EXCEPT !.membership = target, !.authoritative_current = FALSE,
                                   !.currentness = "RevalidationRequired",
                                   !.membership_generation = counters["membership"] + 1]
  <2>1. racks' = [racks EXCEPT ![r] = y] /\ has_rack(r)
    BY <1>5, Zenon DEF membership_change
  <2>2. /\ y.publisher = racks[r].publisher /\ y.boot = racks[r].boot
        /\ y.endpoints = racks[r].endpoints
    BY <1>0 DEF RackRecord
  <2> HIDE DEF y
  <2> QED BY <1>1, <2>1, <2>2, Zenon
<1>6. CASE RecoverRack(q, r)
  <2> DEFINE y == RecoveredBy(racks[r], q)
  <2>1. racks' = [racks EXCEPT ![r] = y] /\ has_rack(r) /\ q.authority.boot # NoBoot
    BY <1>6, Zenon DEF RecoverRack
  <2>2. /\ y.endpoints \in {racks[r].endpoints, q.rack_reference.endpoints}
        /\ y.boot = q.authority.boot
        /\ y.publisher = NoPublisher => racks[r].publisher = NoPublisher
    BY Zenon DEF RecoveredBy, Replaced
  <2>3. RackLoadable(y)
    BY <1>0, <2>1, <2>2, Zenon DEF RacksLoadable, RackLoadable
  <2> HIDE DEF y
  <2> QED BY <1>1, <2>1, <2>3, Zenon
<1>7. CASE PublishHealthCurrentness(q, r)
  <2> DEFINE y == [racks[r] EXCEPT !.evidence = q.evidence,
                                   !.publication = q.authority.publication,
                                   !.authoritative_current = is_current(q.evidence)]
  <2>1. racks' = [racks EXCEPT ![r] = y] /\ has_rack(r)
    BY <1>7, Zenon DEF PublishHealthCurrentness
  <2>2. /\ y.publisher = racks[r].publisher /\ y.boot = racks[r].boot
        /\ y.endpoints = racks[r].endpoints
    BY <1>0 DEF RackRecord
  <2> HIDE DEF y
  <2> QED BY <1>1, <2>1, <2>2, Zenon
<1>8. ASSUME NEW selector, WithdrawEvidence(q, r, selector)
      PROVE  RacksLoadable'
  <2> DEFINE e(x) == mark_revalidation_required(x.evidence)
             y == [racks[r] EXCEPT !.evidence = e(racks[r]),
                                   !.currentness = "RevalidationRequired",
                                   !.authoritative_current = FALSE]
  <2>1. racks' = [racks EXCEPT ![r] = y] /\ has_rack(r)
    BY <1>8, Zenon DEF WithdrawEvidence
  <2>2. /\ y.publisher = racks[r].publisher /\ y.boot = racks[r].boot
        /\ y.endpoints = racks[r].endpoints
    BY <1>0 DEF RackRecord
  <2> HIDE DEF y, e
  <2> QED BY <1>1, <2>1, <2>2, Zenon
<1> QED BY <1>2, <1>3, <1>4, <1>5, <1>6, <1>7, <1>8, Zenon
        DEF RackMutation, MarkRackUnavailable, WithdrawRack, RetireRack

(* So do the mutations of the cluster, *)
LEMMA ClusterMutationLoads ==
    ASSUME IInv, RacksLoadable, NEW q, ClusterMutation(q)
    PROVE  RacksLoadable'
<1>1. CASE RetireCluster(q)
  <2>1. racks \in [Racks -> RackRecord]
    BY Zenon DEF IInv, TypeOK, RecordsTyped
  <2>2. \A r \in Racks :
           \/ racks'[r] = racks[r]
           \/ racks'[r] = [racks[r] EXCEPT !.authoritative_current = FALSE,
                                           !.currentness = "RevalidationRequired"]
    BY <1>1, Zenon DEF RetireCluster
  <2>3. \A r \in Racks : /\ racks'[r].membership = racks[r].membership
                         /\ racks'[r].publisher = racks[r].publisher
                         /\ racks'[r].boot = racks[r].boot
                         /\ racks'[r].endpoints = racks[r].endpoints
    <3> TAKE r \in Racks
    <3>1. racks[r] \in RackRecord
      BY <2>1, Zenon
    <3>2. CASE racks'[r] # racks[r]
      BY <2>2, <3>1, <3>2, Zenon DEF RackRecord
    <3> QED BY <3>2, Zenon
  <2> QED BY <2>3, RacksFrame, Zenon
<1>2. CASE ~RetireCluster(q)
  <2>1. UNCHANGED racks
    BY <1>2, Zenon DEF ClusterMutation, DeclareCluster, DeclareRolledBack, RedeclareCluster,
                PublishSnapshot, RevalidateRecoveredState
  <2> QED BY <2>1, RacksFrame, Zenon
<1> QED BY <1>1, <1>2, Zenon

(* the death of an incarnation, *)
LEMMA FenceLoads ==
    ASSUME IInv, RacksLoadable, NEW b \in Boots, NEW why \in FenceReasons, Fence(b, why)
    PROVE  RacksLoadable'
<1>0. racks \in [Racks -> RackRecord]
  BY Zenon DEF IInv, TypeOK, RecordsTyped
<1>1. \A r \in Racks : racks'[r] = racks[r] \/ racks'[r] = FencedRack(racks[r])
  BY Zenon DEF Fence
<1>2. \A r \in Racks : /\ racks'[r].membership = racks[r].membership
                       /\ racks'[r].publisher = racks[r].publisher
                       /\ racks'[r].boot = racks[r].boot
                       /\ racks'[r].endpoints = racks[r].endpoints
  <2> TAKE r \in Racks
  <2>1. racks[r] \in RackRecord
    BY <1>0, Zenon
  <2>2. CASE racks'[r] # racks[r]
    BY <1>1, <2>1, <2>2 DEF FencedRack, RackRecord
  <2> QED BY <2>2, Zenon
<1> QED BY <1>2, RacksFrame

(* and recovery. *)
LEMMA RestartLoads ==
    ASSUME IInv, RacksLoadable, NEW age \in [DomainIds -> Ages], RestartRecovered(age)
    PROVE  RacksLoadable'
<1>1. \A r \in Racks : racks'[r] = RecoveredRack(DurableRack(racks[r]))
  BY Zenon DEF IInv, UndeclaredIsEmpty, RestartRecovered, CommittedIsDurable
<1>2. \A r \in Racks : racks'[r].membership # "Absent" =>
         /\ racks[r].membership # "Absent"
         /\ racks'[r].publisher = racks[r].publisher /\ racks'[r].boot = racks[r].boot
         /\ racks'[r].endpoints = racks[r].endpoints
  <2> TAKE r \in Racks
  <2> DEFINE x == DurableRack(racks[r])
  <2>1. /\ x.membership = racks[r].membership /\ x.publisher = racks[r].publisher
        /\ x.last_boot = racks[r].boot /\ x.endpoints = racks[r].endpoints
    BY Zenon DEF DurableRack
  <2>2. racks'[r] = RecoveredRack(x) /\ NoRack.membership = "Absent"
    BY <1>1, Zenon DEF NoRack
  <2> HIDE DEF x
  <2> QED BY <2>1, <2>2 DEF RecoveredRack
<1> QED BY <1>2, RacksFrame, Zenon

(* No mutation touches the reason of a fence, *)
LEMMA MutationExplains ==
    ASSUME NEW q,
           \/ \E r \in Racks : RackMutation(q, r)
           \/ TopologyMutation(q) \/ ClusterMutation(q)
    PROVE  UNCHANGED unexplained
<1>1. ASSUME NEW r \in Racks, RackMutation(q, r)
      PROVE  UNCHANGED unexplained
  <2>1. CASE RegisterRackPublisher(q, r) \/ MarkRackUnavailable(q, r)
    BY <2>1, Zenon DEF RegisterRackPublisher, MarkRackUnavailable, membership_change,
       authority_lists
  <2>2. CASE WithdrawRack(q, r) \/ RetireRack(q, r)
    BY <2>2, Zenon DEF WithdrawRack, RetireRack, membership_change, authority_lists
  <2>3. CASE \/ PublishHealthCurrentness(q, r)
             \/ \E selector \in EvidenceSelectors : WithdrawEvidence(q, r, selector)
    BY <2>3, Zenon DEF PublishHealthCurrentness, WithdrawEvidence, authority_lists
  <2>4. ASSUME NEW age \in Ages, AddRack(q, r, age)
        PROVE  UNCHANGED unexplained
    BY <2>4, Zenon DEF AddRack, authority_lists
  <2>5. CASE UpdateRackGeneration(q, r)
    BY <2>5, Zenon DEF UpdateRackGeneration, authority_lists
  <2>6. CASE RecoverRack(q, r)
    BY <2>6, Zenon DEF RecoverRack, authority_lists
  <2> QED BY <1>1, <2>1, <2>2, <2>3, <2>4, <2>5, <2>6, Zenon DEF RackMutation
<1>2. CASE TopologyMutation(q)
  BY <1>2, Zenon DEF TopologyMutation, publish_domain_record, PublishConstraint,
     PublishInterRackLink, WithdrawInterRackLink, SupersedeTopology, authority_lists
<1>3. CASE ClusterMutation(q)
  BY <1>3, Zenon DEF ClusterMutation, DeclareCluster, DeclareRolledBack, RedeclareCluster,
     RetireCluster, PublishSnapshot, RevalidateRecoveredState, authority_lists
<1> QED BY <1>1, <1>2, <1>3, Zenon

(* a fence with a reason adds one that has it, *)
LEMMA FenceExplains ==
    ASSUME FencesExplained, NEW b \in Boots, NEW why \in FenceReasons \ {""}, Fence(b, why)
    PROVE  FencesExplained'
BY Zenon DEF Fence, FencesExplained

(* and a container with one that has none is refused. *)
LEMMA RestartExplains ==
    ASSUME Restart
    PROVE  FencesExplained'
BY Zenon DEF Restart, RestartRecovered, RestartFresh, StartFresh, FencesExplained, ContainerLoads,
             validate_persisted_state

-----------------------------------------------------------------------------
(***************************************************************************)
(* The container.  SavedInv holds whatever is requested; LoadInv when the  *)
(* requests are loadable.                                                  *)
(***************************************************************************)
SavedInv == IInv /\ RecordsKept /\ LinksWhole

LoadInv == SavedInv /\ RacksLoadable /\ FencesExplained /\ SavedIsLoadable

(* Initially both hold. *)
LEMMA InitSaved == Init => SavedInv /\ LoadInv
<1>1. Init => RacksLoadable /\ FencesExplained /\ LinksWhole /\ SavedIsLoadable
  BY DEF Init, RacksLoadable, FencesExplained, has_rack, NoRack, LinksWhole, SavedIsLoadable
<1> QED BY <1>1, InitInvariant, UndeclaredKeeps DEF Init, SavedInv, LoadInv, Declared

(* Every step keeps the first, *)
LEMMA SavedStep ==
    ASSUME SavedInv, Next
    PROVE  SavedInv'
BY KeptStep, LinksStep, Zenon DEF SavedInv

(* and so does a step that changes nothing. *)
LEMMA StutterSaved ==
    ASSUME SavedInv, UNCHANGED vars
    PROVE  SavedInv'
<1>1. RecordsKept'
  BY Zenon DEF SavedInv, RecordsKept, vars, canonical, scalars, has_rack, HasLink, HasDomain,
         requires_revalidation
<1>2. LinksWhole'
  BY Zenon DEF SavedInv, LinksWhole, vars, canonical
<1> QED BY <1>1, <1>2, StutterServed DEF SavedInv

(* What a served request does to the container. *)
LEMMA ServeSaves ==
    ASSUME IInv, Serve
    PROVE  (Declared' /\ disk' = to_persisted_state') \/ UNCHANGED disk
<1>1. CASE Committed \/ \E b \in Boots, why \in FenceReasons : Fence(b, why)
  <2>1. ASSUME NEW b \in Boots, NEW why \in FenceReasons, Fence(b, why)
        PROVE  Declared' /\ disk' = to_persisted_state'
    BY <2>1, FenceCommits, Zenon DEF Declared
  <2> QED BY <1>1, <2>1, Zenon DEF Committed, Declared
<1>2. ASSUME NEW q \in ClusterRequests, DeclareCluster(q)
      PROVE  Declared' /\ disk' = to_persisted_state'
  <2>1. q \in MutationRequest
    BY RequestAssumption, Zenon
  <2> QED BY <1>2, <2>1, GenerationBound
          DEF DeclareCluster, apply_and_commit, persist_now, Declared, MutationRequest, Authority,
              Generations
<1>3. ASSUME NEW q \in ClusterRequests, DeclareRolledBack(q)
      PROVE  UNCHANGED disk
  BY <1>3, Zenon DEF DeclareRolledBack
<1> QED BY <1>1, <1>2, <1>3, ServeCommits

(* A container saved from loadable records, or left alone, can be loaded. *)
LEMMA SaveLoads ==
    ASSUME FencesFit, SavedIsLoadable, SavedInv', RacksLoadable', FencesExplained',
           (Declared' /\ disk' = to_persisted_state') \/ UNCHANGED disk
    PROVE  SavedIsLoadable'
<1>1. (FencesFit /\ IInv /\ RecordsKept /\ RacksLoadable /\ FencesExplained /\ LinksWhole
         /\ Declared => validate_persisted_state(to_persisted_state))'
  BY SavedLoads, PTL
<1>2. CASE Declared' /\ disk' = to_persisted_state'
  BY <1>1, <1>2 DEF SavedInv, SavedIsLoadable, FencesFit
<1>3. CASE UNCHANGED disk
  BY <1>3, Zenon DEF SavedIsLoadable
<1> QED BY <1>2, <1>3, Zenon

(* Every step keeps the second, when every request is loadable. *)
LEMMA LoadStep ==
    ASSUME LoadableInputs, LoadInv, Next
    PROVE  LoadInv'
<1>0. /\ FencesFit /\ ReasonsGiven /\ RackRequests \subseteq MutationRequest
      /\ \A q \in RackRequests : LoadableRequest(q)
  BY RequestAssumption, Zenon DEF LoadableInputs
<1>1. SavedInv'
  BY SavedStep, Zenon DEF LoadInv
<1>2. RacksLoadable'
  <2>1. ASSUME NEW q, TopologyMutation(q)
        PROVE  RacksLoadable'
    <3>1. UNCHANGED racks
      BY <2>1, Zenon DEF TopologyMutation, publish_domain_record, PublishConstraint,
         PublishInterRackLink, WithdrawInterRackLink, SupersedeTopology
    <3> QED BY <3>1, RacksFrame DEF LoadInv
  <2>2. CASE RestartFresh
    BY <2>2, Zenon DEF RestartFresh, StartFresh, RacksLoadable, has_rack, NoRack
  <2> QED BY <1>0, <2>1, <2>2, RackMutationLoads, ClusterMutationLoads, FenceLoads, RestartLoads
          DEF Next, Serve, Restart, LoadInv, SavedInv
<1>3. (Declared' /\ disk' = to_persisted_state') \/ UNCHANGED disk
  BY ServeSaves, Zenon DEF Next, Restart, RestartFresh, StartFresh, RestartRecovered, LoadInv, SavedInv
<1>4. FencesExplained'
  <2>1. ASSUME NEW b \in Boots, NEW why \in FenceReasons, Fence(b, why)
        PROVE  FencesExplained'
    BY <1>0, <2>1, FenceExplains, Zenon DEF LoadInv, ReasonsGiven
  <2>2. UNCHANGED unexplained => FencesExplained'
    BY Zenon DEF LoadInv, FencesExplained
  <2> QED BY <2>1, <2>2, MutationExplains, RestartExplains, Zenon DEF Next, Serve
<1>5. SavedIsLoadable'
  BY <1>0, <1>1, <1>2, <1>3, <1>4, SaveLoads DEF LoadInv
<1> QED BY <1>1, <1>2, <1>4, <1>5, Zenon DEF LoadInv

(* So does a step that changes nothing. *)
LEMMA StutterLoads ==
    ASSUME LoadInv, UNCHANGED vars
    PROVE  LoadInv'
<1>1. UNCHANGED <<racks, unexplained, disk>>
  BY Zenon DEF vars, canonical
<1>2. RacksLoadable' /\ FencesExplained'
  BY <1>1, Zenon DEF LoadInv, RacksLoadable, FencesExplained, has_rack
<1> QED BY <1>1, <1>2, StutterSaved, Zenon DEF LoadInv, SavedIsLoadable

(* When every rack reference names its incarnation and lists its endpoints *)
(* in canonical form, every caller of fence_boot gives a reason, and no    *)
(* more incarnations ever fail than a load admits, every container the     *)
(* coordinator leaves behind is one that decode_persisted_state and        *)
(* validate_persisted_state accept.  Each of the conditions is needed: the *)
(* engine checks none of them.                                             *)
THEOREM EngineLoadable ==
    ASSUME LoadableInputs
    PROVE  Spec => []SavedIsLoadable
<1>1. Init => LoadInv
  BY InitSaved, Zenon
<1>2. LoadInv /\ [Next]_vars => LoadInv'
  BY LoadStep, StutterLoads, Zenon
<1>3. LoadInv => SavedIsLoadable
  BY Zenon DEF LoadInv
<1> QED BY <1>1, <1>2, <1>3, PTL DEF Spec
=============================================================================
