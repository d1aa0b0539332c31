-------------------------- MODULE EngineStepProofs --------------------------
(***************************************************************************)
(* Proofs about the commit engine, for every value of its constants: what  *)
(* each action makes of typed, consistent records.                         *)
(***************************************************************************)
EXTENDS CoordinatorEngine, TLAPS

-----------------------------------------------------------------------------
(***************************************************************************)
(* Types.                                                                  *)
(***************************************************************************)

(* The bound on generations. *)
LEMMA GenerationBound == MaxGeneration \in Nat /\ MaxGeneration > 2
BY StateAssumption, Zenon

(* What the end of apply_and_commit leaves in the counters and in the      *)
(* lifecycle.                                                              *)
LEMMA CommitTypes ==
    ASSUME NEW c \in [Counters -> Generations], NEW lc \in Lifecycles,
           apply_and_commit(c, lc)
    PROVE  /\ counters' \in [Counters -> Generations]
           /\ counters' = [c EXCEPT !["cluster"] = c["cluster"] + 1]
           /\ lifecycle' \in Lifecycles
           /\ disk' = to_persisted_state'
<1>1. lifecycle' \in Lifecycles
  <2>1. evaluate_readiness' \in Lifecycles
    BY Zenon DEF evaluate_readiness, Lifecycles
  <2> QED BY <2>1, Zenon DEF apply_and_commit, Evaluated
<1>2. counters' \in [Counters -> Generations]
  BY GenerationBound DEF apply_and_commit, Generations, Counters
<1> QED BY <1>1, <1>2, Zenon DEF apply_and_commit, persist_now

(* bump keeps the counters typed, moves none back and moves the ones it is *)
(* given by one.                                                           *)
LEMMA BumpTypes ==
    ASSUME counters \in [Counters -> Generations], NEW S \in SUBSET Counters, CanBump(S)
    PROVE  /\ bump(S) \in [Counters -> Generations]
           /\ \A c \in Counters : bump(S)[c] = IF c \in S THEN counters[c] + 1 ELSE counters[c]
BY GenerationBound DEF CanBump, bump, Generations

(* The projection a save writes is a container. *)
LEMMA ContainerType ==
    ASSUME ScalarsTyped, RecordsTyped, ListsTyped
    PROVE  to_persisted_state \in PersistedState
<1>1. \A r \in Racks : DurableRack(racks[r]) \in DurableRackRecord
  BY Zenon DEF RecordsTyped, RackRecord, DurableRack, DurableRackRecord
<1>2. [r \in Racks |-> DurableRack(racks[r])] \in [Racks -> DurableRackRecord]
  BY <1>1, Zenon
<1> QED BY <1>2, Zenon DEF to_persisted_state, PersistedState, ScalarsTyped, RecordsTyped, ListsTyped

(* The fields of a request. *)
LEMMA RequestTypes ==
    ASSUME NEW q \in MutationRequest
    PROVE  /\ q.cluster \in ClusterIds
           /\ q.authority.cluster_epoch \in Generations
           /\ q.authority.coordinator_epoch \in Generations
           /\ q.authority.boot \in Boots \cup {NoBoot}
           /\ q.authority.publisher \in Publishers \cup {NoPublisher}
           /\ q.authority.publication \in Generations
           /\ q.evidence \in Evidence
           /\ q.declared_lifecycle \in Lifecycles
           /\ q.readiness_contract \in Contracts
           /\ q.rack_reference.generation \in Generations
           /\ q.rack_reference.publisher \in Publishers \cup {NoPublisher}
           /\ q.rack_reference.boot \in Boots \cup {NoBoot}
           /\ q.rack_reference.publication \in Generations
           /\ q.rack_reference.evidence \in Evidence
           /\ q.rack_reference.composition \in Compositions
           /\ q.rack_reference.endpoints \in EndpointLists
           /\ q.expected_rack_generation \in Generations
           /\ q.new_rack_generation \in Generations
           /\ q.target_topology_epoch \in Generations
           /\ q.reachability \in Reachabilities
<1>1. q.authority \in Authority /\ q.rack_reference \in RackReference
  BY Zenon DEF MutationRequest
<1>2. /\ q.cluster \in ClusterIds /\ q.evidence \in Evidence
      /\ q.declared_lifecycle \in Lifecycles /\ q.readiness_contract \in Contracts
      /\ q.expected_rack_generation \in Generations /\ q.new_rack_generation \in Generations
      /\ q.target_topology_epoch \in Generations /\ q.reachability \in Reachabilities
  BY Zenon DEF MutationRequest
<1> QED BY <1>1, <1>2, Zenon DEF Authority, RackReference

(* Evidence stays evidence when it is marked or refreshed, and marked      *)
(* evidence is not current.                                                *)
LEMMA EvidenceTypes ==
    ASSUME NEW e \in Evidence
    PROVE  /\ mark_revalidation_required(e) \in Evidence
           /\ ~is_current(mark_revalidation_required(e))
           /\ \A age \in Ages : refresh(e, age) \in Evidence
BY Zenon DEF Evidence, mark_revalidation_required, is_current, refresh, Ages

(* A commit whose handler leaves typed values behind leaves a typed state. *)
LEMMA CommitTypeOK ==
    ASSUME NEW c \in [Counters -> Generations \ {0}], NEW lc \in Lifecycles,
           apply_and_commit(c, lc),
           id' \in ClusterIds, epoch' \in Generations, coordinator_epoch' \in Generations \ {0},
           readiness_contract' \in Contracts,
           topology_epoch' \in Generations \ {0},
           domain_generations' \in [DomainKinds -> Generations \ {0}],
           RecordsTyped', ListsTyped'
    PROVE  TypeOK'
<1>0. c \in [Counters -> Generations]
  BY Zenon
<1>1. /\ counters' \in [Counters -> Generations]
      /\ counters' = [c EXCEPT !["cluster"] = c["cluster"] + 1]
      /\ lifecycle' \in Lifecycles
      /\ disk' = to_persisted_state'
  BY <1>0, CommitTypes, Zenon
<1>2. ScalarsTyped'
  BY <1>1, Zenon DEF ScalarsTyped
<1>3. to_persisted_state' \in PersistedState
  <2>1. (ScalarsTyped /\ RecordsTyped /\ ListsTyped => to_persisted_state \in PersistedState)'
    BY ContainerType, PTL
  <2> QED BY <2>1, <1>2, Zenon
<1>4. \A k \in Counters : counters'[k] > 0
  BY <1>1, GenerationBound DEF Generations, Counters
<1>5. topology_epoch' > 0 /\ \A k \in DomainKinds : domain_generations'[k] > 0
  BY GenerationBound DEF Generations
<1> QED BY <1>1, <1>2, <1>3, <1>4, <1>5, Zenon DEF TypeOK

(* The same for a mutation of a declared cluster that touches neither the  *)
(* identity nor the topology epochs.                                       *)
LEMMA MutationTypeOK ==
    ASSUME TypeOK, Declared, NEW S \in SUBSET Counters, Commit(S),
           UNCHANGED <<identity, topology_epoch, domain_generations>>,
           RecordsTyped', ListsTyped'
    PROVE  TypeOK'
<1>1. counters \in [Counters -> Generations] /\ lifecycle \in Lifecycles
  BY Zenon DEF TypeOK, ScalarsTyped
<1>2. CanBump(S) /\ apply_and_commit(bump(S), lifecycle)
  BY Zenon DEF Commit
<1>3. bump(S) \in [Counters -> Generations \ {0}]
  <2>1. /\ bump(S) \in [Counters -> Generations]
        /\ \A c \in Counters : bump(S)[c] = IF c \in S THEN counters[c] + 1 ELSE counters[c]
    BY <1>1, <1>2, BumpTypes, Zenon
  <2>2. \A c \in Counters : bump(S)[c] # 0
    BY <2>1, <1>1, GenerationBound DEF TypeOK, Generations
  <2> QED BY <2>1, <2>2, Zenon
<1>4. /\ id' \in ClusterIds /\ epoch' \in Generations
      /\ coordinator_epoch' \in Generations \ {0} /\ readiness_contract' \in Contracts
      /\ topology_epoch' \in Generations \ {0}
      /\ domain_generations' \in [DomainKinds -> Generations \ {0}]
  BY GenerationBound DEF TypeOK, ScalarsTyped, identity, Generations
<1> QED BY <1>1, <1>2, <1>3, <1>4, CommitTypeOK, Zenon

-----------------------------------------------------------------------------
(***************************************************************************)
(* Rack records.                                                           *)
(***************************************************************************)

(* What holds of every rack record between any two steps, whether or not   *)
(* the gate looked at it: an absent record is empty, authority rests on    *)
(* current evidence, the retired list is right and no record is ahead of   *)
(* the membership generation.                                              *)
RecordsSound ==
    \A r \in Racks :
        /\ racks[r].membership = "Absent" => racks[r] = NoRack
        /\ racks[r].authoritative_current => is_current(racks[r].evidence)
        /\ racks[r].membership = "Retired" <=> r \in retired_racks
        /\ racks[r].membership_generation <= counters["membership"]

(* A step that serves a request or a fence: types, sound records, and      *)
(* progress of whatever was declared before.                               *)
SoundStep ==
    /\ TypeOK'
    /\ RecordsSound'
    /\ Declared => MovesForward
    /\ epoch' > 0

(* A commit that advances the counters S. *)
LEMMA CommitCounters ==
    ASSUME TypeOK, NEW S \in SUBSET Counters, Commit(S)
    PROVE  /\ \A c \in Counters : counters[c] \in Generations /\ counters'[c] \in Generations
           /\ \A c \in Counters \ {"cluster"} :
                 counters'[c] = IF c \in S THEN counters[c] + 1 ELSE counters[c]
           /\ counters'["cluster"] >= counters["cluster"] + 1
           /\ \A c \in Counters : counters'[c] >= counters[c]
<1>1. counters \in [Counters -> Generations] /\ lifecycle \in Lifecycles
  BY Zenon DEF TypeOK, ScalarsTyped
<1>2. /\ bump(S) \in [Counters -> Generations]
      /\ \A c \in Counters : bump(S)[c] = IF c \in S THEN counters[c] + 1 ELSE counters[c]
  BY <1>1, BumpTypes, Zenon DEF Commit
<1>3. /\ counters' \in [Counters -> Generations]
      /\ counters' = [bump(S) EXCEPT !["cluster"] = bump(S)["cluster"] + 1]
  BY <1>1, <1>2, CommitTypes, Zenon DEF Commit
<1>4. \A c \in Counters \ {"cluster"} : counters'[c] = bump(S)[c]
  BY <1>2, <1>3, Zenon
<1>5. counters'["cluster"] = bump(S)["cluster"] + 1
  BY <1>2, <1>3, Zenon DEF Counters
<1> HIDE DEF bump
<1>6. \A c \in Counters : counters[c] \in Int
  BY <1>1, GenerationBound DEF Generations
<1>7. \A c \in Counters : bump(S)[c] >= counters[c]
  BY <1>2, <1>6
<1>8. "cluster" \in Counters
  BY Zenon DEF Counters
<1>9. counters'["cluster"] >= counters["cluster"] + 1
  BY <1>5, <1>6, <1>7, <1>8, <1>2, GenerationBound DEF Generations
<1> QED BY <1>1, <1>2, <1>3, <1>4, <1>6, <1>7, <1>8, <1>9

(* A mutation that replaces one rack record. *)
LEMMA OneRackChanged ==
    ASSUME TypeOK, RecordsSound, Declared,
           NEW r \in Racks, NEW x \in RackRecord, NEW S \in SUBSET (Counters \ {"cluster"}),
           racks' = [racks EXCEPT ![r] = x],
           x.membership # "Absent",
           x.authoritative_current => is_current(x.evidence),
           x.generation >= racks[r].generation,
           x.membership_generation >= racks[r].membership_generation,
           x.membership_generation <=
               counters["membership"] + (IF "membership" \in S THEN 1 ELSE 0),
           retired_racks' = IF x.membership = "Retired" THEN retired_racks \cup {r}
                            ELSE retired_racks,
           x.membership # "Retired" => r \notin retired_racks,
           withdrawn_racks' \subseteq Racks,
           links' \in [LinkIds -> LinkRecord \cup {NoRecord}],
           UNCHANGED <<identity, domains, constraints, topology_epoch, domain_generations,
                       fenced_authorities, unexplained>>,
           Commit(S)
    PROVE  SoundStep
<1>1. RecordsTyped' /\ ListsTyped'
  BY Zenon DEF TypeOK, RecordsTyped, ListsTyped
<1>2. TypeOK'
  BY <1>1, MutationTypeOK, Zenon
<1>3. /\ \A c \in Counters : counters[c] \in Generations /\ counters'[c] \in Generations
      /\ \A c \in Counters \ {"cluster"} :
            counters'[c] = IF c \in S THEN counters[c] + 1 ELSE counters[c]
      /\ \A c \in Counters : counters'[c] >= counters[c]
  BY CommitCounters, Zenon
<1>4. counters'["membership"] = counters["membership"] + (IF "membership" \in S THEN 1 ELSE 0)
  BY <1>3, GenerationBound DEF Counters, Generations
<1>5. \A y \in Racks : racks'[y] = IF y = r THEN x ELSE racks[y]
  BY Zenon DEF TypeOK, RecordsTyped
<1>6. \A y \in Racks : /\ racks[y].generation \in Int
                       /\ racks[y].membership_generation \in Int
  BY GenerationBound DEF TypeOK, RecordsTyped, RackRecord, Generations
<1>7. counters["membership"] \in Int /\ counters'["membership"] \in Int
  BY <1>3, GenerationBound DEF Counters, Generations
<1>8. RecordsSound'
  <2> SUFFICES ASSUME NEW y \in Racks
               PROVE  /\ racks'[y].membership = "Absent" => racks'[y] = NoRack
                      /\ racks'[y].authoritative_current => is_current(racks'[y].evidence)
                      /\ racks'[y].membership = "Retired" <=> y \in retired_racks'
                      /\ racks'[y].membership_generation <= counters'["membership"]
    BY Zenon DEF RecordsSound, is_current
  <2>1. CASE y = r
    BY <2>1, <1>4, <1>5, Zenon
  <2>2. CASE y # r
    BY <2>2, <1>4, <1>5, <1>6, <1>7 DEF RecordsSound
  <2> QED BY <2>1, <2>2, Zenon
<1>9. MovesForward
  <2>1. \A y \in Racks : /\ racks'[y].generation >= racks[y].generation
                         /\ racks'[y].membership_generation >= racks[y].membership_generation
    BY <1>5, <1>6
  <2>2. /\ coordinator_epoch \in Int /\ topology_epoch \in Int
        /\ \A k \in DomainKinds : domain_generations[k] \in Int
    BY GenerationBound DEF TypeOK, ScalarsTyped, Generations
  <2> QED BY <2>1, <2>2, <1>3 DEF MovesForward, identity
<1>10. epoch' > 0
  BY Zenon DEF Declared, identity
<1> QED BY <1>2, <1>8, <1>9, <1>10, Zenon DEF SoundStep

(* The types a rack handler works with. *)
LEMMA RackTypes ==
    ASSUME TypeOK, NEW r \in Racks
    PROVE  /\ racks[r] \in RackRecord
           /\ racks[r].generation \in Int /\ racks[r].membership_generation \in Int
           /\ racks[r].evidence \in Evidence
           /\ counters["membership"] \in Generations /\ counters["membership"] \in Int
BY GenerationBound DEF TypeOK, ScalarsTyped, RecordsTyped, RackRecord, Generations, Counters

(* A link whose reachability and evidence are replaced is still a link     *)
(* record of the same rack pair, domains, generation and epoch.            *)
LEMMA LinkTypes ==
    ASSUME NEW x \in LinkRecord \cup {NoRecord}, x.generation > 0,
           NEW s \in Reachabilities, NEW e \in Evidence
    PROVE  /\ x \in LinkRecord
           /\ [x EXCEPT !.reachability = s, !.evidence = e] \in LinkRecord
           /\ [x EXCEPT !.evidence = e, !.reachability = s] \in LinkRecord
<1>1. x \in LinkRecord
  BY DEF NoRecord
<1> QED BY <1>1, Zenon DEF LinkRecord

(* A step that takes authority away from some racks and changes nothing    *)
(* else of their identity.                                                 *)
LEMMA AuthorityTaken ==
    ASSUME TypeOK, RecordsSound, Declared, TypeOK',
           \A k \in Counters : counters'[k] >= counters[k],
           \A r \in Racks :
              \/ racks'[r] = racks[r]
              \/ /\ racks[r].membership # "Absent"
                 /\ racks'[r].membership = racks[r].membership
                 /\ racks'[r].generation = racks[r].generation
                 /\ racks'[r].membership_generation = racks[r].membership_generation
                 /\ ~racks'[r].authoritative_current,
           UNCHANGED <<identity, topology_epoch, domain_generations, retired_racks>>,
           fenced_authorities \subseteq fenced_authorities'
    PROVE  SoundStep
<1>1. \A r \in Racks : racks[r].generation \in Int /\ racks[r].membership_generation \in Int
  BY RackTypes, Zenon
<1>2. "membership" \in Counters /\ counters["membership"] \in Int /\ counters'["membership"] \in Int
  BY GenerationBound DEF TypeOK, ScalarsTyped, Counters, Generations
<1>3. RecordsSound'
  <2> SUFFICES ASSUME NEW y \in Racks
               PROVE  /\ racks'[y].membership = "Absent" => racks'[y] = NoRack
                      /\ racks'[y].authoritative_current => is_current(racks'[y].evidence)
                      /\ racks'[y].membership = "Retired" <=> y \in retired_racks'
                      /\ racks'[y].membership_generation <= counters'["membership"]
    BY Zenon DEF RecordsSound, is_current
  <2> QED BY <1>1, <1>2 DEF RecordsSound
<1>4. MovesForward
  <2>1. /\ coordinator_epoch \in Int /\ topology_epoch \in Int
        /\ \A k \in DomainKinds : domain_generations[k] \in Int
    BY GenerationBound DEF TypeOK, ScalarsTyped, Generations
  <2> QED BY <1>1, <2>1 DEF MovesForward, identity
<1> QED BY <1>3, <1>4, Zenon DEF SoundStep, Declared, identity

-----------------------------------------------------------------------------
(***************************************************************************)
(* Fences.                                                                 *)
(***************************************************************************)

(* What apply_fence makes of a rack record and of a link record. *)
LEMMA FencedTypes ==
    /\ \A x \in RackRecord :
          /\ FencedRack(x) \in RackRecord
          /\ FencedRack(x).membership = x.membership
          /\ FencedRack(x).generation = x.generation
          /\ FencedRack(x).membership_generation = x.membership_generation
          /\ FencedRack(x).boot = x.boot
          /\ ~FencedRack(x).authoritative_current
    /\ \A x \in LinkRecord : FencedLink(x) \in LinkRecord
<1>1. ASSUME NEW x \in RackRecord
      PROVE  /\ FencedRack(x) \in RackRecord
             /\ FencedRack(x).membership = x.membership
             /\ FencedRack(x).generation = x.generation
             /\ FencedRack(x).membership_generation = x.membership_generation
             /\ FencedRack(x).boot = x.boot
             /\ ~FencedRack(x).authoritative_current
  <2>1. mark_revalidation_required(x.evidence) \in Evidence
    BY EvidenceTypes, Zenon DEF RackRecord
  <2> QED BY <2>1, Zenon DEF FencedRack, RackRecord
<1>2. ASSUME NEW x \in LinkRecord
      PROVE  FencedLink(x) \in LinkRecord
  <2>1. mark_revalidation_required(x.evidence) \in Evidence
    BY EvidenceTypes, Zenon DEF LinkRecord
  <2> QED BY <2>1, Zenon DEF FencedLink, LinkRecord, Reachabilities
<1> QED BY <1>1, <1>2, Zenon

(* apply_fence, of a declared cluster. *)
LEMMA FenceStep ==
    ASSUME TypeOK, RecordsSound, Declared, NEW b \in Boots, NEW why \in FenceReasons, Fence(b, why)
    PROVE  SoundStep
<1>1. \A r \in Racks : racks[r] \in RackRecord
  BY Zenon DEF TypeOK, RecordsTyped
<1>2. \A l \in LinkIds : l \in LinksOf(b) => links[l] \in LinkRecord
  BY DEF LinksOf, HasLink, TypeOK, RecordsTyped, NoRecord
<1>3. racks' \in [Racks -> RackRecord]
  BY <1>1, FencedTypes, Zenon DEF Fence
<1>4. links' \in [LinkIds -> LinkRecord \cup {NoRecord}]
  <2>1. links \in [LinkIds -> LinkRecord \cup {NoRecord}]
    BY Zenon DEF TypeOK, RecordsTyped
  <2> QED BY <2>1, <1>2, FencedTypes, Zenon DEF Fence
<1>5. RecordsTyped' /\ ListsTyped'
  BY <1>3, <1>4, Zenon DEF Fence, TypeOK, RecordsTyped, ListsTyped
<1>6. counters \in [Counters -> Generations] /\ {"cluster", "health"} \in SUBSET Counters
  BY Zenon DEF TypeOK, ScalarsTyped, Counters
<1>7. /\ counters' \in [Counters -> Generations]
      /\ \A c \in Counters : counters'[c] = IF c \in {"cluster", "health"}
                                            THEN counters[c] + 1 ELSE counters[c]
  BY <1>6, BumpTypes DEF Fence
<1>8. \A c \in Counters : counters[c] \in Int /\ counters[c] > 0
  BY <1>6, GenerationBound DEF TypeOK, Generations
<1>9. \A c \in Counters : counters'[c] >= counters[c] /\ counters'[c] > 0
  BY <1>7, <1>8
<1>10. lifecycle' \in Lifecycles
  <2>1. evaluate_readiness' \in Lifecycles
    BY Zenon DEF evaluate_readiness, Lifecycles
  <2> QED BY <2>1, Zenon DEF Fence, Evaluated, TypeOK, ScalarsTyped
<1>11. ScalarsTyped'
  BY <1>7, <1>10, Zenon DEF Fence, identity, TypeOK, ScalarsTyped
<1>12. to_persisted_state' \in PersistedState
  <2>1. (ScalarsTyped /\ RecordsTyped /\ ListsTyped => to_persisted_state \in PersistedState)'
    BY ContainerType, PTL
  <2> QED BY <2>1, <1>5, <1>11, Zenon
<1>13. /\ disk' = to_persisted_state'
       /\ UNCHANGED <<identity, topology_epoch, domain_generations, retired_racks>>
       /\ fenced_authorities \subseteq fenced_authorities'
  BY Zenon DEF Fence, persist_now
<1>14. TypeOK'
  BY <1>5, <1>9, <1>11, <1>12, <1>13, Zenon DEF TypeOK, Declared
<1>15. \A r \in Racks :
         \/ racks'[r] = racks[r]
         \/ /\ racks[r].membership # "Absent"
            /\ racks'[r].membership = racks[r].membership
            /\ racks'[r].generation = racks[r].generation
            /\ racks'[r].membership_generation = racks[r].membership_generation
            /\ ~racks'[r].authoritative_current
  BY <1>1, FencedTypes, Zenon DEF Fence, RacksOf, has_rack
<1> QED BY <1>9, <1>13, <1>14, <1>15, AuthorityTaken, Zenon

-----------------------------------------------------------------------------
(***************************************************************************)
(* Every rack mutation keeps the records typed and consistent and its      *)
(* counters moving forward.                                                *)
(***************************************************************************)

(* apply_register_publisher. *)
LEMMA RegisterRackPublisherStep ==
    ASSUME TypeOK, RecordsSound, NEW q \in MutationRequest, NEW r \in Racks,
           RegisterRackPublisher(q, r)
    PROVE  SoundStep
<1> DEFINE x == [NoRack EXCEPT !.membership = "Unknown",
                         !.membership_generation = counters["membership"],
                         !.generation = q.rack_reference.generation,
                         !.publisher = q.authority.publisher,
                         !.boot = IF q.authority.boot # NoBoot THEN q.authority.boot
                                  ELSE q.rack_reference.boot,
                         !.publication = q.authority.publication,
                         !.evidence = q.evidence,
                         !.composition = q.rack_reference.composition]
<1>1. racks' = [racks EXCEPT ![r] = x] /\ Commit({}) /\ Declared
  BY Zenon DEF RegisterRackPublisher, validate_common, Declared
<1>2. x \in RackRecord
  <2>1. counters["membership"] \in Generations
    BY RackTypes, Zenon
  <2> QED BY <2>1, RequestTypes, StateAssumption, ZenonT(40) DEF NoRack, RackRecord, Memberships
<1>3. /\ x.membership = "Unknown" /\ x.authoritative_current = FALSE
      /\ x.generation = q.rack_reference.generation
      /\ x.membership_generation = counters["membership"]
  BY Zenon DEF NoRack
<1> HIDE DEF x
<1>4. racks[r].generation = 0 /\ racks[r].membership_generation = 0 /\ r \notin retired_racks
  BY DEF RegisterRackPublisher, has_rack, is_rack_retired, RecordsSound, NoRack
<1>5. x.generation >= 0 /\ x.membership_generation >= 0
  BY <1>2, GenerationBound DEF RackRecord, Generations
<1>6. /\ UNCHANGED <<identity, links, domains, constraints, topology_epoch,
                     domain_generations, authority_lists>>
      /\ links \in [LinkIds -> LinkRecord \cup {NoRecord}] /\ withdrawn_racks \subseteq Racks
  BY Zenon DEF RegisterRackPublisher, topology, TypeOK, RecordsTyped, ListsTyped
<1>7. counters["membership"] \in Int
  BY RackTypes, Zenon
<1>8. /\ x.membership_generation <= counters["membership"] + (IF "membership" \in {} THEN 1 ELSE 0)
      /\ {} \in SUBSET (Counters \ {"cluster"})
  BY <1>3, <1>7
<1>9. /\ UNCHANGED <<links, domains, constraints, topology_epoch, domain_generations,
                     fenced_authorities, unexplained, identity>>
      /\ retired_racks' = retired_racks /\ withdrawn_racks' = withdrawn_racks
  BY <1>6, Zenon DEF authority_lists
<1> QED BY <1>1, <1>2, <1>3, <1>4, <1>5, <1>6, <1>8, <1>9, OneRackChanged, Zenon

(* apply_add_rack. *)
LEMMA AddRackStep ==
    ASSUME TypeOK, RecordsSound, NEW q \in MutationRequest, NEW r \in Racks, NEW age \in Ages,
           AddRack(q, r, age)
    PROVE  SoundStep
<1> DEFINE y == [q.rack_reference EXCEPT !.endpoints = canonicalize[@]]
           e == IF y.evidence.freshness = "Unknown" THEN refresh(y.evidence, age) ELSE y.evidence
           bumped == IF ~is_active(r) \/ y.generation > racks[r].generation
                     THEN {"membership"} ELSE {}
           x == [membership |-> "Active",
                 membership_generation |-> IF bumped = {} THEN racks[r].membership_generation
                                           ELSE counters["membership"] + 1,
                 authoritative_current |-> is_current(e), currentness |-> "Current",
                 generation |-> y.generation, publisher |-> y.publisher, boot |-> y.boot,
                 publication |-> y.publication, evidence |-> e,
                 composition |-> y.composition, endpoints |-> y.endpoints]
<1>1. /\ racks' = [racks EXCEPT ![r] = x] /\ Commit(bumped) /\ Declared
      /\ withdrawn_racks' = withdrawn_racks \ {r}
      /\ UNCHANGED <<identity, topology, fenced_authorities, unexplained, retired_racks>>
      /\ ~is_rack_retired(r)
      /\ IF has_rack(r) THEN MayReplace(r, y) ELSE RackCapacityLeft
  BY Zenon DEF AddRack, validate_common, Declared
<1>2. /\ y.generation \in Generations /\ y.publisher \in Publishers \cup {NoPublisher}
      /\ y.boot \in Boots \cup {NoBoot} /\ y.publication \in Generations
      /\ y.evidence \in Evidence /\ y.composition \in Compositions
      /\ y.endpoints \in EndpointLists
  BY StateAssumption, Zenon DEF MutationRequest, RackReference
<1>3. y.generation >= racks[r].generation
  <2>1. CASE has_rack(r)
    BY <2>1, <1>1, <1>2, RackTypes, GenerationBound DEF MayReplace, Generations
  <2>2. CASE ~has_rack(r)
    BY <2>2, <1>2, GenerationBound DEF has_rack, RecordsSound, NoRack, Generations
  <2> QED BY <2>1, <2>2, Zenon
<1> HIDE DEF y
<1>4. e \in Evidence
  BY <1>2, EvidenceTypes, Zenon
<1> HIDE DEF e
<1>5. bumped # {} => counters["membership"] + 1 \in Generations
  BY <1>1, RackTypes, GenerationBound DEF Commit, CanBump, Generations
<1>6. is_current(e) \in BOOLEAN
  BY Zenon DEF is_current
<1>7. /\ racks[r].membership_generation \in Generations
      /\ racks[r].membership_generation <= counters["membership"]
  BY Zenon DEF RecordsSound, TypeOK, RecordsTyped, RackRecord
<1> HIDE DEF bumped
<1>8. x \in RackRecord
  BY <1>2, <1>4, <1>5, <1>6, <1>7, Zenon DEF RackRecord, Memberships
<1>9. bumped \in SUBSET (Counters \ {"cluster"}) /\ bumped \in {{}, {"membership"}}
  BY Zenon DEF bumped, Counters
<1>10. /\ x.membership = "Active" /\ x.authoritative_current = is_current(x.evidence)
       /\ x.generation = y.generation
       /\ x.membership_generation = IF bumped = {} THEN racks[r].membership_generation
                                    ELSE counters["membership"] + 1
  BY Zenon
<1> HIDE DEF x
<1>11. /\ x.membership_generation >= racks[r].membership_generation
       /\ x.membership_generation <=
               counters["membership"] + (IF "membership" \in bumped THEN 1 ELSE 0)
  BY <1>7, <1>9, <1>10, RackTypes
<1>12. /\ UNCHANGED <<links, domains, constraints, topology_epoch, domain_generations>>
       /\ links \in [LinkIds -> LinkRecord \cup {NoRecord}] /\ withdrawn_racks' \subseteq Racks
  BY <1>1, Zenon DEF topology, TypeOK, RecordsTyped, ListsTyped
<1> QED BY <1>1, <1>3, <1>8, <1>9, <1>10, <1>11, <1>12, OneRackChanged, Zenon DEF is_rack_retired

(* apply_update_rack_generation. *)
LEMMA UpdateRackGenerationStep ==
    ASSUME TypeOK, RecordsSound, NEW q \in MutationRequest, NEW r \in Racks,
           UpdateRackGeneration(q, r)
    PROVE  SoundStep
<1> DEFINE x == UpdatedRack(racks[r], q)
<1>1. /\ racks' = [racks EXCEPT ![r] = x] /\ Commit({"membership"}) /\ Declared /\ has_rack(r)
      /\ q.new_rack_generation > racks[r].generation
      /\ UNCHANGED <<identity, topology, authority_lists>>
  BY Zenon DEF UpdateRackGeneration, validate_common, Declared
<1>2. x \in RackRecord
  <2>1. counters["membership"] + 1 \in Generations
    BY <1>1, RackTypes, GenerationBound DEF Commit, CanBump, Generations
  <2>2. is_current(q.evidence) \in BOOLEAN
    BY Zenon DEF is_current
  <2>3. /\ racks[r] \in RackRecord
        /\ racks[r].composition \in Compositions /\ racks[r].endpoints \in EndpointLists
        /\ racks[r].publisher \in Publishers \cup {NoPublisher}
        /\ racks[r].boot \in Boots \cup {NoBoot} /\ racks[r].generation \in Generations
    BY RackTypes, Zenon DEF RackRecord
  <2>4. /\ Replaced(racks[r].composition, q.rack_reference.composition) \in Compositions
        /\ Replaced(racks[r].endpoints, q.rack_reference.endpoints) \in EndpointLists
    BY <2>3, RequestTypes, Zenon DEF Replaced
  <2>5. /\ (IF q.authority.publisher # NoPublisher THEN q.authority.publisher
            ELSE racks[r].publisher) \in Publishers \cup {NoPublisher}
        /\ (IF q.authority.boot # NoBoot THEN q.authority.boot
            ELSE racks[r].boot) \in Boots \cup {NoBoot}
        /\ q.authority.publication \in Generations /\ q.new_rack_generation \in Generations
        /\ q.evidence \in Evidence
    BY <2>3, RequestTypes, Zenon
  <2> QED BY <2>1, <2>2, <2>3, <2>4, <2>5, Zenon DEF RackRecord, Memberships, UpdatedRack
<1>3. /\ x.membership = racks[r].membership
      /\ x.authoritative_current = is_current(x.evidence)
      /\ x.generation = q.new_rack_generation
      /\ x.membership_generation = counters["membership"] + 1
  BY RackTypes, Zenon DEF RackRecord, UpdatedRack
<1> HIDE DEF x
<1>4. x.generation >= racks[r].generation
  BY <1>1, <1>3, RackTypes, RequestTypes, GenerationBound DEF Generations
<1>5. /\ x.membership_generation >= racks[r].membership_generation
      /\ x.membership_generation <= counters["membership"] + 1
  BY <1>3, RackTypes DEF RecordsSound
<1>6. /\ x.membership # "Absent"
      /\ retired_racks = IF x.membership = "Retired" THEN retired_racks \cup {r} ELSE retired_racks
      /\ x.membership # "Retired" => r \notin retired_racks
  BY <1>1, <1>3, Zenon DEF has_rack, RecordsSound
<1>7. /\ UNCHANGED <<links, domains, constraints, topology_epoch, domain_generations,
                     fenced_authorities, unexplained, retired_racks, withdrawn_racks, identity>>
      /\ links \in [LinkIds -> LinkRecord \cup {NoRecord}] /\ withdrawn_racks \subseteq Racks
  BY <1>1, Zenon DEF topology, authority_lists, TypeOK, RecordsTyped, ListsTyped
<1>8. {"membership"} \in SUBSET (Counters \ {"cluster"})
  BY Zenon DEF Counters
<1> QED BY <1>1, <1>2, <1>3, <1>4, <1>5, <1>6, <1>7, <1>8, OneRackChanged, Zenon

(* apply_membership_change. *)
LEMMA MembershipChangeStep ==
    ASSUME TypeOK, RecordsSound, NEW q \in MutationRequest, NEW r \in Racks,
           NEW target \in {"Unavailable", "Withdrawn", "Retired"},
           membership_change(q, r, target)
    PROVE  SoundStep
<1> DEFINE x == [racks[r] EXCEPT !.membership = target,
                    !.authoritative_current = FALSE,
                    !.currentness = "RevalidationRequired",
                    !.membership_generation = counters["membership"] + 1]
<1>1. /\ racks' = [racks EXCEPT ![r] = x] /\ Commit({"membership"}) /\ Declared
      /\ racks[r].membership # "Retired"
      /\ withdrawn_racks' = IF target = "Withdrawn" THEN withdrawn_racks \cup {r}
                            ELSE withdrawn_racks \ {r}
      /\ retired_racks' = IF target = "Retired" THEN retired_racks \cup {r} ELSE retired_racks
      /\ UNCHANGED <<identity, topology, fenced_authorities, unexplained>>
  BY Zenon DEF membership_change, validate_common, Declared
<1>2. x \in RackRecord
  <2>1. counters["membership"] + 1 \in Generations
    BY <1>1, RackTypes, GenerationBound DEF Commit, CanBump, Generations
  <2> QED BY <2>1, RackTypes, Zenon DEF RackRecord, Memberships
<1>3. /\ x.membership = target /\ x.authoritative_current = FALSE
      /\ x.generation = racks[r].generation
      /\ x.membership_generation = counters["membership"] + 1
  BY RackTypes, Zenon DEF RackRecord
<1> HIDE DEF x
<1>4. x.generation >= racks[r].generation
  BY <1>3, RackTypes
<1>5. /\ x.membership_generation >= racks[r].membership_generation
      /\ x.membership_generation <= counters["membership"] + 1
  BY <1>3, RackTypes DEF RecordsSound
<1>6. r \notin retired_racks
  BY <1>1, Zenon DEF RecordsSound
<1>7. /\ UNCHANGED <<links, domains, constraints, topology_epoch, domain_generations>>
      /\ links \in [LinkIds -> LinkRecord \cup {NoRecord}] /\ withdrawn_racks' \subseteq Racks
  BY <1>1, Zenon DEF topology, TypeOK, RecordsTyped, ListsTyped
<1>8. {"membership"} \in SUBSET (Counters \ {"cluster"})
  BY Zenon DEF Counters
<1> QED BY <1>1, <1>2, <1>3, <1>4, <1>5, <1>6, <1>7, <1>8, OneRackChanged, Zenon

(* apply_recover_rack. *)
LEMMA RecoverRackStep ==
    ASSUME TypeOK, RecordsSound, NEW q \in MutationRequest, NEW r \in Racks,
           RecoverRack(q, r)
    PROVE  SoundStep
<1> DEFINE x == RecoveredBy(racks[r], q)
<1>1. /\ racks' = [racks EXCEPT ![r] = x] /\ Commit({"membership"}) /\ Declared
      /\ ~is_rack_retired(r)
      /\ q.new_rack_generation = 0 \/ q.new_rack_generation >= racks[r].generation
      /\ withdrawn_racks' = withdrawn_racks \ {r}
      /\ UNCHANGED <<identity, topology, fenced_authorities, unexplained, retired_racks>>
  BY Zenon DEF RecoverRack, validate_common, Declared
<1>2. x \in RackRecord
  <2>1. counters["membership"] + 1 \in Generations
    BY <1>1, RackTypes, GenerationBound DEF Commit, CanBump, Generations
  <2>2. is_current(q.evidence) \in BOOLEAN
    BY Zenon DEF is_current
  <2>3. /\ racks[r] \in RackRecord
        /\ racks[r].composition \in Compositions /\ racks[r].endpoints \in EndpointLists
        /\ racks[r].publisher \in Publishers \cup {NoPublisher}
        /\ racks[r].boot \in Boots \cup {NoBoot} /\ racks[r].generation \in Generations
    BY RackTypes, Zenon DEF RackRecord
  <2>4. /\ Replaced(racks[r].composition, q.rack_reference.composition) \in Compositions
        /\ Replaced(racks[r].endpoints, q.rack_reference.endpoints) \in EndpointLists
    BY <2>3, RequestTypes, Zenon DEF Replaced
  <2>5. /\ (IF q.authority.publisher # NoPublisher THEN q.authority.publisher
            ELSE racks[r].publisher) \in Publishers \cup {NoPublisher}
        /\ q.authority.boot \in Boots \cup {NoBoot}
        /\ (IF q.new_rack_generation = 0 THEN racks[r].generation
            ELSE q.new_rack_generation) \in Generations
        /\ q.authority.publication \in Generations /\ q.evidence \in Evidence
    BY <2>3, RequestTypes, Zenon
  <2> QED BY <2>1, <2>2, <2>3, <2>4, <2>5, Zenon DEF RackRecord, Memberships, RecoveredBy
<1>3. /\ x.membership = "Active"
      /\ x.authoritative_current = is_current(x.evidence)
      /\ x.generation = IF q.new_rack_generation = 0 THEN racks[r].generation
                        ELSE q.new_rack_generation
      /\ x.membership_generation = counters["membership"] + 1
  BY RackTypes, Zenon DEF RackRecord, RecoveredBy
<1> HIDE DEF x
<1>4. x.generation >= racks[r].generation
  BY <1>1, <1>3, RackTypes, RequestTypes, GenerationBound DEF Generations
<1>5. /\ x.membership_generation >= racks[r].membership_generation
      /\ x.membership_generation <= counters["membership"] + 1
  BY <1>3, RackTypes DEF RecordsSound
<1>6. /\ UNCHANGED <<links, domains, constraints, topology_epoch, domain_generations>>
      /\ links \in [LinkIds -> LinkRecord \cup {NoRecord}] /\ withdrawn_racks' \subseteq Racks
  BY <1>1, Zenon DEF topology, TypeOK, RecordsTyped, ListsTyped
<1>7. {"membership"} \in SUBSET (Counters \ {"cluster"})
  BY Zenon DEF Counters
<1> QED BY <1>1, <1>2, <1>3, <1>4, <1>5, <1>6, <1>7, OneRackChanged, Zenon DEF is_rack_retired

(* apply_publish_health_currentness. *)
LEMMA PublishHealthCurrentnessStep ==
    ASSUME TypeOK, RecordsSound, NEW q \in MutationRequest, NEW r \in Racks,
           PublishHealthCurrentness(q, r)
    PROVE  SoundStep
<1> DEFINE x == [racks[r] EXCEPT !.evidence = q.evidence,
                    !.publication = q.authority.publication,
                    !.authoritative_current = is_current(q.evidence)]
           S == IF q.reachability = "Unknown" THEN {"health"} ELSE {"health", "connectivity"}
<1>1. /\ racks' = [racks EXCEPT ![r] = x] /\ Commit(S) /\ Declared /\ has_rack(r)
      /\ ~is_rack_retired(r)
      /\ UNCHANGED <<identity, domains, constraints, topology_epoch, domain_generations,
                     authority_lists>>
  BY Zenon DEF PublishHealthCurrentness, validate_common, Declared
<1>2. x \in RackRecord
  <2>1. is_current(q.evidence) \in BOOLEAN
    BY Zenon DEF is_current
  <2> QED BY <2>1, RequestTypes, RackTypes, Zenon DEF RackRecord
<1>3. /\ x.membership = racks[r].membership /\ x.authoritative_current = is_current(x.evidence)
      /\ x.generation = racks[r].generation
      /\ x.membership_generation = racks[r].membership_generation
  BY RackTypes, Zenon DEF RackRecord
<1> HIDE DEF x
<1>4. links' \in [LinkIds -> LinkRecord \cup {NoRecord}]
  <2>1. links \in [LinkIds -> LinkRecord \cup {NoRecord}]
    BY Zenon DEF TypeOK, RecordsTyped
  <2>2. q.reachability \in Reachabilities /\ q.evidence \in Evidence
    BY RequestTypes, Zenon
  <2>3. \A l \in LinkIds : Incident(l, r) =>
           [links[l] EXCEPT !.reachability = q.reachability, !.evidence = q.evidence]
               \in LinkRecord
    BY <2>1, <2>2, LinkTypes, Zenon DEF Incident, HasLink
  <2> QED BY <2>1, <2>3, Zenon DEF PublishHealthCurrentness
<1>5. S \in SUBSET (Counters \ {"cluster"}) /\ "membership" \notin S
  BY Zenon DEF Counters
<1> HIDE DEF S
<1>6. /\ x.generation >= racks[r].generation
      /\ x.membership_generation >= racks[r].membership_generation
      /\ x.membership_generation <=
            counters["membership"] + (IF "membership" \in S THEN 1 ELSE 0)
  <2>1. /\ racks[r].generation \in Int /\ racks[r].membership_generation \in Int
        /\ counters["membership"] \in Int
    BY RackTypes, Zenon
  <2>2. racks[r].membership_generation <= counters["membership"]
    BY Zenon DEF RecordsSound
  <2> QED BY <1>3, <1>5, <2>1, <2>2
<1>7. /\ x.membership # "Absent" /\ x.membership # "Retired" /\ r \notin retired_racks
      /\ withdrawn_racks' \subseteq Racks /\ UNCHANGED <<fenced_authorities, unexplained, retired_racks>>
  BY <1>1, <1>3, Zenon DEF has_rack, is_rack_retired, RecordsSound, authority_lists, TypeOK, ListsTyped
<1> QED BY <1>1, <1>2, <1>3, <1>4, <1>5, <1>6, <1>7, OneRackChanged, Zenon

(* apply_withdraw_evidence. *)
LEMMA WithdrawEvidenceStep ==
    ASSUME TypeOK, RecordsSound, NEW q \in MutationRequest, NEW r \in Racks,
           NEW selector \in EvidenceSelectors, WithdrawEvidence(q, r, selector)
    PROVE  SoundStep
<1> DEFINE e == mark_revalidation_required(racks[r].evidence)
           x == [racks[r] EXCEPT !.evidence = e,
                    !.currentness = "RevalidationRequired",
                    !.authoritative_current = FALSE]
           S == IF selector \in {"rack_evidence", "reachability"}
                THEN {"health", "connectivity"} ELSE {"health"}
<1>1. /\ racks' = [racks EXCEPT ![r] = x] /\ Commit(S) /\ Declared /\ has_rack(r)
      /\ UNCHANGED <<identity, domains, constraints, topology_epoch, domain_generations,
                     authority_lists>>
  BY Zenon DEF WithdrawEvidence, validate_common, Declared
<1>2. e \in Evidence
  BY RackTypes, EvidenceTypes, Zenon
<1> HIDE DEF e
<1>3. x \in RackRecord
  BY <1>2, RackTypes, Zenon DEF RackRecord
<1>4. /\ x.membership = racks[r].membership /\ x.authoritative_current = FALSE
      /\ x.generation = racks[r].generation
      /\ x.membership_generation = racks[r].membership_generation
  BY RackTypes, Zenon DEF RackRecord
<1> HIDE DEF x
<1>5. links' \in [LinkIds -> LinkRecord \cup {NoRecord}]
  <2>1. links \in [LinkIds -> LinkRecord \cup {NoRecord}]
    BY Zenon DEF TypeOK, RecordsTyped
  <2>2. \A l \in LinkIds : Incident(l, r) =>
           [links[l] EXCEPT !.reachability = "RevalidationRequired",
                            !.evidence = mark_revalidation_required(links[l].evidence)]
               \in LinkRecord
    <3> SUFFICES ASSUME NEW l \in LinkIds, links[l].generation > 0
                 PROVE  [links[l] EXCEPT !.reachability = "RevalidationRequired",
                            !.evidence = mark_revalidation_required(links[l].evidence)]
                               \in LinkRecord
      BY Zenon DEF Incident, HasLink
    <3>1. links[l] \in LinkRecord
      BY <2>1 DEF NoRecord
    <3>2. mark_revalidation_required(links[l].evidence) \in Evidence
      BY <3>1, EvidenceTypes, Zenon DEF LinkRecord
    <3> QED BY <3>1, <3>2, LinkTypes, Zenon DEF Reachabilities
  <2> QED BY <2>1, <2>2, Zenon DEF WithdrawEvidence
<1>6. S \in SUBSET (Counters \ {"cluster"}) /\ "membership" \notin S
  BY Zenon DEF Counters
<1> HIDE DEF S
<1>7. /\ x.generation >= racks[r].generation
      /\ x.membership_generation >= racks[r].membership_generation
      /\ x.membership_generation <=
            counters["membership"] + (IF "membership" \in S THEN 1 ELSE 0)
  <2>1. /\ racks[r].generation \in Int /\ racks[r].membership_generation \in Int
        /\ counters["membership"] \in Int
    BY RackTypes, Zenon
  <2>2. racks[r].membership_generation <= counters["membership"]
    BY Zenon DEF RecordsSound
  <2> QED BY <1>4, <1>6, <2>1, <2>2
<1>8. /\ x.membership # "Absent"
      /\ retired_racks = IF x.membership = "Retired" THEN retired_racks \cup {r} ELSE retired_racks
      /\ x.membership # "Retired" => r \notin retired_racks
      /\ withdrawn_racks' \subseteq Racks /\ UNCHANGED <<fenced_authorities, unexplained, retired_racks>>
  BY <1>1, <1>4, Zenon DEF has_rack, RecordsSound, authority_lists, TypeOK, ListsTyped
<1> QED BY <1>1, <1>3, <1>4, <1>5, <1>6, <1>7, <1>8, OneRackChanged, Zenon

-----------------------------------------------------------------------------
(***************************************************************************)
(* Topology and cluster mutations leave the rack records alone, and keep   *)
(* the others typed and consistent.                                        *)
(***************************************************************************)

(* A mutation of a declared cluster that touches no rack record. *)
LEMMA RacksUntouched ==
    ASSUME TypeOK, RecordsSound, Declared, NEW c \in [Counters -> Generations \ {0}],
           NEW lc \in Lifecycles, apply_and_commit(c, lc),
           \A k \in Counters : c[k] >= counters[k],
           racks' = racks, RecordsTyped', UNCHANGED authority_lists,
           UNCHANGED <<id, epoch, coordinator_epoch>>, readiness_contract' \in Contracts,
           topology_epoch' \in Generations \ {0}, topology_epoch' >= topology_epoch,
           domain_generations' \in [DomainKinds -> Generations \ {0}],
           \A k \in DomainKinds : domain_generations'[k] >= domain_generations[k]
    PROVE  SoundStep
<1>1. ListsTyped'
  BY Zenon DEF TypeOK, ListsTyped, authority_lists
<1>2. /\ id' \in ClusterIds /\ epoch' \in Generations /\ coordinator_epoch' \in Generations \ {0}
      /\ coordinator_epoch \in Int
  BY GenerationBound DEF TypeOK, ScalarsTyped, Generations
<1>3. TypeOK'
  BY <1>1, <1>2, CommitTypeOK, Zenon
<1>4. counters \in [Counters -> Generations] /\ c \in [Counters -> Generations]
  BY Zenon DEF TypeOK, ScalarsTyped
<1>5. counters' = [c EXCEPT !["cluster"] = c["cluster"] + 1]
  BY <1>4, CommitTypes, Zenon
<1>6. \A k \in Counters : counters[k] \in Int /\ c[k] \in Int
  BY <1>4, GenerationBound DEF Generations
<1>7. \A k \in Counters : counters'[k] >= counters[k]
  BY <1>4, <1>5, <1>6
<1>8. \A r \in Racks : racks[r].generation \in Int /\ racks[r].membership_generation \in Int
  BY RackTypes, Zenon
<1>9. "membership" \in Counters /\ counters'["membership"] \in Int
  BY <1>4, <1>5, <1>6, Zenon DEF Counters
<1>10. RecordsSound'
  <2> SUFFICES ASSUME NEW y \in Racks
               PROVE  /\ racks'[y].membership = "Absent" => racks'[y] = NoRack
                      /\ racks'[y].authoritative_current => is_current(racks'[y].evidence)
                      /\ racks'[y].membership = "Retired" <=> y \in retired_racks'
                      /\ racks'[y].membership_generation <= counters'["membership"]
    BY Zenon DEF RecordsSound, is_current
  <2> QED BY <1>6, <1>7, <1>8, <1>9 DEF RecordsSound, authority_lists
<1>11. MovesForward
  <2>1. epoch' = epoch /\ coordinator_epoch' >= coordinator_epoch
    BY <1>2
  <2>2. \A r \in Racks : /\ racks'[r].generation >= racks[r].generation
                        /\ racks'[r].membership_generation >= racks[r].membership_generation
    BY <1>8
  <2>3. fenced_authorities \subseteq fenced_authorities' /\ retired_racks \subseteq retired_racks'
    BY Zenon DEF authority_lists
  <2> QED BY <1>7, <2>1, <2>2, <2>3, Zenon DEF MovesForward
<1> QED BY <1>3, <1>10, <1>11, Zenon DEF SoundStep, Declared

(* The same for a mutation that only advances counters. *)
LEMMA TopologyChanged ==
    ASSUME TypeOK, RecordsSound, Declared, NEW S \in SUBSET Counters, Commit(S),
           racks' = racks, RecordsTyped', UNCHANGED authority_lists, UNCHANGED identity,
           topology_epoch' \in Generations, topology_epoch' >= topology_epoch,
           domain_generations' \in [DomainKinds -> Generations],
           \A k \in DomainKinds : domain_generations'[k] >= domain_generations[k]
    PROVE  SoundStep
<1>1. counters \in [Counters -> Generations] /\ lifecycle \in Lifecycles
  BY Zenon DEF TypeOK, ScalarsTyped
<1>2. CanBump(S) /\ apply_and_commit(bump(S), lifecycle)
  BY Zenon DEF Commit
<1>3. /\ bump(S) \in [Counters -> Generations]
      /\ \A c \in Counters : bump(S)[c] = IF c \in S THEN counters[c] + 1 ELSE counters[c]
  BY <1>1, <1>2, BumpTypes, Zenon
<1>4. \A c \in Counters : counters[c] \in Int /\ counters[c] > 0
  BY <1>1, GenerationBound DEF TypeOK, Generations
<1>5. \A c \in Counters : bump(S)[c] # 0 /\ bump(S)[c] >= counters[c]
  BY <1>3, <1>4
<1>6. bump(S) \in [Counters -> Generations \ {0}]
  BY <1>3, <1>5, Zenon
<1>7. topology_epoch' \in Generations \ {0}
  BY GenerationBound DEF TypeOK, ScalarsTyped, Generations
<1>8. domain_generations' \in [DomainKinds -> Generations \ {0}]
  <2>1. \A k \in DomainKinds : domain_generations'[k] # 0
    BY GenerationBound DEF TypeOK, ScalarsTyped, Generations
  <2> QED BY <2>1, Zenon
<1>9. /\ UNCHANGED <<id, epoch, coordinator_epoch>> /\ readiness_contract' \in Contracts
  BY Zenon DEF identity, TypeOK, ScalarsTyped
<1> QED BY <1>1, <1>2, <1>5, <1>6, <1>7, <1>8, <1>9, RacksUntouched, Zenon

(* advance_aggregate keeps the domain generations typed and moves none     *)
(* back.                                                                   *)
LEMMA AggregateTypes ==
    ASSUME TypeOK, NEW k \in DomainKinds, NEW g \in Generations, advance_aggregate(k, g)
    PROVE  /\ domain_generations' \in [DomainKinds -> Generations]
           /\ \A j \in DomainKinds : domain_generations'[j] >= domain_generations[j]
<1> DEFINE candidate == (domain_generations[k] + 1) % (MaxGeneration + 1)
           value == IF candidate >= g THEN candidate ELSE g
<1>1. /\ domain_generations \in [DomainKinds -> Generations]
      /\ \A j \in DomainKinds : domain_generations[j] \in Int
  BY GenerationBound DEF TypeOK, ScalarsTyped, Generations
<1>2. candidate \in Generations
  <2>1. domain_generations[k] + 1 \in Int /\ MaxGeneration + 1 \in Nat /\ MaxGeneration + 1 > 0
    BY <1>1, GenerationBound
  <2>2. candidate \in 0 .. (MaxGeneration + 1) - 1
    BY <2>1
  <2> QED BY <2>2, GenerationBound DEF Generations
<1>3. /\ value >= domain_generations[k]
      /\ domain_generations' = [domain_generations EXCEPT ![k] = value]
  BY Zenon DEF advance_aggregate
<1> HIDE DEF candidate
<1>4. value \in Generations
  BY <1>2, Zenon
<1> QED BY <1>1, <1>3, <1>4

(* apply_publish_domain: every domain kind. *)
LEMMA PublishDomainStep ==
    ASSUME TypeOK, RecordsSound, NEW q \in MutationRequest,
           NEW d \in DomainIds, NEW x \in DomainRecord, publish_domain_record(q, d, x)
    PROVE  SoundStep
<1>1. x.generation \in Generations /\ KindOf[d] \in DomainKinds
  BY StateAssumption, Zenon DEF DomainRecord
<1>2. /\ domain_generations' \in [DomainKinds -> Generations]
      /\ \A j \in DomainKinds : domain_generations'[j] >= domain_generations[j]
  BY <1>1, AggregateTypes, Zenon DEF publish_domain_record
<1>3. RecordsTyped'
  BY <1>1, Zenon DEF publish_domain_record, TypeOK, RecordsTyped
<1>4. /\ Commit({"topology"}) /\ Declared
      /\ UNCHANGED <<identity, racks, topology_epoch, authority_lists>>
  BY Zenon DEF publish_domain_record, validate_common, Declared
<1>5. topology_epoch \in Generations /\ topology_epoch >= topology_epoch
  BY GenerationBound DEF TypeOK, ScalarsTyped, Generations
<1>6. {"topology"} \in SUBSET Counters
  BY Zenon DEF Counters
<1> QED BY <1>2, <1>3, <1>4, <1>5, <1>6, TopologyChanged, Zenon

(* Epochs and domain generations that do not move do not move back. *)
LEMMA EpochsKept ==
    ASSUME TypeOK
    PROVE  /\ topology_epoch \in Generations /\ topology_epoch >= topology_epoch
           /\ domain_generations \in [DomainKinds -> Generations]
           /\ \A k \in DomainKinds : domain_generations[k] >= domain_generations[k]
BY GenerationBound DEF TypeOK, ScalarsTyped, Generations

(* apply_publish_constraint. *)
LEMMA PublishConstraintStep ==
    ASSUME TypeOK, RecordsSound, NEW q \in MutationRequest,
           NEW c \in ConstraintIds, NEW x \in ConstraintPayloads, PublishConstraint(q, c, x)
    PROVE  SoundStep
<1>1. RecordsTyped'
  BY RequestAssumption, Zenon DEF PublishConstraint, TypeOK, RecordsTyped
<1>2. /\ Commit({"constraint"}) /\ Declared
      /\ UNCHANGED <<identity, racks, topology_epoch, domain_generations, authority_lists>>
  BY Zenon DEF PublishConstraint, validate_common, Declared
<1>3. {"constraint"} \in SUBSET Counters
  BY Zenon DEF Counters
<1> QED BY <1>1, <1>2, <1>3, EpochsKept, TopologyChanged, Zenon

(* apply_publish_link. *)
LEMMA PublishInterRackLinkStep ==
    ASSUME TypeOK, RecordsSound, NEW q \in MutationRequest,
           NEW l \in LinkIds, NEW x \in LinkPayload, PublishInterRackLink(q, l, x)
    PROVE  SoundStep
<1> DEFINE y == [generation |-> x.generation, source |-> x.source,
                 destination |-> x.destination, domains |-> x.domains, boot |-> x.boot,
                 reachability |-> x.reachability, evidence |-> x.evidence,
                 topology_epoch |-> x.topology_epoch,
                 topology_generation |-> counters["topology"]]
<1>1. /\ Commit({"topology", "connectivity"}) /\ Declared /\ links' = [links EXCEPT ![l] = y]
      /\ UNCHANGED <<identity, racks, domains, constraints, topology_epoch,
                     domain_generations, authority_lists>>
  BY Zenon DEF PublishInterRackLink, validate_common, Declared
<1>2. counters["topology"] \in Generations
  BY Zenon DEF TypeOK, ScalarsTyped, Counters
<1>3. y \in LinkRecord
  BY <1>2, Zenon DEF LinkPayload, LinkRecord
<1> HIDE DEF y
<1>4. RecordsTyped'
  BY <1>1, <1>3, Zenon DEF TypeOK, RecordsTyped
<1>5. {"topology", "connectivity"} \in SUBSET Counters
  BY Zenon DEF Counters
<1> QED BY <1>1, <1>4, <1>5, EpochsKept, TopologyChanged, Zenon

(* apply_withdraw_link. *)
LEMMA WithdrawInterRackLinkStep ==
    ASSUME TypeOK, RecordsSound, NEW q \in MutationRequest, NEW l \in LinkIds,
           WithdrawInterRackLink(q, l)
    PROVE  SoundStep
<1>1. RecordsTyped'
  BY Zenon DEF WithdrawInterRackLink, TypeOK, RecordsTyped
<1>2. /\ Commit({"topology", "connectivity"}) /\ Declared
      /\ UNCHANGED <<identity, racks, topology_epoch, domain_generations, authority_lists>>
  BY Zenon DEF WithdrawInterRackLink, validate_common, Declared
<1>3. {"topology", "connectivity"} \in SUBSET Counters
  BY Zenon DEF Counters
<1> QED BY <1>1, <1>2, <1>3, EpochsKept, TopologyChanged, Zenon

(* apply_supersede_topology. *)
LEMMA SupersedeTopologyStep ==
    ASSUME TypeOK, RecordsSound, NEW q \in MutationRequest, SupersedeTopology(q)
    PROVE  SoundStep
<1>1. links \in [LinkIds -> LinkRecord \cup {NoRecord}]
  BY Zenon DEF TypeOK, RecordsTyped
<1>2. \A l \in LinkIds : HasLink(l) =>
         [links[l] EXCEPT !.evidence = mark_revalidation_required(links[l].evidence),
                          !.reachability = "Unknown"] \in LinkRecord
  <2> SUFFICES ASSUME NEW l \in LinkIds, links[l].generation > 0
               PROVE  [links[l] EXCEPT
                          !.evidence = mark_revalidation_required(links[l].evidence),
                          !.reachability = "Unknown"] \in LinkRecord
    BY Zenon DEF HasLink
  <2>1. links[l] \in LinkRecord
    BY <1>1 DEF NoRecord
  <2>2. mark_revalidation_required(links[l].evidence) \in Evidence
    BY <2>1, EvidenceTypes, Zenon DEF LinkRecord
  <2> QED BY <2>1, <2>2, LinkTypes, Zenon DEF Reachabilities
<1>3. links' \in [LinkIds -> LinkRecord \cup {NoRecord}]
  BY <1>1, <1>2, Zenon DEF SupersedeTopology
<1>4. RecordsTyped'
  BY <1>3, Zenon DEF SupersedeTopology, TypeOK, RecordsTyped
<1>5. /\ Commit({"topology", "connectivity"}) /\ Declared
      /\ topology_epoch' = q.target_topology_epoch /\ topology_epoch' > topology_epoch
      /\ UNCHANGED <<identity, racks, domain_generations, authority_lists>>
  BY Zenon DEF SupersedeTopology, validate_common, Declared
<1>6. topology_epoch' \in Generations /\ topology_epoch' >= topology_epoch
  BY <1>5, RequestTypes, EpochsKept, GenerationBound DEF Generations
<1>7. {"topology", "connectivity"} \in SUBSET Counters
  BY Zenon DEF Counters
<1> QED BY <1>4, <1>5, <1>6, <1>7, EpochsKept, TopologyChanged, Zenon

(* apply_publish_snapshot and apply_revalidate: only counters move. *)
LEMMA OnlyCountersMove ==
    ASSUME TypeOK, RecordsSound, Declared, NEW S \in SUBSET Counters, Commit(S),
           UNCHANGED <<identity, racks, topology, authority_lists>>
    PROVE  SoundStep
<1>1. RecordsTyped' /\ UNCHANGED <<topology_epoch, domain_generations>>
  BY Zenon DEF topology, TypeOK, RecordsTyped
<1> QED BY <1>1, EpochsKept, TopologyChanged, Zenon

-----------------------------------------------------------------------------
(***************************************************************************)
(* Declaration, retirement, fences.                                        *)
(***************************************************************************)

(* A declaration of a declared cluster. *)
LEMMA RedeclareClusterStep ==
    ASSUME TypeOK, RecordsSound, NEW q \in MutationRequest, RedeclareCluster(q)
    PROVE  SoundStep
<1>1. RecordsTyped' /\ UNCHANGED <<topology_epoch, domain_generations>>
  BY Zenon DEF RedeclareCluster, topology, TypeOK, RecordsTyped
<1>2. /\ apply_and_commit(counters, q.declared_lifecycle) /\ Declared
      /\ UNCHANGED <<id, epoch, coordinator_epoch, racks, authority_lists>>
      /\ readiness_contract' = q.readiness_contract
  BY Zenon DEF RedeclareCluster, Declared
<1>3. /\ counters \in [Counters -> Generations]
      /\ \A k \in Counters : counters[k] >= counters[k] /\ counters[k] # 0
      /\ topology_epoch # 0 /\ \A k \in DomainKinds : domain_generations[k] # 0
  BY <1>2, GenerationBound DEF TypeOK, ScalarsTyped, Generations
<1>4. /\ counters \in [Counters -> Generations \ {0}]
      /\ domain_generations \in [DomainKinds -> Generations \ {0}]
      /\ topology_epoch \in Generations \ {0}
  BY <1>3, EpochsKept, Zenon
<1>5. q.declared_lifecycle \in Lifecycles /\ q.readiness_contract \in Contracts
  BY RequestTypes, Zenon
<1> QED BY <1>1, <1>2, <1>3, <1>4, <1>5, EpochsKept, RacksUntouched, Zenon

(* The first declaration of a cluster. *)
LEMMA DeclareClusterStep ==
    ASSUME TypeOK, RecordsSound, NothingRecorded, NEW q \in MutationRequest, DeclareCluster(q)
    PROVE  SoundStep
<1>1. FirstCounters \in [Counters -> Generations \ {0}] /\ "Declared" \in Lifecycles
  BY GenerationBound DEF FirstCounters, Generations, Lifecycles
<1>2. /\ id' \in ClusterIds /\ epoch' \in Generations /\ epoch' > 0
      /\ coordinator_epoch' \in Generations \ {0} /\ readiness_contract' \in Contracts
  BY RequestTypes, GenerationBound DEF DeclareCluster, Generations, TypeOK, ScalarsTyped
<1>3. /\ topology_epoch' \in Generations \ {0}
      /\ domain_generations' \in [DomainKinds -> Generations \ {0}]
  <2>1. topology_epoch' = 1 /\ domain_generations' = [k \in DomainKinds |-> 1]
    BY Zenon DEF DeclareCluster
  <2>2. 1 \in Generations \ {0}
    BY GenerationBound DEF Generations
  <2> QED BY <2>1, <2>2, Zenon
<1>4. RecordsTyped' /\ ListsTyped'
  BY Zenon DEF DeclareCluster, authority_lists, TypeOK, RecordsTyped, ListsTyped
<1>5. TypeOK'
  BY <1>1, <1>2, <1>3, <1>4, CommitTypeOK, Zenon DEF DeclareCluster
<1>6. RecordsSound'
  <2>1. \A r \in Racks : racks[r] = NoRack
    BY Zenon DEF NothingRecorded, RecordsSound, has_rack
  <2>2. racks' = racks /\ retired_racks' = {}
    BY Zenon DEF DeclareCluster, authority_lists, NothingRecorded
  <2>3. counters'["membership"] \in Generations
    BY <1>5, Zenon DEF TypeOK, ScalarsTyped, Counters
  <2>4. counters'["membership"] >= 0
    BY <2>3, GenerationBound DEF Generations
  <2>5. /\ NoRack.membership = "Absent" /\ NoRack.authoritative_current = FALSE
        /\ NoRack.membership_generation = 0
    BY Zenon DEF NoRack
  <2> QED BY <2>1, <2>2, <2>4, <2>5, Zenon DEF RecordsSound
<1> QED BY <1>2, <1>5, <1>6 DEF SoundStep, Declared, DeclareCluster

(* apply_retire_cluster. *)
LEMMA RetireClusterStep ==
    ASSUME TypeOK, RecordsSound, NEW q \in MutationRequest, RetireCluster(q)
    PROVE  SoundStep
<1>1. /\ apply_and_commit(counters, "Retired") /\ Declared
      /\ UNCHANGED <<identity, topology, authority_lists>>
  BY Zenon DEF RetireCluster, validate_common, Declared
<1>2. \A r \in Racks :
         LET x == [racks[r] EXCEPT !.authoritative_current = FALSE,
                                   !.currentness = "RevalidationRequired"]
         IN  /\ x \in RackRecord /\ x.membership = racks[r].membership
             /\ x.generation = racks[r].generation
             /\ x.membership_generation = racks[r].membership_generation
             /\ ~x.authoritative_current
  BY RackTypes, Zenon DEF RackRecord
<1>3. \A r \in Racks : racks[r].authoritative_current => racks[r].membership # "Absent"
  <2>1. NoRack.authoritative_current = FALSE
    BY Zenon DEF NoRack
  <2> QED BY <2>1, Zenon DEF RecordsSound
<1>4. racks' \in [Racks -> RackRecord]
  BY <1>2, Zenon DEF RetireCluster, TypeOK, RecordsTyped
<1>5. RecordsTyped' /\ ListsTyped'
  BY <1>1, <1>4, Zenon DEF topology, authority_lists, TypeOK, RecordsTyped, ListsTyped
<1>6. /\ counters \in [Counters -> Generations]
      /\ \A k \in Counters : counters[k] # 0 /\ counters[k] \in Int
      /\ topology_epoch # 0 /\ \A k \in DomainKinds : domain_generations[k] # 0
  BY <1>1, GenerationBound DEF TypeOK, ScalarsTyped, Generations
<1>7. /\ counters \in [Counters -> Generations \ {0}]
      /\ domain_generations' \in [DomainKinds -> Generations \ {0}]
      /\ topology_epoch' \in Generations \ {0}
  BY <1>1, <1>6, EpochsKept, Zenon DEF topology
<1>8. /\ id' \in ClusterIds /\ epoch' \in Generations
      /\ coordinator_epoch' \in Generations \ {0} /\ readiness_contract' \in Contracts
      /\ "Retired" \in Lifecycles
  BY <1>1, Zenon DEF TypeOK, ScalarsTyped, identity, Lifecycles
<1>9. TypeOK'
  BY <1>1, <1>5, <1>7, <1>8, CommitTypeOK, Zenon
<1>10. counters' = [counters EXCEPT !["cluster"] = counters["cluster"] + 1]
  BY <1>1, <1>6, <1>8, CommitTypes, Zenon
<1>11. \A k \in Counters : counters'[k] >= counters[k]
  BY <1>6, <1>10
<1>12. \A r \in Racks :
         \/ racks'[r] = racks[r]
         \/ /\ racks[r].membership # "Absent"
            /\ racks'[r].membership = racks[r].membership
            /\ racks'[r].generation = racks[r].generation
            /\ racks'[r].membership_generation = racks[r].membership_generation
            /\ ~racks'[r].authoritative_current
  BY <1>2, <1>3, Zenon DEF RetireCluster
<1> QED BY <1>1, <1>9, <1>11, <1>12, AuthorityTaken, Zenon DEF topology, authority_lists
=============================================================================
