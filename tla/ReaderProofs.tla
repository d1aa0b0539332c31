---------------------------- MODULE ReaderProofs ----------------------------
(***************************************************************************)
(* Proofs about what readers of the coordinator's state conclude: from the *)
(* answer to a query (module Queries) and from a snapshot they validate    *)
(* (module Snapshots), for every size of cluster and every sequence of     *)
(* commits, fences and restarts in between.                                *)
(***************************************************************************)
EXTENDS EngineTheorems, Queries, Snapshots, FiniteSetTheorems

-----------------------------------------------------------------------------
(***************************************************************************)
(* Snapshots.  The container has to be loadable (SavedIsLoadable;          *)
(* SnapshotLoadable says when it is): a coordinator whose container is     *)
(* rejected starts over, and may declare the same epoch a second time.     *)
(***************************************************************************)

(* A rack that comes back with the container carries reconstructed          *)
(* evidence, and one that the container does not hold stays absent          *)
(* (from_persisted_state).                                                  *)
LEMMA RecoveredEvidence ==
    ASSUME NEW x
    PROVE  /\ x.membership = "Absent" => RecoveredRack(x).membership = "Absent"
           /\ x.membership # "Absent" =>
                 RecoveredRack(x).evidence.provenance = "Reconstructed"
BY DEF RecoveredRack, NoRack

(* A recorded domain has racks of the cluster. *)
LEMMA RecordedDomain ==
    ASSUME NEW x \in DomainRecord \cup {NoRecord}, x.generation > 0
    PROVE  x.racks \subseteq Racks
BY DEF DomainRecord, NoRecord

(* A link that is not recorded stays so. *)
LEMMA RecoveredGeneration ==
    /\ NoRecord.generation = 0
    /\ \A x : RecoveredLink(x).generation > 0 => x.generation # 0
BY DEF RecoveredLink, NoRecord

(* Order on generations. *)
LEMMA Order ==
    ASSUME NEW m \in Nat, NEW n \in Nat
    PROVE  /\ m >= n /\ n >= m => m = n
           /\ m # 0 => m > 0
           /\ ~(m < n) => m >= n
OBVIOUS

(* Order carries over from one state to the next. *)
LEMMA OrderCarries ==
    ASSUME NEW k \in Nat, NEW m \in Nat, NEW n \in Nat, m >= k
    PROVE  /\ n >= m => n >= k
           /\ n > m => n >= k /\ n # k
OBVIOUS

(* The index of the placement and of the failure domains of a rack          *)
(* (ClusterIndexes::rebuild).                                               *)
LEMMA RebuiltDomains ==
    ASSUME NEW r \in Racks, NEW kind \in {"placement", "failure"}
    PROVE  rebuild.domains_of[kind][r] = {d \in DomainsOf(kind) : r \in domains[d].racks}
BY DEF rebuild, IndexedKinds

(* The types of the records and of the numbers a snapshot is compared by. *)
Numbers ==
    /\ epoch \in Nat /\ coordinator_epoch \in Nat /\ counters["cluster"] \in Nat
    /\ readiness_contract.minimum_current_racks \in Nat
    /\ racks \in [Racks -> RackRecord] /\ links \in [LinkIds -> LinkRecord \cup {NoRecord}]
    /\ domains \in [DomainIds -> DomainRecord \cup {NoRecord}]

(* The invariant of the engine gives these types. *)
LEMMA NumbersTyped == (IInv => Numbers) /\ (IInv => Numbers)'
<1>1. Generations \subseteq Nat
  BY GenerationBound DEF Generations
<1>2. IInv => Numbers
  BY <1>1, StateAssumption, Zenon
     DEF IInv, TypeOK, ScalarsTyped, RecordsTyped, Counters, Contract, Numbers
<1>3. (IInv => Numbers)'
  BY <1>2, PTL
<1> QED BY <1>2, <1>3, Zenon

(* The types of a copy of canonical state. *)
CanonicalState ==
    [id : ClusterIds, epoch : Generations, coordinator_epoch : Generations,
     counters : [Counters -> Generations], topology_epoch : Generations,
     domain_generations : [DomainKinds -> Generations], lifecycle : Lifecycles,
     readiness_contract : Contracts,
     racks : [Racks -> RackRecord], links : [LinkIds -> LinkRecord \cup {NoRecord}],
     domains : [DomainIds -> DomainRecord \cup {NoRecord}],
     constraints : [ConstraintIds -> ConstraintRecord \cup {NoRecord}],
     retired_racks : SUBSET Racks, withdrawn_racks : SUBSET Racks,
     fenced_authorities : SUBSET Boots, unexplained : SUBSET Boots]

(* The numbers of a copy. *)
LEMMA CopyNumbers ==
    ASSUME NEW s \in CanonicalState
    PROVE  s.epoch \in Nat /\ s.coordinator_epoch \in Nat /\ s.counters["cluster"] \in Nat
BY GenerationBound DEF CanonicalState, Generations, Counters

(* What is not recorded has no content that a digest could miss. *)
NothingHidden(s) ==
    /\ \A r \in Racks : s.racks[r].membership = "Absent" => s.racks[r] = NoRack
    /\ \A l \in LinkIds : s.links[l] = NoRecord \/ s.links[l].generation > 0

(* A copy of the state of a coordinator that holds no cluster. *)
Blank(s) ==
    s = [id |-> s.id, epoch |-> 0, coordinator_epoch |-> FirstCoordinatorEpoch,
         counters |-> [c \in Counters |-> 0], topology_epoch |-> 0,
         domain_generations |-> [k \in DomainKinds |-> 0], lifecycle |-> "Declared",
         readiness_contract |-> ConfigContract,
         racks |-> [r \in Racks |-> NoRack], links |-> [l \in LinkIds |-> NoRecord],
         domains |-> [d \in DomainIds |-> NoRecord],
         constraints |-> [c \in ConstraintIds |-> NoRecord],
         retired_racks |-> {}, withdrawn_racks |-> {}, fenced_authorities |-> {},
         unexplained |-> {}]

(* The same declarations: a restart, which only clears observations, is    *)
(* the one step that does not advance the cluster generation.              *)
SameDeclarations(s, c) ==
    /\ s.readiness_contract = c.readiness_contract
    /\ \A r \in Racks : DurableRack(s.racks[r]) = DurableRack(c.racks[r])
    /\ \A l \in LinkIds : RecoveredLink(s.links[l]) = RecoveredLink(c.links[l])

(* A snapshot of a declared cluster against the state the cluster is in.   *)
HeldIsPast ==
    /\ epoch = held.epoch /\ id = held.id
    /\ counters["cluster"] >= held.counters["cluster"]
    /\ coordinator_epoch >= held.coordinator_epoch
    /\ Members(held) \subseteq {r \in Racks : has_rack(r)}
    /\ counters["cluster"] = held.counters["cluster"] =>
          /\ SameDeclarations(held, state_copy)
          /\ held = state_copy \/ ~is_consumable_lifecycle(lifecycle)

HeldInv ==
    held # NoSnapshot =>
        /\ held \in CanonicalState /\ NothingHidden(held)
        /\ held.epoch = 0 => Blank(held)
        /\ held.epoch > 0 => HeldIsPast

(* The engine's invariant while its container can be loaded. *)
Recoverable == SavedInv /\ SavedIsLoadable

SnapshotInv ==
    /\ Recoverable
    /\ ~Declared => Blank(state_copy)
    /\ HeldInv

-----------------------------------------------------------------------------
(***************************************************************************)
(* The engine's steps, as a snapshot sees them.                            *)
(***************************************************************************)
(* The fields of the copy are the variables. *)
LEMMA CopyFields ==
    /\ state_copy.id = id /\ state_copy.epoch = epoch
    /\ state_copy.coordinator_epoch = coordinator_epoch
    /\ state_copy.counters = counters /\ state_copy.topology_epoch = topology_epoch
    /\ state_copy.domain_generations = domain_generations
    /\ state_copy.lifecycle = lifecycle /\ state_copy.readiness_contract = readiness_contract
    /\ state_copy.racks = racks /\ state_copy.links = links /\ state_copy.domains = domains
    /\ state_copy.constraints = constraints
    /\ state_copy.retired_racks = retired_racks /\ state_copy.withdrawn_racks = withdrawn_racks
    /\ state_copy.fenced_authorities = fenced_authorities
    /\ state_copy.unexplained = unexplained
BY Zenon DEF state_copy

(* A copy of a state the engine can be in has its type and hides nothing. *)
LEMMA CopyTyped ==
    ASSUME Recoverable
    PROVE  state_copy \in CanonicalState /\ NothingHidden(state_copy)
<1>1. TypeOK /\ RecordsSound /\ LinksWhole
  BY Zenon DEF Recoverable, SavedInv, IInv
<1>2. state_copy \in CanonicalState
  BY <1>1, Zenon DEF TypeOK, ScalarsTyped, RecordsTyped, ListsTyped, state_copy, CanonicalState
<1>3. NothingHidden(state_copy)
  BY <1>1, CopyFields, Zenon DEF NothingHidden, RecordsSound, LinksWhole
<1> QED BY <1>2, <1>3, Zenon

(* Recovery changes no declaration, clears every claim and moves the       *)
(* coordinator epoch on.                                                   *)
LEMMA RestartKeepsDeclarations ==
    ASSUME IInv, NEW age \in [DomainIds -> Ages], RestartRecovered(age)
    PROVE  /\ Declared /\ id' = id /\ epoch' = epoch
           /\ counters' = counters /\ topology_epoch' = topology_epoch
           /\ domain_generations' = domain_generations
           /\ readiness_contract' = readiness_contract
           /\ retired_racks' = retired_racks
           /\ \A r \in Racks : /\ racks'[r] = RecoveredRack(DurableRack(racks[r]))
                               /\ DurableRack(racks'[r]) = DurableRack(racks[r])
                               /\ racks'[r].membership = racks[r].membership
           /\ \A l \in LinkIds : RecoveredLink(links'[l]) = RecoveredLink(links[l])
<1>0. /\ racks \in [Racks -> RackRecord] /\ links \in [LinkIds -> LinkRecord \cup {NoRecord}]
      /\ CommittedIsDurable /\ Declared /\ RecordsSound
  BY Zenon DEF IInv, TypeOK, RecordsTyped, UndeclaredIsEmpty, RestartRecovered
<1>1. /\ id' = id /\ epoch' = epoch
      /\ counters' = counters /\ topology_epoch' = topology_epoch
      /\ domain_generations' = domain_generations
      /\ readiness_contract' = readiness_contract /\ retired_racks' = retired_racks
      /\ \A r \in Racks : racks'[r] = RecoveredRack(DurableRack(racks[r]))
      /\ \A l \in LinkIds : links'[l] = RecoveredLink(links[l])
  BY <1>0, Zenon DEF CommittedIsDurable, RestartRecovered
<1>2. \A r \in Racks : /\ DurableRack(racks'[r]) = DurableRack(racks[r])
                       /\ racks'[r].membership = racks[r].membership
  BY <1>0, <1>1, RecoveredRackFacts, Zenon DEF RecordsSound
<1>3. ASSUME NEW l \in LinkIds
      PROVE  RecoveredLink(links'[l]) = RecoveredLink(links[l])
  <2> DEFINE x == links[l]
  <2>1. CASE x.generation = 0
    BY <1>1, <2>1, Zenon DEF RecoveredLink, NoRecord
  <2>2. CASE x.generation # 0
    <3>1. x \in LinkRecord
      BY <1>0, <2>2 DEF NoRecord
    <3>2. mark_revalidation_required(mark_revalidation_required(x.evidence))
             = mark_revalidation_required(x.evidence)
      BY <3>1, Zenon DEF mark_revalidation_required, LinkRecord, Evidence
    <3>3. /\ mark_revalidation_required(x.evidence) \in Evidence
      BY <3>1, Zenon DEF mark_revalidation_required, LinkRecord, Evidence
    <3> DEFINE e == mark_revalidation_required(x.evidence)
               y == [x EXCEPT !.reachability = "Unknown", !.evidence = e]
    <3>4. links'[l] = y
      BY <1>1, <2>2, Zenon DEF RecoveredLink
    <3>5. y \in LinkRecord /\ y.generation = x.generation /\ y.evidence = e
      BY <3>1, <3>3, Zenon DEF LinkRecord, Reachabilities
    <3>6. RecoveredLink(y) = [y EXCEPT !.reachability = "Unknown", !.evidence = e]
      BY <2>2, <3>2, <3>5, Zenon DEF RecoveredLink
    <3>7. [y EXCEPT !.reachability = "Unknown", !.evidence = e] = y
      BY <3>1, Zenon DEF LinkRecord
    <3> QED BY <1>1, <3>4, <3>6, <3>7, Zenon
  <2> QED BY <2>1, <2>2, Zenon
<1> QED BY <1>0, <1>1, <1>2, <1>3, Zenon

(* A declared cluster stays declared under its identity and its epoch, and *)
(* every step but a restart advances the cluster generation.               *)
LEMMA DeclaredStep ==
    ASSUME Recoverable, Declared, Next
    PROVE  /\ id' = id /\ epoch' = epoch
           /\ coordinator_epoch' >= coordinator_epoch
           /\ \A r \in Racks : has_rack(r) => has_rack(r)'
           /\ \/ counters'["cluster"] > counters["cluster"]
              \/ \E age \in [DomainIds -> Ages] : RestartRecovered(age)
<1>1. ~RestartFresh
  BY Zenon DEF Recoverable, SavedInv, IInv, CommittedIsDurable, SavedIsLoadable, ContainerLoads,
         RestartFresh
<1>2. IInv' /\ (epoch' > 0 => MovesForward)
  BY InductiveStep, Zenon DEF Recoverable, SavedInv
<1>3. /\ id' = id /\ epoch' = epoch
      /\ \/ counters'["cluster"] > counters["cluster"]
         \/ \E age \in [DomainIds -> Ages] : RestartRecovered(age)
  <2>1. CASE Serve
    BY <2>1, ServeCommits, FenceCommits, Zenon DEF Recoverable, SavedInv, Committed
  <2>2. CASE Restart
    BY <1>1, <2>2, RestartKeepsDeclarations, Zenon DEF Restart, Recoverable, SavedInv
  <2> QED BY <2>1, <2>2, Zenon DEF Next
<1>4. MovesForward
  BY <1>2, <1>3, Zenon DEF Declared
<1>5. ASSUME NEW r \in Racks, has_rack(r)
      PROVE  has_rack(r)'
  <2>1. racks[r].generation \in Int /\ racks'[r].generation \in Int /\ racks[r].generation > 0
    BY <1>2, <1>5, GenerationBound
       DEF Recoverable, SavedInv, IInv, TypeOK, RecordsTyped, RackRecord, RecordsKept, Generations
  <2>2. racks'[r].generation > 0
    BY <1>4, <2>1 DEF MovesForward
  <2> QED BY <1>2, <2>2 DEF IInv, RecordsSound, NoRack, has_rack
<1> QED BY <1>3, <1>4, <1>5, Zenon DEF MovesForward

(* A coordinator without a cluster is as it started, but for the identity  *)
(* that a declaration whose save failed leaves behind.                     *)
LEMMA BlankStep ==
    ASSUME Recoverable, ~Declared => Blank(state_copy), Next
    PROVE  (~Declared => Blank(state_copy))'
<1>0. SUFFICES ASSUME epoch' = 0
               PROVE  Blank(state_copy)'
  <2>1. epoch' \in Nat
    BY InductiveStep, NumbersTyped, Zenon DEF Recoverable, SavedInv, Numbers
  <2> QED BY <2>1, Order, Zenon DEF Declared
<1>1. ~Declared
  BY <1>0, DeclaredStep DEF Declared
<1>2. CASE Serve
  <2>1. PICK q \in ClusterRequests : DeclareCluster(q) \/ DeclareRolledBack(q)
    BY <1>1, <1>2, ServeCommits, FenceCommits, Zenon DEF Recoverable, SavedInv, Committed
  <2>2. ~DeclareCluster(q)
    <3>1. q.authority.cluster_epoch \in Int
      BY RequestAssumption, GenerationBound DEF MutationRequest, Authority, Generations
    <3> QED BY <1>0, <3>1 DEF DeclareCluster
  <2>3. UNCHANGED <<epoch, coordinator_epoch, readiness_contract, counters, lifecycle, racks,
                    links, domains, constraints, topology_epoch, domain_generations,
                    fenced_authorities, unexplained, retired_racks, withdrawn_racks>>
    BY <2>1, <2>2, Zenon DEF DeclareRolledBack, topology, authority_lists
  <2> QED BY <1>1, <2>3, Zenon DEF Blank, state_copy
<1>3. CASE Restart
  <2>1. RestartFresh
    BY <1>1, <1>3, RestartKeepsDeclarations, Zenon DEF Restart, Recoverable, SavedInv
  <2> QED BY <2>1, Zenon DEF RestartFresh, StartFresh, Blank, state_copy
<1> QED BY <1>2, <1>3, Zenon DEF Next

(* A recovered cluster is not consumable: no rack is current and every     *)
(* active one awaits revalidation.                                         *)
LEMMA RecoveredIsNotConsumable ==
    ASSUME IInv, NEW age \in [DomainIds -> Ages], RestartRecovered(age)
    PROVE  ~is_consumable_lifecycle(lifecycle')
<1>1. ASSUME NEW r \in Racks, racks'[r].membership # "Absent"
      PROVE  ~racks'[r].authoritative_current /\ racks'[r].currentness = "RevalidationRequired"
  <2>1. racks'[r] = RecoveredRack(DurableRack(racks[r]))
    BY RestartKeepsDeclarations, Zenon
  <2> QED BY <1>1, <2>1 DEF RecoveredRack, NoRack
<1>2. CurrentRacks' = {}
  BY <1>1, Zenon DEF CurrentRacks, is_current_active, is_active
<1>3. ~Satisfied'
  BY <1>1, Zenon DEF Satisfied, ActiveRacks, AnyRevalidation, needs_revalidation, is_active
<1>4. lifecycle' = evaluate_readiness'
  BY Zenon DEF RestartRecovered
<1> QED BY <1>2, <1>3, <1>4, Zenon DEF evaluate_readiness, is_consumable_lifecycle

-----------------------------------------------------------------------------
(***************************************************************************)
(* The invariant.                                                          *)
(***************************************************************************)
(* A step that changes nothing keeps the container loadable. *)
LEMMA StutterRecoverable ==
    ASSUME Recoverable, UNCHANGED vars
    PROVE  Recoverable'
<1>1. UNCHANGED disk
  BY Zenon DEF vars
<1> QED BY <1>1, StutterSaved, Zenon DEF Recoverable, SavedIsLoadable

(* A snapshot taken now is current. *)
LEMMA TakenIsCurrent ==
    ASSUME SnapshotInv, make_snapshot
    PROVE  SnapshotInv'
<1>1. UNCHANGED <<racks, links, id, epoch, coordinator_epoch, counters, lifecycle, disk>>
  BY Zenon DEF make_snapshot, vars, canonical, scalars
<1>2. Recoverable'
  BY StutterRecoverable, Zenon DEF make_snapshot, SnapshotInv
<1>3. state_copy' = state_copy /\ held' = state_copy
  BY Zenon DEF make_snapshot, state_copy, vars, canonical, scalars
<1>4. held' \in CanonicalState /\ NothingHidden(held')
  BY <1>3, CopyTyped, Zenon DEF SnapshotInv
<1>5. held'.epoch = epoch /\ (~Declared => Blank(held'))
  BY <1>3, CopyFields, Zenon DEF SnapshotInv
<1>6. HeldIsPast'
  <2>1. counters["cluster"] \in Nat /\ coordinator_epoch \in Nat
    BY NumbersTyped, Zenon DEF SnapshotInv, Recoverable, SavedInv, Numbers
  <2>2. /\ held'.epoch = epoch' /\ held'.id = id' /\ held'.counters = counters'
        /\ held'.coordinator_epoch = coordinator_epoch' /\ held'.racks = racks'
    BY <1>1, <1>3, CopyFields, Zenon
  <2> QED BY <1>1, <1>3, <2>1, <2>2 DEF HeldIsPast, Members, has_rack, SameDeclarations
<1>7. held'.epoch = 0 => Blank(held')
  BY <1>5 DEF Declared
<1> QED BY <1>1, <1>2, <1>3, <1>4, <1>6, <1>7, Zenon DEF SnapshotInv, HeldInv, Declared

(* A step of the engine keeps a held snapshot a copy of the past. *)
LEMMA HeldStep ==
    ASSUME SnapshotInv, Next, UNCHANGED held
    PROVE  HeldInv'
<1>0. Recoverable /\ IInv /\ HeldInv
  BY Zenon DEF SnapshotInv, Recoverable, SavedInv
<1>1. SUFFICES ASSUME held # NoSnapshot, held.epoch > 0
               PROVE  HeldIsPast'
  BY <1>0, Zenon DEF HeldInv
<1>2. HeldIsPast /\ held \in CanonicalState
  BY <1>0, <1>1, Zenon DEF HeldInv
<1>3. Declared
  BY <1>1, <1>2, Zenon DEF HeldIsPast, Declared
<1>4. /\ counters["cluster"] \in Nat /\ coordinator_epoch \in Nat
      /\ counters'["cluster"] \in Nat /\ coordinator_epoch' \in Nat
      /\ held.counters["cluster"] \in Nat /\ held.coordinator_epoch \in Nat
  BY <1>0, <1>2, InductiveStep, NumbersTyped, CopyNumbers, Zenon DEF Numbers
<1>5. /\ id' = held.id /\ epoch' = held.epoch /\ coordinator_epoch' >= held.coordinator_epoch
      /\ Members(held) \subseteq {r \in Racks : has_rack(r)}'
  <2>1. /\ id' = id /\ epoch' = epoch /\ coordinator_epoch' >= coordinator_epoch
        /\ \A r \in Racks : has_rack(r) => has_rack(r)'
    BY <1>0, <1>3, DeclaredStep, Zenon
  <2>2. coordinator_epoch' >= held.coordinator_epoch
    BY <1>2, <1>4, <2>1, OrderCarries, Zenon DEF HeldIsPast
  <2> QED BY <1>2, <2>1, <2>2, Zenon DEF HeldIsPast
<1>6. CASE counters'["cluster"] > counters["cluster"]
  <2>1. counters'["cluster"] >= held.counters["cluster"] /\ counters'["cluster"] # held.counters["cluster"]
    BY <1>2, <1>4, <1>6, OrderCarries, Zenon DEF HeldIsPast
  <2> QED BY <1>5, <2>1, Zenon DEF HeldIsPast
<1>7. ASSUME NEW age \in [DomainIds -> Ages], RestartRecovered(age)
      PROVE  HeldIsPast'
  <2>1. counters' = counters /\ ~is_consumable_lifecycle(lifecycle')
    BY <1>0, <1>7, RestartKeepsDeclarations, RecoveredIsNotConsumable, Zenon
  <2>2. SameDeclarations(held, state_copy) => SameDeclarations(held, state_copy')
    <3>1. /\ state_copy'.readiness_contract = readiness_contract'
          /\ state_copy'.racks = racks' /\ state_copy'.links = links'
      BY Zenon DEF state_copy
    <3> QED BY <1>0, <1>7, <3>1, RestartKeepsDeclarations, CopyFields, Zenon DEF SameDeclarations
  <2> QED BY <1>2, <1>5, <2>1, <2>2, Zenon DEF HeldIsPast
<1> QED BY <1>0, <1>3, <1>6, <1>7, DeclaredStep, Zenon

(* The invariant holds of every behaviour of the coordinator and the       *)
(* consumer: a snapshot is a copy of a past state, and as long as the      *)
(* cluster generation has not moved, only observations a restart cleared   *)
(* differ from it.                                                         *)
THEOREM SnapshotInvariant == SnapshotSpec /\ []SavedIsLoadable => []SnapshotInv
<1>1. SnapshotInit => SnapshotInv
  <2>1. Init => Recoverable
    BY InitSaved, Zenon DEF LoadInv, Recoverable
  <2> QED BY <2>1, Zenon DEF SnapshotInit, SnapshotInv, HeldInv, Init, Blank, state_copy
<1>2. SnapshotInv /\ [SnapshotNext]_<<vars, held>> /\ SavedIsLoadable' => SnapshotInv'
  <2>1. ASSUME SnapshotInv, Next, UNCHANGED held, SavedIsLoadable'
        PROVE  SnapshotInv'
    <3>1. Recoverable'
      BY <2>1, SavedStep, Zenon DEF SnapshotInv, Recoverable
    <3>2. (~Declared => Blank(state_copy))'
      BY <2>1, BlankStep, Zenon DEF SnapshotInv
    <3> QED BY <2>1, <3>1, <3>2, HeldStep, Zenon DEF SnapshotInv
  <2>2. ASSUME SnapshotInv, UNCHANGED <<vars, held>>
        PROVE  SnapshotInv'
    <3>1. state_copy' = state_copy
      BY <2>2, Zenon DEF state_copy, vars, canonical, scalars
    <3>2. UNCHANGED <<id, epoch, coordinator_epoch, counters, lifecycle, racks, held>>
      BY <2>2, Zenon DEF vars, canonical, scalars
    <3> QED BY <2>2, <3>1, <3>2, StutterRecoverable, Zenon
            DEF SnapshotInv, HeldInv, HeldIsPast, Declared, has_rack
  <2> QED BY <2>1, <2>2, TakenIsCurrent DEF SnapshotNext
<1> QED BY <1>1, <1>2, PTL DEF SnapshotSpec

(* The hypothesis is met when every request is loadable: the consumer      *)
(* changes nothing the coordinator saves.                                  *)
THEOREM SnapshotLoadable ==
    ASSUME LoadableInputs
    PROVE  SnapshotSpec => []SavedIsLoadable
<1>1. SnapshotInit => LoadInv
  BY InitSaved, Zenon DEF SnapshotInit
<1>2. LoadInv /\ [SnapshotNext]_<<vars, held>> => LoadInv'
  BY LoadStep, StutterLoads, Zenon DEF SnapshotNext, make_snapshot
<1>3. LoadInv => SavedIsLoadable
  BY Zenon DEF LoadInv
<1> QED BY <1>1, <1>2, <1>3, PTL DEF SnapshotSpec

-----------------------------------------------------------------------------
(***************************************************************************)
(* What the validators and the digest may conclude.                        *)
(***************************************************************************)
(* The reasons that make a snapshot stale, without the lifecycle. *)
Stale(b, c) ==
    LET bindings == rebuild_bindings(b) IN
    GenerationReasons(b, c)
        \cup (UNION {RackReasons(bindings[r], r, c) : r \in DOMAIN bindings})
        \cup If("MembershipChanged", ~(Members(c) \subseteq DOMAIN bindings))

(* The verdicts of validate, in terms of those reasons. *)
LEMMA ValidateUnfolded ==
    ASSUME NEW b, NEW c, b # NoSnapshot
    PROVE  /\ validate(b, c).current = (Stale(b, c) = {})
           /\ validate(b, c).consumable
                 = (Stale(b, c) = {} /\ is_consumable_lifecycle(c.lifecycle))
           /\ validate(b, c).reasons
                 = Stale(b, c) \cup If("LifecycleNotConsumable",
                                       ~is_consumable_lifecycle(c.lifecycle))
BY Zenon DEF validate, Stale

(* A snapshot with no reason against it is of this epoch and of this       *)
(* generation.                                                             *)
LEMMA NotStale ==
    ASSUME NEW b, NEW c, Stale(b, c) = {}
    PROVE  /\ b.epoch = c.epoch /\ b.counters["cluster"] = c.counters["cluster"]
           /\ GenerationReasons(b, c) = {}
<1>1. GenerationReasons(b, c) = {}
  BY Zenon DEF Stale
<1>2. EpochReasons(b, c) = {}
  BY <1>1, Zenon DEF GenerationReasons
<1>3. /\ If("ClusterEpochAdvanced", b.epoch # c.epoch) = {}
      /\ If("ClusterGenerationAdvanced", b.counters["cluster"] # c.counters["cluster"]) = {}
  BY <1>2, Zenon DEF EpochReasons
<1> QED BY <1>1, <1>3, Zenon DEF If

(* A snapshot ClusterSnapshot::validate calls consumable is the current    *)
(* state, to the last field, whatever happened since it was taken.         *)
THEOREM SnapshotConsumable == SnapshotSpec /\ []SavedIsLoadable => []ConsumableIsCurrent
<1>1. ASSUME SnapshotInv, held # NoSnapshot, validate(held, state_copy).consumable
      PROVE  held = state_copy
  <2>1. /\ held.epoch = epoch /\ held.counters["cluster"] = counters["cluster"]
        /\ is_consumable_lifecycle(lifecycle)
    BY <1>1, ValidateUnfolded, NotStale, CopyFields, Zenon
  <2>2. Declared
    <3>1. Blank(state_copy) => state_copy.lifecycle = "Declared"
      BY DEF Blank
    <3> QED BY <1>1, <2>1, <3>1, CopyFields, Zenon DEF SnapshotInv, is_consumable_lifecycle
  <2>3. HeldIsPast
    BY <1>1, <2>1, <2>2, Zenon DEF SnapshotInv, HeldInv, Declared
  <2> QED BY <2>1, <2>3, Zenon DEF HeldIsPast
<1>2. SnapshotInv => ConsumableIsCurrent
  BY <1>1, Zenon DEF ConsumableIsCurrent
<1> QED BY <1>2, SnapshotInvariant, PTL

(* Records are equal when their fields are. *)
LEMMA RackFields ==
    ASSUME NEW x \in RackRecord
    PROVE  x = [membership |-> x.membership, membership_generation |-> x.membership_generation,
                authoritative_current |-> x.authoritative_current, currentness |-> x.currentness,
                generation |-> x.generation, publisher |-> x.publisher, boot |-> x.boot,
                publication |-> x.publication, evidence |-> x.evidence,
                composition |-> x.composition, endpoints |-> x.endpoints]
BY Zenon DEF RackRecord

(* A link is the record of its fields. *)
LEMMA LinkFields ==
    ASSUME NEW x \in LinkRecord
    PROVE  x = [generation |-> x.generation, source |-> x.source, destination |-> x.destination,
                domains |-> x.domains, boot |-> x.boot, reachability |-> x.reachability,
                evidence |-> x.evidence, topology_epoch |-> x.topology_epoch,
                topology_generation |-> x.topology_generation]
BY Zenon DEF LinkRecord

(* So is a canonical state. *)
LEMMA StateFields ==
    ASSUME NEW s \in CanonicalState
    PROVE  s = [id |-> s.id, epoch |-> s.epoch, coordinator_epoch |-> s.coordinator_epoch,
                counters |-> s.counters, topology_epoch |-> s.topology_epoch,
                domain_generations |-> s.domain_generations, lifecycle |-> s.lifecycle,
                readiness_contract |-> s.readiness_contract,
                racks |-> s.racks, links |-> s.links, domains |-> s.domains,
                constraints |-> s.constraints,
                retired_racks |-> s.retired_racks, withdrawn_racks |-> s.withdrawn_racks,
                fenced_authorities |-> s.fenced_authorities, unexplained |-> s.unexplained]
BY Zenon DEF CanonicalState

(* The digest and the declarations together determine the state. *)
LEMMA DigestDetermines ==
    ASSUME NEW s \in CanonicalState, NEW c \in CanonicalState,
           NothingHidden(s), NothingHidden(c), SameDeclarations(s, c),
           semantic_digest_of(s) = semantic_digest_of(c)
    PROVE  s = c
<1>1. /\ s.id = c.id /\ s.epoch = c.epoch
      /\ s.coordinator_epoch = c.coordinator_epoch /\ s.counters = c.counters
      /\ s.topology_epoch = c.topology_epoch
      /\ s.domain_generations = c.domain_generations /\ s.lifecycle = c.lifecycle
      /\ [r \in Members(s) |-> RackDigest(s.racks[r])]
            = [r \in Members(c) |-> RackDigest(c.racks[r])]
      /\ [l \in LinkIds |-> LinkDigest(s.links[l])] = [l \in LinkIds |-> LinkDigest(c.links[l])]
      /\ s.domains = c.domains /\ s.constraints = c.constraints
      /\ s.retired_racks = c.retired_racks /\ s.withdrawn_racks = c.withdrawn_racks
      /\ s.fenced_authorities = c.fenced_authorities /\ s.unexplained = c.unexplained
  BY Zenon DEF semantic_digest_of, RecordsDigest
<1>2. ASSUME NEW r \in Racks
      PROVE  s.racks[r] = c.racks[r]
  <2> DEFINE x == s.racks[r]
             y == c.racks[r]
  <2>1. x \in RackRecord /\ y \in RackRecord /\ DurableRack(x) = DurableRack(y)
    BY Zenon DEF CanonicalState, SameDeclarations
  <2>2. /\ x.membership = y.membership /\ x.membership_generation = y.membership_generation
        /\ x.generation = y.generation /\ x.publisher = y.publisher /\ x.boot = y.boot
        /\ x.publication = y.publication /\ x.composition = y.composition
        /\ x.endpoints = y.endpoints
    BY <2>1, Zenon DEF DurableRack
  <2>3. CASE x.membership = "Absent"
    BY <2>2, <2>3, Zenon DEF NothingHidden
  <2>4. CASE x.membership # "Absent"
    <3>1. RackDigest(x) = RackDigest(y)
      BY <1>1, <2>2, <2>4, Zenon DEF Members
    <3>2. /\ x.currentness = y.currentness /\ x.evidence = y.evidence
          /\ x.authoritative_current = y.authoritative_current
      BY <3>1, Zenon DEF RackDigest
    <3> HIDE DEF x, y
    <3>3. x = y
      BY <2>1, <2>2, <3>2, RackFields, Zenon
    <3> QED BY <3>3, Zenon DEF x, y
  <2> QED BY <2>3, <2>4, Zenon
<1>3. ASSUME NEW l \in LinkIds
      PROVE  s.links[l] = c.links[l]
  <2> DEFINE x == s.links[l]
             y == c.links[l]
  <2>1. /\ x \in LinkRecord \cup {NoRecord} /\ y \in LinkRecord \cup {NoRecord}
        /\ RecoveredLink(x) = RecoveredLink(y) /\ LinkDigest(x) = LinkDigest(y)
        /\ x = NoRecord \/ x.generation > 0
        /\ y = NoRecord \/ y.generation > 0
    BY <1>1, Zenon DEF CanonicalState, SameDeclarations, NothingHidden
  <2> HIDE DEF x, y
  <2>2. CASE x = NoRecord
    <3>1. LinkDigest(x) = NoRecord
      BY <2>2, Zenon DEF LinkDigest, NoRecord
    <3>2. y.generation = 0
      <4>1. CASE y.generation # 0
        <5>1. LinkDigest(y).generation = y.generation
          BY <4>1, Zenon DEF LinkDigest
        <5> QED BY <2>1, <3>1, <4>1, <5>1 DEF NoRecord
      <4> QED BY <4>1, Zenon
    <3> QED BY <2>1, <2>2, <3>2 DEF x, y
  <2>3. CASE x # NoRecord
    <3>1. x \in LinkRecord /\ x.generation # 0
      BY <2>1, <2>3
    <3>2. /\ LinkDigest(x).generation = x.generation
          /\ LinkDigest(x).reachability = x.reachability
          /\ LinkDigest(x).evidence = x.evidence
      BY <3>1, Zenon DEF LinkDigest
    <3>3. y.generation # 0
      BY <2>1, <3>1, <3>2, Zenon DEF LinkDigest, NoRecord
    <3>4. y \in LinkRecord
      BY <2>1, <3>3 DEF NoRecord
    <3>5. x.reachability = y.reachability /\ x.evidence = y.evidence
      BY <2>1, <3>2, <3>3 DEF LinkDigest
    <3>6. /\ x.generation = y.generation /\ x.source = y.source
          /\ x.destination = y.destination /\ x.domains = y.domains /\ x.boot = y.boot
          /\ x.topology_epoch = y.topology_epoch
          /\ x.topology_generation = y.topology_generation
      <4> DEFINE Kept(z) == [z EXCEPT !.reachability = "Unknown",
                                      !.evidence = mark_revalidation_required(z.evidence)]
      <4>1. Kept(x) = Kept(y)
        BY <2>1, <3>1, <3>3 DEF RecoveredLink
      <4>2. ASSUME NEW z \in LinkRecord
            PROVE  /\ Kept(z).generation = z.generation /\ Kept(z).source = z.source
                   /\ Kept(z).destination = z.destination /\ Kept(z).domains = z.domains
                   /\ Kept(z).boot = z.boot /\ Kept(z).topology_epoch = z.topology_epoch
                   /\ Kept(z).topology_generation = z.topology_generation
        BY Zenon DEF LinkRecord
      <4> HIDE DEF Kept
      <4> QED BY <3>1, <3>4, <4>1, <4>2
    <3>7. x = y
      BY <3>1, <3>4, <3>5, <3>6, LinkFields, Zenon
    <3> QED BY <3>7, Zenon DEF x, y
  <2> QED BY <2>2, <2>3, Zenon
<1>4. s.racks = c.racks /\ s.links = c.links
  BY <1>2, <1>3 DEF CanonicalState
<1> QED BY <1>1, <1>4, StateFields, Zenon DEF SameDeclarations

(* Two coordinators without a cluster differ in the identity at most. *)
LEMMA BlankSame ==
    ASSUME NEW s, NEW c, Blank(s), Blank(c), s.id = c.id
    PROVE  s = c
BY Zenon DEF Blank

(* Two states that differ have different digests (semantic_digest_of),     *)
(* though the digest leaves fields out: what it leaves out only changes    *)
(* with a generation it renders.                                           *)
THEOREM SnapshotDigest == SnapshotSpec /\ []SavedIsLoadable => []DigestTellsStatesApart
<1>1. ASSUME SnapshotInv, held # NoSnapshot,
             semantic_digest_of(held) = semantic_digest_of(state_copy)
      PROVE  held = state_copy
  <2>0. /\ Recoverable /\ held \in CanonicalState /\ NothingHidden(held)
        /\ state_copy \in CanonicalState /\ NothingHidden(state_copy)
    BY <1>1, CopyTyped, Zenon DEF SnapshotInv, HeldInv
  <2>1. /\ held.id = state_copy.id /\ held.epoch = state_copy.epoch
        /\ held.counters = state_copy.counters
    BY <1>1, Zenon DEF semantic_digest_of
  <2>2. held.epoch = epoch /\ held.counters = counters
    BY <2>1, CopyFields, Zenon
  <2>3. CASE epoch = 0
    BY <1>1, <2>1, <2>2, <2>3, BlankSame DEF SnapshotInv, HeldInv, Declared
  <2>4. CASE epoch # 0
    <3>1. held.epoch > 0
      BY <2>0, <2>2, <2>4, CopyNumbers, Order, Zenon
    <3>2. SameDeclarations(held, state_copy)
      BY <1>1, <2>2, <3>1, Zenon DEF SnapshotInv, HeldInv, HeldIsPast
    <3> QED BY <1>1, <2>0, <3>2, DigestDetermines
  <2> QED BY <2>3, <2>4, Zenon
<1>2. SnapshotInv => DigestTellsStatesApart
  BY <1>1, Zenon DEF DigestTellsStatesApart
<1> QED BY <1>2, SnapshotInvariant, PTL

-----------------------------------------------------------------------------
(***************************************************************************)
(* The two validators.                                                     *)
(***************************************************************************)
(* No rack a snapshot binds has left canonical state. *)
LEMMA HeldMembersRemain ==
    ASSUME SnapshotInv, held # NoSnapshot
    PROVE  Members(held) \subseteq Members(state_copy)
<1>1. held \in CanonicalState
  BY Zenon DEF SnapshotInv, HeldInv
<1>2. CASE held.epoch = 0
  <2>1. Blank(held)
    BY <1>2, Zenon DEF SnapshotInv, HeldInv
  <2>2. held.racks = [r \in Racks |-> NoRack]
    BY <2>1 DEF Blank
  <2> QED BY <2>2 DEF Members, NoRack
<1>3. CASE held.epoch # 0
  <2>1. held.epoch > 0
    BY <1>1, <1>3, CopyNumbers, Order, Zenon
  <2> QED BY <2>1, CopyFields DEF SnapshotInv, HeldInv, HeldIsPast, Members, has_rack
<1> QED BY <1>2, <1>3, Zenon

(* The view carries what the validation of the snapshot reads. *)
LEMMA ViewFields ==
    ASSUME NEW b, b # NoSnapshot
    PROVE  LET v == from_snapshot(b) IN
           /\ v.cluster = b.id /\ v.cluster_epoch = b.epoch
           /\ v.coordinator_epoch = b.coordinator_epoch /\ v.counters = b.counters
           /\ v.topology_epoch = b.topology_epoch
           /\ v.domain_generations = b.domain_generations
           /\ v.rack_bindings = rebuild_bindings(b)
BY Zenon DEF from_snapshot

(* Where no rack has left, comparing the numbers of racks adds nothing to  *)
(* looking for added ones.                                                 *)
LEMMA CountAddsNothing ==
    ASSUME NEW b, NEW c, b # NoSnapshot, Members(b) \subseteq Members(c)
    PROVE  Stale(b, c) = ViewGenerationReasons(from_snapshot(b), c)
                           \cup (UNION {ViewRackReasons(from_snapshot(b), r, c) :
                                          r \in DOMAIN from_snapshot(b).rack_bindings})
                           \cup If("MembershipChanged", AddedRacks(from_snapshot(b), c) # {})
<1> DEFINE v == from_snapshot(b)
           E == EpochReasons(b, c)
           Adv(k) == b.counters[k] # c.counters[k]
           Count == Cardinality(Members(b)) # Cardinality(Members(c))
           T == IF b.topology_epoch # c.topology_epoch THEN {"TopologyEpochSuperseded"}
                ELSE If("TopologyGenerationAdvanced", Adv("topology"))
           D == DomainReasons(b.domain_generations, c.domain_generations)
           C == If("ConnectivitySuperseded", Adv("connectivity"))
           H == If("HealthSuperseded", Adv("health"))
           R == UNION {RackReasons(rebuild_bindings(b)[r], r, c) : r \in Members(b)}
           A == If("MembershipChanged", ~(Members(c) \subseteq Members(b)))
           M == If("MembershipChanged", Adv("membership"))
<1>0. DOMAIN rebuild_bindings(b) = Members(b)
  BY Zenon DEF rebuild_bindings
<1>1. GenerationReasons(b, c)
         = E \cup If("MembershipChanged", Adv("membership") \/ Count) \cup T \cup D \cup C \cup H
  BY Zenon DEF GenerationReasons
<1>2. ViewGenerationReasons(v, c) = E \cup M \cup T \cup D \cup C \cup H
  BY ViewFields DEF ViewGenerationReasons, EpochReasons
<1>3. (UNION {ViewRackReasons(v, r, c) : r \in DOMAIN v.rack_bindings}) = R
  <2>1. \A r : ViewRackReasons(v, r, c) = RackReasons(rebuild_bindings(b)[r], r, c)
    BY ViewFields, Zenon DEF ViewRackReasons, RackReasons
  <2> QED BY <1>0, <2>1, ViewFields, Zenon
<1>4. If("MembershipChanged", AddedRacks(v, c) # {}) = A
  <2>1. (AddedRacks(v, c) # {}) = ~(Members(c) \subseteq Members(b))
    BY <1>0, ViewFields, Zenon DEF AddedRacks
  <2> QED BY <2>1, Zenon
<1>5. If("MembershipChanged", Adv("membership") \/ Count) \cup A = M \cup A
  <2>1. Count => ~(Members(c) \subseteq Members(b))
    <3>1. Members(c) \subseteq Members(b) => Members(b) = Members(c)
      BY Zenon
    <3> QED BY <3>1, Zenon
  <2> HIDE DEF Count, Adv
  <2> QED BY <2>1, Zenon DEF If
<1>6. Stale(b, c) = GenerationReasons(b, c) \cup R \cup A
  <2> DEFINE f == rebuild_bindings(b)
             Dom == DOMAIN f
  <2>1. Stale(b, c) = GenerationReasons(b, c)
                        \cup (UNION {RackReasons(f[r], r, c) : r \in Dom})
                        \cup If("MembershipChanged", ~(Members(c) \subseteq Dom))
    BY Zenon DEF Stale
  <2>2. Dom = Members(b)
    BY <1>0, Zenon
  <2> HIDE DEF Dom
  <2> QED BY <2>1, <2>2, Zenon
<1> HIDE DEF v, E, T, D, C, H, R, A, M, Adv, Count
<1>7. Stale(b, c) = ViewGenerationReasons(v, c) \cup R \cup A
  <2> DEFINE W == E \cup T \cup D \cup C \cup H
             X == If("MembershipChanged", Adv("membership") \/ Count)
  <2>1. GenerationReasons(b, c) = W \cup X /\ ViewGenerationReasons(v, c) = W \cup M
    BY <1>1, <1>2, Zenon
  <2>2. X \cup A = M \cup A
    BY <1>5, Zenon
  <2> HIDE DEF W, X
  <2> QED BY <1>6, <2>1, <2>2, Zenon
<1> QED BY <1>3, <1>4, <1>7 DEF v

(* The in-process validation and validate_view, which answers a peer, give *)
(* the same reasons and the same leave to consume.                         *)
THEOREM SnapshotValidators == SnapshotSpec /\ []SavedIsLoadable => []ValidatorsAgree
<1>1. ASSUME SnapshotInv, held # NoSnapshot
      PROVE  LET local == validate(held, state_copy)
                 wire == validate_view(from_snapshot(held), state_copy)
             IN  local.reasons = wire.reasons /\ local.consumable = wire.consumable
  <2> DEFINE c == state_copy
             v == from_snapshot(held)
             usable == is_consumable_lifecycle(c.lifecycle)
             L == If("LifecycleNotConsumable", ~usable)
             S == Stale(held, c)
  <2>1. S = ViewGenerationReasons(v, c)
              \cup (UNION {ViewRackReasons(v, r, c) : r \in DOMAIN v.rack_bindings})
              \cup If("MembershipChanged", AddedRacks(v, c) # {})
    BY <1>1, HeldMembersRemain, CountAddsNothing
  <2>2. /\ validate_view(v, c).reasons = S \cup L
        /\ validate_view(v, c).consumable = (S \cup L = {} /\ usable)
    <3> HIDE DEF S, v, c, usable
    <3> DEFINE W == ViewGenerationReasons(v, c)
                      \cup (UNION {ViewRackReasons(v, r, c) : r \in DOMAIN v.rack_bindings})
                      \cup If("MembershipChanged", AddedRacks(v, c) # {})
    <3>1. validate_view(v, c) = [reasons |-> W \cup L, current |-> W \cup L = {},
                                 consumable |-> W \cup L = {} /\ usable]
      BY Zenon DEF validate_view, usable
    <3>2. W = S
      BY <2>1, Zenon
    <3> HIDE DEF W, L
    <3> QED BY <3>1, <3>2
  <2>3. usable => L = {}
    BY Zenon DEF If
  <2>4. validate(held, c).reasons = S \cup L /\ validate(held, c).consumable = (S = {} /\ usable)
    BY <1>1, ValidateUnfolded, Zenon
  <2> HIDE DEF S, L, usable, v, c
  <2>5. (S \cup L = {} /\ usable) = (S = {} /\ usable)
    BY <2>3, Zenon
  <2> QED BY <2>2, <2>4, <2>5, Zenon DEF v, c
<1>2. SnapshotInv => ValidatorsAgree
  BY <1>1, Zenon DEF ValidatorsAgree
<1> QED BY <1>2, SnapshotInvariant, PTL

-----------------------------------------------------------------------------
(***************************************************************************)
(* A stale snapshot stays stale.                                           *)
(***************************************************************************)
(* A rack that awaits revalidation is a reason against any snapshot that   *)
(* binds it.                                                               *)
LEMMA RevalidationIsAReason ==
    ASSUME NEW b, NEW c, NEW r \in Members(b), r \in Members(c),
           c.racks[r].currentness = "RevalidationRequired"
    PROVE  Stale(b, c) # {}
<1> DEFINE x == rebuild_bindings(b)[r]
<1>1. "RackRetired" \in RackReasons(x, r, c) \/ "RackRevalidationRequired" \in RackReasons(x, r, c)
  <2> HIDE DEF x
  <2> QED BY Zenon DEF RackReasons, If
<1>2. r \in DOMAIN rebuild_bindings(b)
  BY Zenon DEF rebuild_bindings
<1>3. RackReasons(x, r, c) \subseteq Stale(b, c)
  BY <1>2, Zenon DEF Stale
<1> QED BY <1>1, <1>3, Zenon

(* When no rack is bound or recorded, only the counters and epochs count. *)
LEMMA EmptyStale ==
    ASSUME NEW b, NEW c, Members(b) = {}, Members(c) = {}
    PROVE  Stale(b, c) = GenerationReasons(b, c)
<1>1. DOMAIN rebuild_bindings(b) = {}
  BY Zenon DEF rebuild_bindings
<1> QED BY <1>1, Zenon DEF Stale, If

(* Recovery takes no reason away. *)
LEMMA RestartKeepsStale ==
    ASSUME SnapshotInv, held # NoSnapshot, HeldIsPast, Stale(held, state_copy) # {},
           NEW age \in [DomainIds -> Ages], RestartRecovered(age)
    PROVE  Stale(held, state_copy') # {}
<1> DEFINE c == state_copy
           d == state_copy'
<1>0. IInv /\ Recoverable /\ held \in CanonicalState
  BY Zenon DEF SnapshotInv, Recoverable, SavedInv, HeldInv
<1>1. SUFFICES ASSUME Stale(held, d) = {}
               PROVE  FALSE
  BY Zenon
<1>2. /\ d.id = c.id /\ d.epoch = c.epoch /\ d.counters = c.counters
      /\ d.topology_epoch = c.topology_epoch
      /\ d.domain_generations = c.domain_generations
      /\ d.coordinator_epoch = coordinator_epoch' /\ d.racks = racks'
  BY <1>0, RestartKeepsDeclarations, Zenon DEF state_copy
<1>3. Members(d) = Members(c)
  BY <1>0, <1>2, RestartKeepsDeclarations, CopyFields, Zenon DEF Members
<1>4. Members(held) = {}
  <2>1. ASSUME NEW r \in Members(held)
        PROVE  FALSE
    <3>1. r \in Racks /\ r \in Members(d)
      BY <1>3, HeldMembersRemain, Zenon DEF Members
    <3>2. racks'[r].currentness = "RevalidationRequired"
      <4>1. racks'[r] = RecoveredRack(DurableRack(racks[r])) /\ racks'[r].membership # "Absent"
        BY <1>0, <1>2, <3>1, RestartKeepsDeclarations, Zenon DEF Members
      <4> QED BY <4>1 DEF RecoveredRack, NoRack
    <3> QED BY <1>1, <1>2, <3>1, <3>2, RevalidationIsAReason, Zenon
  <2> QED BY <2>1, Zenon
<1>5. Members(d) = {}
  <2>1. If("MembershipChanged", ~(Members(d) \subseteq DOMAIN rebuild_bindings(held))) = {}
    BY <1>1, Zenon DEF Stale
  <2> QED BY <1>4, <2>1, Zenon DEF If, rebuild_bindings
<1>6. GenerationReasons(held, d) = {}
  BY <1>1, NotStale, Zenon
<1>7. held.coordinator_epoch = d.coordinator_epoch
  <2>1. EpochReasons(held, d) = {}
    BY <1>6, Zenon DEF GenerationReasons
  <2>2. If("CoordinatorEpochAdvanced", held.coordinator_epoch # d.coordinator_epoch) = {}
    BY <2>1, Zenon DEF EpochReasons
  <2> QED BY <2>2, Zenon DEF If
<1>8. d.coordinator_epoch = c.coordinator_epoch
  <2>1. /\ coordinator_epoch \in Nat /\ coordinator_epoch' \in Nat
        /\ coordinator_epoch' >= coordinator_epoch
    <3>1. Declared /\ Next
      BY <1>0, RestartKeepsDeclarations, Zenon DEF Next, Restart
    <3> QED BY <1>0, <3>1, DeclaredStep, InductiveStep, NumbersTyped, Zenon DEF Numbers
  <2>2. coordinator_epoch >= held.coordinator_epoch /\ held.coordinator_epoch = coordinator_epoch'
    BY <1>2, <1>7, Zenon DEF HeldIsPast
  <2>3. coordinator_epoch' = coordinator_epoch
    BY <2>1, <2>2, Order, Zenon
  <2> QED BY <1>2, <2>3, CopyFields, Zenon
<1> HIDE DEF c, d
<1>9. GenerationReasons(held, c) = GenerationReasons(held, d)
  BY <1>2, <1>3, <1>8 DEF GenerationReasons, EpochReasons, DomainReasons
<1>10. Stale(held, c) = {}
  BY <1>3, <1>4, <1>5, <1>6, <1>9, EmptyStale, Zenon
<1> QED BY <1>10, Zenon DEF c

(* While the cluster stays declared no commit, fence or restart makes a    *)
(* stale snapshot current again (ClusterSnapshot::validate).               *)
THEOREM SnapshotStaysStale == SnapshotSpec /\ []SavedIsLoadable => StaleStaysStale
<1>1. ASSUME SnapshotInv, [SnapshotNext]_<<vars, held>>, held # NoSnapshot, held' = held,
             Declared, epoch' > 0, ~validate(held, state_copy).current
      PROVE  ~validate(held, state_copy').current
  <2>0. Recoverable /\ HeldInv /\ held \in CanonicalState
    BY <1>1, Zenon DEF SnapshotInv, HeldInv
  <2>1. Stale(held, state_copy) # {}
    BY <1>1, ValidateUnfolded, Zenon
  <2>2. SUFFICES Stale(held, state_copy') # {}
    BY <1>1, ValidateUnfolded, Zenon
  <2>3. CASE UNCHANGED vars
    <3>1. state_copy' = state_copy
      BY <2>3, Zenon DEF state_copy, vars, canonical, scalars
    <3> QED BY <2>1, <3>1, Zenon
  <2>4. CASE Next
    <3>1. state_copy'.epoch = epoch' /\ state_copy'.counters = counters'
      BY Zenon DEF state_copy
    <3>2. CASE held.epoch = 0
      BY <1>1, <3>1, <3>2, NotStale
    <3>3. CASE held.epoch # 0
      <4>1. HeldIsPast
        BY <1>1, <2>0, <3>3, CopyNumbers, Order, Zenon DEF HeldInv
      <4>2. CASE counters'["cluster"] > counters["cluster"]
        <5>1. /\ counters["cluster"] \in Nat /\ counters'["cluster"] \in Nat
              /\ held.counters["cluster"] \in Nat
          BY <2>0, <2>4, InductiveStep, NumbersTyped, CopyNumbers, Zenon
             DEF Recoverable, SavedInv, Numbers
        <5>2. held.counters["cluster"] # counters'["cluster"]
          BY <4>1, <4>2, <5>1, OrderCarries, Zenon DEF HeldIsPast
        <5> QED BY <3>1, <5>2, NotStale, Zenon
      <4>3. ASSUME NEW age \in [DomainIds -> Ages], RestartRecovered(age)
            PROVE  Stale(held, state_copy') # {}
        BY <1>1, <2>1, <4>1, <4>3, RestartKeepsStale, Zenon
      <4> QED BY <1>1, <2>0, <2>4, <4>2, <4>3, DeclaredStep, Zenon
    <3> QED BY <3>2, <3>3, Zenon
  <2> QED BY <1>1, <2>3, <2>4, Zenon DEF SnapshotNext, make_snapshot
<1>2. SnapshotInv /\ [SnapshotNext]_<<vars, held>> =>
         [/\ held # NoSnapshot /\ held' = held
          /\ Declared /\ epoch' > 0
          /\ ~validate(held, state_copy).current
          => ~validate(held, state_copy').current]_<<vars, held>>
  BY <1>1, Zenon
<1> QED BY <1>2, SnapshotInvariant, PTL DEF SnapshotSpec, StaleStaysStale

(* So, when the requests are loadable ones, every property of snapshots    *)
(* holds of the coordinator and its consumer without further hypotheses.   *)
COROLLARY SnapshotsAreSound ==
    ASSUME LoadableInputs
    PROVE  SnapshotSpec => /\ [](ConsumableIsCurrent /\ DigestTellsStatesApart
                                 /\ ValidatorsAgree)
                           /\ StaleStaysStale
BY SnapshotLoadable, SnapshotConsumable, SnapshotDigest, SnapshotValidators,
   SnapshotStaysStale, PTL

-----------------------------------------------------------------------------
(***************************************************************************)
(* Queries.  The answers are computed from indexes another reader may have *)
(* built; they are those of the records, because every step that changes a *)
(* record advances the cluster generation and touches the state.           *)
(***************************************************************************)

(* A served step that leaves the counters alone leaves the records alone:  *)
(* it is a declaration, of a cluster with none.                            *)
LEMMA UncountedKeepsRecords ==
    ASSUME IInv, Serve, counters' = counters
    PROVE  UNCHANGED <<racks, links, domains>>
<1>1. counters["cluster"] \in Int
  BY GenerationBound DEF IInv, TypeOK, ScalarsTyped, Generations, Counters
<1>2. ~Committed
  BY <1>1 DEF Committed
<1>3. ~\E b \in Boots, why \in FenceReasons : Fence(b, why)
  BY <1>1, FenceCommits
<1> QED BY <1>2, <1>3, ServeCommits, Zenon DEF DeclareCluster, DeclareRolledBack, topology

(* The indexes a reader finds valid are those of the records as they are.  *)
IndexesFresh == indexes # NoIndexes => indexes = rebuild

(* What is inductive over the steps of Queries. *)
QueryInv == IInv /\ RecordsKept /\ IndexesFresh

(* rebuild reads racks, links and domains only. *)
LEMMA RebuildSame ==
    ASSUME UNCHANGED <<racks, links, domains>>
    PROVE  rebuild' = rebuild
BY Zenon DEF rebuild, HasDomain, HasLink, has_rack, DomainsOf

(* Every step of the engine or of a reader keeps all three. *)
LEMMA QueryInvariantStep ==
    ASSUME QueryInv, [QueryNext]_<<vars, indexes>>
    PROVE  QueryInv'
<1>1. IInv' /\ RecordsKept'
  <2>1. [Next]_vars
    BY Zenon DEF QueryNext, Next, with_state
  <2>2. UNCHANGED vars => RecordsKept'
    BY Zenon DEF QueryInv, RecordsKept, vars, canonical, scalars, has_rack, HasLink, HasDomain,
           requires_revalidation
  <2> QED BY <2>1, <2>2, KeptStep, StutterServed, Zenon DEF QueryInv
<1>2. IndexesFresh'
  <2>1. CASE Serve /\ IF counters' = counters THEN UNCHANGED indexes ELSE touch_state
    BY <2>1, UncountedKeepsRecords, RebuildSame, Zenon DEF QueryInv, IndexesFresh, touch_state
  <2>2. CASE Restart /\ touch_state
    BY <2>2, Zenon DEF IndexesFresh, touch_state
  <2>3. CASE with_state \/ UNCHANGED <<vars, indexes>>
    <3>1. UNCHANGED <<racks, links, domains>>
      BY <2>3, Zenon DEF with_state, vars, canonical, scalars
    <3> QED BY <2>3, <3>1, RebuildSame, Zenon DEF QueryInv, IndexesFresh, with_state
  <2> QED BY <2>1, <2>2, <2>3, Zenon DEF QueryNext
<1> QED BY <1>1, <1>2, Zenon DEF QueryInv

(* Whenever a reader comes between commits, fences and restarts, the       *)
(* indexes it is given are those rebuild would make of the records now     *)
(* (with_state, touch_state).                                              *)
THEOREM QueryInvariant == QuerySpec => []QueryInv
<1>1. QueryInit => QueryInv
  BY InitInvariant, UndeclaredKeeps DEF QueryInit, QueryInv, IndexesFresh, Init, Declared
<1>2. QueryInv /\ [QueryNext]_<<vars, indexes>> => QueryInv'
  BY QueryInvariantStep, Zenon
<1> QED BY <1>1, <1>2, PTL DEF QuerySpec

(* reachability_between claims "reachable" or "unreachable" only on a link *)
(* of the topology epoch in force between two members.                     *)
THEOREM ReachabilityEvidenced == QuerySpec => []ReachabilityIsEvidenced
<1>1. ASSUME QueryInv
      PROVE  ReachabilityIsEvidenced
  <2> SUFFICES ASSUME NEW s \in Racks, NEW d \in Racks,
                      reachability_between(s, d) \in {"Reachable", "Unreachable"}
               PROVE  /\ is_rack_member(s) /\ is_rack_member(d)
                      /\ \E l \in LinkIds :
                            /\ Forward(l, s, d)
                            /\ links[l].topology_epoch = topology_epoch
                            /\ is_current(links[l].evidence)
                            /\ links[l].reachability = reachability_between(s, d)
                      /\ reachability_between(s, d) = "Unreachable" =>
                            \A l \in LinkIds : Forward(l, s, d) /\ is_current(links[l].evidence)
                                                  => links[l].reachability # "Reachable"
    BY Zenon DEF ReachabilityIsEvidenced
  <2>1. PICK l \in LinkIds : /\ Forward(l, s, d) /\ is_current(links[l].evidence)
                             /\ links[l].reachability = reachability_between(s, d)
    BY Zenon DEF reachability_between
  <2>2. HasLink(l) /\ {links[l].source, links[l].destination} = {s, d}
    BY <2>1 DEF Forward
  <2>3. links[l].topology_epoch = topology_epoch
    BY <1>1, <2>1, <2>2 DEF QueryInv, IInv, LinkClaimsAreOfThisEpoch, HasLink
  <2>4. is_rack_member(s) /\ is_rack_member(d)
    BY <1>1, <2>2, Zenon DEF QueryInv, IInv, ReferencesResolve, HasLink, is_rack_member
  <2>5. ASSUME NEW k \in LinkIds, Forward(k, s, d), is_current(links[k].evidence),
               links[k].reachability = "Reachable"
        PROVE  reachability_between(s, d) = "Reachable"
    <3>1. ~requires_revalidation(links[k].evidence)
      BY <2>5, Zenon DEF is_current, requires_revalidation
    <3>2. has_rack(s) /\ has_rack(d)
      BY <2>4, Zenon DEF is_rack_member, has_rack
    <3> QED BY <2>5, <3>1, <3>2, Zenon DEF reachability_between
  <2> QED BY <2>1, <2>3, <2>4, <2>5, Zenon
<1> QED BY <1>1, QueryInvariant, PTL

(* failure_domain_independence answers from current domains only, and says *)
(* when one awaits revalidation, whichever reader built the indexes.       *)
THEOREM IndependenceEvidenced == QuerySpec => []IndependenceIsEvidenced
<1>1. ASSUME QueryInv
      PROVE  IndependenceIsEvidenced
  <2> SUFFICES ASSUME indexes # NoIndexes,
                      NEW lhs \in Racks, NEW rhs \in Racks, NEW k \in Classes \ {UnknownClass}
               PROVE  LET answer == failure_domain_independence(indexes, lhs, rhs, k)
                          Of(r) == {d \in DomainsOf("failure") :
                                       r \in domains[d].racks /\ domains[d].klass = k}
                          Current(r) == {d \in Of(r) : domain_is_current(d)}
                      IN  /\ answer = failure_domain_independence(indexes, rhs, lhs, k)
                          /\ answer = "Shared" <=> Current(lhs) \cap Current(rhs) # {}
                          /\ answer = "RevalidationRequired" <=>
                                /\ answer # "Shared" /\ has_rack(lhs) /\ has_rack(rhs)
                                /\ \E d \in Of(lhs) \cup Of(rhs) : domain_needs_revalidation(d)
                          /\ answer = "Independent" => Current(lhs) # {} /\ Current(rhs) # {}
    BY Zenon DEF IndependenceIsEvidenced
  <2> DEFINE Of(r) == {d \in DomainsOf("failure") :
                          r \in domains[d].racks /\ domains[d].klass = k}
             Current(r) == {d \in Of(r) : domain_is_current(d)}
  <2>1. indexes = rebuild
    BY <1>1 DEF QueryInv, IndexesFresh
  <2>2. \A r \in Racks : indexes.domains_of["failure"][r]
                            = {d \in DomainsOf("failure") : r \in domains[d].racks}
    BY <2>1, RebuiltDomains, Zenon
  <2>3. \A d \in DomainsOf("failure") : HasDomain(d) /\ d \in DomainIds
    BY Zenon DEF DomainsOf
  <2>4. \A d \in DomainIds : domain_is_current(d) => ~domain_needs_revalidation(d)
    BY Zenon DEF domain_is_current, domain_needs_revalidation, is_current, requires_revalidation
  <2>5. \A r \in Racks : {d \in indexes.domains_of["failure"][r] :
                             HasDomain(d) /\ domains[d].klass = k} = Of(r)
    BY <2>2, <2>3, Zenon
  <2>6. \A r \in Racks : ~has_rack(r) => Of(r) = {}
    <3>1. \A d \in DomainIds : HasDomain(d) => \A r \in domains[d].racks : has_rack(r)
      BY <1>1 DEF QueryInv, IInv, ReferencesResolve, HasDomain, has_rack
    <3> QED BY <2>3, <3>1
  <2> DEFINE Answer(x, y) ==
         IF ~has_rack(x) \/ ~has_rack(y) THEN "Unknown"
         ELSE IF Current(x) \cap Current(y) # {} THEN "Shared"
         ELSE IF \E d \in Of(x) \cup Of(y) : domain_needs_revalidation(d)
              THEN "RevalidationRequired"
         ELSE IF Current(x) # {} /\ Current(y) # {} THEN "Independent"
         ELSE "Unknown"
  <2>7. ASSUME NEW x \in Racks, NEW y \in Racks
        PROVE  failure_domain_independence(indexes, x, y, k) = Answer(x, y)
    <3> DEFINE seen == Of(x) \cup Of(y)
               current == {d \in seen : ~domain_needs_revalidation(d) /\ domain_is_current(d)}
    <3>1. (\E d \in current : {x, y} \subseteq domains[d].racks)
             <=> Current(x) \cap Current(y) # {}
      BY <2>3, <2>4, Zenon
    <3>2. (\E d \in current : x \in domains[d].racks) <=> Current(x) # {}
      BY <2>3, <2>4, Zenon
    <3>3. (\E d \in current : y \in domains[d].racks) <=> Current(y) # {}
      BY <2>3, <2>4, Zenon
    <3>4. k # UnknownClass
      BY Zenon
    <3> QED BY <2>5, <3>1, <3>2, <3>3, <3>4, Zenon DEF failure_domain_independence
  <2> QED BY <2>6, <2>7
<1> QED BY <1>1, QueryInvariant, PTL

(* ClusterCoordinator::invariants finds nothing wrong, between any two     *)
(* steps and with the indexes any reader built: a fence and a recovery     *)
(* leave records that would pass the gate neither of them runs.            *)
THEOREM SelfCheckPasses == QuerySpec => []SelfCheckHolds
<1>1. ASSUME QueryInv, Declared, indexes # NoIndexes
      PROVE  invariants(indexes)
  <2>1. CountersConsistent(counters) /\ RecordsConsistent
    BY <1>1, KeptPassGate, Zenon DEF QueryInv
  <2>2. indexes = rebuild
    BY <1>1, Zenon DEF QueryInv, IndexesFresh
  <2>3. racks \in [Racks -> RackRecord] /\ links \in [LinkIds -> LinkRecord \cup {NoRecord}]
    BY <1>1, NumbersTyped, Zenon DEF QueryInv, Numbers
  <2>4. ASSUME NEW d \in DomainIds, HasDomain(d) /\ KindOf[d] \in IndexedKinds
        PROVE  rebuild.racks_in[d] = domains[d].racks
    BY <2>4, Zenon DEF rebuild
  <2>5. ASSUME NEW r \in Racks, NEW kind \in {"placement", "failure"}
        PROVE  rebuild.domains_of[kind][r] = {d \in DomainsOf(kind) : r \in domains[d].racks}
    BY <2>5, RebuiltDomains, Zenon
  <2>6. ASSUME NEW l \in LinkIds, HasLink(l)
        PROVE  /\ l \in rebuild.links_from[links[l].source]
               /\ l \in rebuild.links_to[links[l].destination]
    <3>1. links[l] \in LinkRecord
      BY <2>3, <2>6 DEF HasLink, NoRecord
    <3>2. links[l].source \in Racks /\ links[l].destination \in Racks
      BY <3>1, Zenon DEF LinkRecord
    <3> QED BY <2>6, <3>2, Zenon DEF rebuild
  <2>7. ASSUME NEW r \in Racks, has_rack(r)
        PROVE  /\ rebuild.by_membership[racks[r].membership] =
                     {x \in Racks : racks[x].membership = racks[r].membership}
               /\ rebuild.by_boot[racks[r].boot] =
                     {x \in Racks : has_rack(x) /\ racks[x].boot = racks[r].boot}
    <3>1. /\ racks[r].membership \in Memberships \ {"Absent"}
          /\ racks[r].boot \in Boots \cup {NoBoot}
      BY <2>3, <2>7, Zenon DEF RackRecord, has_rack
    <3> QED BY <3>1, Zenon DEF rebuild
  <2>8. check_indexes(rebuild)
    BY <2>4, <2>5, <2>6, <2>7, Zenon DEF check_indexes
  <2> QED BY <2>1, <2>2, <2>8, Zenon DEF invariants
<1>2. QueryInv => SelfCheckHolds
  BY <1>1, Zenon DEF SelfCheckHolds
<1> QED BY <1>2, QueryInvariant, PTL

(* What RestartClaimsNothing says of the state after the step. *)
ClaimsNothing ==
    /\ \A s, d \in Racks : reachability_between(s, d) \notin {"Reachable", "Unreachable"}
    /\ \A d \in DomainsOf("capacity"), u \in Units :
          domains[d].racks # {} => aggregate_capacity(d, u).status # "Known"

(* Records that all await revalidation support no claim. *)
LEMMA AwaitingClaimsNothing ==
    ASSUME \A l \in LinkIds : HasLink(l) => requires_revalidation(links[l].evidence),
           \A r \in Racks : has_rack(r) => requires_revalidation(racks[r].evidence),
           domains \in [DomainIds -> DomainRecord \cup {NoRecord}]
    PROVE  ClaimsNothing
<1>1. ASSUME NEW s \in Racks, NEW d \in Racks
      PROVE  reachability_between(s, d) \notin {"Reachable", "Unreachable"}
  <2>1. \A l \in LinkIds : Forward(l, s, d) => requires_revalidation(links[l].evidence)
    BY Zenon DEF Forward
  <2> QED BY <2>1, Zenon DEF reachability_between
<1>2. ASSUME NEW d \in DomainsOf("capacity"), NEW u \in Units, domains[d].racks # {}
      PROVE  aggregate_capacity(d, u).status # "Known"
  <2>1. PICK r \in domains[d].racks : TRUE
    BY <1>2, Zenon
  <2>2. d \in DomainIds /\ domains[d].racks \subseteq Racks
    <3>1. d \in DomainIds /\ domains[d].generation > 0
      BY Zenon DEF DomainsOf, HasDomain
    <3>2. domains[d] \in DomainRecord \cup {NoRecord}
      BY <3>1, Zenon
    <3> QED BY <3>1, <3>2, RecordedDomain, Zenon
  <2>3. ~has_rack(r) \/ requires_revalidation(racks[r].evidence)
    BY <2>1, <2>2, Zenon
  <2> QED BY <2>1, <2>3, Zenon DEF aggregate_capacity
<1> QED BY <1>1, <1>2, Zenon DEF ClaimsNothing

(* A coordinator that comes up from its container, or from nothing, claims *)
(* neither reachability nor capacity until the racks have published again  *)
(* (from_persisted_state, reachability_between, aggregate_capacity).       *)
THEOREM RestartsClaimNothing == QuerySpec => RestartClaimsNothing
<1>1. ASSUME QueryInv, QueryInv', QueryNext, coordinator_epoch' # coordinator_epoch
      PROVE  ClaimsNothing'
  <2>1. (/\ \A l \in LinkIds : HasLink(l) => requires_revalidation(links[l].evidence)
         /\ \A r \in Racks : has_rack(r) => requires_revalidation(racks[r].evidence)
         /\ domains \in [DomainIds -> DomainRecord \cup {NoRecord}]
         => ClaimsNothing)'
    BY AwaitingClaimsNothing, PTL
  <2>2. domains' \in [DomainIds -> DomainRecord \cup {NoRecord}]
    BY <1>1, NumbersTyped, Zenon DEF QueryInv, Numbers
  <2>3. NothingRecorded' => ClaimsNothing'
    BY <2>1, <2>2, Zenon DEF NothingRecorded
  <2>4. ASSUME NEW age \in [DomainIds -> Ages], RestartRecovered(age)
        PROVE  ClaimsNothing'
    <3>0. /\ CommittedIsDurable /\ Declared
          /\ links \in [LinkIds -> LinkRecord \cup {NoRecord}]
      BY <1>1, <2>4, Zenon DEF QueryInv, IInv, TypeOK, RecordsTyped, UndeclaredIsEmpty, RestartRecovered
    <3>1. ASSUME NEW l \in LinkIds, links'[l].generation > 0
          PROVE  requires_revalidation(links'[l].evidence)
      <4>1. links'[l] = RecoveredLink(links[l])
        BY <2>4, <3>0, Zenon DEF CommittedIsDurable, RestartRecovered
      <4>2. links[l].generation # 0
        BY <3>1, <4>1, RecoveredGeneration, Zenon
      <4>3. links[l] \in LinkRecord
        BY <3>0, <4>2, RecoveredGeneration, Zenon
      <4>4. links'[l].evidence = mark_revalidation_required(links[l].evidence)
        BY <4>1, <4>2, <4>3, Zenon DEF RecoveredLink, LinkRecord
      <4> QED BY <4>3, <4>4, Zenon
              DEF requires_revalidation, mark_revalidation_required, LinkRecord, Evidence
    <3>2. ASSUME NEW r \in Racks, racks'[r].membership # "Absent"
          PROVE  requires_revalidation(racks'[r].evidence)
      <4>1. racks'[r] = RecoveredRack(disk.racks[r])
        BY <2>4 DEF RestartRecovered
      <4>2. disk.racks[r].membership # "Absent"
        BY <3>2, <4>1, RecoveredEvidence, Zenon
      <4>3. racks'[r].evidence.provenance = "Reconstructed"
        BY <4>1, <4>2, RecoveredEvidence, Zenon
      <4> QED BY <4>3, Zenon DEF requires_revalidation
    <3> QED BY <2>1, <2>2, <3>1, <3>2 DEF has_rack, HasLink, requires_revalidation
  <2>5. CASE Serve
    <3>1. PICK q \in ClusterRequests : ~Declared /\ (DeclareCluster(q) \/ DeclareRolledBack(q))
      BY <1>1, <2>5, ServeCommits, FenceCommits, Zenon DEF Committed, QueryInv
    <3>2. NothingRecorded'
      BY <1>1, <3>1, Zenon DEF QueryInv, IInv, UndeclaredIsEmpty, NothingRecorded, DeclareCluster,
                        DeclareRolledBack, topology, authority_lists, has_rack, HasLink,
                        HasDomain, HasConstraint
    <3> QED BY <2>3, <3>2, Zenon
  <2>6. CASE RestartFresh
    <3>1. ~Declared'
      BY <2>6 DEF RestartFresh, StartFresh, Declared
    <3> QED BY <1>1, <2>3, <3>1, Zenon DEF QueryInv, IInv, UndeclaredIsEmpty
  <2>7. ~with_state
    BY <1>1, Zenon DEF with_state, vars, canonical, scalars
  <2> QED BY <1>1, <2>4, <2>5, <2>6, <2>7, Zenon DEF QueryNext, Restart
<1>2. ASSUME QueryInv, QueryInv', [QueryNext]_<<vars, indexes>>
      PROVE  [coordinator_epoch' # coordinator_epoch => ClaimsNothing']_<<vars, indexes>>
  BY <1>1, <1>2, Zenon
<1>3. ClaimsNothing' <=>
         /\ \A s, d \in Racks : reachability_between(s, d)' \notin {"Reachable", "Unreachable"}
         /\ \A d \in DomainsOf("capacity")', u \in Units :
               domains'[d].racks # {} => aggregate_capacity(d, u)'.status # "Known"
  BY Zenon DEF ClaimsNothing
<1>4. QueryInv /\ QueryInv' /\ [QueryNext]_<<vars, indexes>> =>
         [coordinator_epoch' # coordinator_epoch =>
             /\ \A s, d \in Racks : reachability_between(s, d)' \notin {"Reachable", "Unreachable"}
             /\ \A d \in DomainsOf("capacity")', u \in Units :
                   domains'[d].racks # {} => aggregate_capacity(d, u)'.status # "Known"
         ]_<<vars, indexes>>
  BY <1>2, <1>3, Zenon
<1> QED BY <1>4, QueryInvariant, PTL DEF QuerySpec, RestartClaimsNothing

(* READY and PARTIAL are backed by live racks and current domains, as many *)
(* and of the classes the contract asks for (evaluate_readiness).          *)
THEOREM EngineReadiness == Spec => []ReadyIsBacked
<1>1. ASSUME IInv
      PROVE  ReadyIsBacked
  <2>1. TypeOK /\ AuthorityIsLive /\ LifecycleIsEvaluated
    BY <1>1, Zenon DEF IInv
  <2>2. SUFFICES ASSUME lifecycle \in {"Ready", "Partial"}
                 PROVE  ReadyIsBacked
    BY Zenon DEF ReadyIsBacked
  <2>3. Satisfied
    BY <2>1, <2>2, Zenon DEF LifecycleIsEvaluated, evaluate_readiness
  <2>4. CurrentRacks = {r \in Racks : /\ racks[r].membership = "Active"
                                     /\ racks[r].authoritative_current
                                     /\ racks[r].boot \notin fenced_authorities
                                     /\ is_current(racks[r].evidence)}
    BY <2>1, Zenon DEF CurrentRacks, is_current_active, is_active, AuthorityIsLive
  <2>5. Cardinality(CurrentRacks) >= readiness_contract.minimum_current_racks
    <3>1. IsFiniteSet(CurrentRacks)
      BY StateAssumption, FS_Subset, Zenon DEF CurrentRacks
    <3>2. Cardinality(CurrentRacks) \in Nat
      BY <3>1, FS_CardinalityType, Zenon
    <3>3. readiness_contract.minimum_current_racks \in Nat
      BY <1>1, NumbersTyped, Zenon DEF Numbers
    <3>4. ~(Cardinality(CurrentRacks) < readiness_contract.minimum_current_racks)
      BY <2>3, Zenon DEF Satisfied, TooFewCurrentRacks
    <3> QED BY <3>2, <3>3, <3>4, Order, Zenon
  <2>6. readiness_contract.mandatory_racks \subseteq CurrentRacks
    BY <2>3, Zenon DEF Satisfied
  <2>7. /\ \A k \in readiness_contract.required_placement_domain_classes :
              HasCurrentDomain("placement", k)
        /\ \A k \in readiness_contract.required_failure_domain_classes :
              HasCurrentDomain("failure", k)
    BY <2>3, Zenon DEF Satisfied
  <2>8. ASSUME NEW kind, NEW k, HasCurrentDomain(kind, k)
        PROVE  k \in {domains[d].klass : d \in
                         {x \in DomainIds : /\ KindOf[x] = kind
                                            /\ domains[x].generation > 0
                                            /\ is_current(domains[x].evidence)}}
    BY <2>8, Zenon DEF HasCurrentDomain, HasDomain
  <2>9. ASSUME NEW kind, NEW S, \A k \in S : HasCurrentDomain(kind, k)
        PROVE  S \subseteq {domains[d].klass : d \in
                               {x \in DomainIds : /\ KindOf[x] = kind
                                                  /\ domains[x].generation > 0
                                                  /\ is_current(domains[x].evidence)}}
    BY <2>8, <2>9, Zenon
  <2>10. /\ readiness_contract.required_placement_domain_classes \subseteq
               {domains[d].klass : d \in
                   {x \in DomainIds : /\ KindOf[x] = "placement"
                                      /\ domains[x].generation > 0
                                      /\ is_current(domains[x].evidence)}}
         /\ readiness_contract.required_failure_domain_classes \subseteq
               {domains[d].klass : d \in
                   {x \in DomainIds : /\ KindOf[x] = "failure"
                                      /\ domains[x].generation > 0
                                      /\ is_current(domains[x].evidence)}}
    BY <2>7, <2>9, Zenon
  <2> QED BY <2>4, <2>5, <2>6, <2>10, Zenon DEF ReadyIsBacked
<1> QED BY <1>1, EngineInvariant, PTL
=============================================================================
