------------------------------- MODULE Snapshots -------------------------------
(***************************************************************************)
(* Snapshots of canonical state, and a consumer that holds one across      *)
(* commits, fences and restarts of the coordinator.                        *)
(*                                                                         *)
(* A snapshot shares one immutable copy of the canonical state; its rack   *)
(* bindings and its digest are functions of that copy.  The digest is      *)
(* modelled by the content it hashes, so a collision of the hash is left   *)
(* out.  A validation is the set of its reasons and its two verdicts; the  *)
(* subjects and the explanation are left out.                              *)
(***************************************************************************)
EXTENDS CoordinatorEngine

CONSTANT NoSnapshot   \* a default-constructed ClusterSnapshot

VARIABLE held         \* the snapshot the consumer holds

state_copy ==
    [id |-> id, epoch |-> epoch, coordinator_epoch |-> coordinator_epoch,
     counters |-> counters, topology_epoch |-> topology_epoch,
     domain_generations |-> domain_generations, lifecycle |-> lifecycle,
     readiness_contract |-> readiness_contract,
     racks |-> racks, links |-> links, domains |-> domains, constraints |-> constraints,
     retired_racks |-> retired_racks, withdrawn_racks |-> withdrawn_racks,
     fenced_authorities |-> fenced_authorities, unexplained |-> unexplained]

Members(s) == {r \in Racks : s.racks[r].membership # "Absent"}

rebuild_bindings(s) ==
    [r \in Members(s) |->
        [generation |-> s.racks[r].generation, membership |-> s.racks[r].membership,
         currentness |-> s.racks[r].currentness,
         authoritative_current |-> s.racks[r].authoritative_current,
         boot |-> s.racks[r].boot]]

-----------------------------------------------------------------------------
(***************************************************************************)
(* semantic_digest_of: what the digest renders of each record.  Of a rack  *)
(* it leaves out the process incarnation, the publisher, the publication   *)
(* and the membership generation; of a link the incarnation and all but    *)
(* the failure domains; of the cluster the readiness contract.             *)
(***************************************************************************)
RackDigest(x) ==
    [generation |-> x.generation, membership |-> x.membership, currentness |-> x.currentness,
     authoritative_current |-> x.authoritative_current, evidence |-> x.evidence,
     composition |-> x.composition, endpoints |-> x.endpoints]

LinkDigest(x) ==
    IF x.generation = 0
    THEN NoRecord
    ELSE [generation |-> x.generation, source |-> x.source, destination |-> x.destination,
          reachability |-> x.reachability, evidence |-> x.evidence,
          topology_epoch |-> x.topology_epoch, topology_generation |-> x.topology_generation,
          failure_domains |-> {d \in x.domains : KindOf[d] = "failure"}]

RecordsDigest(s) ==
    <<[r \in Members(s) |-> RackDigest(s.racks[r])],
      [l \in LinkIds |-> LinkDigest(s.links[l])], s.domains, s.constraints,
      s.retired_racks, s.withdrawn_racks, s.fenced_authorities, s.unexplained>>

(* Mutated form: the digest covers the records and the epochs only. *)
DigestOfRecords(s) == <<s.id, s.epoch, s.coordinator_epoch, s.lifecycle, RecordsDigest(s)>>

semantic_digest_of(s) ==
    <<s.id, s.epoch, s.coordinator_epoch, s.counters, s.topology_epoch,
      s.domain_generations, s.lifecycle, RecordsDigest(s)>>

-----------------------------------------------------------------------------
(***************************************************************************)
(* ClusterSnapshot::validate: the snapshot b against the current state c.  *)
(***************************************************************************)
is_consumable_lifecycle(lc) == lc \in {"Ready", "Partial", "Degraded"}

If(reason, holds) == IF holds THEN {reason} ELSE {}

(* The reason of a superseded domain class is named by the class. *)
DomainReasons(b, c) == {k \in DomainKinds : b[k] # c[k]}

RackReasons(x, r, c) ==
    LET y == c.racks[r] IN
    IF r \notin Members(c) THEN {"RackWithdrawn"}
    ELSE IF r \in c.retired_racks THEN {"RackRetired"}
    ELSE If("RackGenerationSuperseded", y.generation # x.generation)
         \cup If("RackWithdrawn", y.membership # x.membership)
         \cup If("RackBootFenced", x.boot \in c.fenced_authorities)
         \cup If("RackRevalidationRequired", \/ y.currentness = "RevalidationRequired"
                                             \/ requires_revalidation(y.evidence))

(* Mutated form: the cluster generation is not compared. *)
GenerationIgnored(b, c) ==
    If("WrongCluster", b.id # c.id)
    \cup If("ClusterEpochAdvanced", b.epoch # c.epoch)
    \cup If("CoordinatorEpochAdvanced", b.coordinator_epoch # c.coordinator_epoch)

EpochReasons(b, c) ==
    If("WrongCluster", b.id # c.id)
    \cup If("ClusterEpochAdvanced", b.epoch # c.epoch)
    \cup If("CoordinatorEpochAdvanced", b.coordinator_epoch # c.coordinator_epoch)
    \cup If("ClusterGenerationAdvanced", b.counters["cluster"] # c.counters["cluster"])

GenerationReasons(b, c) ==
    LET Advanced(k) == b.counters[k] # c.counters[k] IN
    EpochReasons(b, c)
    \cup If("MembershipChanged", \/ Advanced("membership")
                                 \/ Cardinality(Members(b)) # Cardinality(Members(c)))
    \cup (IF b.topology_epoch # c.topology_epoch THEN {"TopologyEpochSuperseded"}
          ELSE If("TopologyGenerationAdvanced", Advanced("topology")))
    \cup DomainReasons(b.domain_generations, c.domain_generations)
    \cup If("ConnectivitySuperseded", Advanced("connectivity"))
    \cup If("HealthSuperseded", Advanced("health"))

validate(b, c) ==
    LET bindings == rebuild_bindings(b)
        stale == GenerationReasons(b, c)
                 \cup (UNION {RackReasons(bindings[r], r, c) : r \in DOMAIN bindings})
                 \cup If("MembershipChanged", ~(Members(c) \subseteq DOMAIN bindings))
        usable == is_consumable_lifecycle(c.lifecycle)
    IN  IF b = NoSnapshot
        THEN [reasons |-> {}, current |-> FALSE, consumable |-> FALSE]
        ELSE [reasons |-> stale \cup If("LifecycleNotConsumable", ~usable),
              current |-> stale = {}, consumable |-> stale = {} /\ usable]

-----------------------------------------------------------------------------
(***************************************************************************)
(* The wire form: a compact view of the snapshot, and validate_view, the   *)
(* coordinator's own comparison of a view a peer sends back.               *)
(***************************************************************************)
from_snapshot(b) ==
    IF b = NoSnapshot
    THEN NoSnapshot
    ELSE [cluster |-> b.id, cluster_epoch |-> b.epoch,
          coordinator_epoch |-> b.coordinator_epoch, counters |-> b.counters,
          topology_epoch |-> b.topology_epoch, domain_generations |-> b.domain_generations,
          rack_bindings |-> rebuild_bindings(b)]

(* Mutated form: racks added after the view was built are not looked for. *)
AddedRacksIgnored(view, c) == {}

AddedRacks(view, c) == Members(c) \ DOMAIN view.rack_bindings

ViewRackReasons(view, r, c) ==
    LET x == view.rack_bindings[r]
        y == c.racks[r]
    IN  IF r \notin Members(c) THEN {"RackWithdrawn"}
        ELSE IF r \in c.retired_racks THEN {"RackRetired"}
        ELSE If("RackGenerationSuperseded", y.generation # x.generation)
             \cup If("RackWithdrawn", y.membership # x.membership)
             \cup If("RackBootFenced", x.boot \in c.fenced_authorities)
             \cup If("RackRevalidationRequired", \/ y.currentness = "RevalidationRequired"
                                                 \/ requires_revalidation(y.evidence))

ViewGenerationReasons(view, c) ==
    LET Advanced(k) == view.counters[k] # c.counters[k] IN
    If("WrongCluster", view.cluster # c.id)
    \cup If("ClusterEpochAdvanced", view.cluster_epoch # c.epoch)
    \cup If("CoordinatorEpochAdvanced", view.coordinator_epoch # c.coordinator_epoch)
    \cup If("ClusterGenerationAdvanced", Advanced("cluster"))
    \cup If("MembershipChanged", Advanced("membership"))
    \cup (IF view.topology_epoch # c.topology_epoch THEN {"TopologyEpochSuperseded"}
          ELSE If("TopologyGenerationAdvanced", Advanced("topology")))
    \cup DomainReasons(view.domain_generations, c.domain_generations)
    \cup If("ConnectivitySuperseded", Advanced("connectivity"))
    \cup If("HealthSuperseded", Advanced("health"))

(* Unlike validate, the verdict "current" counts the lifecycle reason. *)
validate_view(view, c) ==
    LET usable == is_consumable_lifecycle(c.lifecycle)
        reasons == ViewGenerationReasons(view, c)
                   \cup (UNION {ViewRackReasons(view, r, c) : r \in DOMAIN view.rack_bindings})
                   \cup If("MembershipChanged", AddedRacks(view, c) # {})
                   \cup If("LifecycleNotConsumable", ~usable)
    IN  [reasons |-> reasons, current |-> reasons = {},
         consumable |-> reasons = {} /\ usable]

-----------------------------------------------------------------------------
(***************************************************************************)
(* The consumer.  make_snapshot and validate lock canonical state, so each *)
(* sees the state between two commits.                                     *)
(***************************************************************************)
make_snapshot == held' = state_copy /\ UNCHANGED vars

SnapshotInit == Init /\ held = NoSnapshot

SnapshotNext == (Next /\ UNCHANGED held) \/ make_snapshot

SnapshotSpec == SnapshotInit /\ [][SnapshotNext]_<<vars, held>>

-----------------------------------------------------------------------------
(* A snapshot that validates as consumable is the current state, to the    *)
(* last field: whatever was committed, fenced or recovered since it was    *)
(* taken, no consumer acts on a composition that has changed.  The         *)
(* validation compares generations and bindings, never the records.        *)
ConsumableIsCurrent ==
    held # NoSnapshot /\ validate(held, state_copy).consumable => held = state_copy

(* Equal digests mean equal states, although the digest leaves out the     *)
(* incarnations, the publications and the contract: no change of those     *)
(* escapes the generations it does render.                                 *)
DigestTellsStatesApart ==
    held # NoSnapshot /\ semantic_digest_of(held) = semantic_digest_of(state_copy)
        => held = state_copy

(* The in-process validation and the one a peer gets for the view of the   *)
(* same snapshot give the same reasons and the same leave to consume,      *)
(* although one compares the number of racks and the other does not.       *)
ValidatorsAgree ==
    held # NoSnapshot =>
        LET local == validate(held, state_copy)
            wire == validate_view(from_snapshot(held), state_copy)
        IN  local.reasons = wire.reasons /\ local.consumable = wire.consumable

(* While the cluster stays declared, a snapshot that was once stale is     *)
(* never current again: no later commit, fence or restart brings back the  *)
(* generations it was bound to.                                            *)
StaleStaysStale ==
    [][/\ held # NoSnapshot /\ held' = held
       /\ Declared /\ epoch' > 0
       /\ ~validate(held, state_copy).current
       => ~validate(held, state_copy').current]_<<vars, held>>
=============================================================================
