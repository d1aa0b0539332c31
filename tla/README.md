# Cluster Fabric: TLA+ models, TLC runs and TLAPS proofs

Cluster Fabric keeps one authoritative description of a cluster: which racks
belong to it, which process currently speaks for each rack, how the racks are
linked, which domains and constraints apply, and whether the whole is ready
under a declared contract. Rack agents publish to a coordinator process, which
commits each accepted mutation to memory and to a durable container before it
answers. This directory models the coordinator, the agents that publish to it,
the readers and consumers of its state and the store under it, checks them with
TLC on small instances, and proves the main results with TLAPS for every
instance.

## 1. The system and its parts

| Part | Source | Here |
|---|---|---|
| Commit engine: every mutation, the fence, the journal, the save | `src/coordinator_engine.cpp`, `mutation.*` | `CoordinatorEngine` |
| Canonical state, evidence, records | `cluster_state.*`, `evidence.*`, `rack_reference.*`, `domains.hpp`, `topology.hpp`, `generation.hpp` | `ClusterState` |
| Readiness contract | `evaluate_readiness` in `src/cluster_state.cpp`, `lifecycle.hpp` | `ClusterState` |
| Invariant gate | `check_invariants` in `src/invariant.cpp` | `ClusterState` |
| Durable container: what is saved, refused, recovered | `to_persisted_state`, `from_persisted_state`, `validate_persisted_state` | `Persistence` |
| Threads, request queue, sessions, start and stop | `src/coordinator.cpp`, `src/coordinator_network.cpp`, `run_commit`, `detail/coordinator_impl.hpp` | `CoordinatorThreads`, `CommitService` |
| Snapshot capture and validation | `src/snapshot.cpp`, `validate_view`, `SnapshotView::from_snapshot` | `Snapshots` |
| Rack agent | `src/rack_agent.cpp`, the frames in `run_session` | `RackAgent` |
| File and memory stores | `FilePersistenceStore`, `MemoryPersistenceStore` | `FileStore`, `AtomicStore` |
| Derived indexes, self-check, independence, reachability, capacity | `ClusterIndexes` and the queries of `src/cluster_state.cpp`, `check_indexes` | `Queries` |
| Wire and container codecs | `src/protocol.cpp`, `src/persistence.cpp` | not modelled: byte-level pure functions |
| Synthetic clusters, CUDA probe, command line programs, text | `synthetic.cpp`, `cuda_probe.*`, `apps/` | not modelled: test data, device I/O, printing |

How they interact: a session worker or an in-process caller pushes a request on
the queue and waits. The single commit thread takes it, runs the handler of its
kind under the state lock with an undo journal, evaluates readiness, runs the
invariant gate, bumps the cluster generation, saves the container and answers.
The end of a session pushes a fence of its process incarnation (*boot*) on the
same queue. A restart reads the container, clears what was only observed, and
fences every incarnation on record. Readers are answered from canonical state
and from indexes the first reader after a change rebuilds; consumers take a
snapshot and later ask, in the process or over the wire, whether it still holds.

## 2. The modules

**`ClusterState`** holds the variables of `ClusterState`, the evidence
predicates, the readiness evaluation and the invariant gate. Maps are total
functions; an absent record is `NoRack` or has generation 0. Sorted vectors of
identities are sets. Counters range over `0 .. MaxGeneration`; 0 is the reserved
UNKNOWN value and `MaxGeneration` stands for 2^64 - 1, so overflow happens in the
runs. Left out: timestamps and time-to-live (reduced to *observed* and
*freshness*), health values, the lifecycle a rack reports, labels, and texts
other than the reason of a fence.

**`Persistence`** adds the container `disk`, the projection a commit saves, the
checks a load applies, and what recovery makes of each record.

**`CoordinatorEngine`** has one action per mutation kind, per fence and per
restart. An action is the whole of `apply_and_commit` (or `apply_fence`) for a
request that changes something. Requests that are rejected, answered NO_CHANGE,
refused by the gate or rolled back leave the state alone and are stuttering
steps; the exception is `DeclareRolledBack`, because the journal does not record
the cluster identity. `PublishConstraint`, `publish_domain_record` (one action
for the eight domain kinds, as in the code's template) and the link and topology
actions read their payloads from constants. A restart may come between any two
steps; it either recovers (`RestartRecovered`) or, when the container is missing
or refused, starts empty (`RestartFresh`). `UnreadSpec` adds a restart that starts
empty beside a good container, because the store could not open or read it
(`RestartUnread`); the code treats every failed load alike. The reason of a fence
is reduced to whether it is empty (`unexplained`), which is what a load looks at.

**`DocumentedClaims`** states what a comment says and the code does not keep
(section 4).

**`CoordinatorThreads`** models the owner calling `start()` and `stop()`, the
accept thread, one worker per session, in-process callers and the commit thread.
Each critical section is a step; a notification after an unlock is another. Of
canonical state it keeps which boots own a record and which are fenced.
It refers to `CoordinatorEngine` only by abstraction: `CommitMutates` is any
mutation, `CommitFences` is `Fence`.

**`CommitService`** is what a caller of `submit()` and `fence_boot()` is promised,
without threads, locks or flags: one line of accepted requests and fences, served
in order, each at one instant and before its answer. Nothing is accepted behind a
stop; what `stop()` clears is nothing anybody waits for; durable state is loaded
only when nobody waits. `SubmitIsAtomic` is its specification under the mapping
that takes the item in hand and the queue to the line (`Line`), and a submitter's
slot to its call (`Calls`).

**`AtomicStore`** is what the engine takes a store to be, and what
`MemoryPersistenceStore` is: a container that changes once during a save that
answers ok, and not at all during one that fails. A load that answers a state
answers the one in place; a load may also fail (`Refuse`), or answer that there is
no container when it cannot open the one there is (`Miss`). **`FileStore`** has a step for
each call `FilePersistenceStore` makes into the operating system (open, write,
rename, remove, read), each of which may fail, for several processes that share
a path; a process may die between any two. A file is the state it encodes and
whether all of it was written. `SaveIsAtomic` is the specification of
`AtomicStore` under a refinement mapping.

**`Queries`**, **`Snapshots`** and **`RackAgent`** are composed with the commit
engine: each extends `CoordinatorEngine` and its next-state relation contains the
engine's actions, so a reader, a consumer or an agent meets every commit, fence
and restart at any moment.

`Queries` adds the cached `indexes`. A commit, a fence and a restart invalidate
them (`touch_state`), a reader rebuilds them (`with_state`). Sorted vectors are
sets; the indexes are kept only while valid, so their version number is not
needed. Whether a link is bidirectional and the quantities of a capacity domain
are fixed per identity.

`Snapshots` adds the snapshot a consumer holds. The two validators are separate
definitions, as in the code, each over what it gets to see: a snapshot, or the
view of it that goes over the wire. The digest is the content it hashes, so
collisions are left out; so are the subjects and texts of the reasons.

`RackAgent` adds the agents, one connection each, the sessions whose connection
is gone (`orphans`: such a session may still serve the frame it has received),
and the queued fences. A call sends one frame at a time and waits. Left out:
frames an agent never sends (malformed, unknown, or before its HELLO), the check
of the agent's own bounds, sequence numbers, which nobody compares. Orphans with
the same boot and frame are one. A fence is served after the session ended, at
any time, or fails to be saved and is given up.

**`MCEngine`**, **`MCThreads`**, **`MCStore`**, **`MCSnapshots`**, **`MCAgent`** and
**`MCQueries`** define the instances. Operators commented as a *mutated form* are
deliberately wrong variants that show each property can fail.

## 3. Runs that pass

| Run | Instance | States | Shows |
|---|---|---|---|
| `membership` | 1 rack, 2 boots (symmetric), 2 publications, 2 rack generations, counters to 6, loads that fail | 18 thousand | authority is live, lists mirror membership, lifecycle is evaluated, commits are durable, counters ordered, container loadable, nothing moves back |
| `topology` | 2 racks, 1 link, 1 network domain, 2 topology epochs, counters to 8, loads that fail | 172 thousand | references resolve, link claims are of the epoch in force, durable, loadable |
| `readiness` | 2 racks, placement and failure domain, constraint, strict contract, counters to 7, fences with and without a reason, loads that fail | 180 thousand | READY and PARTIAL are backed, references resolve |
| `threads` | 2 connections (symmetric), 1 caller, 1 boot, queue of 2, 1 session admitted | 659 thousand | each request once, quiet when down, registry bounded; the threads implement the commit service |
| `threads_live` | 1 connection, 1 caller | 57 thousand | submissions answered, `stop()` returns, dead incarnations fenced |
| `store` | 2 stores, 2 states (symmetric), 2 process identifiers, 2 saves each | 351 thousand | a save renames its own whole file; the file store implements the atomic store |
| `snapshots` | 2 racks, 2 boots (symmetric), 1 domain, 1 publication before a restart and 2 after it, counters to 5 | 68 thousand | consumable means current, stale stays stale, equal digests mean equal states, the validators agree |
| `agent` | 2 agents of 1 rack, 1 domain, 4 calls, 1 fault | 296 thousand | no authority without a session or a fence under way, own publications are new, acknowledged stays recorded, `fenced` is true, calls return |
| `queries` | 2 racks, 1 link, 2 failure domains, 1 capacity domain (symmetric), 2 topology epochs, counters to 7 | 149 thousand | the self-check passes, independence and reachability rest on current evidence, a restart claims nothing |

Why the bounds are enough. Authority, lists and fences concern one rack and the
incarnations that contend for it: two boots give displacement, a fence before,
between and after, and recovery by another incarnation. Two racks are the least
that a link and a "some but not all" readiness need. The counter bounds leave
room for the longest interesting sequence of commits. The cluster generation
reaches its bound first, so its overflow is the one the runs meet; the wrap of a
domain aggregate and the bounds of the other counters are covered by the proofs,
which hold for every `MaxGeneration`. In the threads run a queue of two
holds a fence behind a mutation and is reached full; one admitted session out of
two connections makes the accept thread refuse and later admit. `MaxQueue` caps
what fences add to the queue, which in the code is not capped. Coordinator epochs
2 and 3 let requests be current before and stale after a restart; with
`MaxGeneration` as the epoch bound, behaviours with more restarts have no
requests that match and only fence and restart.

In `store`, two saves of each process let a temporary name be reused, and two
identifiers for two stores let a process that starts get the identifier of one
that died with its file left behind. In `agent`, four calls are a connect and a
publication of each incarnation, or a connect and three calls of the first; one
fault is a connection that breaks, a connect that fails, a fence that is not
saved, a `stop()` or a restart of the coordinator. The model publishes links and
domains after the rack; the instance has one domain and no link, so a topology
publication is one frame. In `snapshots` a bound of 5 leaves a consumer room for
two to three commits after its snapshot, and includes the overflow of a counter.
`RestartClaimsNothing` needs a link and capacity that were current before the
restart; a bound of 7 on the cluster generation is what reaching them takes.

`agent` alone does without the deadlock check: when the calls and faults are
used up nobody has to act, and in the code nobody has to call. Everywhere else a
coordinator, or a store's process, can always be restarted.

Fairness (`threads_live`). Weak fairness of each thread's own steps: the
operating system runs every runnable thread, a mutex that is free is eventually
obtained, and a session polls its stop flag every 100 ms (`wait_readable`).
Nobody has to connect, submit, hang up or call `start()` or `stop()`.
`DeadIncarnationFenced` exempts three outcomes the code has: another
incarnation took the records over, the coordinator is stopping (the next start
fences), or the save of a fence failed (it is rolled back and not retried).

Fairness (`agent`). Weak fairness of a session that has a frame to serve, of an
agent that has an answer to read, and of an agent whose connection closed. No
call has a timeout (`receive_exact` waits until data, a close or `stop()`), so
this is all that makes `CallsReturn` true: a peer that vanishes without closing
its connection would block a call for good, and is outside the model.

## 4. Runs that refute a statement

| Run | Statement | What the code does |
|---|---|---|
| `claim_loadable` | the durable state is validated "before any commit" (`docs/persistence.md:247`) | `RecoverRack` stores endpoint lists as sent; the container is saved and then refused by the next load |
| `claim_rollback` | a failed save "restores canonical state exactly" (`coordinator_impl.hpp:91`) | the identity set by a declaration stays |
| `claim_registry` | "an empty registry means no worker can touch this object any more" (`coordinator_network.cpp:773`) | a worker reads state, pushes a fence and counts itself after it left the registry |

Differences met while modelling that no run states: `docs/protocol.md:190` says a
RETIRING cluster rejects mutations (only RETIRED does); line 211 says the
publication counter is monotonic (a new incarnation, an update or a health report
without one may lower it); `docs/invariants.md:37` says no rack record has membership UNKNOWN
(registration creates one, and the gate allows it while it is not authoritative);
line 31 says every link is of the cluster's topology epoch (a superseded link
stays, marked for revalidation); the locking comment
in `coordinator_impl.hpp:129-131` says the state lock is not held across
persistence I/O, `docs/architecture.md:283` says it is, and the code holds it;
`docs/protocol.md:177` says a stopping coordinator rejects pending requests,
while the commit thread first applies those already queued.

About fences, recovery and files: `docs/protocol.md:214` says every request of a fenced
incarnation is rejected (registration does not consult the fenced list; the
record it makes is not authoritative); line 217 says the coordinator epoch
advances on restart (not between two restarts without a commit: it is saved with
the first commit); `docs/persistence.md:258` says the lifecycle is restored as
recorded (it is evaluated anew, as line 269 says, so RETIRED does not survive);
line 64 says the next save removes a stray temporary file (it has another name
and stays). Lines 240 and 243 give `IO_ERROR` to a container that cannot be opened
and `MISSING_FILE` to one that does not exist (`FilePersistenceStore::load` answers
`MISSING_FILE` to both, which `ContainerUnopened` models; the coordinator then notes
that there is no container and starts an empty cluster). `load_durable_state` changes canonical state without the state lock,
before any other thread exists.

About snapshots: `snapshot.hpp:75` and `README.md:136` say `current` means that
every bound generation still matches. The validators also report a retired rack,
and a rack that awaits revalidation, when nothing changed since the snapshot, so
while there is such a rack no snapshot is current. `docs/protocol.md:232-234` says that
a lifecycle that may not be acted on does not by itself make a view stale;
`validate_view` counts it and `ClusterSnapshot::validate` does not, which is why
`ValidatorsAgree` is about reasons and `consumable`. `snapshot.hpp:79` says the
reasons are sorted and deduplicated; they are in the order of the checks. A
coordinator that finds no container, or refuses it, starts again with epoch 2
and low generations, so a snapshot of the lost history may validate against the
new one; `StaleStaysStale` is therefore about a cluster that stays declared.

About agents and indexes: `rack_agent.hpp:104` says `revalidate` republishes
evidence after a coordinator restart (by then the boot is fenced and the session
gone, so it is refused); `cluster_state.hpp:138` says every index has a
verification step (those by failure domain class, of a rack's capacity domains
and of a rack's network domains have none).

`SavedIsLoadable` holds in `membership` and `topology`, whose requests carry
sorted lists and a boot, whose fences have a reason and whose incarnations are no
more than `MaxRacks`. It does not hold in general. There are four ways to a
container that a load refuses: unsorted endpoint lists (`claim_loadable`), a record
without a boot, a fence for which the caller of `fence_boot` gave an empty reason,
and more fences than `kMaxRacksPerCluster`. The engine checks none of them.
Section 5 proves the property for inputs without these. The `readiness` run has
fences without a reason, and shows what holds when the container they leave is
refused.

## 5. What is proved

Every theorem holds for all values of the constants that meet the named
assumptions of the modules: `StateAssumption`, `ContainerAssumption`,
`RequestAssumption` and `ReasonAssumption` for the engine (types of the constants; `canonicalize` is
idempotent; links name failure, network and link domains), and `QueryAssumption`,
`AgentAssumption`, `ThreadAssumption` and `FileAssumption` for the others (types;
an agent's configured topology is a list of links and domains). TLC evaluates
each assumption on every run that uses the module.

| Module | About | Theorems state |
|---|---|---|
| `EngineStepProofs` | lemmas | types and counters after each mutation, fence and declaration |
| `EngineInvariantProofs` | lemmas | what each contributes to the invariant |
| `EngineTheorems` | `Spec` of `CoordinatorEngine` | `TypeOK`, `AuthorityIsLive`, `ListsMirrorMembership`, `LifecycleIsEvaluated`, `CommittedIsDurable`, `CountersOrdered`, `ReferencesResolve`, `LinkClaimsAreOfThisEpoch`, `NothingMovesBack`; `SavedIsLoadable` under `LoadableInputs` |
| `ReaderProofs` | `QuerySpec` of `Queries`, `SnapshotSpec` of `Snapshots`, `Spec` of `CoordinatorEngine` | `ReadyIsBacked`, `SelfCheckHolds`, `ReachabilityIsEvidenced`, `IndependenceIsEvidenced`, `RestartClaimsNothing`; `ConsumableIsCurrent`, `DigestTellsStatesApart`, `ValidatorsAgree`, `StaleStaysStale`, `SavedIsLoadable` |
| `AgentStepProofs` | lemmas | what each step of an agent, a session and the accept thread leaves true of agents and frames |
| `AgentProofs` | `AgentSpec` of `RackAgent` | `NoZombieAuthority`, `OwnPublicationIsNew`, `AcknowledgedSurvives`, `FencedFlagIsTrue`, `SavedIsLoadable`, `NothingMovesBack`, the engine's invariants |
| `ThreadProofs` | `Spec` of `CoordinatorThreads` | `TypeOK`, `EachRequestOnce`, `DownIsQuiet`, `RegistryBounded`, `SubmitIsAtomic` (refinement) |
| `FileStoreProofs` | `Spec` of `FileStore` | `StoreInv`, `RenamesItsOwn`, `SaveIsAtomic` (refinement) |

So every safety property of every passing run is proved, for `Spec`: a restart of
the theorems recovers a container that can be loaded. That the engine's invariants
also hold with loads that fail (`UnreadSpec`) is checked by TLC only, in
`membership`, `topology` and `readiness`.

The argument about the engine is one inductive invariant,

    IInv == TypeOK /\ RecordsSound /\ UndeclaredIsEmpty /\ AuthorityIsLive
            /\ ListsMirrorMembership /\ LifecycleIsEvaluated /\ CommittedIsDurable
            /\ CountersOrdered /\ LinkClaimsAreOfThisEpoch /\ ReferencesResolve

None of the parts is inductive alone. A restart replaces canonical state by what
`disk` gives, so everything about the records after a restart comes from
`CommittedIsDurable`, which therefore has to relate container and memory exactly.
`UndeclaredIsEmpty` says that before a declaration nothing is recorded and no
container loads: otherwise a declaration could inherit records, or a restart
could revive some. `RecordsSound` holds facts about single records the others
need whether or not the gate looked at the record: an absent record is empty,
authority rests on current evidence, the retired list is right, and no record is
ahead of the membership generation. `LinkClaimsAreOfThisEpoch` needs the gate:
a health report on a superseded link is refused there. `ReadyIsBacked` follows
from `LifecycleIsEvaluated` and `AuthorityIsLive` and is not part of `IInv`.

The gate. `RecordsKept` is what `check_invariants` demands of records beyond
`IInv` (generations above 0, links between two racks, nothing newer than its
counter, no current evidence on a superseded link). A commit that passes the gate
has it; `apply_fence` and recovery run no gate, and the proof shows that they keep
it (`EngineKeepsRecords`).

The container. `LoadInv` adds to this that recorded racks have a publisher, a
boot and canonical endpoints, that every fence has a reason, that links were
published under an epoch, and `SavedIsLoadable` itself. `EngineLoadable` takes it as
inductive under `LoadableInputs`: rack references of requests name their incarnation
and have canonical endpoints, fences are given a reason, and no set of incarnations
has more than `MaxRacks` members. The first three are what the code takes from its
callers unchecked, the last is the bound of a load on fences, which the engine does
not apply when it adds one. Agents need only the last (`AgentLoadable`): what they
send has a boot and sorted lists, and the fence of a session has a fixed reason.
The `snapshots` and `agent` instances meet these conditions, which TLC evaluates
there (`ConsumerAssumption`, `AgentsAssumption`).

Readers: `QueryInv` is `IInv` and `RecordsKept` with "indexes that are valid are
those of the records". It is inductive because a step of the engine either
invalidates the indexes or leaves the cluster generation alone, and a step that
leaves the generation alone changes no rack, link or domain
(`UncountedKeepsRecords`; only the rollback of a first declaration is such a
step). An answer computed from valid indexes is then one computed from the
records. `SelfCheckHolds` is `RecordsKept` and `IInv` put together again as the
gate, over indexes that equal a rebuild; reachability rests further on
`LinkClaimsAreOfThisEpoch` and `ReferencesResolve`, and `RestartClaimsNothing` on
recovery leaving no current evidence.

Snapshots: the four theorems have `[]SavedIsLoadable` as a hypothesis, because a
coordinator whose container is refused starts again with low generations, and an
old snapshot may then match by accident (section 4). `SnapshotsAreSound` replaces
the hypothesis by `LoadableInputs`. `SnapshotInv` says that a held snapshot of a
declared cluster is in the past of the state: same cluster and epoch, generations
no higher, no member since removed, and, at the same cluster generation, the same
declarations, or the same state if the lifecycle is consumable. The last part
carries the argument: every commit of a declared cluster advances its generation,
and a restart leaves no lifecycle that may be consumed. So the validators, which
compare counters, conclude something about records they never look at. Of the
fields the digest leaves out, the contract, the incarnations and the publications
are declarations, equal at equal generations; what a restart clears it renders.

Agents: `AgentInv` says that a frame, on a connection or with an orphaned
session, speaks for the incarnation that sent it and under a publication it has
spent (`FramesAreOwn`); that what an agent waits for is the answer to the frame
it sent last (`Waits`); that every record names an incarnation; and the two
properties themselves. Without `FramesAreOwn` a frame served late by an orphan
could record a publication the agent has still to use, or authority for a boot
nobody watches. `ToldInv` adds that an answer on its way is true of the state: an
acceptance of what is recorded or superseded, a `StaleRackBoot` of a fence. It
stays true until it is read because generations do not fall and fences are not
lifted, through restarts too if the container loads; hence the hypothesis
`[]SavedIsLoadable`, which `AgentLoadable` discharges for no more than `MaxRacks`
incarnations (`AgentsAreToldTheTruth`). An agent's request leaves out fields that no
handler it reaches reads (lifecycle, contract, target epoch, reachability);
`Completed` fills them in, and the engine's lemmas about requests then apply.
So every step of `AgentSpec` is a step of the engine under some well-formed
request, or leaves its state alone (`AgentsUseTheEngine`), and the engine's
guarantees hold under its agents (`EngineHoldsUnderAgents`, `AgentsMoveForward`).
This does not follow from the theorems about `Spec`, whose requests come from
`RackRequests`, `TopologyRequests` and `ClusterRequests`.

Threads: the inductive invariant says, position by position of `start()` and
`stop()`, when `stopping` is set (`StoppingFollowsOwner`), when the commit and the
accept thread exist (`CommitFollowsOwner`, `AcceptFollowsOwner`), that a request
to stop is the last item of the queue (`StopIsLast`), that a session is admitted
only while the registry has room and by one thread (`RoomKept`), and that a
submitter waits exactly while its one request is queued or taken
(`OneRequestEach`). `StopIsLast` is what makes the exit of the commit thread safe:
behind a stop nothing is left unanswered but what `stop()` answers itself. A
`start()` that failed leaves `running` set, and only `stopping` keeps requests out
until the next one, so both flags are in the invariant.

The commit service: `NoneLeftBehind` adds that the commit thread exists while the
coordinator runs, and that a coordinator that is stopping without one has no
submitter waiting. It is inductive given the invariant above: the thread leaves
with an empty queue or at the request to stop, behind which `StopIsLast` leaves
nothing, and once `stopping` is set nothing is accepted. Each step then maps to a
step of `CommitService`: a push to `submit`, `fence_boot` or `close`, the end of an
application to `ServeRequest` or `ServeFence`, the commit thread's exit at a stop
and the end of `stop()` to `Clear`, `load_durable_state` to `recover`; taking an
item, notifications and everything sessions and the accept thread do otherwise map
to nothing. So the loop at the end of `stop()` that answers SHUTTING_DOWN has
never a submitter to answer: every request that was accepted reaches the engine.

File store: `StoreInv` says that the container is absent or whole, that live
processes have identifiers of their own, and that a save in progress uses a name
made of its process's identifier, so no two saves in progress share a file.
`RenamesItsOwn` follows step by step: from open to rename only the process itself
touches the file. A step of `FileStore` then maps to a step of `AtomicStore`: the
rename to `Apply`, a save that ends, well or not, to `Return`, one that could not
encode and a load that could not read to `Refuse`, a load to `load` and one that
could not open the container to `Miss`;
opening, writing and discarding a temporary map to nothing.

Only model-checked: the liveness properties `EverySubmitAnswered`, `StopReturns`,
`DeadIncarnationFenced` and `CallsReturn`, since fairness and ENABLED are outside
the prover; and that `CoordinatorThreads` and the engine fit together, which is an
abstraction stated in section 2 and not a refinement.

## 6. Not modelled

- The codecs of frames and containers (`protocol.cpp`, most of `persistence.cpp`):
  pure functions over byte strings of a length no small instance reaches. The
  models use what a decoded message or container holds, and that one cut short
  is refused.
- Synthetic clusters, the CUDA probe, the command line programs, and the wording
  of explanations, results and blockers: test data, device I/O and text.
- Time. Time-to-live is reduced to the freshness a stamp was given when taken in;
  the coordinator has no timer that would act on it later.
- What a loss of power leaves of a file (nothing is synced before the rename),
  half-open connections, and the reuse of a descriptor number after a close.
- Consumers and agents across a restart that cannot open or read a sound
  container. The coordinator then starts empty, as if there were no container, and
  its first commit replaces the old one: what agents were told is forgotten, and an
  old snapshot may match the new history by accident. The engine alone is checked
  with such restarts; `Snapshots`, `RackAgent`, `Queries` and the theorems take the
  load of a sound container to succeed.

## 7. What would come next

1. `CommitService` joined to the engine: `ServeRequest` as a step of
   `CoordinatorEngine` and not as any change of owners.
2. Two snapshots and two consumers; agents of two racks with a link between them.
