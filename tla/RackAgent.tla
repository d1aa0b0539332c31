------------------------------- MODULE RackAgent -------------------------------
(***************************************************************************)
(* Rack agents, the connections they hold to a coordinator, and the commit *)
(* engine behind them.                                                     *)
(*                                                                         *)
(* An agent is a process incarnation (a boot) that speaks for one rack.  A *)
(* call of its interface sends one frame at a time and waits for the       *)
(* answer; there is no timeout.  A connection may break at any time, before *)
(* or after the frame on it was served; the coordinator may restart.  The  *)
(* session of a broken connection is an orphan: it may still serve the     *)
(* frame it received, and ends later.  A session that ends asks for a      *)
(* fence of its boot.                                                      *)
(*                                                                         *)
(* A frame carries the request the session submits; its sequence number,   *)
(* which no one compares, and its encoding are left out.  So are the       *)
(* bounds on the agent's own configuration and the texts of its status.    *)
(***************************************************************************)
EXTENDS CoordinatorEngine, Sequences

CONSTANTS
    RackOf,            \* Boots -> Racks: RackAgentConfig::rack
    AgentPublisher,    \* RackAgentConfig::publisher
    ConfigGeneration,  \* RackAgentConfig::generation
    Supersessions,     \* generations a caller may supersede to
    Topology,          \* the configured links and domains, in publication order
    NoFrame,           \* nothing is on the wire
    Interface,         \* Boots -> SUBSET Kinds: the calls an agent's owner makes
    MaxCalls,          \* bound on the calls of all agents together
    MaxFaults          \* bound on lost connections, failed connects, failed fences,
                       \* stops and restarts of the coordinator

(* A link or a domain of the configuration of an agent. *)
Pieces ==
    [link : LinkIds, payload : LinkPayload]
    \cup [domain : DomainIds, payload : {x \in DomainRecord : x.generation > 0}]

ASSUME AgentAssumption ==
    /\ RackOf \in [Boots -> Racks]
    /\ AgentPublisher \in Publishers
    /\ ConfigGeneration \in Generations \ {0}
    /\ Supersessions \subseteq Generations \ {0}
    /\ Topology \in Seq(Pieces)
    /\ Interface \in [Boots -> SUBSET {"publish", "supersede", "revalidate", "heartbeat", "query"}]
    /\ MaxCalls \in Nat /\ MaxFaults \in Nat

VARIABLES
    agent,         \* the state of each agent process
    conn,          \* its current connection: session, frame sent, answer due
    orphans,       \* sessions whose connection is gone
    fences,        \* boots a fence is queued for
    given_up,      \* boots whose fence could not be saved and was dropped
    acknowledged,  \* history: the rack generation last acknowledged to the agent
    calls, faults  \* how many happened

bounds == <<calls, faults>>
agent_vars == <<agent, conn, orphans, fences, given_up, acknowledged, bounds>>

NewAgent ==
    [state |-> "Idle", doing |-> "nothing", handle |-> FALSE, registered |-> FALSE,
     stopped |-> FALSE, fenced |-> FALSE, generation |-> ConfigGeneration,
     superseding |-> 0, topology_left |-> <<>>, publication |-> 1,
     cluster_epoch |-> 0, coordinator_epoch |-> 0, topology_epoch |-> 0]

NoConnection == [session |-> "none", frame |-> NoFrame, answer |-> NoFrame]

AgentInit ==
    /\ Init
    /\ agent = [b \in Boots |-> NewAgent]
    /\ conn = [b \in Boots |-> NoConnection]
    /\ orphans = {} /\ fences = {} /\ given_up = {}
    /\ acknowledged = [b \in Boots |-> 0]
    /\ calls = 0 /\ faults = 0

IsCall == calls < MaxCalls /\ calls' = calls + 1
IsFault == faults < MaxFaults /\ faults' = faults + 1

-----------------------------------------------------------------------------
(***************************************************************************)
(* What an agent sends.                                                    *)
(***************************************************************************)
(* Mutated form: the counter is not advanced. *)
PublicationReused(a) == a

take_publication(a) ==
    [a EXCEPT !.publication = IF a.publication < MaxGeneration THEN a.publication + 1
                              ELSE a.publication]

(* EvidenceStamp::make with a known observation time. *)
Stamp == [provenance |-> "Reported", observed |-> TRUE, freshness |-> "Fresh"]

make_authority(a, b) ==
    [cluster_epoch |-> a.cluster_epoch, coordinator_epoch |-> a.coordinator_epoch,
     boot |-> b, publisher |-> AgentPublisher, publication |-> a.publication]

make_reference(a, b) ==
    [generation |-> a.generation, publisher |-> AgentPublisher, boot |-> b,
     publication |-> a.publication, evidence |-> Stamp,
     composition |-> Empty, endpoints |-> canonicalize[Empty]]

make_request(a, b) ==
    [cluster |-> ConfigCluster, authority |-> make_authority(a, b), evidence |-> Stamp,
     rack_reference |-> make_reference(a, b),
     expected_rack_generation |-> a.generation, new_rack_generation |-> a.superseding]

transport_ready(b) == agent[b].handle /\ ~agent[b].stopped

Frame(a, b, kind) ==
    [kind |-> kind, q |-> make_request(a, b), topology_left |-> a.topology_left,
     topology_epoch |-> a.topology_epoch]

(* send_frame by the agent in state a, which then waits for the answer.  A *)
(* frame sent on a dead connection is lost.                                *)
Sends(b, a, kind) ==
    /\ agent' = [agent EXCEPT ![b] = [take_publication(a) EXCEPT !.doing = kind]]
    /\ conn' = [conn EXCEPT ![b] =
          [session |-> conn[b].session, answer |-> NoFrame,
           frame |-> IF conn[b].session = "none" THEN NoFrame ELSE Frame(a, b, kind)]]

(* The call in progress ends and leaves the agent in state a. *)
Returns(b, a) ==
    /\ agent' = [agent EXCEPT ![b] = [a EXCEPT !.doing = "nothing", !.topology_left = <<>>]]
    /\ conn' = [conn EXCEPT ![b].answer = NoFrame]

Failed(a) == [a EXCEPT !.state = "Failed"]

-----------------------------------------------------------------------------
(***************************************************************************)
(* Calls.  The caller of an agent makes one call at a time.                *)
(***************************************************************************)
coordinator_side == <<fences, given_up, acknowledged, vars>>

(* The coordinator's end of a connection the agent no longer holds. *)
Orphan(b) ==
    IF conn[b].session = "none" THEN {}
    ELSE {[boot |-> b, session |-> conn[b].session, frame |-> conn[b].frame]}

(* connect() by an agent that is registered and has a handle returns at    *)
(* once, whatever became of the connection, and changes nothing.           *)
Reconnects(b) ==
    /\ agent[b].doing = "nothing" /\ ~agent[b].stopped
    /\ ~(agent[b].registered /\ agent[b].handle)
    /\ orphans' = orphans \cup Orphan(b)
    /\ IsCall
    /\ UNCHANGED coordinator_side

(* The connection is accepted, or closed at once when the coordinator has  *)
(* as many sessions as it admits.                                          *)
connect(b) ==
    /\ Reconnects(b)
    /\ agent' = [agent EXCEPT ![b] = [@ EXCEPT !.state = "Handshaking", !.doing = "hello",
                                              !.handle = TRUE, !.registered = FALSE]]
    /\ \/ /\ conn' = [conn EXCEPT ![b] = [session |-> "new", answer |-> NoFrame,
                                          frame |-> Frame(agent[b], b, "hello")]]
          /\ UNCHANGED faults
       \/ conn' = [conn EXCEPT ![b] = NoConnection] /\ IsFault

(* No socket, no address, or nobody listens. *)
ConnectFails(b) ==
    /\ Reconnects(b)
    /\ agent' = [agent EXCEPT ![b] = [@ EXCEPT !.state = "Failed", !.handle = FALSE,
                                              !.registered = FALSE]]
    /\ conn' = [conn EXCEPT ![b] = NoConnection]
    /\ IsFault

Calls(b, kind) ==
    /\ kind \in Interface[b]
    /\ agent[b].doing = "nothing" /\ transport_ready(b)
    /\ IsCall
    /\ UNCHANGED <<orphans, faults, coordinator_side>>

Publishing(b) == [agent[b] EXCEPT !.state = "Publishing"]

publish(b) == Calls(b, "publish") /\ Sends(b, Publishing(b), "publish")

supersede(b, new) ==
    /\ Calls(b, "supersede")
    /\ Sends(b, [Publishing(b) EXCEPT !.superseding = new], "supersede")

revalidate(b) == Calls(b, "revalidate") /\ Sends(b, Publishing(b), "revalidate")

heartbeat(b) == Calls(b, "heartbeat") /\ Sends(b, agent[b], "heartbeat")

(* request_snapshot and validate_snapshot: they consume a publication too. *)
query(b) == Calls(b, "query") /\ Sends(b, agent[b], "query")

(* Every call but connect on an agent without a transport, and every call  *)
(* on a stopped one.                                                       *)
CallRefused(b) ==
    /\ agent[b].doing = "nothing" /\ agent[b].state # "Failed"
    /\ ~transport_ready(b)
    /\ agent' = [agent EXCEPT ![b] = Failed(@)]
    /\ IsCall
    /\ UNCHANGED <<conn, orphans, faults, coordinator_side>>

(* stop(), or the death of the agent process in the middle of a call. *)
stop(b) ==
    /\ ~agent[b].stopped
    /\ agent' = [agent EXCEPT ![b] =
          [@ EXCEPT !.state = "Stopped", !.stopped = TRUE, !.doing = "nothing",
                    !.handle = FALSE, !.registered = FALSE, !.topology_left = <<>>]]
    /\ conn' = [conn EXCEPT ![b] = NoConnection]
    /\ orphans' = orphans \cup Orphan(b)
    /\ IsFault
    /\ UNCHANGED <<calls, coordinator_side>>

-----------------------------------------------------------------------------
(***************************************************************************)
(* Answers.                                                                *)
(***************************************************************************)
Known(new, old) == IF new > 0 THEN new ELSE old

observe(a, x) ==
    [a EXCEPT !.cluster_epoch = Known(x.cluster_epoch, @),
              !.coordinator_epoch = Known(x.coordinator_epoch, @),
              !.topology_epoch = Known(x.topology_epoch, @)]

(* Mutated form: every refusal is taken for a fence. *)
AnyRefusalFences(a, x) == [a EXCEPT !.fenced = TRUE]

record_rejection(a, x) == [a EXCEPT !.fenced = @ \/ x.reason = "StaleRackBoot"]

(* An agent that registered is ready again after a refusal. *)
Rejected(a, x) ==
    [record_rejection(a, x) EXCEPT !.state = IF a.registered THEN "Ready" ELSE @]

(* A refused handshake or registration. *)
record_failure(a, x) == Failed(record_rejection(a, x))

(* The answer x of a publication or of a piece of topology arrived: the    *)
(* next piece is sent, or the call returns.                                *)
Continues(b, a, left) ==
    IF a.registered /\ left # <<>>
    THEN Sends(b, [a EXCEPT !.topology_left = left], "topology")
    ELSE Returns(b, [a EXCEPT !.state = "Ready"])

Greeted(b, a, x) ==
    IF x.accepted THEN Sends(b, [observe(a, x) EXCEPT !.state = "Registering"], "register")
    ELSE Returns(b, record_failure(a, x))

Registered(b, a, x) ==
    Returns(b, IF x.accepted
               THEN [observe(a, x) EXCEPT !.registered = TRUE, !.state = "Ready"]
               ELSE record_failure(a, x))

Published(b, a, x) ==
    IF x.accepted THEN Continues(b, observe(a, x), Topology)
    ELSE Returns(b, Rejected(a, x))

TopologyPublished(b, a, x) ==
    Continues(b, IF x.accepted THEN observe(a, x) ELSE record_rejection(a, x),
              Tail(a.topology_left))

Superseded(b, a, x) ==
    IF x.accepted
    THEN Sends(b, [observe(a, x) EXCEPT !.generation = a.superseding], "publish")
    ELSE Returns(b, Rejected(a, x))

Revalidated(b, a, x) ==
    IF x.accepted THEN Sends(b, a, "publish") ELSE Returns(b, Rejected(a, x))

(* A refused heartbeat leaves the state of the agent alone. *)
HeartbeatAnswered(b, a, x) ==
    Returns(b, IF x.accepted THEN observe(a, x)
               ELSE record_rejection(a, x))

(* read_frame of the answer the agent waits for. *)
Receive(b) ==
    LET a == agent[b]
        x == conn[b].answer
    IN
    /\ x # NoFrame
    /\ \/ a.doing = "hello" /\ Greeted(b, a, x)
       \/ a.doing = "register" /\ Registered(b, a, x)
       \/ a.doing = "publish" /\ Published(b, a, x)
       \/ a.doing = "topology" /\ TopologyPublished(b, a, x)
       \/ a.doing = "supersede" /\ Superseded(b, a, x)
       \/ a.doing = "revalidate" /\ Revalidated(b, a, x)
       \/ a.doing = "heartbeat" /\ HeartbeatAnswered(b, a, x)
       \/ a.doing = "query" /\ Returns(b, a)
    /\ acknowledged' = [acknowledged EXCEPT ![b] =
          IF a.doing \in {"publish", "supersede"} /\ x.accepted
          THEN agent'[b].generation ELSE @]
    /\ UNCHANGED <<orphans, fences, given_up, bounds, vars>>

(* The connection is gone and no answer is left to read.  The handle stays *)
(* open and a registration stands.                                         *)
SeeClosed(b) ==
    /\ agent[b].doing # "nothing"
    /\ conn[b].session = "none" /\ conn[b].answer = NoFrame
    /\ Returns(b, Failed(agent[b]))
    /\ UNCHANGED <<orphans, bounds, coordinator_side>>

-----------------------------------------------------------------------------
(***************************************************************************)
(* The coordinator's sessions.  A piece of topology is                     *)
(* [link |-> l, payload |-> x] or [domain |-> d, payload |-> x]; the agent *)
(* stamps a link with its boot and the topology epoch it knows.            *)
(***************************************************************************)
Answer(accepted, reason) ==
    [accepted |-> accepted, reason |-> reason, cluster_epoch |-> epoch,
     coordinator_epoch |-> coordinator_epoch, topology_epoch |-> topology_epoch]

PublishPiece(q, piece, te) ==
    \/ /\ "link" \in DOMAIN piece
       /\ PublishInterRackLink(q, piece.link,
             [piece.payload EXCEPT !.boot = q.authority.boot, !.topology_epoch = te])
    \/ "domain" \in DOMAIN piece /\ publish_domain_record(q, piece.domain, piece.payload)

(* submit: the request of the frame changes canonical state, *)
Mutates(f, r) ==
    \/ f.kind = "register" /\ RegisterRackPublisher(f.q, r)
    \/ f.kind = "publish" /\ AddRack(f.q, r, "Fresh")
    \/ f.kind = "supersede" /\ UpdateRackGeneration(f.q, r)
    \/ f.kind = "revalidate" /\ RevalidateRecoveredState(f.q, {r})
    \/ f.kind = "topology" /\ PublishPiece(f.q, Head(f.topology_left), f.topology_epoch)

(* or is accepted and changes nothing: NO_CHANGE, a heartbeat, a HELLO, a  *)
(* query.                                                                  *)
(* Whether topology published again at its generation is a duplicate or a  *)
(* conflict depends on the time of the observation, so it may be either.   *)
AcceptedNoChange(f, r) ==
    LET x == f.q.rack_reference IN
    \/ /\ f.kind = "register" /\ validate_common(f.q) /\ ~is_rack_retired(r) /\ has_rack(r)
       /\ OwnedBy(r, AgentPublisher) /\ x.generation >= racks[r].generation
    \/ /\ f.kind = "publish" /\ validate_common(f.q) /\ ~is_rack_retired(r) /\ has_rack(r)
       /\ validate_boot(f.q, r) /\ ~Placeholder(r) /\ same_authoritative_content(racks[r], x)
       /\ racks[r].boot = x.boot /\ racks[r].publisher = x.publisher
       /\ racks[r].publication = x.publication
    \/ /\ f.kind = "supersede" /\ validate_common(f.q) /\ has_rack(r) /\ validate_boot(f.q, r)
       /\ f.q.expected_rack_generation = racks[r].generation
       /\ f.q.new_rack_generation = racks[r].generation
    \/ /\ f.kind = "topology" /\ validate_common(f.q)
       /\ LET p == Head(f.topology_left) IN
          IF "link" \in DOMAIN p THEN HasLink(p.link) /\ links[p.link].generation = p.payload.generation
          ELSE HasDomain(p.domain) /\ domains[p.domain].generation = p.payload.generation
    \/ /\ f.kind = "heartbeat"
       /\ f.q.authority.coordinator_epoch = coordinator_epoch
       /\ f.q.authority.cluster_epoch = epoch
    \/ f.kind \in {"hello", "query"}

(* validate_boot finds the incarnation fenced. *)
RefusedAsFenced(f, r) ==
    /\ validate_common(f.q)
    /\ is_boot_fenced(f.q.authority.boot)
    /\ \/ f.kind = "publish" /\ ~is_rack_retired(r)
       \/ f.kind = "supersede" /\ has_rack(r)

RefusalReason(f, r) == IF RefusedAsFenced(f, r) THEN "StaleRackBoot" ELSE "Other"

(* A mutation may always be refused: its save may fail. *)
MayBeRefused(f, r) ==
    /\ f.kind \notin {"hello", "query"}
    /\ f.kind = "heartbeat" => ~AcceptedNoChange(f, r)

(* What a session of boot b does with the frame f it received. *)
SessionServes(b, f, accepted) ==
    LET r == RackOf[b] IN
    \/ accepted /\ Mutates(f, r) /\ UNCHANGED bounds
    \/ accepted /\ AcceptedNoChange(f, r) /\ UNCHANGED <<bounds, vars>>
    \/ ~accepted /\ MayBeRefused(f, r) /\ UNCHANGED <<bounds, vars>>

(* Mutated form: a refused request is not answered. *)
RefusalUnanswered(b, f, accepted) ==
    IF accepted THEN Answer(TRUE, "None") ELSE NoFrame

AnswerTo(b, f, accepted) ==
    Answer(accepted, IF accepted THEN "None" ELSE RefusalReason(f, RackOf[b]))

ServeFrame(b) ==
    /\ conn[b].frame # NoFrame
    /\ \E accepted \in BOOLEAN :
          /\ conn' = [conn EXCEPT ![b] = [session |-> "greeted", frame |-> NoFrame,
                                          answer |-> AnswerTo(b, conn[b].frame, accepted)]]
          /\ UNCHANGED <<agent, orphans, fences, given_up, acknowledged>>
          /\ SessionServes(b, conn[b].frame, accepted)

(* The connection is lost.  An answer on its way may be lost with it. *)
Break(b) ==
    /\ conn[b].session # "none"
    /\ \E answer \in {conn[b].answer, NoFrame} :
          conn' = [conn EXCEPT ![b] = [NoConnection EXCEPT !.answer = answer]]
    /\ orphans' = orphans \cup Orphan(b)
    /\ IsFault
    /\ UNCHANGED <<agent, calls, coordinator_side>>

(* An orphan serves the frame it had received; nobody reads the answer. *)
OrphanServes(s) ==
    /\ s.frame # NoFrame
    /\ orphans' = (orphans \ {s}) \cup {[s EXCEPT !.frame = NoFrame, !.session = "greeted"]}
    /\ UNCHANGED <<agent, conn, fences, given_up, acknowledged>>
    /\ \E accepted \in BOOLEAN : SessionServes(s.boot, s.frame, accepted)

(* Mutated form: only links count as evidence. *)
OwnsLinks(b) == LinksOf(b) # {}

owns_evidence(b) == RacksOf(b) # {} \/ LinksOf(b) # {}

(* detach_session.  A frame not yet read is dropped. *)
detach_session(s) ==
    /\ orphans' = orphans \ {s}
    /\ fences' = IF s.session = "greeted" /\ owns_evidence(s.boot)
                 THEN fences \cup {s.boot} ELSE fences
    /\ UNCHANGED <<agent, conn, given_up, acknowledged, bounds, vars>>

(* apply_fence.  One that is refused or cannot be saved is rolled back and *)
(* not retried.                                                            *)
ServeFence(b) ==
    /\ b \in fences
    /\ fences' = fences \ {b}
    /\ UNCHANGED <<agent, conn, orphans, acknowledged, calls>>
    /\ \/ Fence(b, "given") /\ UNCHANGED <<given_up, faults>>
       \/ /\ ~owns_evidence(b) \/ ~CanBump({"cluster", "health"})
          /\ given_up' = IF owns_evidence(b) THEN given_up \cup {b} ELSE given_up
          /\ UNCHANGED <<faults, vars>>
       \/ IsFault /\ given_up' = given_up \cup {b} /\ UNCHANGED vars

DeclaredByOperator(q) ==
    DeclareCluster(q) /\ UNCHANGED agent_vars

(* The coordinator process dies and another takes its place. *)
CoordinatorRestarts ==
    /\ \E lost \in SUBSET {b \in Boots : conn[b].answer # NoFrame} :
          conn' = [b \in Boots |-> IF b \in lost THEN NoConnection
                                   ELSE [NoConnection EXCEPT !.answer = conn[b].answer]]
    /\ orphans' = {} /\ fences' = {} /\ given_up' = {}
    /\ IsFault
    /\ UNCHANGED <<agent, acknowledged, calls>>
    /\ Restart

-----------------------------------------------------------------------------
AgentCalls(b) ==
    \/ connect(b) \/ ConnectFails(b)
    \/ publish(b) \/ revalidate(b) \/ heartbeat(b) \/ query(b)
    \/ \E new \in Supersessions : supersede(b, new)
    \/ CallRefused(b)
    \/ stop(b)

AgentNext ==
    \/ \E b \in Boots : \/ AgentCalls(b)
                        \/ Receive(b) \/ SeeClosed(b)
                        \/ ServeFrame(b) \/ Break(b) \/ ServeFence(b)
    \/ \E s \in orphans : OrphanServes(s) \/ detach_session(s)
    \/ \E q \in ClusterRequests : DeclaredByOperator(q)
    \/ CoordinatorRestarts

all_vars == <<agent_vars, vars>>

(* A session reads and serves the frame sent to it, and an agent reads the *)
(* answer or learns that the connection is gone.  Nobody has to call, and  *)
(* no connection has to last.                                              *)
AgentSpec ==
    /\ AgentInit /\ [][AgentNext]_all_vars
    /\ \A b \in Boots : WF_all_vars(ServeFrame(b)) /\ WF_all_vars(Receive(b))
                        /\ WF_all_vars(SeeClosed(b))

-----------------------------------------------------------------------------
(***************************************************************************)
(* Properties.                                                             *)
(***************************************************************************)
(* No rack stays authoritative for an incarnation nobody watches: behind   *)
(* every authoritative rack is a session of its boot, or a fence of it is  *)
(* queued, or the save of that fence failed.  Sessions of one boot may     *)
(* overlap, the request of a lost connection may be served late, and an    *)
(* agent whose registration was refused can publish all the same.          *)
NoZombieAuthority ==
    \A r \in Racks : racks[r].authoritative_current =>
        LET b == racks[r].boot IN
        \/ conn[b].session = "greeted"
        \/ \E s \in orphans : s.boot = b /\ s.session = "greeted"
        \/ b \in fences \cup given_up

(* The publication counter an agent will use next is newer than every one  *)
(* of its own the coordinator recorded, whichever of its frames were lost, *)
(* refused or served after their connection was gone: an agent is never    *)
(* refused for repeating itself.  At its maximum the counter stays.        *)
OwnPublicationIsNew ==
    \A r \in Racks : racks[r].boot \in Boots =>
        LET a == agent[racks[r].boot] IN
        racks[r].publication < a.publication \/ a.publication = MaxGeneration

(* What an agent was told is published is still recorded, after any crash  *)
(* of the coordinator and any other publication.                           *)
AcknowledgedSurvives ==
    \A b \in Boots : racks[RackOf[b]].generation >= acknowledged[b]

(* An agent that reports itself fenced is fenced for good: no restart of   *)
(* the coordinator and no takeover by another incarnation forgets it.      *)
FencedFlagIsTrue ==
    \A b \in Boots : agent[b].fenced => is_boot_fenced(b)

(* Every call returns, though no call has a timeout: each frame is         *)
(* answered, or its connection is seen to close.                           *)
CallsReturn ==
    \A b \in Boots : []<>(agent[b].doing = "nothing")
=============================================================================
