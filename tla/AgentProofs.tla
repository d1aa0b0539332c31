------------------------------ MODULE AgentProofs ------------------------------
(***************************************************************************)
(* Proofs about the rack agents, their sessions and the engine behind      *)
(* them, for any number of incarnations, racks, calls and faults.          *)
(***************************************************************************)
EXTENDS EngineTheorems, AgentStepProofs

-----------------------------------------------------------------------------
(***************************************************************************)
(* The inductive invariants.                                               *)
(***************************************************************************)
AgentInv ==
    /\ IInv /\ AgentTypeOK /\ FramesAreOwn /\ BootsNamed
    /\ \A b \in Boots : Waits(b)
    /\ NoZombieAuthority /\ OwnPublicationIsNew

ToldInv ==
    AgentInv /\ AnswersAreTrue /\ FencedFlagIsTrue /\ AcknowledgedSurvives

-----------------------------------------------------------------------------
(***************************************************************************)
(* Agents and connections.                                                 *)
(***************************************************************************)

(* The steps of agents and connections keep the invariants. *)
LEMMA MovesKeep ==
    ASSUME AgentInv, NEW b \in Boots, AgentMoves(b), SessionStays(b), AgentHears(b),
           UNCHANGED <<fences, given_up, vars>>
    PROVE  AgentInv' /\ (ToldInv => ToldInv')
<1>1. UNCHANGED <<racks, fenced_authorities>>
  BY EngineIdle, Zenon
<1>2. /\ agent \in [Boots -> AgentRecord] /\ conn \in [Boots -> Connection]
      /\ orphans \subseteq Session
  BY Zenon DEF AgentInv, AgentTypeOK
<1>3. ASSUME NEW k \in Boots
      PROVE  agent'[k].publication >= agent[k].publication
  <2>1. agent[k].publication \in Int
    BY <1>2, GenerationBound DEF AgentRecord, Generations
  <2> QED BY <2>1 DEF AgentMoves
<1>4. AgentTypeOK'
  <2>1. Orphan(b) \subseteq Session
    BY <1>2 DEF Orphan, Session, Connection
  <2> QED BY <1>2, <2>1, Zenon DEF AgentInv, AgentTypeOK, AgentMoves, AgentHears, SessionStays
<1>5. FramesAreOwn'
  <2>1. \A k \in Boots : conn'[k].frame # NoFrame =>
              conn'[k].frame = conn[k].frame \/ SentBy(k, conn[k].frame)'
    BY Zenon DEF AgentMoves
  <2>2. \A s \in orphans' : s.frame # NoFrame =>
              \/ \E y \in orphans : s.boot = y.boot /\ s.frame = y.frame
              \/ s.frame = conn[s.boot].frame
    BY DEF SessionStays, Orphan
  <2> QED BY <1>3, <1>4, <2>1, <2>2, FramesStayOwn, Zenon DEF AgentInv
<1>6. BootsNamed'
  BY <1>1, Zenon DEF AgentInv, BootsNamed, has_rack
<1>7. \A k \in Boots : Waits(k)'
  BY DEF AgentInv, AgentMoves, Waits
<1>8. NoZombieAuthority'
  <2>1. ASSUME NEW r \in Racks, racks'[r].authoritative_current
        PROVE  /\ racks[r].authoritative_current /\ racks'[r].boot = racks[r].boot
               /\ Watched(racks[r].boot) => Watched(racks[r].boot)'
    <3>1. racks[r].boot \in Boots
      BY <1>1, <2>1, Zenon DEF AgentInv, BootsNamed, IInv, AuthorityIsLive, has_rack
    <3>2. \A k \in Boots : Watched(k) => Watched(k)'
      BY SessionWatched, Zenon DEF AgentMoves
    <3> QED BY <1>1, <2>1, <3>1, <3>2, Zenon DEF Watched
  <2> QED BY <2>1, WatchKept, Zenon DEF AgentInv
<1>9. OwnPublicationIsNew'
  <2>1. ASSUME NEW r \in Racks, racks'[r].boot \in Boots
        PROVE  \/ racks'[r].publication < agent'[racks'[r].boot].publication
               \/ agent'[racks'[r].boot].publication = MaxGeneration
    <3> DEFINE k == racks[r].boot
    <3>1. /\ k \in Boots /\ k = racks'[r].boot
          /\ racks[r].publication \in Generations /\ racks'[r].publication = racks[r].publication
      BY <1>1, <2>1, Zenon DEF AgentInv, IInv, TypeOK, RecordsTyped, RackRecord
    <3>2. /\ agent[k].publication \in Generations /\ agent'[k].publication \in Generations
          /\ agent'[k].publication >= agent[k].publication
      BY <1>2, <1>3, <1>4, <3>1, Zenon DEF AgentTypeOK, AgentRecord
    <3>3. racks[r].publication < agent[k].publication \/ agent[k].publication = MaxGeneration
      BY <3>1, Zenon DEF AgentInv, OwnPublicationIsNew
    <3> HIDE DEF k
    <3> QED BY <3>1, <3>2, <3>3, GenerationBound DEF Generations
  <2> QED BY <2>1, Zenon DEF OwnPublicationIsNew
<1>10. AgentInv'
  BY <1>4, <1>5, <1>6, <1>7, <1>8, <1>9, StutterServed, Zenon DEF AgentInv
<1>11. ASSUME ToldInv PROVE ToldInv'
  <2>1. AnswersAreTrue'
    BY <1>1, <1>11 DEF ToldInv, AnswersAreTrue, AnswerIsTrue, AgentMoves
  <2>2. FencedFlagIsTrue'
    BY <1>1, <1>11, Zenon DEF ToldInv, AnswersAreTrue, AnswerIsTrue, FencedFlagIsTrue,
                         AgentMoves, is_boot_fenced
  <2>3. AcknowledgedSurvives'
    BY <1>1, <1>11, Zenon DEF ToldInv, AnswersAreTrue, AnswerIsTrue, AcknowledgedSurvives, AgentHears
  <2> QED BY <1>10, <2>1, <2>2, <2>3, Zenon DEF ToldInv
<1> QED BY <1>10, <1>11, Zenon

(* The end of an orphan keeps the invariants: the fence it asks for takes  *)
(* its place.                                                              *)
LEMMA DetachKeeps ==
    ASSUME AgentInv, NEW s \in orphans, detach_session(s)
    PROVE  AgentInv' /\ (ToldInv => ToldInv')
<1>1. /\ UNCHANGED <<agent, conn, given_up, acknowledged, vars>>
      /\ orphans' = orphans \ {s}
      /\ fences' = IF s.session = "greeted" /\ owns_evidence(s.boot)
                   THEN fences \cup {s.boot} ELSE fences
  BY Zenon DEF detach_session
<1>2. UNCHANGED <<racks, fenced_authorities>>
  BY <1>1, EngineIdle, Zenon
<1>3. AgentTypeOK'
  BY <1>1, Zenon DEF AgentInv, AgentTypeOK, Session
<1>4. FramesAreOwn' /\ (\A b \in Boots : Waits(b)')
  BY <1>1, Zenon DEF AgentInv, FramesAreOwn, SentBy, Spent, Waits
<1>5. BootsNamed' /\ OwnPublicationIsNew'
  BY <1>1, <1>2, Zenon DEF AgentInv, BootsNamed, OwnPublicationIsNew, has_rack
<1>6. NoZombieAuthority'
  <2>1. ASSUME NEW r \in Racks, racks'[r].authoritative_current, Watched(racks[r].boot)
        PROVE  Watched(racks[r].boot)'
    <3>1. r \in RacksOf(racks[r].boot)
      BY <1>2, <2>1, Zenon DEF AgentInv, IInv, AuthorityIsLive, has_rack, RacksOf
    <3> QED BY <1>1, <1>2, <2>1, <3>1, Zenon DEF Watched, owns_evidence
  <2> QED BY <1>2, <2>1, WatchKept, Zenon DEF AgentInv
<1>7. AgentInv'
  BY <1>1, <1>3, <1>4, <1>5, <1>6, StutterServed, Zenon DEF AgentInv
<1>8. ToldInv => ToldInv'
  BY <1>1, <1>2, <1>7, Zenon DEF ToldInv, AnswersAreTrue, AnswerIsTrue, FencedFlagIsTrue,
                             AcknowledgedSurvives, is_boot_fenced
<1> QED BY <1>7, <1>8, Zenon

-----------------------------------------------------------------------------
(***************************************************************************)
(* What a session submits.  The request of an agent leaves some fields of  *)
(* a MutationRequest out; no handler an agent reaches reads them.          *)
(***************************************************************************)
Completed(q) ==
    [cluster |-> q.cluster, authority |-> q.authority, evidence |-> q.evidence,
     declared_lifecycle |-> "Declared", readiness_contract |-> ConfigContract,
     rack_reference |-> q.rack_reference,
     expected_rack_generation |-> q.expected_rack_generation,
     new_rack_generation |-> q.new_rack_generation,
     target_topology_epoch |-> 0, reachability |-> "Unknown"]

(* A completed request is a MutationRequest. *)
LEMMA CompletedTypes ==
    ASSUME NEW q \in AgentRequest
    PROVE  Completed(q) \in MutationRequest
BY StateAssumption, GenerationBound
   DEF Completed, AgentRequest, MutationRequest, Lifecycles, Reachabilities, Generations

(* The handlers serve it as they serve the request of the agent. *)
LEMMA CompletedServed ==
    ASSUME NEW q, NEW r \in Racks
    PROVE  /\ validate_common(q) => validate_common(Completed(q))
           /\ RegisterRackPublisher(q, r) => RegisterRackPublisher(Completed(q), r)
           /\ AddRack(q, r, "Fresh") => AddRack(Completed(q), r, "Fresh")
           /\ UpdateRackGeneration(q, r) => UpdateRackGeneration(Completed(q), r)
<1> DEFINE p == Completed(q)
<1>1. /\ p.cluster = q.cluster /\ p.authority = q.authority /\ p.evidence = q.evidence
      /\ p.rack_reference = q.rack_reference
      /\ p.expected_rack_generation = q.expected_rack_generation
      /\ p.new_rack_generation = q.new_rack_generation
  BY Zenon DEF Completed
<1> HIDE DEF p
<1>2. validate_common(q) => validate_common(p)
  BY <1>1, Zenon DEF validate_common
<1>3. validate_boot(q, r) => validate_boot(p, r)
  BY <1>1, Zenon DEF validate_boot, IdenticalDuplicate
<1>4. RegisterRackPublisher(q, r) => RegisterRackPublisher(p, r)
  BY <1>1, <1>2, Zenon DEF RegisterRackPublisher
<1>5. AddRack(q, r, "Fresh") => AddRack(p, r, "Fresh")
  BY <1>1, <1>2, <1>3, SMT DEF AddRack
<1>6. UpdatedRack(racks[r], p) = UpdatedRack(racks[r], q)
  BY <1>1, Zenon DEF UpdatedRack
<1>7. UpdateRackGeneration(q, r) => UpdateRackGeneration(p, r)
  BY <1>1, <1>2, <1>3, <1>6, Zenon DEF UpdateRackGeneration
<1> QED BY <1>2, <1>4, <1>5, <1>7, Zenon DEF p

(* A piece of topology is a link or a domain. *)
LEMMA PieceTypes ==
    ASSUME NEW p \in Pieces
    PROVE  /\ "link" \in DOMAIN p => p.link \in LinkIds /\ p.payload \in LinkPayload
           /\ "domain" \in DOMAIN p => /\ p.domain \in DomainIds
                                       /\ p.payload \in DomainRecord /\ p.payload.generation > 0
<1>1. CASE p \in [link : LinkIds, payload : LinkPayload]
  BY <1>1, Zenon
<1>2. CASE p \in [domain : DomainIds, payload : {x \in DomainRecord : x.generation > 0}]
  BY <1>2, Zenon
<1> QED BY <1>1, <1>2, Zenon DEF Pieces

(* A served piece is the publication of a link or of a domain record. *)
LEMMA PieceServed ==
    ASSUME NEW b \in Boots, NEW f \in FrameRecord, SentBy(b, f), f.kind = "topology",
           PublishPiece(f.q, Head(f.topology_left), f.topology_epoch)
    PROVE  \/ \E l \in LinkIds, x \in LinkPayload : PublishInterRackLink(Completed(f.q), l, x)
           \/ \E d \in DomainIds, x \in DomainRecord :
                 x.generation > 0 /\ publish_domain_record(Completed(f.q), d, x)
<1> DEFINE piece == Head(f.topology_left)
<1>1. /\ piece \in Pieces /\ f.q \in AgentRequest
      /\ f.q.authority.boot = b /\ f.topology_epoch \in Generations
  BY DEF FrameRecord, SentBy
<1>2. validate_common(f.q) => validate_common(Completed(f.q))
  BY Zenon DEF Completed, validate_common
<1> HIDE DEF piece
<1>3. CASE "link" \in DOMAIN piece /\ PublishInterRackLink(f.q, piece.link,
              [piece.payload EXCEPT !.boot = f.q.authority.boot,
                                    !.topology_epoch = f.topology_epoch])
  <2>1. PICK x : x = [piece.payload EXCEPT !.boot = f.q.authority.boot,
                                           !.topology_epoch = f.topology_epoch]
    BY Zenon
  <2>2. piece.link \in LinkIds /\ x \in LinkPayload
    BY <1>1, <1>3, <2>1, PieceTypes, Zenon DEF LinkPayload
  <2>3. PublishInterRackLink(Completed(f.q), piece.link, x)
    BY <1>2, <1>3, <2>1, Zenon DEF PublishInterRackLink
  <2> QED BY <2>2, <2>3, Zenon
<1>4. CASE "domain" \in DOMAIN piece
           /\ publish_domain_record(f.q, piece.domain, piece.payload)
  <2>1. publish_domain_record(Completed(f.q), piece.domain, piece.payload)
    BY <1>2, <1>4, Zenon DEF publish_domain_record
  <2> QED BY <1>1, <1>4, <2>1, PieceTypes, Zenon
<1> QED BY <1>3, <1>4, Zenon DEF PublishPiece, piece

(* A request the engine serves, with any payload. *)
EngineRequest(q) ==
    \/ \E r \in Racks : RackMutation(q, r)
    \/ \E l \in LinkIds, x \in LinkPayload : PublishInterRackLink(q, l, x)
    \/ \E d \in DomainIds, x \in DomainRecord :
          x.generation > 0 /\ publish_domain_record(q, d, x)
    \/ ClusterMutation(q)

(* What an agent asks for is such a request, once completed. *)
LEMMA FrameIsRequest ==
    ASSUME NEW b \in Boots, NEW f \in FrameRecord, SentBy(b, f), NEW r \in Racks,
           Mutates(f, r)
    PROVE  Completed(f.q) \in MutationRequest /\ EngineRequest(Completed(f.q))
<1> DEFINE p == Completed(f.q)
<1>1. p \in MutationRequest
  BY CompletedTypes, Zenon DEF FrameRecord
<1>2. CASE \/ RegisterRackPublisher(f.q, r) \/ AddRack(f.q, r, "Fresh")
           \/ UpdateRackGeneration(f.q, r)
  <2>1. RackMutation(p, r)
    BY <1>2, CompletedServed, Zenon DEF RackMutation, Ages
  <2> QED BY <1>1, <2>1, Zenon DEF EngineRequest
<1>3. CASE RevalidateRecoveredState(f.q, {r})
  <2>1. RevalidateRecoveredState(p, {r})
    BY <1>3, CompletedServed, Zenon DEF RevalidateRecoveredState
  <2>2. ClusterMutation(p)
    BY <2>1, Zenon DEF ClusterMutation
  <2> QED BY <1>1, <2>2, Zenon DEF EngineRequest
<1>4. CASE f.kind = "topology" /\ PublishPiece(f.q, Head(f.topology_left), f.topology_epoch)
  BY <1>1, <1>4, PieceServed, Zenon DEF EngineRequest
<1> QED BY <1>2, <1>3, <1>4, Zenon DEF Mutates

(* Every request of an agent preserves the invariant of the engine. *)
LEMMA FrameServed ==
    ASSUME IInv, NEW b \in Boots, NEW f \in FrameRecord, SentBy(b, f), NEW r \in Racks,
           Mutates(f, r)
    PROVE  Served
BY FrameIsRequest, RackMutationServed, PublishLinkServed, PublishDomainServed,
   ClusterMutationServed, Zenon DEF EngineRequest

(* It records its own incarnation and publication, at the generation it    *)
(* asks for, or leaves the racks alone.                                    *)
LEMMA FrameRecorded ==
    ASSUME IInv, NEW b \in Boots, NEW f \in FrameRecord, SentBy(b, f), NEW r \in Racks,
           Mutates(f, r)
    PROVE  /\ \A k \in Racks \ {r} : racks'[k] = racks[k]
           /\ \/ racks'[r] = racks[r]
              \/ /\ racks'[r].boot = b /\ f.kind # "hello"
                 /\ racks'[r].publication = f.q.authority.publication
           /\ f.kind = "publish" => racks'[r].generation = f.q.rack_reference.generation
           /\ f.kind = "supersede" => racks'[r].generation = f.q.new_rack_generation
<1>0. /\ racks \in [Racks -> RackRecord] /\ b # NoBoot
      /\ f.q.authority.boot = b /\ f.q.rack_reference.boot = b
      /\ f.q.rack_reference.publication = f.q.authority.publication
      /\ f.q.rack_reference \in RackReference
  BY StateAssumption, Zenon
     DEF IInv, TypeOK, RecordsTyped, SentBy, FrameRecord, AgentRequest
<1>1. CASE f.kind = "register" /\ RegisterRackPublisher(f.q, r)
  BY <1>0, <1>1, Zenon DEF RegisterRackPublisher, NoRack
<1>2. CASE f.kind = "publish" /\ AddRack(f.q, r, "Fresh")
  BY <1>0, <1>2 DEF AddRack, RackReference
<1>3. CASE f.kind = "supersede" /\ UpdateRackGeneration(f.q, r)
  BY <1>0, <1>3, Zenon DEF UpdateRackGeneration, UpdatedRack
<1>4. CASE f.kind = "revalidate" /\ RevalidateRecoveredState(f.q, {r})
  BY <1>4, Zenon DEF RevalidateRecoveredState
<1>5. CASE f.kind = "topology" /\ PublishPiece(f.q, Head(f.topology_left), f.topology_epoch)
  <2>1. UNCHANGED racks
    BY <1>5, Zenon DEF PublishPiece, PublishInterRackLink, publish_domain_record
  <2> QED BY <1>5, <2>1, Zenon
<1> QED BY <1>1, <1>2, <1>3, <1>4, <1>5, Zenon DEF Mutates

-----------------------------------------------------------------------------
(***************************************************************************)
(* The sessions of the coordinator.                                        *)
(***************************************************************************)

(* No fence is lifted and no rack loses a generation. *)
Forward ==
    /\ fenced_authorities \subseteq fenced_authorities'
    /\ \A r \in Racks : racks'[r].generation >= racks[r].generation

(* A step that changes nothing moves nothing back. *)
LEMMA IdleForward ==
    ASSUME IInv, UNCHANGED <<racks, fenced_authorities>>
    PROVE  Forward
BY GenerationBound DEF Forward, IInv, TypeOK, RecordsTyped, RackRecord, Generations

(* A session that serves a frame of its boot gives authority to that boot  *)
(* alone, and accepts what it has recorded.                                *)
LEMMA SessionServed ==
    ASSUME IInv, BootsNamed, OwnPublicationIsNew, AgentTypeOK, UNCHANGED agent,
           NEW b \in Boots, NEW f \in FrameRecord, SentBy(b, f),
           NEW accepted \in BOOLEAN, SessionServes(b, f, accepted)
    PROVE  /\ IInv' /\ BootsNamed' /\ OwnPublicationIsNew' /\ Forward
           /\ \A r \in Racks : racks'[r] = racks[r] \/ racks'[r].boot = b
           /\ accepted /\ f.kind = "publish" =>
                 racks'[RackOf[b]].generation >= f.q.rack_reference.generation
           /\ accepted /\ f.kind = "supersede" =>
                 racks'[RackOf[b]].generation >= f.q.new_rack_generation
<1> DEFINE r == RackOf[b]
<1>0. /\ r \in Racks /\ racks \in [Racks -> RackRecord]
      /\ f.q.rack_reference.generation \in Generations /\ f.q.new_rack_generation \in Generations
  BY AgentAssumption, Zenon DEF IInv, TypeOK, RecordsTyped, FrameRecord, AgentRequest, RackReference
<1>1. CASE accepted /\ Mutates(f, r)
  <2>1. Served
    BY <1>0, <1>1, FrameServed, Zenon
  <2>2. Declared
    BY <1>1, Zenon DEF Mutates, PublishPiece, RegisterRackPublisher, AddRack, UpdateRackGeneration,
         RevalidateRecoveredState, PublishInterRackLink, publish_domain_record,
         validate_common, Declared
  <2>3. IInv' /\ Forward
    BY <2>1, <2>2, Zenon DEF Served, MovesForward, Forward
  <2>4. /\ \A k \in Racks \ {r} : racks'[k] = racks[k]
        /\ \/ racks'[r] = racks[r]
           \/ /\ racks'[r].boot = b /\ f.kind # "hello"
              /\ racks'[r].publication = f.q.authority.publication
        /\ f.kind = "publish" => racks'[r].generation = f.q.rack_reference.generation
        /\ f.kind = "supersede" => racks'[r].generation = f.q.new_rack_generation
    BY <1>0, <1>1, FrameRecorded
  <2> HIDE DEF r
  <2>5. BootsNamed'
    BY <1>0, <2>4, Zenon DEF BootsNamed, has_rack
  <2>6. OwnPublicationIsNew'
    <3>1. ASSUME NEW k \in Racks, racks'[k].boot \in Boots
          PROVE  \/ racks'[k].publication < agent[racks'[k].boot].publication
                 \/ agent[racks'[k].boot].publication = MaxGeneration
      <4>1. CASE racks'[k] = racks[k]
        BY <3>1, <4>1, Zenon DEF OwnPublicationIsNew
      <4>2. CASE racks'[k] # racks[k]
        BY <2>4, <4>2, Zenon DEF SentBy, Spent
      <4> QED BY <4>1, <4>2, Zenon
    <3> QED BY <3>1, Zenon DEF OwnPublicationIsNew
  <2>7. /\ \A k \in Racks : racks'[k] = racks[k] \/ racks'[k].boot = b
        /\ f.kind = "publish" => racks'[r].generation >= f.q.rack_reference.generation
        /\ f.kind = "supersede" => racks'[r].generation >= f.q.new_rack_generation
    BY <1>0, <2>4, GenerationBound DEF Generations
  <2> QED BY <2>3, <2>5, <2>6, <2>7, Zenon DEF r
<1>2. CASE UNCHANGED vars
  <2>1. UNCHANGED <<racks, fenced_authorities>>
    BY <1>2, EngineIdle, Zenon
  <2>2. IInv' /\ Forward
    BY <1>2, <2>1, StutterServed, IdleForward, Zenon
  <2>3. BootsNamed' /\ OwnPublicationIsNew'
    BY <2>1, Zenon DEF BootsNamed, OwnPublicationIsNew, has_rack
  <2>4. (accepted /\ Mutates(f, r)) \/ (accepted => AcceptedNoChange(f, r))
    BY Zenon DEF SessionServes
  <2>5. AcceptedNoChange(f, r) =>
           /\ f.kind = "publish" => racks'[r].generation >= f.q.rack_reference.generation
           /\ f.kind = "supersede" => racks'[r].generation >= f.q.new_rack_generation
    <3>1. AcceptedNoChange(f, r) =>
             /\ f.kind = "publish" => racks[r].generation = f.q.rack_reference.generation
             /\ f.kind = "supersede" => racks[r].generation = f.q.new_rack_generation
      BY Zenon DEF AcceptedNoChange, same_authoritative_content
    <3> HIDE DEF r
    <3> QED BY <1>0, <2>1, <3>1, GenerationBound DEF Generations
  <2> QED BY <1>1, <2>1, <2>2, <2>3, <2>4, <2>5, Zenon
<1> QED BY <1>1, <1>2, Zenon DEF SessionServes

(* A refusal that names a fence names one that stands. *)
LEMMA RefusalIsTrue ==
    ASSUME NEW b \in Boots, NEW f \in FrameRecord, SentBy(b, f), NEW accepted \in BOOLEAN,
           AnswerTo(b, f, accepted).reason = "StaleRackBoot"
    PROVE  b \in fenced_authorities
BY Zenon DEF AnswerTo, Answer, RefusalReason, RefusedAsFenced, SentBy, is_boot_fenced

(* An answer is typed. *)
LEMMA AnswerTypes ==
    ASSUME IInv, NEW b \in Boots, NEW f, NEW accepted \in BOOLEAN
    PROVE  /\ AnswerTo(b, f, accepted) \in AnswerRecord
           /\ AnswerTo(b, f, accepted).accepted = accepted
BY Zenon DEF AnswerTo, Answer, RefusalReason, AnswerRecord, IInv, TypeOK, ScalarsTyped

(* What is no lower than a bound keeps it when it does not fall. *)
LEMMA NoLower ==
    ASSUME NEW x \in Int, NEW y \in Int, NEW z \in Int, x >= y, y >= z
    PROVE  x >= z
OBVIOUS

(* What agents were told survives a step of the engine that moves nothing  *)
(* back.                                                                   *)
LEMMA ToldStays ==
    ASSUME ToldInv, Forward, AgentInv', UNCHANGED <<agent, acknowledged>>,
           \A b \in Boots : conn'[b].answer # NoFrame =>
              conn'[b].answer = conn[b].answer \/ AnswerIsTrue(b)'
    PROVE  ToldInv'
<1>0. /\ Generations \subseteq Int /\ RackOf \in [Boots -> Racks]
      /\ racks \in [Racks -> RackRecord] /\ racks' \in [Racks -> RackRecord]
      /\ agent \in [Boots -> AgentRecord] /\ acknowledged \in [Boots -> Generations]
  <2>1. TypeOK /\ TypeOK' /\ AgentTypeOK
    BY Zenon DEF ToldInv, AgentInv, IInv
  <2>2. racks \in [Racks -> RackRecord] /\ racks' \in [Racks -> RackRecord]
    BY <2>1, Zenon DEF TypeOK, RecordsTyped
  <2>3. agent \in [Boots -> AgentRecord] /\ acknowledged \in [Boots -> Generations]
    BY <2>1, Zenon DEF AgentTypeOK
  <2>4. Generations \subseteq Int
    BY GenerationBound DEF Generations
  <2> QED BY <2>2, <2>3, <2>4, AgentAssumption, Zenon
<1>1. /\ \A b \in Boots : RackOf[b] \in Racks
      /\ \A r \in Racks : racks[r].generation \in Int /\ racks'[r].generation \in Int
      /\ \A b \in Boots : /\ agent[b].generation \in Int /\ agent[b].superseding \in Int
                          /\ acknowledged[b] \in Int
  BY <1>0, Zenon DEF AgentRecord, RackRecord
<1>2. \A b \in Boots : racks'[RackOf[b]].generation >= racks[RackOf[b]].generation
  BY <1>1, Zenon DEF Forward
<1>3. AcknowledgedSurvives'
  <2> SUFFICES ASSUME NEW b \in Boots
               PROVE  racks'[RackOf[b]].generation >= acknowledged'[b]
    BY Zenon DEF AcknowledgedSurvives
  <2>1. racks[RackOf[b]].generation >= acknowledged[b] /\ acknowledged'[b] = acknowledged[b]
    BY Zenon DEF ToldInv, AcknowledgedSurvives
  <2> QED BY <1>1, <1>2, <2>1, NoLower, Zenon
<1>4. FencedFlagIsTrue'
  BY Zenon DEF ToldInv, FencedFlagIsTrue, Forward, is_boot_fenced
<1>5. AnswersAreTrue'
  <2> SUFFICES ASSUME NEW b \in Boots, conn'[b].answer # NoFrame,
                      conn'[b].answer = conn[b].answer
               PROVE  AnswerIsTrue(b)'
    BY Zenon DEF AnswersAreTrue, AnswerIsTrue
  <2>1. agent'[b] = agent[b]
    BY Zenon
  <2>2. /\ conn[b].answer.reason = "StaleRackBoot" => b \in fenced_authorities
        /\ conn[b].answer.accepted /\ agent[b].doing = "publish"
              => racks[RackOf[b]].generation >= agent[b].generation
        /\ conn[b].answer.accepted /\ agent[b].doing = "supersede"
              => racks[RackOf[b]].generation >= agent[b].superseding
    BY Zenon DEF ToldInv, AnswersAreTrue, AnswerIsTrue
  <2>3. /\ racks[RackOf[b]].generation >= agent[b].generation
              => racks'[RackOf[b]].generation >= agent[b].generation
        /\ racks[RackOf[b]].generation >= agent[b].superseding
              => racks'[RackOf[b]].generation >= agent[b].superseding
    BY <1>1, <1>2, NoLower, Zenon
  <2>4. b \in fenced_authorities => b \in fenced_authorities'
    BY Zenon DEF Forward
  <2> QED BY <2>1, <2>2, <2>3, <2>4, Zenon DEF AnswerIsTrue
<1> QED BY <1>3, <1>4, <1>5, Zenon DEF ToldInv

(* A session that answers the frame it received. *)
LEMMA ServeFrameKeeps ==
    ASSUME AgentInv, NEW b \in Boots, ServeFrame(b)
    PROVE  AgentInv' /\ (ToldInv => ToldInv')
<1>1. PICK accepted \in BOOLEAN :
          /\ conn' = [conn EXCEPT ![b] = [session |-> "greeted", frame |-> NoFrame,
                                          answer |-> AnswerTo(b, conn[b].frame, accepted)]]
          /\ UNCHANGED <<agent, orphans, fences, given_up, acknowledged>>
          /\ SessionServes(b, conn[b].frame, accepted)
  BY Zenon DEF ServeFrame
<1>2. PICK f : f = conn[b].frame
  BY Zenon
<1>3. /\ f \in FrameRecord /\ SentBy(b, f) /\ SessionServes(b, f, accepted)
      /\ agent \in [Boots -> AgentRecord] /\ conn \in [Boots -> Connection] /\ f # NoFrame
  BY <1>1, <1>2, Zenon DEF AgentInv, AgentTypeOK, Connection, FramesAreOwn, ServeFrame
<1> DEFINE x == AnswerTo(b, f, accepted)
           c == [session |-> "greeted", frame |-> NoFrame, answer |-> x]
<1>4. x \in AnswerRecord /\ x.accepted = accepted
  BY AnswerTypes, Zenon DEF AgentInv
<1> HIDE DEF x
<1>5. c \in Connection /\ c.session = "greeted" /\ c.frame = NoFrame /\ c.answer = x
  BY <1>4, Zenon DEF Connection
<1>6. conn' = [conn EXCEPT ![b] = c]
  BY <1>1, <1>2, Zenon DEF x
<1> HIDE DEF c
<1>7. /\ conn' \in [Boots -> Connection] /\ conn'[b] = c
      /\ \A k \in Boots \ {b} : conn'[k] = conn[k]
  BY <1>3, <1>5, <1>6, Zenon
<1>8. /\ IInv' /\ BootsNamed' /\ OwnPublicationIsNew' /\ Forward
      /\ \A r \in Racks : racks'[r] = racks[r] \/ racks'[r].boot = b
      /\ accepted /\ f.kind = "publish" =>
            racks'[RackOf[b]].generation >= f.q.rack_reference.generation
      /\ accepted /\ f.kind = "supersede" =>
            racks'[RackOf[b]].generation >= f.q.new_rack_generation
  BY <1>1, <1>3, SessionServed, Zenon DEF AgentInv
<1>9. AgentTypeOK'
  BY <1>1, <1>7, Zenon DEF AgentInv, AgentTypeOK
<1>10. FramesAreOwn'
  <2>1. \A k \in Boots : agent'[k].publication >= agent[k].publication
    BY <1>1, <1>3, GenerationBound DEF AgentRecord, Generations
  <2> QED BY <1>1, <1>5, <1>7, <1>9, <2>1, FramesStayOwn, Zenon DEF AgentInv
<1>11. \A k \in Boots : Waits(k)'
  BY <1>1, <1>5, <1>7, Zenon DEF AgentInv, Waits
<1>12. NoZombieAuthority'
  <2>1. \A k \in Boots : Watched(k) => Watched(k)'
    BY <1>1, <1>5, <1>7, Zenon DEF Watched
  <2>2. Watched(b)'
    BY <1>5, <1>7, Zenon DEF Watched
  <2>3. ASSUME NEW r \in Racks, racks'[r].authoritative_current
        PROVE  \/ racks[r].authoritative_current /\ racks'[r].boot = racks[r].boot
                  /\ (Watched(racks[r].boot) => Watched(racks[r].boot)')
               \/ Watched(racks[r].boot)'
    <3>1. CASE racks'[r] = racks[r]
      <4>1. racks[r].boot \in Boots /\ racks[r].authoritative_current
        BY <2>3, <3>1 DEF AgentInv, BootsNamed, IInv, AuthorityIsLive, has_rack
      <4> QED BY <2>1, <3>1, <4>1, Zenon DEF Watched
    <3>2. CASE racks'[r].boot = b
      BY <2>2, <3>2, Zenon DEF Watched
    <3> QED BY <1>8, <3>1, <3>2, Zenon
  <2> QED BY <2>3, WatchKept, Zenon DEF AgentInv
<1>13. AgentInv'
  BY <1>8, <1>9, <1>10, <1>11, <1>12, Zenon DEF AgentInv
<1>14. AnswerIsTrue(b)'
  <2>1. x.reason = "StaleRackBoot" => b \in fenced_authorities'
    BY <1>3, <1>8, RefusalIsTrue, Zenon DEF Forward, x
  <2>2. /\ f.kind = agent[b].doing /\ f.q.rack_reference.generation = agent[b].generation
        /\ f.q.new_rack_generation = agent[b].superseding
    BY <1>2, <1>3, Zenon DEF AgentInv, Waits
  <2> QED BY <1>1, <1>4, <1>5, <1>7, <1>8, <2>1, <2>2, Zenon DEF AnswerIsTrue
<1>15. ToldInv => ToldInv'
  <2>1. \A k \in Boots : conn'[k].answer # NoFrame =>
           conn'[k].answer = conn[k].answer \/ AnswerIsTrue(k)'
    BY <1>7, <1>14
  <2> QED BY <1>1, <1>8, <1>13, <2>1, ToldStays, Zenon
<1> QED BY <1>13, <1>15, Zenon

(* An orphan that serves the frame it had received. *)
LEMMA OrphanServesKeeps ==
    ASSUME AgentInv, NEW s \in orphans, OrphanServes(s)
    PROVE  AgentInv' /\ (ToldInv => ToldInv')
<1> DEFINE t == [s EXCEPT !.frame = NoFrame, !.session = "greeted"]
<1>1. /\ s.frame # NoFrame /\ orphans' = (orphans \ {s}) \cup {t}
      /\ UNCHANGED <<agent, conn, fences, given_up, acknowledged>>
  BY Zenon DEF OrphanServes
<1>2. PICK accepted \in BOOLEAN : SessionServes(s.boot, s.frame, accepted)
  BY Zenon DEF OrphanServes
<1>3. s \in Session /\ s.boot \in Boots /\ s.frame \in FrameRecord /\ SentBy(s.boot, s.frame)
  BY <1>1, Zenon DEF AgentInv, AgentTypeOK, Session, FramesAreOwn
<1>4. t \in Session /\ t.boot = s.boot /\ t.session = "greeted" /\ t.frame = NoFrame
  BY <1>3, Zenon DEF Session
<1> HIDE DEF t
<1>5. /\ IInv' /\ BootsNamed' /\ OwnPublicationIsNew' /\ Forward
      /\ \A r \in Racks : racks'[r] = racks[r] \/ racks'[r].boot = s.boot
  BY <1>1, <1>2, <1>3, SessionServed, Zenon DEF AgentInv
<1>6. AgentTypeOK'
  BY <1>1, <1>4, Zenon DEF AgentInv, AgentTypeOK
<1>7. FramesAreOwn' /\ (\A k \in Boots : Waits(k)')
  BY <1>1, <1>4, Zenon DEF AgentInv, FramesAreOwn, SentBy, Spent, Waits
<1>8. NoZombieAuthority'
  <2>1. ASSUME NEW k \in Boots, Watched(k)
        PROVE  Watched(k)'
    BY <1>1, <1>4, <2>1, Zenon DEF Watched
  <2>2. Watched(s.boot)'
    BY <1>1, <1>4, Zenon DEF Watched
  <2>3. ASSUME NEW r \in Racks, racks'[r].authoritative_current
        PROVE  \/ racks[r].authoritative_current /\ racks'[r].boot = racks[r].boot
                  /\ (Watched(racks[r].boot) => Watched(racks[r].boot)')
               \/ Watched(racks[r].boot)'
    <3>1. CASE racks'[r] = racks[r]
      <4>1. racks[r].boot \in Boots /\ racks[r].authoritative_current
        BY <2>3, <3>1, Zenon DEF AgentInv, BootsNamed, IInv, AuthorityIsLive, has_rack
      <4> QED BY <2>1, <3>1, <4>1, Zenon DEF Watched
    <3>2. CASE racks'[r].boot = s.boot
      BY <2>2, <3>2, Zenon DEF Watched
    <3> QED BY <1>5, <3>1, <3>2, Zenon
  <2> QED BY <2>3, WatchKept, Zenon DEF AgentInv
<1>9. AgentInv'
  BY <1>5, <1>6, <1>7, <1>8, Zenon DEF AgentInv
<1>10. ToldInv => ToldInv'
  BY <1>1, <1>5, <1>9, ToldStays, Zenon
<1> QED BY <1>9, <1>10, Zenon

(* A fence takes authority away and leaves incarnations and publications.  *)
LEMMA FencedRacks ==
    ASSUME IInv, NEW b \in Boots, NEW why \in FenceReasons, Fence(b, why), NEW r \in Racks
    PROVE  /\ racks'[r].boot = racks[r].boot /\ racks'[r].publication = racks[r].publication
           /\ racks'[r].membership = racks[r].membership
           /\ racks'[r].authoritative_current =>
                 racks[r].authoritative_current /\ racks[r].boot # b
<1>1. /\ racks[r] \in RackRecord
      /\ racks'[r] = IF r \in RacksOf(b) THEN FencedRack(racks[r]) ELSE racks[r]
  BY Zenon DEF IInv, TypeOK, RecordsTyped, Fence
<1>2. CASE r \in RacksOf(b)
  BY <1>1, <1>2 DEF FencedRack, RackRecord
<1>3. CASE r \notin RacksOf(b)
  BY <1>1, <1>3, Zenon DEF RacksOf, IInv, AuthorityIsLive, has_rack
<1> QED BY <1>2, <1>3, Zenon

(* apply_fence, or the fence that is given up. *)
LEMMA ServeFenceKeeps ==
    ASSUME AgentInv, NEW b \in Boots, ServeFence(b)
    PROVE  AgentInv' /\ (ToldInv => ToldInv')
<1>0. /\ b \in fences /\ fences' = fences \ {b}
      /\ UNCHANGED <<agent, conn, orphans, acknowledged>>
      /\ given_up' \in {given_up, given_up \cup {b}}
  BY Zenon DEF ServeFence
<1>1. FramesAreOwn' /\ (\A k \in Boots : Waits(k)') /\ AgentTypeOK'
  BY <1>0, Zenon DEF AgentInv, FramesAreOwn, SentBy, Spent, Waits, AgentTypeOK
<1>2. \A k \in Boots : k # b /\ Watched(k) => Watched(k)'
  BY <1>0, Zenon DEF Watched
<1>3. \A r \in Racks : racks[r].authoritative_current => racks[r].boot \in Boots
  BY Zenon DEF AgentInv, BootsNamed, IInv, AuthorityIsLive, has_rack
<1>4. CASE Fence(b, "given")
  <2>1. Served /\ Declared
    BY <1>4, ReasonAssumption, FenceServed, FenceCommits, Zenon DEF AgentInv
  <2>2. IInv' /\ Forward
    BY <2>1, Zenon DEF Served, MovesForward, Forward
  <2>3. ASSUME NEW r \in Racks
        PROVE  /\ racks'[r].boot = racks[r].boot /\ racks'[r].publication = racks[r].publication
               /\ racks'[r].membership = racks[r].membership
               /\ racks'[r].authoritative_current =>
                     racks[r].authoritative_current /\ racks[r].boot # b
    BY <1>4, ReasonAssumption, FencedRacks, Zenon DEF AgentInv
  <2>4. BootsNamed' /\ OwnPublicationIsNew'
    BY <1>0, <2>3, Zenon DEF AgentInv, BootsNamed, OwnPublicationIsNew, has_rack
  <2>5. NoZombieAuthority'
    <3>1. ASSUME NEW r \in Racks, racks'[r].authoritative_current
          PROVE  /\ racks[r].authoritative_current /\ racks'[r].boot = racks[r].boot
                 /\ (Watched(racks[r].boot) => Watched(racks[r].boot)')
      BY <1>2, <1>3, <2>3, <3>1, Zenon DEF Watched
    <3> QED BY <3>1, WatchKept, Zenon DEF AgentInv
  <2>6. AgentInv'
    BY <1>1, <2>2, <2>4, <2>5, Zenon DEF AgentInv
  <2> QED BY <1>0, <2>2, <2>6, ToldStays, Zenon
<1>5. CASE UNCHANGED vars /\ (RacksOf(b) = {} \/ given_up' = given_up \cup {b})
  <2>1. UNCHANGED <<racks, fenced_authorities>>
    BY <1>5, EngineIdle, Zenon
  <2>2. IInv' /\ Forward
    BY <1>5, <2>1, StutterServed, IdleForward, Zenon DEF AgentInv
  <2>3. BootsNamed' /\ OwnPublicationIsNew'
    BY <1>0, <2>1, Zenon DEF AgentInv, BootsNamed, OwnPublicationIsNew, has_rack
  <2>4. NoZombieAuthority'
    <3>1. ASSUME NEW r \in Racks, racks'[r].authoritative_current
          PROVE  /\ racks[r].authoritative_current /\ racks'[r].boot = racks[r].boot
                 /\ (Watched(racks[r].boot) => Watched(racks[r].boot)')
      <4>1. r \in RacksOf(racks[r].boot)
        BY <2>1, <3>1, Zenon DEF AgentInv, IInv, AuthorityIsLive, has_rack, RacksOf
      <4>2. CASE racks[r].boot = b
        BY <1>5, <2>1, <3>1, <4>1, <4>2, Zenon DEF Watched
      <4>3. CASE racks[r].boot # b
        BY <1>2, <1>3, <2>1, <3>1, <4>3, Zenon DEF Watched
      <4> QED BY <4>2, <4>3, Zenon
    <3> QED BY <3>1, WatchKept, Zenon DEF AgentInv
  <2>5. AgentInv'
    BY <1>1, <2>2, <2>3, <2>4, Zenon DEF AgentInv
  <2> QED BY <1>0, <2>2, <2>5, ToldStays
<1> QED BY <1>4, <1>5 DEF ServeFence, owns_evidence

(* The declaration of the cluster. *)
LEMMA DeclaredKeeps ==
    ASSUME AgentInv, NEW q \in ClusterRequests, DeclaredByOperator(q)
    PROVE  AgentInv' /\ (ToldInv => ToldInv')
<1>1. /\ UNCHANGED <<agent, conn, orphans, fences, given_up, acknowledged>>
      /\ UNCHANGED <<racks, fenced_authorities>>
      /\ ClusterMutation(q) /\ q \in MutationRequest
  BY RequestAssumption, Zenon DEF DeclaredByOperator, agent_vars, DeclareCluster, authority_lists,
                           ClusterMutation
<1>2. IInv' /\ Forward
  BY <1>1, ClusterMutationServed, IdleForward, Zenon DEF AgentInv, Served
<1>3. FramesAreOwn' /\ (\A k \in Boots : Waits(k)') /\ AgentTypeOK'
  BY <1>1, Zenon DEF AgentInv, FramesAreOwn, SentBy, Spent, Waits, AgentTypeOK
<1>4. BootsNamed' /\ OwnPublicationIsNew' /\ NoZombieAuthority'
  BY <1>1, Zenon DEF AgentInv, BootsNamed, OwnPublicationIsNew, NoZombieAuthority, has_rack
<1>5. AgentInv'
  BY <1>2, <1>3, <1>4, Zenon DEF AgentInv
<1> QED BY <1>1, <1>2, <1>5, ToldStays, Zenon

(* A restart recovers incarnations and publications but no authority, or   *)
(* no rack at all.                                                         *)
LEMMA RestartedRacks ==
    ASSUME IInv, Restart, NEW r \in Racks
    PROVE  /\ ~racks'[r].authoritative_current
           /\ \/ racks'[r] = NoRack
              \/ /\ racks[r].membership # "Absent"
                 /\ racks'[r].boot = racks[r].boot
                 /\ racks'[r].publication = racks[r].publication
<1>1. CASE RestartFresh
  BY <1>1, Zenon DEF RestartFresh, StartFresh, NoRack
<1>2. ASSUME NEW age \in [DomainIds -> Ages], RestartRecovered(age)
      PROVE  /\ ~racks'[r].authoritative_current
             /\ \/ racks'[r] = NoRack
                \/ /\ racks[r].membership # "Absent"
                   /\ racks'[r].boot = racks[r].boot
                   /\ racks'[r].publication = racks[r].publication
  <2>1. /\ disk.racks[r] = DurableRack(racks[r])
        /\ racks'[r] = RecoveredRack(disk.racks[r])
    BY <1>2, Zenon DEF IInv, UndeclaredIsEmpty, CommittedIsDurable, RestartRecovered
  <2>2. PICK x : x = DurableRack(racks[r])
    BY Zenon
  <2>3. /\ x.membership = racks[r].membership /\ x.last_boot = racks[r].boot
        /\ x.publication = racks[r].publication
    BY <2>2, Zenon DEF DurableRack
  <2>4. racks'[r] = RecoveredRack(x)
    BY <2>1, <2>2, Zenon
  <2>5. CASE x.membership = "Absent"
    <3>1. RecoveredRack(x) = NoRack
      BY <2>5, Zenon DEF RecoveredRack
    <3>2. ~NoRack.authoritative_current
      BY Zenon DEF NoRack
    <3> QED BY <2>4, <3>1, <3>2, Zenon
  <2>6. CASE x.membership # "Absent"
    <3>1. /\ ~RecoveredRack(x).authoritative_current
          /\ RecoveredRack(x).boot = x.last_boot
          /\ RecoveredRack(x).publication = x.publication
      BY <2>6, Zenon DEF RecoveredRack
    <3> QED BY <2>3, <2>4, <2>6, <3>1, Zenon
  <2> QED BY <2>5, <2>6, Zenon
<1> QED BY <1>1, <1>2, Zenon DEF Restart

(* A restart of a coordinator whose container loads loses no fence and no  *)
(* generation; one that was never declared had none.                       *)
LEMMA RestartForward ==
    ASSUME IInv, SavedIsLoadable, Restart
    PROVE  Forward
<1>1. CASE RestartFresh
  <2>1. ~Declared
    BY <1>1, Zenon DEF RestartFresh, StartFresh, ContainerLoads, SavedIsLoadable, IInv, CommittedIsDurable
  <2>2. \A r \in Racks : racks[r] = NoRack
    BY <2>1, Zenon DEF IInv, UndeclaredIsEmpty, NothingRecorded, RecordsSound, has_rack
  <2>3. fenced_authorities = {}
    BY <2>1, Zenon DEF IInv, UndeclaredIsEmpty, NothingRecorded
  <2>4. \A r \in Racks : racks'[r] = NoRack
    BY <1>1, Zenon DEF RestartFresh, StartFresh
  <2>5. NoRack.generation >= NoRack.generation
    BY DEF NoRack
  <2> QED BY <2>2, <2>3, <2>4, <2>5, Zenon DEF Forward
<1>2. ASSUME NEW age \in [DomainIds -> Ages], RestartRecovered(age)
      PROVE  Forward
  BY <1>2, RestartRecoveredServed, Zenon
     DEF Served, IInv, UndeclaredIsEmpty, RestartRecovered, MovesForward, Forward
<1> QED BY <1>1, <1>2, Zenon DEF Restart

(* The coordinator dies and another takes its place. *)
LEMMA CoordinatorRestartsKeeps ==
    ASSUME AgentInv, CoordinatorRestarts
    PROVE  AgentInv' /\ (ToldInv /\ SavedIsLoadable => ToldInv')
<1>1. /\ Restart /\ orphans' = {} /\ fences' = {} /\ given_up' = {}
      /\ UNCHANGED <<agent, acknowledged>>
  BY Zenon DEF CoordinatorRestarts
<1>2. PICK lost \in SUBSET {b \in Boots : conn[b].answer # NoFrame} :
          conn' = [b \in Boots |-> IF b \in lost THEN NoConnection
                                   ELSE [NoConnection EXCEPT !.answer = conn[b].answer]]
  BY Zenon DEF CoordinatorRestarts
<1>3. conn \in [Boots -> Connection]
  BY Zenon DEF AgentInv, AgentTypeOK
<1>4. ASSUME NEW b \in Boots
      PROVE  /\ conn'[b] \in Connection /\ conn'[b].frame = NoFrame
             /\ conn'[b].answer # NoFrame => conn'[b].answer = conn[b].answer
  <2>1. conn[b].answer \in AnswerRecord \cup {NoFrame}
    BY <1>3, Zenon DEF Connection
  <2> QED BY <1>2, <2>1, Zenon DEF NoConnection, Connection
<1>5. conn' \in [Boots -> Connection]
  BY <1>2, <1>4, Zenon
<1>6. IInv'
  BY <1>1, RestartRecoveredServed, RestartFreshServed, Zenon DEF AgentInv, Restart, Served
<1>7. AgentTypeOK'
  BY <1>1, <1>5 DEF AgentInv, AgentTypeOK
<1>8. FramesAreOwn' /\ (\A b \in Boots : Waits(b)')
  BY <1>1, <1>4, Zenon DEF AgentInv, FramesAreOwn, Waits
<1>9. BootsNamed' /\ NoZombieAuthority' /\ OwnPublicationIsNew'
  <2>1. \A r \in Racks :
           /\ ~racks'[r].authoritative_current
           /\ \/ racks'[r].membership = "Absent" /\ racks'[r].boot \notin Boots
              \/ /\ racks[r].membership # "Absent"
                 /\ racks'[r].boot = racks[r].boot
                 /\ racks'[r].publication = racks[r].publication
    <3>1. NoRack.membership = "Absent" /\ NoRack.boot \notin Boots
      BY StateAssumption, Zenon DEF NoRack
    <3>2. IInv
      BY Zenon DEF AgentInv
    <3> QED BY <1>1, <3>1, <3>2, RestartedRacks, Zenon
  <2> QED BY <1>1, <2>1, Zenon DEF AgentInv, BootsNamed, NoZombieAuthority, OwnPublicationIsNew,
                            has_rack
<1>10. AgentInv'
  BY <1>6, <1>7, <1>8, <1>9 DEF AgentInv
<1>11. ToldInv /\ SavedIsLoadable => ToldInv'
  BY <1>1, <1>4, <1>10, RestartForward, ToldStays, Zenon DEF AgentInv
<1> QED BY <1>10, <1>11, Zenon

-----------------------------------------------------------------------------
(***************************************************************************)
(* The theorems.                                                           *)
(***************************************************************************)

(* Nothing was published and nothing said. *)
LEMMA InitAgents == AgentInit => AgentInv /\ ToldInv
<1> SUFFICES ASSUME AgentInit PROVE AgentInv /\ ToldInv
  BY Zenon
<1>1. IInv /\ racks = [r \in Racks |-> NoRack]
  BY InitInvariant, Zenon DEF AgentInit, Init
<1>2. NewAgent \in AgentRecord /\ NewAgent.doing = "nothing" /\ ~NewAgent.fenced
  <2>1. 0 \in Generations /\ 1 \in Generations
    BY GenerationBound DEF Generations
  <2> QED BY <2>1, AgentAssumption, NoneLeft DEF NewAgent, AgentRecord, FrameKinds
<1>3. /\ NoConnection \in Connection /\ NoConnection.frame = NoFrame
      /\ NoConnection.answer = NoFrame
  BY Zenon DEF NoConnection, Connection
<1>4. /\ agent = [b \in Boots |-> NewAgent] /\ conn = [b \in Boots |-> NoConnection]
      /\ orphans = {} /\ fences = {} /\ given_up = {}
      /\ acknowledged = [b \in Boots |-> 0] /\ 0 \in Generations
  BY GenerationBound DEF AgentInit, Generations
<1>5. AgentTypeOK
  BY <1>2, <1>3, <1>4, Zenon DEF AgentTypeOK
<1>6. FramesAreOwn /\ \A b \in Boots : Waits(b)
  BY <1>2, <1>3, <1>4, Zenon DEF FramesAreOwn, Waits
<1>7. BootsNamed /\ NoZombieAuthority /\ OwnPublicationIsNew
  BY <1>1, StateAssumption, Zenon
     DEF BootsNamed, NoZombieAuthority, OwnPublicationIsNew, has_rack, NoRack
<1>8. AnswersAreTrue /\ FencedFlagIsTrue
  BY <1>2, <1>3, <1>4, Zenon DEF AnswersAreTrue, AnswerIsTrue, FencedFlagIsTrue
<1>9. AcknowledgedSurvives
  BY <1>1, <1>4, AgentAssumption DEF AcknowledgedSurvives, NoRack
<1> QED BY <1>1, <1>5, <1>6, <1>7, <1>8, <1>9, Zenon DEF AgentInv, ToldInv

(* Every step keeps the first invariant, and the second as long as the     *)
(* container can be loaded.                                                *)
LEMMA AgentStep ==
    ASSUME AgentInv, [AgentNext]_all_vars
    PROVE  AgentInv' /\ (ToldInv /\ SavedIsLoadable => ToldInv')
<1>0. AgentTypeOK /\ \A b \in Boots : Waits(b)
  BY Zenon DEF AgentInv
<1>1. UNCHANGED acknowledged => \A b \in Boots : AgentHears(b)
  BY <1>0, Zenon DEF AgentTypeOK, AgentHears
<1>2. ASSUME NEW b \in Boots, AgentCalls(b) \/ SeeClosed(b) \/ Break(b)
      PROVE  AgentInv' /\ (ToldInv => ToldInv')
  <2>1. AgentMoves(b) /\ SessionStays(b) /\ UNCHANGED coordinator_side
    BY <1>0, <1>2, CallsMove, SeeClosedMoves, BreakMoves
  <2>2. UNCHANGED <<fences, given_up, acknowledged, vars>>
    BY <2>1, Zenon DEF coordinator_side
  <2> QED BY <1>1, <2>1, <2>2, MovesKeep, Zenon
<1>3. ASSUME NEW b \in Boots, Receive(b)
      PROVE  AgentInv' /\ (ToldInv => ToldInv')
  BY <1>0, <1>3, ReceiveMoves, MovesKeep, Zenon DEF SessionStays
<1>4. CASE UNCHANGED all_vars
  <2>1. UNCHANGED <<agent, conn, orphans, fences, given_up, acknowledged, vars>>
    BY <1>4, Zenon DEF all_vars, agent_vars
  <2>2. UNCHANGED <<racks, fenced_authorities>>
    BY <2>1, EngineIdle, Zenon
  <2>3. FramesAreOwn' /\ (\A k \in Boots : Waits(k)') /\ AgentTypeOK'
    BY <2>1, Zenon DEF AgentInv, FramesAreOwn, SentBy, Spent, Waits, AgentTypeOK
  <2>4. BootsNamed' /\ OwnPublicationIsNew' /\ NoZombieAuthority'
    BY <2>1, <2>2, Zenon DEF AgentInv, BootsNamed, OwnPublicationIsNew, NoZombieAuthority, has_rack
  <2>5. AgentInv'
    BY <2>1, <2>3, <2>4, StutterServed, Zenon DEF AgentInv
  <2> QED BY <2>1, <2>2, <2>5, IdleForward, ToldStays, Zenon DEF AgentInv
<1> QED BY <1>2, <1>3, <1>4, ServeFrameKeeps, ServeFenceKeeps, OrphanServesKeeps, DetachKeeps,
           DeclaredKeeps, CoordinatorRestartsKeeps, Zenon
        DEF AgentNext

(* The agents, their sessions and the engine keep the inductive invariant. *)
THEOREM AgentInvariant == AgentSpec => []AgentInv
<1>1. AgentInit => AgentInv
  BY InitAgents, Zenon
<1>2. AgentInv /\ [AgentNext]_all_vars => AgentInv'
  BY AgentStep, Zenon
<1> QED BY <1>1, <1>2, PTL DEF AgentSpec

(* Behind every authoritative rack is a session of its incarnation, a      *)
(* queued fence or a fence that was given up (detach_session, apply_fence), *)
(* however connections break, sessions of one incarnation overlap and      *)
(* orphaned requests are served late.                                      *)
THEOREM AuthorityIsWatched == AgentSpec => []NoZombieAuthority
<1>1. AgentInv => NoZombieAuthority
  BY Zenon DEF AgentInv
<1> QED BY <1>1, AgentInvariant, PTL

(* No frame of an agent, lost, refused or served late, leaves a record     *)
(* whose publication the agent could repeat (take_publication).            *)
THEOREM PublicationsAreNew == AgentSpec => []OwnPublicationIsNew
<1>1. AgentInv => OwnPublicationIsNew
  BY Zenon DEF AgentInv
<1> QED BY <1>1, AgentInvariant, PTL

(* As long as every container that is saved can be loaded, what agents     *)
(* were told stays true.                                                   *)
THEOREM ToldInvariant == AgentSpec /\ []SavedIsLoadable => []ToldInv
<1>1. AgentInit => ToldInv
  BY InitAgents, Zenon
<1>2. ToldInv /\ SavedIsLoadable /\ [AgentNext]_all_vars => ToldInv'
  BY AgentStep, Zenon DEF ToldInv
<1> QED BY <1>1, <1>2, PTL DEF AgentSpec

(* A generation an agent was told is published is recorded for good, over  *)
(* every crash of the coordinator and every later publication              *)
(* (handle_publish, apply_add_rack, apply_update_rack_generation).         *)
THEOREM AcknowledgementsHold == AgentSpec /\ []SavedIsLoadable => []AcknowledgedSurvives
<1>1. ToldInv => AcknowledgedSurvives
  BY Zenon DEF ToldInv
<1> QED BY <1>1, ToldInvariant, PTL

(* An agent that takes itself for fenced is fenced, and stays so           *)
(* (record_rejection, validate_boot, from_persisted_state).                *)
THEOREM FencedMeansFenced == AgentSpec /\ []SavedIsLoadable => []FencedFlagIsTrue
<1>1. ToldInv => FencedFlagIsTrue
  BY Zenon DEF ToldInv
<1> QED BY <1>1, ToldInvariant, PTL

-----------------------------------------------------------------------------
(***************************************************************************)
(* What agents make the coordinator save can be loaded: their references   *)
(* name their incarnation and their endpoints are canonical.               *)
(***************************************************************************)

(* A request of an agent commits like any other. *)
LEMMA FrameCommits ==
    ASSUME IInv, NEW b \in Boots, NEW f \in FrameRecord, SentBy(b, f), NEW r \in Racks,
           Mutates(f, r)
    PROVE  Committed
<1>1. TypeOK
  BY Zenon DEF IInv
<1>2. CASE \/ RegisterRackPublisher(f.q, r) \/ AddRack(f.q, r, "Fresh")
           \/ UpdateRackGeneration(f.q, r)
  <2>1. RackMutation(f.q, r)
    BY <1>2, Zenon DEF RackMutation, Ages
  <2> QED BY <1>1, <2>1, RackMutationCommits, Zenon
<1>3. CASE RevalidateRecoveredState(f.q, {r})
  <2>1. ClusterMutation(f.q)
    BY <1>3, Zenon DEF ClusterMutation
  <2>2. Declared
    BY <1>3, Zenon DEF RevalidateRecoveredState, validate_common, Declared
  <2> QED BY <1>1, <2>1, <2>2, ClusterMutationCommits, Zenon
<1>4. CASE f.kind = "topology" /\ PublishPiece(f.q, Head(f.topology_left), f.topology_epoch)
  BY <1>1, <1>4, PieceServed, PublishCommits, Zenon
<1> QED BY <1>2, <1>3, <1>4, Zenon DEF Mutates

(* It leaves whole links and loadable racks. *)
LEMMA FrameLoads ==
    ASSUME FencesFit, LoadInv, NEW b \in Boots, NEW f \in FrameRecord, SentBy(b, f),
           NEW r \in Racks, Mutates(f, r)
    PROVE  LoadInv'
<1> DEFINE p == Completed(f.q)
<1>0. /\ IInv /\ LinksWhole /\ RacksLoadable /\ FencesExplained /\ SavedIsLoadable
      /\ p \in MutationRequest
  BY CompletedTypes, Zenon DEF LoadInv, SavedInv, FrameRecord
<1>1. LoadableRequest(p)
  <2>1. p.rack_reference = f.q.rack_reference
    BY Zenon DEF Completed
  <2> QED BY <2>1, StateAssumption, Zenon DEF LoadableRequest, SentBy
<1>2. IInv' /\ Committed
  BY <1>0, FrameServed, FrameCommits, Zenon DEF Served
<1>3. RecordsKept'
  <2>1. (NothingRecorded \/ RecordsConsistent => RecordsKept)'
    BY GateKeeps, PTL
  <2> QED BY <1>2, <2>1, Zenon DEF Committed
<1>4. LinksWhole' /\ RacksLoadable'
  <2>1. UNCHANGED links => LinksWhole'
    BY <1>0, LinksFrame, Zenon
  <2>2. UNCHANGED racks => RacksLoadable'
    BY <1>0, RacksFrame, Zenon
  <2>3. CASE \/ RegisterRackPublisher(f.q, r) \/ AddRack(f.q, r, "Fresh")
             \/ UpdateRackGeneration(f.q, r)
    <3>1. RackMutation(p, r)
      BY <2>3, CompletedServed, Zenon DEF RackMutation, Ages
    <3> QED BY <1>0, <1>1, <3>1, RackMutationLinks, RackMutationLoads, Zenon
  <2>4. CASE RevalidateRecoveredState(f.q, {r})
    BY <2>1, <2>2, <2>4, Zenon DEF RevalidateRecoveredState, topology
  <2>5. CASE f.kind = "topology"
             /\ PublishPiece(f.q, Head(f.topology_left), f.topology_epoch)
    <3>1. UNCHANGED racks
      BY <2>5, Zenon DEF PublishPiece, PublishInterRackLink, publish_domain_record
    <3>2. LinksWhole'
      <4>1. ASSUME NEW d, NEW x, publish_domain_record(p, d, x)
            PROVE  UNCHANGED links
        BY <4>1, Zenon DEF publish_domain_record
      <4> QED BY <1>0, <2>1, <2>5, <4>1, PieceServed, PublishLinkWhole, Zenon
    <3> QED BY <2>2, <3>1, <3>2, Zenon
  <2> QED BY <2>3, <2>4, <2>5, Zenon DEF Mutates
<1>5. Declared' /\ disk' = to_persisted_state'
  BY <1>2, Zenon DEF Committed, Declared
<1>6. SavedInv'
  BY <1>2, <1>3, <1>4, Zenon DEF SavedInv
<1>7. FencesExplained'
  <2>1. UNCHANGED unexplained
    BY Zenon DEF Mutates, RegisterRackPublisher, AddRack, UpdateRackGeneration,
       RevalidateRecoveredState, PublishPiece, PublishInterRackLink, publish_domain_record,
       authority_lists
  <2> QED BY <1>0, <2>1, Zenon DEF FencesExplained
<1>8. SavedIsLoadable'
  BY <1>0, <1>4, <1>5, <1>6, <1>7, SaveLoads, Zenon
<1> QED BY <1>4, <1>6, <1>7, <1>8, Zenon DEF LoadInv

(* So do the other steps of the coordinator behind agents. *)
LEMMA CoordinatorLoads ==
    ASSUME FencesFit, LoadInv,
           \/ \E b \in Boots : Fence(b, "given")
           \/ \E q \in ClusterRequests : DeclareCluster(q)
           \/ Restart
    PROVE  LoadInv'
<1>0. IInv /\ RacksLoadable /\ FencesExplained /\ SavedIsLoadable /\ SavedInv
  BY Zenon DEF LoadInv, SavedInv
<1>1. Next /\ (Serve \/ Restart)
  BY ReasonAssumption, Zenon DEF Next, Serve, ClusterMutation
<1>2. SavedInv'
  BY <1>0, <1>1, SavedStep, Zenon
<1>3. RacksLoadable'
  <2>1. CASE RestartFresh
    BY <2>1, Zenon DEF RestartFresh, StartFresh, RacksLoadable, has_rack, NoRack
  <2> QED BY <1>0, <2>1, ReasonAssumption, FenceLoads, ClusterMutationLoads, RestartLoads, Zenon
          DEF ClusterMutation, Restart
<1>4. (Declared' /\ disk' = to_persisted_state') \/ UNCHANGED disk
  BY <1>0, <1>1, ServeSaves, Zenon DEF Restart, RestartFresh, StartFresh, RestartRecovered
<1>5. FencesExplained'
  <2>1. ASSUME NEW b \in Boots, Fence(b, "given")
        PROVE  FencesExplained'
    <3>1. "given" \in FenceReasons \ {""}
      BY ReasonAssumption
    <3> QED BY <1>0, <2>1, <3>1, FenceExplains, Zenon
  <2>2. ASSUME NEW q, DeclareCluster(q)
        PROVE  FencesExplained'
    BY <1>0, <2>2, Zenon DEF DeclareCluster, FencesExplained, authority_lists
  <2> QED BY <2>1, <2>2, RestartExplains, Zenon
<1>6. SavedIsLoadable'
  BY <1>0, <1>2, <1>3, <1>4, <1>5, SaveLoads, Zenon
<1> QED BY <1>2, <1>3, <1>5, <1>6, Zenon DEF LoadInv

(* The steps of the engine in the steps of agents and sessions. *)
LEMMA AgentEngineStep ==
    ASSUME AgentInv, [AgentNext]_all_vars
    PROVE  \/ UNCHANGED vars
           \/ \E b \in Boots, f \in FrameRecord, r \in Racks : SentBy(b, f) /\ Mutates(f, r)
           \/ \E b \in Boots : Fence(b, "given")
           \/ \E q \in ClusterRequests : DeclareCluster(q)
           \/ Restart
<1>0. RackOf \in [Boots -> Racks]
  BY AgentAssumption, Zenon
<1>1. ASSUME NEW b \in Boots, AgentCalls(b) \/ SeeClosed(b) \/ Break(b) \/ Receive(b)
      PROVE  UNCHANGED vars
  <2>1. AgentTypeOK /\ Waits(b)
    BY Zenon DEF AgentInv
  <2> QED BY <1>1, <2>1, CallsMove, SeeClosedMoves, BreakMoves, ReceiveMoves, Zenon
          DEF coordinator_side
<1>2. ASSUME NEW b \in Boots, NEW f \in FrameRecord, SentBy(b, f),
             NEW accepted \in BOOLEAN, SessionServes(b, f, accepted)
      PROVE  \/ UNCHANGED vars
             \/ \E k \in Boots, g \in FrameRecord, r \in Racks : SentBy(k, g) /\ Mutates(g, r)
  <2>1. UNCHANGED vars \/ Mutates(f, RackOf[b])
    BY <1>2, Zenon DEF SessionServes
  <2> QED BY <1>0, <1>2, <2>1, Zenon
<1>3. ASSUME NEW b \in Boots, ServeFrame(b)
      PROVE  /\ conn[b].frame \in FrameRecord /\ SentBy(b, conn[b].frame)
             /\ \E accepted \in BOOLEAN : SessionServes(b, conn[b].frame, accepted)
  BY <1>3, Zenon DEF ServeFrame, AgentInv, AgentTypeOK, Connection, FramesAreOwn
<1>4. ASSUME NEW s \in orphans, OrphanServes(s)
      PROVE  /\ s.boot \in Boots /\ s.frame \in FrameRecord /\ SentBy(s.boot, s.frame)
             /\ \E accepted \in BOOLEAN : SessionServes(s.boot, s.frame, accepted)
  BY <1>4, Zenon DEF OrphanServes, AgentInv, AgentTypeOK, Session, FramesAreOwn
<1>5. ASSUME NEW s \in orphans, detach_session(s)
      PROVE  UNCHANGED vars
  BY <1>5, Zenon DEF detach_session
<1>6. ASSUME NEW b \in Boots, ServeFence(b)
      PROVE  Fence(b, "given") \/ UNCHANGED vars
  BY <1>6, Zenon DEF ServeFence
<1>7. CASE UNCHANGED all_vars
  BY <1>7, Zenon DEF all_vars
<1> QED BY <1>1, <1>2, <1>3, <1>4, <1>5, <1>6, <1>7, Zenon
        DEF AgentNext, DeclaredByOperator, CoordinatorRestarts

(* However agents publish, crash and are fenced, every container the       *)
(* coordinator saves is one a restart accepts, when no more incarnations   *)
(* ever fail than a load admits.                                           *)
THEOREM AgentLoadable ==
    ASSUME FencesFit
    PROVE  AgentSpec => []SavedIsLoadable
<1>1. AgentInit => AgentInv /\ LoadInv
  BY InitAgents, InitSaved, Zenon DEF AgentInit
<1>2. AgentInv /\ LoadInv /\ [AgentNext]_all_vars => AgentInv' /\ LoadInv'
  BY AgentStep, AgentEngineStep, StutterLoads, FrameLoads, CoordinatorLoads, Zenon
<1>3. LoadInv => SavedIsLoadable
  BY Zenon DEF LoadInv
<1> QED BY <1>1, <1>2, <1>3, PTL DEF AgentSpec

(* So, when no more incarnations ever fail than a load admits, whatever an *)
(* agent was told holds: its acknowledged generation survives crashes of   *)
(* the coordinator, and it believes itself fenced only if it is.           *)
COROLLARY AgentsAreToldTheTruth ==
    ASSUME FencesFit
    PROVE  AgentSpec => [](AcknowledgedSurvives /\ FencedFlagIsTrue)
BY AgentLoadable, AcknowledgementsHold, FencedMeansFenced, PTL

-----------------------------------------------------------------------------
(***************************************************************************)
(* What holds of the engine alone holds of it under its agents.  Their     *)
(* requests are not drawn from RackRequests and TopologyRequests but made  *)
(* up by each incarnation from what it was told, and an orphaned session   *)
(* may have one served after the agent has moved on.                       *)
(***************************************************************************)

(* The guarantees of the coordinator's state: authority only for a live    *)
(* incarnation, lists that agree with membership, an evaluated lifecycle,  *)
(* a durable commit, ordered counters, link claims of this epoch and       *)
(* references that resolve.                                                *)
THEOREM EngineHoldsUnderAgents ==
    AgentSpec => []( /\ AuthorityIsLive /\ ListsMirrorMembership /\ LifecycleIsEvaluated
                     /\ CommittedIsDurable /\ CountersOrdered /\ LinkClaimsAreOfThisEpoch
                     /\ ReferencesResolve )
<1>1. AgentInv => /\ AuthorityIsLive /\ ListsMirrorMembership /\ LifecycleIsEvaluated
                  /\ CommittedIsDurable /\ CountersOrdered /\ LinkClaimsAreOfThisEpoch
                  /\ ReferencesResolve
  BY Zenon DEF AgentInv, IInv
<1> QED BY <1>1, AgentInvariant, PTL

(* A step of the engine under some request, not of a fixed set. *)
EngineStep ==
    \/ \E q \in MutationRequest : EngineRequest(q)
    \/ \E b \in Boots : Fence(b, "given")
    \/ Restart

(* Whatever agents, their sessions and the operator do leaves the state of *)
(* the coordinator alone or is one step of the engine: no handler of a     *)
(* session touches the state but through the engine.                       *)
THEOREM AgentsUseTheEngine == AgentSpec => Init /\ [][EngineStep]_vars
<1>1. AgentInv /\ [AgentNext]_all_vars => [EngineStep]_vars
  <2> SUFFICES ASSUME AgentInv, [AgentNext]_all_vars, vars' # vars
               PROVE  EngineStep
    BY Zenon
  <2>1. ASSUME NEW b \in Boots, NEW f \in FrameRecord, NEW r \in Racks,
               SentBy(b, f), Mutates(f, r)
        PROVE  EngineStep
    BY <2>1, FrameIsRequest, Zenon DEF EngineStep
  <2>2. ASSUME NEW q \in ClusterRequests, DeclareCluster(q)
        PROVE  EngineStep
    <3>1. q \in MutationRequest
      BY RequestAssumption, Zenon
    <3>2. EngineRequest(q)
      BY <2>2, Zenon DEF EngineRequest, ClusterMutation
    <3> QED BY <3>1, <3>2, Zenon DEF EngineStep
  <2>3. CASE Restart \/ \E b \in Boots : Fence(b, "given")
    BY <2>3, Zenon DEF EngineStep
  <2> QED BY <2>1, <2>2, <2>3, AgentEngineStep, Zenon
<1>2. AgentInit => Init
  BY Zenon DEF AgentInit
<1> QED BY <1>1, <1>2, AgentInvariant, PTL DEF AgentSpec

(* No request of an agent, no fence of a lost one and no restart takes a   *)
(* generation, an epoch, a fence or a retirement back while the cluster    *)
(* stays declared.                                                         *)
THEOREM AgentsMoveForward == AgentSpec => NothingMovesBack
<1>1. AgentInv /\ EngineStep => (Declared /\ epoch' > 0 => MovesForward)
  <2> SUFFICES ASSUME IInv, EngineStep, Declared, epoch' > 0
               PROVE  MovesForward
    BY Zenon DEF AgentInv
  <2>1. ASSUME NEW q \in MutationRequest, EngineRequest(q)
        PROVE  MovesForward
    <3>1. Served
      BY <2>1, RackMutationServed, PublishLinkServed, PublishDomainServed,
         ClusterMutationServed, Zenon DEF EngineRequest
    <3> QED BY <3>1, Zenon DEF Served
  <2>2. CASE Restart \/ \E b \in Boots : Fence(b, "given")
    <3>1. Next
      BY <2>2, ReasonAssumption, Zenon DEF Next, Serve
    <3> QED BY <3>1, InductiveStep, Zenon
  <2> QED BY <2>1, <2>2, Zenon DEF EngineStep
<1> QED BY <1>1, AgentInvariant, AgentsUseTheEngine, PTL DEF NothingMovesBack
=============================================================================
