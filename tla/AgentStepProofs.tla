---------------------------- MODULE AgentStepProofs ----------------------------
(***************************************************************************)
(* Proofs about the steps of rack agents and of their connections: what    *)
(* they leave of their own invariants, whatever the engine is.             *)
(***************************************************************************)
EXTENDS RackAgent, TLAPS

-----------------------------------------------------------------------------
(***************************************************************************)
(* What is invariant of agents, frames and answers.                        *)
(***************************************************************************)

(* The types of an agent, of what it sends and of what it is answered. *)
FrameKinds == {"hello", "register", "publish", "topology", "supersede", "revalidate",
               "heartbeat", "query"}

AgentRecord ==
    [state : {"Idle", "Handshaking", "Registering", "Ready", "Publishing", "Failed", "Stopped"},
     doing : FrameKinds \cup {"nothing"}, handle : BOOLEAN, registered : BOOLEAN,
     stopped : BOOLEAN, fenced : BOOLEAN, generation : Generations,
     superseding : Generations, topology_left : Seq(Pieces), publication : Generations \ {0},
     cluster_epoch : Generations, coordinator_epoch : Generations,
     topology_epoch : Generations]

AgentRequest ==
    [cluster : ClusterIds, authority : Authority, evidence : Evidence,
     rack_reference : RackReference,
     expected_rack_generation : Generations, new_rack_generation : Generations]

FrameRecord ==
    [kind : FrameKinds, q : AgentRequest, topology_left : Seq(Pieces),
     topology_epoch : Generations]

AnswerRecord ==
    [accepted : BOOLEAN, reason : {"None", "Other", "StaleRackBoot"},
     cluster_epoch : Generations, coordinator_epoch : Generations,
     topology_epoch : Generations]

Connection ==
    [session : {"none", "new", "greeted"}, frame : FrameRecord \cup {NoFrame},
     answer : AnswerRecord \cup {NoFrame}]

Session == [boot : Boots, session : {"new", "greeted"}, frame : FrameRecord \cup {NoFrame}]

AgentTypeOK ==
    /\ agent \in [Boots -> AgentRecord]
    /\ conn \in [Boots -> Connection]
    /\ orphans \subseteq Session
    /\ fences \subseteq Boots /\ given_up \subseteq Boots
    /\ acknowledged \in [Boots -> Generations]

(* The agent has used publication p, and will not use it again below the   *)
(* maximum.                                                                *)
Spent(b, p) == p < agent[b].publication \/ agent[b].publication = MaxGeneration

(* A frame of boot b speaks for b alone, under a publication it has spent. *)
(* A HELLO spends none.                                                    *)
SentBy(b, f) ==
    /\ f.q.authority.boot = b /\ f.q.rack_reference.boot = b
    /\ f.q.rack_reference.publication = f.q.authority.publication
    /\ canonicalize[f.q.rack_reference.endpoints] = f.q.rack_reference.endpoints
    /\ f.kind = "topology" => f.topology_left # <<>>
    /\ f.kind # "hello" => Spent(b, f.q.authority.publication)

FramesAreOwn ==
    /\ \A b \in Boots : conn[b].frame # NoFrame => SentBy(b, conn[b].frame)
    /\ \A s \in orphans : s.frame # NoFrame => SentBy(s.boot, s.frame)

(* What an agent waits for is the answer to the frame it sent last. *)
Waits(b) ==
    LET a == agent[b]
        c == conn[b]
    IN  /\ c.frame # NoFrame =>
             /\ c.answer = NoFrame
             /\ c.frame.kind = a.doing
             /\ c.frame.q.rack_reference.generation = a.generation
             /\ c.frame.q.new_rack_generation = a.superseding
        /\ c.session = "none" => c.frame = NoFrame
        /\ a.doing = "topology" => a.topology_left # <<>>

(* Every rack record names the incarnation behind it. *)
BootsNamed == \A r \in Racks : has_rack(r) => racks[r].boot \in Boots

(* An answer on its way tells the agent what is recorded. *)
AnswerIsTrue(b) ==
    LET a == agent[b]
        x == conn[b].answer
        recorded == racks[RackOf[b]].generation
    IN  x # NoFrame =>
           /\ x.reason = "StaleRackBoot" => b \in fenced_authorities
           /\ x.accepted /\ a.doing = "publish" => recorded >= a.generation
           /\ x.accepted /\ a.doing = "supersede" => recorded >= a.superseding

AnswersAreTrue == \A b \in Boots : AnswerIsTrue(b)

-----------------------------------------------------------------------------
(***************************************************************************)
(* What an agent sends and what it makes of an answer.                     *)
(***************************************************************************)

(* The bound on publications. *)
LEMMA PublicationBound == MaxGeneration \in Nat /\ MaxGeneration > 2
BY StateAssumption, Zenon

(* Of the empty list nothing is left to publish. *)
LEMMA NoneLeft == <<>> \in Seq(Pieces)
OBVIOUS

(* The counter moves forward, or stays at the maximum. *)
LEMMA TakenPublication ==
    ASSUME NEW a \in AgentRecord
    PROVE  /\ take_publication(a) \in AgentRecord
           /\ take_publication(a).publication >= a.publication
           /\ \/ a.publication < take_publication(a).publication
              \/ take_publication(a).publication = MaxGeneration
           /\ take_publication(a).generation = a.generation
           /\ take_publication(a).superseding = a.superseding
           /\ take_publication(a).topology_left = a.topology_left
           /\ take_publication(a).fenced = a.fenced
<1> DEFINE p == IF a.publication < MaxGeneration THEN a.publication + 1 ELSE a.publication
<1>1. /\ p \in Generations \ {0} /\ p >= a.publication
      /\ a.publication < p \/ p = MaxGeneration
  BY PublicationBound DEF AgentRecord, Generations
<1>2. take_publication(a) = [a EXCEPT !.publication = p]
  BY Zenon DEF take_publication
<1> HIDE DEF p
<1>3. [a EXCEPT !.publication = p] \in AgentRecord
  BY <1>1, Zenon DEF AgentRecord
<1>4. take_publication(a).publication = p
  BY <1>2, Zenon DEF AgentRecord
<1> QED BY <1>1, <1>2, <1>3, <1>4, Zenon DEF AgentRecord

(* A frame is typed and speaks for its agent. *)
LEMMA FrameTypes ==
    ASSUME NEW a \in AgentRecord, NEW b \in Boots, NEW kind \in FrameKinds
    PROVE  LET f == Frame(a, b, kind) IN
           /\ f \in FrameRecord
           /\ f.kind = kind /\ f.topology_left = a.topology_left
           /\ f.q.authority.boot = b /\ f.q.rack_reference.boot = b
           /\ f.q.authority.publication = a.publication
           /\ f.q.rack_reference.publication = a.publication
           /\ f.q.rack_reference.generation = a.generation
           /\ f.q.new_rack_generation = a.superseding
           /\ canonicalize[f.q.rack_reference.endpoints] = f.q.rack_reference.endpoints
<1>1. Stamp \in Evidence
  BY Zenon DEF Stamp, Evidence
<1>2. make_authority(a, b) \in Authority
  BY AgentAssumption, Zenon DEF make_authority, Authority, AgentRecord
<1>3. make_reference(a, b) \in RackReference
  BY <1>1, AgentAssumption, StateAssumption, Zenon DEF make_reference, RackReference, AgentRecord
<1>4. make_request(a, b) \in AgentRequest
  BY <1>1, <1>2, <1>3, StateAssumption, Zenon DEF make_request, AgentRequest, AgentRecord
<1>5. Frame(a, b, kind) \in FrameRecord
  BY <1>4, Zenon DEF Frame, FrameRecord, AgentRecord
<1>6. canonicalize[canonicalize[Empty]] = canonicalize[Empty]
  BY StateAssumption, Zenon
<1> QED BY <1>5, <1>6, Zenon DEF Frame, make_request, make_authority, make_reference

(* What an agent learns from an answer leaves its publication and its      *)
(* generation alone.                                                       *)
LEMMA AnswerRead ==
    ASSUME NEW a \in AgentRecord, NEW x \in AnswerRecord
    PROVE  /\ observe(a, x) \in AgentRecord
           /\ observe(a, x).publication = a.publication
           /\ observe(a, x).generation = a.generation
           /\ observe(a, x).superseding = a.superseding
           /\ observe(a, x).fenced = a.fenced
           /\ record_rejection(a, x) \in AgentRecord
           /\ record_rejection(a, x).publication = a.publication
           /\ record_rejection(a, x).fenced => a.fenced \/ x.reason = "StaleRackBoot"
           /\ record_rejection(a, x).generation = a.generation
           /\ record_rejection(a, x).superseding = a.superseding
<1>1. /\ observe(a, x) \in AgentRecord
      /\ observe(a, x).publication = a.publication
      /\ observe(a, x).generation = a.generation
      /\ observe(a, x).superseding = a.superseding
      /\ observe(a, x).fenced = a.fenced
  BY Zenon DEF observe, Known, AgentRecord, AnswerRecord
<1>2. (a.fenced \/ x.reason = "StaleRackBoot") \in BOOLEAN
  BY Zenon
<1>3. record_rejection(a, x) \in AgentRecord
  BY <1>2, Zenon DEF record_rejection, AgentRecord
<1>4. /\ record_rejection(a, x).publication = a.publication
      /\ record_rejection(a, x).generation = a.generation
      /\ record_rejection(a, x).superseding = a.superseding
  BY Zenon DEF record_rejection, AgentRecord
<1>5. record_rejection(a, x).fenced = (a.fenced \/ x.reason = "StaleRackBoot")
  BY Zenon DEF record_rejection, AgentRecord
<1> QED BY <1>1, <1>3, <1>4, <1>5, Zenon

-----------------------------------------------------------------------------
(***************************************************************************)
(* The steps of an agent and of its connection.                            *)
(***************************************************************************)

(* What such a step may do: it spends publications and never gives one     *)
(* back, it waits for the answer to its own frame, and it takes itself for *)
(* fenced only when an answer said so.                                     *)
AgentMoves(b) ==
    /\ agent' \in [Boots -> AgentRecord] /\ conn' \in [Boots -> Connection]
    /\ \A k \in Boots \ {b} : agent'[k] = agent[k] /\ conn'[k] = conn[k]
    /\ agent'[b].publication >= agent[b].publication
    /\ conn'[b].frame # NoFrame => conn'[b].frame = conn[b].frame \/ SentBy(b, conn[b].frame)'
    /\ Waits(b)'
    /\ conn'[b].answer # NoFrame => /\ conn'[b].answer = conn[b].answer
                                    /\ agent'[b].doing = agent[b].doing
                                    /\ agent'[b].generation = agent[b].generation
                                    /\ agent'[b].superseding = agent[b].superseding
    /\ agent'[b].fenced => \/ agent[b].fenced
                           \/ /\ conn[b].answer # NoFrame
                              /\ conn[b].answer.reason = "StaleRackBoot"

(* The session of b stays, or becomes an orphan. *)
SessionStays(b) ==
    \/ conn'[b].session = conn[b].session /\ UNCHANGED orphans
    \/ orphans' = orphans \cup Orphan(b)

(* send_frame. *)
LEMMA SendsMoves ==
    ASSUME AgentTypeOK, NEW b \in Boots, Waits(b), NEW a \in AgentRecord,
           NEW kind \in FrameKinds \ {"hello"}, Sends(b, a, kind),
           a.publication = agent[b].publication,
           kind = "topology" => a.topology_left # <<>>,
           a.fenced => agent[b].fenced \/ (/\ conn[b].answer # NoFrame
                                           /\ conn[b].answer.reason = "StaleRackBoot")
    PROVE  AgentMoves(b) /\ conn'[b].session = conn[b].session
           /\ agent'[b].generation = a.generation
<1> DEFINE t == [take_publication(a) EXCEPT !.doing = kind]
           c == [session |-> conn[b].session, answer |-> NoFrame,
                 frame |-> IF conn[b].session = "none" THEN NoFrame ELSE Frame(a, b, kind)]
<1>1. /\ agent \in [Boots -> AgentRecord] /\ conn \in [Boots -> Connection]
      /\ agent' = [agent EXCEPT ![b] = t] /\ conn' = [conn EXCEPT ![b] = c]
  BY Zenon DEF AgentTypeOK, Sends
<1>2. /\ t \in AgentRecord /\ t.doing = kind
      /\ t.publication >= a.publication
      /\ a.publication < t.publication \/ t.publication = MaxGeneration
      /\ t.generation = a.generation /\ t.superseding = a.superseding
      /\ t.topology_left = a.topology_left /\ (t.fenced <=> a.fenced)
  BY TakenPublication DEF AgentRecord
<1>3. /\ c \in Connection /\ c.session = conn[b].session /\ c.answer = NoFrame
      /\ c.frame # NoFrame => c.frame = Frame(a, b, kind)
      /\ c.session = "none" => c.frame = NoFrame
  BY <1>1, FrameTypes, Zenon DEF Connection
<1> HIDE DEF t, c
<1>4. /\ agent' \in [Boots -> AgentRecord] /\ conn' \in [Boots -> Connection]
      /\ agent'[b] = t /\ conn'[b] = c
      /\ \A k \in Boots \ {b} : agent'[k] = agent[k] /\ conn'[k] = conn[k]
  BY <1>1, <1>2, <1>3, Zenon
<1>5. c.frame # NoFrame => SentBy(b, conn[b].frame)'
  BY <1>2, <1>3, <1>4, FrameTypes DEF SentBy, Spent
<1>6. Waits(b)'
  BY <1>2, <1>3, <1>4, FrameTypes DEF Waits
<1> QED BY <1>2, <1>3, <1>4, <1>5, <1>6, Zenon DEF AgentMoves

(* A call that returns.  The agent reads nothing before it made a new call. *)
LEMMA ReturnsMoves ==
    ASSUME AgentTypeOK, NEW b \in Boots, Waits(b), conn[b].frame = NoFrame,
           NEW a \in AgentRecord, Returns(b, a), a.publication = agent[b].publication,
           a.fenced => agent[b].fenced \/ (/\ conn[b].answer # NoFrame
                                           /\ conn[b].answer.reason = "StaleRackBoot")
    PROVE  AgentMoves(b) /\ conn'[b].session = conn[b].session
           /\ agent'[b].generation = a.generation
<1> DEFINE t == [a EXCEPT !.doing = "nothing", !.topology_left = <<>>]
           c == [conn[b] EXCEPT !.answer = NoFrame]
<1>1. /\ agent \in [Boots -> AgentRecord] /\ conn \in [Boots -> Connection]
      /\ agent' = [agent EXCEPT ![b] = t] /\ conn' = [conn EXCEPT ![b] = c]
  BY Zenon DEF AgentTypeOK, Returns
<1>2. /\ t \in AgentRecord /\ t.doing = "nothing"
      /\ t.publication = a.publication /\ t.generation = a.generation
      /\ (t.fenced <=> a.fenced)
  BY NoneLeft, Zenon DEF AgentRecord
<1>3. /\ c \in Connection /\ c.session = conn[b].session /\ c.answer = NoFrame
      /\ c.frame = NoFrame
  BY <1>1 DEF Connection
<1> HIDE DEF t, c
<1>4. /\ agent' \in [Boots -> AgentRecord] /\ conn' \in [Boots -> Connection]
      /\ agent'[b] = t /\ conn'[b] = c
      /\ \A k \in Boots \ {b} : agent'[k] = agent[k] /\ conn'[k] = conn[k]
  BY <1>1, <1>2, <1>3, Zenon
<1>5. Waits(b)'
  BY <1>2, <1>3, <1>4, Zenon DEF Waits
<1>6. agent[b].publication \in Generations
  BY <1>1, Zenon DEF AgentRecord
<1> QED BY <1>2, <1>3, <1>4, <1>5, <1>6, PublicationBound DEF AgentMoves, Generations

(* An agent's record with other progress but the same position. *)
LEMMA AgentChanged ==
    ASSUME NEW a \in AgentRecord,
           NEW state \in {"Idle", "Handshaking", "Registering", "Ready", "Publishing",
                          "Failed", "Stopped"}
    PROVE  /\ [a EXCEPT !.state = state] \in AgentRecord
           /\ [a EXCEPT !.state = state].publication = a.publication
           /\ [a EXCEPT !.state = state].generation = a.generation
           /\ [a EXCEPT !.state = state].superseding = a.superseding
           /\ [a EXCEPT !.state = state].topology_left = a.topology_left
           /\ [a EXCEPT !.state = state].doing = a.doing
           /\ ([a EXCEPT !.state = state].fenced <=> a.fenced)
BY DEF AgentRecord

(* connect, connect that fails, and stop replace the connection. *)
LEMMA ReplacedMoves ==
    ASSUME AgentTypeOK, NEW b \in Boots, NEW t \in AgentRecord, NEW c \in Connection,
           agent' = [agent EXCEPT ![b] = t], conn' = [conn EXCEPT ![b] = c],
           t.publication = agent[b].publication, t.fenced => agent[b].fenced,
           t.doing # "topology", c.answer = NoFrame,
           \/ c.frame = NoFrame
           \/ /\ c.session # "none" /\ t.doing = "hello"
              /\ t.generation = agent[b].generation /\ t.superseding = agent[b].superseding
              /\ c.frame = Frame(agent[b], b, "hello")
    PROVE  AgentMoves(b)
<1>1. agent \in [Boots -> AgentRecord] /\ conn \in [Boots -> Connection]
  BY Zenon DEF AgentTypeOK
<1>2. /\ agent' \in [Boots -> AgentRecord] /\ conn' \in [Boots -> Connection]
      /\ agent'[b] = t /\ conn'[b] = c
      /\ \A k \in Boots \ {b} : agent'[k] = agent[k] /\ conn'[k] = conn[k]
  BY <1>1, Zenon
<1>3. "hello" \in FrameKinds
  BY Zenon DEF FrameKinds
<1>4. c.frame # NoFrame => SentBy(b, conn[b].frame)'
  BY <1>1, <1>2, <1>3, FrameTypes DEF SentBy
<1>5. Waits(b)'
  BY <1>1, <1>2, <1>3, FrameTypes DEF Waits
<1>6. agent'[b].publication >= agent[b].publication
  BY <1>1, <1>2, PublicationBound DEF AgentRecord, Generations
<1> QED BY <1>2, <1>4, <1>5, <1>6, Zenon DEF AgentMoves

(* Every call of its owner moves an agent. *)
LEMMA CallsMove ==
    ASSUME AgentTypeOK, NEW b \in Boots, Waits(b), AgentCalls(b)
    PROVE  AgentMoves(b) /\ SessionStays(b) /\ UNCHANGED coordinator_side
<1>0. /\ agent \in [Boots -> AgentRecord] /\ conn \in [Boots -> Connection]
      /\ agent[b] \in AgentRecord
  BY Zenon DEF AgentTypeOK
<1> DEFINE R == [agent[b] EXCEPT !.state = "Handshaking", !.doing = "hello",
                                 !.handle = TRUE, !.registered = FALSE]
           F == [agent[b] EXCEPT !.state = "Failed", !.handle = FALSE, !.registered = FALSE]
           Z == [agent[b] EXCEPT !.state = "Stopped", !.stopped = TRUE, !.doing = "nothing",
                                 !.handle = FALSE, !.registered = FALSE,
                                 !.topology_left = <<>>]
           C == [session |-> "new", answer |-> NoFrame, frame |-> Frame(agent[b], b, "hello")]
<1>1. /\ NoConnection \in Connection /\ C \in Connection
      /\ NoConnection.frame = NoFrame /\ NoConnection.answer = NoFrame
      /\ C.answer = NoFrame /\ C.session # "none" /\ C.frame = Frame(agent[b], b, "hello")
  <2>1. Frame(agent[b], b, "hello") \in FrameRecord
    BY <1>0, FrameTypes DEF FrameKinds
  <2> QED BY <2>1, Zenon DEF NoConnection, Connection
<1>2. /\ R.publication = agent[b].publication /\ (R.fenced <=> agent[b].fenced)
      /\ R.generation = agent[b].generation /\ R.superseding = agent[b].superseding
      /\ F.publication = agent[b].publication /\ (F.fenced <=> agent[b].fenced)
      /\ Z.publication = agent[b].publication /\ (Z.fenced <=> agent[b].fenced)
  BY <1>0, Zenon DEF AgentRecord
<1>3. /\ R \in AgentRecord /\ R.doing = "hello"
      /\ F \in AgentRecord /\ F.doing = agent[b].doing
      /\ Z \in AgentRecord /\ Z.doing = "nothing"
  BY <1>0, NoneLeft, Zenon DEF AgentRecord, FrameKinds
<1>4. CASE connect(b)
  <2>1. /\ agent' = [agent EXCEPT ![b] = R]
        /\ conn' = [conn EXCEPT ![b] = C] \/ conn' = [conn EXCEPT ![b] = NoConnection]
        /\ orphans' = orphans \cup Orphan(b) /\ UNCHANGED coordinator_side
    BY <1>4, Zenon DEF connect, Reconnects
  <2> HIDE DEF R, C
  <2>2. AgentMoves(b)
    BY <1>1, <1>2, <1>3, <2>1, ReplacedMoves, Zenon
  <2> QED BY <2>1, <2>2, Zenon DEF SessionStays
<1>5. CASE ConnectFails(b)
  <2>1. /\ agent' = [agent EXCEPT ![b] = F] /\ conn' = [conn EXCEPT ![b] = NoConnection]
        /\ orphans' = orphans \cup Orphan(b) /\ UNCHANGED coordinator_side
        /\ agent[b].doing = "nothing"
    BY <1>5, Zenon DEF ConnectFails, Reconnects
  <2> HIDE DEF F
  <2>2. AgentMoves(b)
    BY <1>1, <1>2, <1>3, <2>1, ReplacedMoves, Zenon
  <2> QED BY <2>1, <2>2, Zenon DEF SessionStays
<1>6. CASE stop(b)
  <2>1. /\ agent' = [agent EXCEPT ![b] = Z] /\ conn' = [conn EXCEPT ![b] = NoConnection]
        /\ orphans' = orphans \cup Orphan(b) /\ UNCHANGED coordinator_side
    BY <1>6, Zenon DEF stop
  <2> HIDE DEF Z
  <2>2. AgentMoves(b)
    BY <1>1, <1>2, <1>3, <2>1, ReplacedMoves, Zenon
  <2> QED BY <2>1, <2>2, Zenon DEF SessionStays
<1>7. CASE CallRefused(b)
  <2> DEFINE t == [agent[b] EXCEPT !.state = "Failed"]
  <2>1. /\ agent' = [agent EXCEPT ![b] = t] /\ UNCHANGED <<conn, orphans, coordinator_side>>
    BY <1>7, Zenon DEF CallRefused, Failed
  <2>2. /\ t \in AgentRecord /\ t.publication = agent[b].publication
        /\ t.generation = agent[b].generation /\ t.superseding = agent[b].superseding
        /\ t.topology_left = agent[b].topology_left /\ t.doing = agent[b].doing
        /\ (t.fenced <=> agent[b].fenced)
    BY <1>0, AgentChanged, Zenon
  <2> HIDE DEF t
  <2>3. /\ agent' \in [Boots -> AgentRecord] /\ agent'[b] = t
        /\ \A k \in Boots \ {b} : agent'[k] = agent[k]
    BY <1>0, <2>1, <2>2, Zenon
  <2>4. Waits(b)'
    BY <2>1, <2>2, <2>3, Zenon DEF Waits
  <2>5. t.publication >= agent[b].publication
    BY <1>0, <2>2, PublicationBound DEF AgentRecord, Generations
  <2> QED BY <1>0, <2>1, <2>2, <2>3, <2>4, <2>5, Zenon DEF AgentMoves, SessionStays
<1>8. ASSUME NEW a \in AgentRecord, NEW kind \in FrameKinds \ {"hello", "topology"},
             Calls(b, kind), Sends(b, a, kind),
             a.publication = agent[b].publication, a.fenced <=> agent[b].fenced
      PROVE  AgentMoves(b) /\ SessionStays(b) /\ UNCHANGED coordinator_side
  BY <1>8, SendsMoves, Zenon DEF Calls, SessionStays
<1>9. /\ Publishing(b) \in AgentRecord /\ Publishing(b).publication = agent[b].publication
      /\ (Publishing(b).fenced <=> agent[b].fenced)
  BY <1>0, AgentChanged, Zenon DEF Publishing
<1>10. ASSUME NEW new \in Supersessions
       PROVE  /\ [Publishing(b) EXCEPT !.superseding = new] \in AgentRecord
              /\ [Publishing(b) EXCEPT !.superseding = new].publication = agent[b].publication
              /\ ([Publishing(b) EXCEPT !.superseding = new].fenced <=> agent[b].fenced)
  <2>1. new \in Generations
    BY AgentAssumption, Zenon
  <2> QED BY <1>9, <2>1, Zenon DEF AgentRecord
<1>11. {"publish", "supersede", "revalidate", "heartbeat", "query"}
          \subseteq FrameKinds \ {"hello", "topology"}
  BY Zenon DEF FrameKinds
<1> QED BY <1>0, <1>4, <1>5, <1>6, <1>7, <1>8, <1>9, <1>10, <1>11, Zenon
        DEF AgentCalls, publish, revalidate, heartbeat, query, supersede

(* What the agent last heard is recorded follows from an accepted answer.  *)
AgentHears(b) ==
    /\ acknowledged' \in [Boots -> Generations]
    /\ \A k \in Boots \ {b} : acknowledged'[k] = acknowledged[k]
    /\ \/ acknowledged'[b] = acknowledged[b]
       \/ /\ conn[b].answer # NoFrame /\ conn[b].answer.accepted
          /\ \/ agent[b].doing = "publish" /\ acknowledged'[b] = agent[b].generation
             \/ agent[b].doing = "supersede" /\ acknowledged'[b] = agent[b].superseding

(* read_frame of an answer moves an agent. *)
LEMMA ReceiveMoves ==
    ASSUME AgentTypeOK, NEW b \in Boots, Waits(b), Receive(b)
    PROVE  /\ AgentMoves(b) /\ conn'[b].session = conn[b].session
           /\ AgentHears(b)
           /\ UNCHANGED <<orphans, fences, given_up, vars>>
<1> DEFINE a == agent[b]
           x == conn[b].answer
           sn == conn'[b].session = conn[b].session
<1>0. /\ a \in AgentRecord /\ x \in AnswerRecord /\ conn[b].frame = NoFrame /\ x # NoFrame
      /\ acknowledged \in [Boots -> Generations]
      /\ a.doing = "topology" => a.topology_left # <<>>
  BY Zenon DEF AgentTypeOK, Connection, Waits, Receive
<1> DEFINE Learnt(t) == /\ t \in AgentRecord /\ t.publication = a.publication
                        /\ t.fenced => a.fenced \/ x.reason = "StaleRackBoot"
<1>1. ASSUME NEW t, Learnt(t), Returns(b, t)
      PROVE  AgentMoves(b) /\ sn /\ agent'[b].generation = t.generation
  BY <1>0, <1>1, ReturnsMoves, Zenon
<1>2. ASSUME NEW t, Learnt(t), NEW kind \in {"register", "publish", "topology"},
             Sends(b, t, kind), kind = "topology" => t.topology_left # <<>>
      PROVE  AgentMoves(b) /\ sn /\ agent'[b].generation = t.generation
  BY <1>0, <1>2, SendsMoves, Zenon DEF FrameKinds
<1> HIDE DEF a, x
<1>3. ASSUME NEW t, Learnt(t),
             NEW state \in {"Handshaking", "Registering", "Ready", "Failed"}
      PROVE  Learnt([t EXCEPT !.state = state])
             /\ [t EXCEPT !.state = state].generation = t.generation
  <2> DEFINE u == [t EXCEPT !.state = state]
  <2>0. /\ t \in AgentRecord
        /\ state \in {"Idle", "Handshaking", "Registering", "Ready", "Publishing", "Failed",
                      "Stopped"}
    BY <1>3, Zenon
  <2>1. /\ u \in AgentRecord /\ u.publication = t.publication
        /\ u.generation = t.generation /\ (u.fenced <=> t.fenced)
    BY <2>0, AgentChanged, Zenon
  <2> HIDE DEF u
  <2>2. Learnt(u) /\ u.generation = t.generation
    BY <1>3, <2>1, Zenon
  <2> QED BY <2>2, Zenon DEF u
<1>4. Learnt(a) /\ Learnt(observe(a, x)) /\ Learnt(record_rejection(a, x))
      /\ observe(a, x).generation = a.generation
  BY <1>0, AnswerRead
<1>5. Learnt(record_failure(a, x))
  BY <1>3, <1>4, Zenon DEF record_failure, Failed
<1>6. Learnt(Rejected(a, x))
  <2> DEFINE t == record_rejection(a, x)
             y == IF a.registered THEN "Ready" ELSE t.state
  <2>1. Rejected(a, x) = [t EXCEPT !.state = y]
    BY Zenon DEF Rejected
  <2>2. y \in {"Idle", "Handshaking", "Registering", "Ready", "Publishing", "Failed", "Stopped"}
    BY <1>4, Zenon DEF AgentRecord
  <2> DEFINE u == [t EXCEPT !.state = y]
  <2>3. t \in AgentRecord
    BY <1>4, Zenon
  <2>4. /\ u \in AgentRecord /\ u.publication = t.publication /\ (u.fenced <=> t.fenced)
    <3> HIDE DEF t, y
    <3> QED BY <2>2, <2>3, AgentChanged, Zenon
  <2>5. Learnt(t)
    BY <1>4, Zenon
  <2>6. Learnt(u)
    <3> HIDE DEF t, u
    <3> QED BY <2>4, <2>5, Zenon
  <2> QED BY <2>1, <2>6, Zenon
<1> HIDE DEF Learnt
<1>7. ASSUME NEW t, Learnt(t), NEW left \in Seq(Pieces), Continues(b, t, left)
      PROVE  AgentMoves(b) /\ sn /\ agent'[b].generation = t.generation
  <2>1. CASE t.registered /\ left # <<>>
    <3>1. Sends(b, [t EXCEPT !.topology_left = left], "topology")
      BY <1>7, <2>1, Zenon DEF Continues
    <3>2. /\ Learnt([t EXCEPT !.topology_left = left])
          /\ [t EXCEPT !.topology_left = left].topology_left = left
          /\ [t EXCEPT !.topology_left = left].generation = t.generation
      BY <1>7, Zenon DEF Learnt, AgentRecord
    <3> QED BY <1>2, <2>1, <3>1, <3>2, Zenon
  <2>2. CASE ~(t.registered /\ left # <<>>)
    <3>1. Returns(b, [t EXCEPT !.state = "Ready"])
      BY <1>7, <2>2, Zenon DEF Continues
    <3> QED BY <1>1, <1>3, <1>7, <3>1, Zenon
  <2> QED BY <2>1, <2>2, Zenon
<1>8. /\ Receive(b) => \/ a.doing = "hello" /\ Greeted(b, a, x)
                       \/ a.doing = "register" /\ Registered(b, a, x)
                       \/ a.doing = "publish" /\ Published(b, a, x)
                       \/ a.doing = "topology" /\ TopologyPublished(b, a, x)
                       \/ a.doing = "supersede" /\ Superseded(b, a, x)
                       \/ a.doing = "revalidate" /\ Revalidated(b, a, x)
                       \/ a.doing = "heartbeat" /\ HeartbeatAnswered(b, a, x)
                       \/ a.doing = "query" /\ Returns(b, a)
      /\ acknowledged' = [acknowledged EXCEPT ![b] =
            IF a.doing \in {"publish", "supersede"} /\ x.accepted
            THEN agent'[b].generation ELSE @]
      /\ UNCHANGED <<orphans, fences, given_up, vars>>
  BY Zenon DEF Receive, a, x
<1>9. /\ Learnt([observe(a, x) EXCEPT !.generation = a.superseding])
      /\ [observe(a, x) EXCEPT !.generation = a.superseding].generation = a.superseding
  <2> DEFINE o == observe(a, x)
             t == [o EXCEPT !.generation = a.superseding]
  <2>1. a.superseding \in Generations
    BY <1>0, Zenon DEF AgentRecord
  <2>2. /\ t \in AgentRecord /\ t.publication = o.publication /\ (t.fenced <=> o.fenced)
        /\ t.generation = a.superseding
    <3> HIDE DEF o
    <3> QED BY <1>4, <2>1, Zenon DEF Learnt, AgentRecord, o
  <2>3. Learnt(t)
    <3> HIDE DEF t, o
    <3> QED BY <1>4, <2>2, Zenon DEF Learnt, o
  <2> QED BY <2>2, <2>3, Zenon
<1>10. AgentMoves(b) /\ sn
  <2>1. CASE Greeted(b, a, x)
    BY <1>1, <1>2, <1>3, <1>4, <1>5, <2>1, Zenon DEF Greeted
  <2>2. CASE Registered(b, a, x)
    <3> DEFINE o == observe(a, x)
               t == [o EXCEPT !.registered = TRUE, !.state = "Ready"]
    <3>1. Learnt(t)
      <4>1. /\ t \in AgentRecord /\ t.publication = o.publication /\ (t.fenced <=> o.fenced)
        <5> HIDE DEF o
        <5> QED BY <1>4, Zenon DEF Learnt, AgentRecord, o
      <4> HIDE DEF t, o
      <4> QED BY <1>4, <4>1, Zenon DEF Learnt, o
    <3> HIDE DEF t
    <3>2. Returns(b, IF x.accepted THEN t ELSE record_failure(a, x))
      BY <2>2, Zenon DEF Registered, t
    <3> QED BY <1>1, <1>5, <3>1, <3>2, Zenon
  <2>3. CASE Published(b, a, x)
    BY <1>1, <1>4, <1>6, <1>7, <2>3, AgentAssumption, Zenon DEF Published
  <2>4. CASE a.doing = "topology" /\ TopologyPublished(b, a, x)
    <3>1. Tail(a.topology_left) \in Seq(Pieces)
      BY <1>0, <2>4 DEF AgentRecord
    <3>2. Learnt(IF x.accepted THEN observe(a, x) ELSE record_rejection(a, x))
      BY <1>4, Zenon
    <3> QED BY <1>7, <2>4, <3>1, <3>2, Zenon DEF TopologyPublished
  <2>5. CASE Superseded(b, a, x)
    BY <1>1, <1>2, <1>6, <1>9, <2>5, Zenon DEF Superseded
  <2>6. CASE Revalidated(b, a, x)
    BY <1>1, <1>2, <1>4, <1>6, <2>6, Zenon DEF Revalidated
  <2>7. CASE HeartbeatAnswered(b, a, x)
    BY <1>1, <1>4, <2>7, Zenon DEF HeartbeatAnswered
  <2>8. CASE Returns(b, a)
    BY <1>1, <1>4, <2>8, Zenon
  <2> QED BY <1>8, <2>1, <2>2, <2>3, <2>4, <2>5, <2>6, <2>7, <2>8, Zenon
<1>11. a.doing = "publish" /\ x.accepted => agent'[b].generation = a.generation
  BY <1>4, <1>7, <1>8, AgentAssumption, Zenon DEF Published
<1>12. a.doing = "supersede" /\ x.accepted => agent'[b].generation = a.superseding
  BY <1>2, <1>8, <1>9, Zenon DEF Superseded
<1>13. agent'[b].generation \in Generations
  BY <1>10, Zenon DEF AgentMoves, AgentRecord
<1>14. AgentHears(b)
  <2>1. CASE a.doing \in {"publish", "supersede"} /\ x.accepted
    BY <1>0, <1>8, <1>11, <1>12, <1>13, <2>1, Zenon DEF AgentHears, a, x
  <2>2. CASE ~(a.doing \in {"publish", "supersede"} /\ x.accepted)
    BY <1>0, <1>8, <2>2, Zenon DEF AgentHears
  <2> QED BY <2>1, <2>2, Zenon
<1> QED BY <1>8, <1>10, <1>14, Zenon

(* So do a connection seen to be closed, *)
LEMMA SeeClosedMoves ==
    ASSUME AgentTypeOK, NEW b \in Boots, Waits(b), SeeClosed(b)
    PROVE  AgentMoves(b) /\ SessionStays(b) /\ UNCHANGED coordinator_side
<1>1. /\ agent[b] \in AgentRecord /\ conn[b].frame = NoFrame
      /\ Returns(b, Failed(agent[b])) /\ UNCHANGED <<orphans, coordinator_side>>
  BY Zenon DEF AgentTypeOK, SeeClosed, Waits
<1>2. /\ Failed(agent[b]) \in AgentRecord
      /\ Failed(agent[b]).publication = agent[b].publication
      /\ (Failed(agent[b]).fenced <=> agent[b].fenced)
  BY <1>1, AgentChanged, Zenon DEF Failed
<1> QED BY <1>1, <1>2, ReturnsMoves, Zenon DEF SessionStays

(* and one that is lost. *)
LEMMA BreakMoves ==
    ASSUME AgentTypeOK, NEW b \in Boots, Waits(b), Break(b)
    PROVE  AgentMoves(b) /\ SessionStays(b) /\ UNCHANGED coordinator_side
<1>1. /\ agent \in [Boots -> AgentRecord] /\ conn \in [Boots -> Connection]
      /\ orphans' = orphans \cup Orphan(b) /\ UNCHANGED <<agent, coordinator_side>>
  BY Zenon DEF AgentTypeOK, Break
<1>2. PICK x \in {conn[b].answer, NoFrame} :
          conn' = [conn EXCEPT ![b] = [NoConnection EXCEPT !.answer = x]]
  BY Zenon DEF Break
<1> DEFINE c == [NoConnection EXCEPT !.answer = x]
<1>3. c \in Connection /\ c.answer = x /\ c.frame = NoFrame /\ c.session = "none"
  BY <1>1, <1>2, Zenon DEF NoConnection, Connection
<1> HIDE DEF c
<1>4. /\ conn' \in [Boots -> Connection] /\ conn'[b] = c
      /\ \A k \in Boots \ {b} : conn'[k] = conn[k]
  BY <1>1, <1>2, <1>3, Zenon DEF c
<1>5. Waits(b)'
  BY <1>1, <1>3, <1>4, Zenon DEF Waits
<1>6. agent'[b].publication >= agent[b].publication
  BY <1>1, PublicationBound DEF AgentRecord, Generations
<1> QED BY <1>1, <1>2, <1>3, <1>4, <1>5, <1>6, Zenon DEF AgentMoves, SessionStays

(* The canonical state that UNCHANGED vars leaves alone. *)
LEMMA EngineIdle ==
    ASSUME UNCHANGED vars
    PROVE  UNCHANGED <<id, epoch, coordinator_epoch, counters, topology_epoch,
                       domain_generations, lifecycle, readiness_contract, racks, links,
                       domains, constraints, fenced_authorities, unexplained, retired_racks,
                       withdrawn_racks, disk>>
BY Zenon DEF vars, canonical, scalars

(* A frame that is someone's own stays so while publications are spent. *)
LEMMA FramesStayOwn ==
    ASSUME AgentTypeOK, FramesAreOwn, AgentTypeOK',
           \A k \in Boots : agent'[k].publication >= agent[k].publication,
           \A k \in Boots : conn'[k].frame # NoFrame =>
              conn'[k].frame = conn[k].frame \/ SentBy(k, conn[k].frame)',
           \A s \in orphans' : s.frame # NoFrame =>
              \/ \E y \in orphans : s.boot = y.boot /\ s.frame = y.frame
              \/ s.frame = conn[s.boot].frame
    PROVE  FramesAreOwn'
<1>1. ASSUME NEW k \in Boots, NEW p \in Generations, Spent(k, p)
      PROVE  p < agent'[k].publication \/ agent'[k].publication = MaxGeneration
  <2>1. /\ agent[k].publication \in Generations /\ agent'[k].publication \in Generations
        /\ agent'[k].publication >= agent[k].publication
    BY Zenon DEF AgentTypeOK, AgentRecord
  <2> QED BY <1>1, <2>1, PublicationBound DEF Spent, Generations
<1>2. \A f \in FrameRecord : f.q.authority.publication \in Generations
  BY Zenon DEF FrameRecord, AgentRequest, Authority
<1>3. ASSUME NEW k \in Boots, NEW f \in FrameRecord, SentBy(k, f)
      PROVE  /\ f.q.authority.boot = k /\ f.q.rack_reference.boot = k
             /\ f.q.rack_reference.publication = f.q.authority.publication
             /\ canonicalize[f.q.rack_reference.endpoints] = f.q.rack_reference.endpoints
             /\ f.kind = "topology" => f.topology_left # <<>>
             /\ f.kind # "hello" => \/ f.q.authority.publication < agent'[k].publication
                                    \/ agent'[k].publication = MaxGeneration
  BY <1>1, <1>2, <1>3, Zenon DEF SentBy
<1>4. ASSUME NEW k \in Boots, conn'[k].frame # NoFrame
      PROVE  SentBy(k, conn[k].frame)'
  <2>1. CASE conn'[k].frame = conn[k].frame
    <3>1. PICK f : f = conn[k].frame
      BY Zenon
    <3>2. f \in FrameRecord /\ SentBy(k, f)
      BY <1>4, <2>1, <3>1, Zenon DEF AgentTypeOK, FramesAreOwn, Connection
    <3>3. conn'[k].frame = f
      BY <2>1, <3>1, Zenon
    <3> QED BY <1>3, <3>2, <3>3, Zenon DEF SentBy, Spent
  <2> QED BY <1>4, <2>1, Zenon
<1>5. ASSUME NEW s \in orphans', s.frame # NoFrame
      PROVE  /\ s.boot \in Boots /\ s.frame \in FrameRecord
             /\ SentBy(s.boot, s.frame)
  <2>1. s.boot \in Boots /\ s.frame \in FrameRecord
    BY <1>5, Zenon DEF AgentTypeOK, Session
  <2> QED BY <1>5, <2>1, Zenon DEF FramesAreOwn
<1>6. (\A k \in Boots : conn[k].frame # NoFrame => SentBy(k, conn[k].frame))'
  BY <1>4, Zenon
<1>7. (\A s \in orphans : s.frame # NoFrame => SentBy(s.boot, s.frame))'
  BY <1>3, <1>5, Zenon DEF SentBy, Spent
<1> QED BY <1>6, <1>7, Zenon DEF FramesAreOwn

(* Somebody watches boot b, or gave up on it. *)
Watched(b) ==
    \/ conn[b].session = "greeted"
    \/ \E s \in orphans : s.boot = b /\ s.session = "greeted"
    \/ b \in fences \cup given_up

(* NoZombieAuthority survives a step that leaves watched boots watched and *)
(* gives authority to watched boots only.                                  *)
LEMMA WatchKept ==
    ASSUME NoZombieAuthority,
           \A r \in Racks : racks'[r].authoritative_current =>
              \/ racks[r].authoritative_current /\ racks'[r].boot = racks[r].boot
                 /\ (Watched(racks[r].boot) => Watched(racks[r].boot)')
              \/ Watched(racks[r].boot)'
    PROVE  NoZombieAuthority'
<1>1. ASSUME NEW r \in Racks, racks'[r].authoritative_current
      PROVE  Watched(racks[r].boot)'
  BY <1>1, Zenon DEF NoZombieAuthority, Watched
<1> QED BY <1>1, Zenon DEF NoZombieAuthority, Watched

(* A session that stays or becomes an orphan keeps its boot watched. *)
LEMMA SessionWatched ==
    ASSUME NEW b \in Boots, SessionStays(b),
           \A k \in Boots \ {b} : conn'[k] = conn[k], UNCHANGED <<fences, given_up>>,
           NEW k \in Boots, Watched(k)
    PROVE  Watched(k)'
<1>1. orphans \subseteq orphans'
  BY Zenon DEF SessionStays
<1>2. CASE conn[k].session # "greeted"
  BY <1>1, <1>2, Zenon DEF Watched
<1>3. CASE conn'[k].session = conn[k].session
  BY <1>1, <1>3, Zenon DEF Watched
<1>4. CASE conn[k].session = "greeted" /\ conn'[k].session # conn[k].session
  <2>1. k = b /\ orphans' = orphans \cup Orphan(b)
    BY <1>4, Zenon DEF SessionStays
  <2> DEFINE s == [boot |-> b, session |-> conn[b].session, frame |-> conn[b].frame]
  <2>2. s \in orphans' /\ s.boot = k /\ s.session = "greeted"
    BY <1>4, <2>1, Zenon DEF Orphan
  <2> QED BY <2>2, Zenon DEF Watched
<1> QED BY <1>2, <1>3, <1>4
=============================================================================
