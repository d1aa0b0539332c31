-------------------------- MODULE CoordinatorThreads --------------------------
(***************************************************************************)
(* The threads of a coordinator process around the commit engine: the      *)
(* owner that calls start() and stop(), the accept thread, one detached    *)
(* worker per session, in-process callers of submit() and fence_boot(),    *)
(* and the commit thread that serves the request queue.                    *)
(*                                                                         *)
(* Each critical section under queue_mutex or sessions_mutex is one step;  *)
(* what a thread does after the unlock (a notify, a read of canonical      *)
(* state, a second lock) is a step of its own.  Of canonical state only    *)
(* the process incarnations (boots) that own a record and the fenced ones  *)
(* are kept: CoordinatorEngine has the rest.  A store is configured.       *)
(* Frames are left out; a session reads HELLO, requests, or an end.        *)
(***************************************************************************)
EXTENDS Naturals, Sequences, FiniteSets

CONSTANTS
    Sessions,             \* connections, each accepted at most once
    Callers,              \* in-process threads that use the coordinator's API
    Boots, NoBoot,
    NoThread,
    kMaxPendingRequests,
    max_sessions,
    MaxQueue              \* bound on the queue when fence_boot adds to it

ASSUME ThreadAssumption ==
    /\ Sessions \cap Callers = {}
    /\ NoThread \notin Sessions \cup Callers
    /\ NoBoot \notin Boots
    /\ kMaxPendingRequests \in Nat /\ max_sessions \in Nat /\ MaxQueue \in Nat

Submitters == Sessions \cup Callers

(* QueueItem: a mutation with the completion slot of its submitter, a      *)
(* fence, or the request to stop.                                          *)
QueueItem ==
    [kind : {"Mutation"}, slot : Submitters, boot : Boots \cup {NoBoot}] \cup
    [kind : {"Fence"}, slot : {NoThread}, boot : Boots] \cup
    [kind : {"Stop"}, slot : {NoThread}, boot : {NoBoot}]

Mutation(t, b) == [kind |-> "Mutation", slot |-> t, boot |-> b]
FenceItem(b) == [kind |-> "Fence", slot |-> NoThread, boot |-> b]
StopItem == [kind |-> "Stop", slot |-> NoThread, boot |-> NoBoot]

VARIABLES
    owner,       \* where start() or stop() is
    queue, stopping, running,
    commit,      \* the commit thread
    item,        \* the item it has taken: a sequence of at most one
    slot,        \* per submitter: its RequestSlot and where submit() is
    acceptor,    \* the accept thread
    incoming,    \* the connections it admitted and has not registered
    accepting,
    sessions,    \* the session registry
    worker, boot, stop,
    owners,      \* incarnations that own a rack or link record
    fenced_authorities,
    persistence_failures   \* whether a save of a fence has failed

commit_vars == <<commit, item>>
queue_vars == <<queue, stopping, running>>
accept_vars == <<acceptor, incoming, accepting>>
session_vars == <<worker, boot, stop>>
canonical == <<owners, fenced_authorities, persistence_failures>>

vars == <<owner, queue_vars, commit_vars, slot, accept_vars, sessions, session_vars, canonical>>

Init ==
    /\ owner = "down"
    /\ queue = <<>> /\ stopping = FALSE /\ running = FALSE
    /\ commit = "none" /\ item = <<>>
    /\ slot = [t \in Submitters |-> "idle"]
    /\ acceptor = "none" /\ incoming = {} /\ accepting = FALSE
    /\ sessions = {}
    /\ worker = [s \in Sessions |-> "new"]
    /\ boot = [s \in Sessions |-> NoBoot]
    /\ stop = [s \in Sessions |-> FALSE]
    /\ owners = {} /\ fenced_authorities = {} /\ persistence_failures = FALSE

(* queue_condition.notify_one, notify_all: the commit thread is the only   *)
(* waiter; a notification no one waits for is lost.                        *)
Unheard == commit' = commit   \* mutated form: the notification is missing

Notify == commit' = IF commit = "blocked" THEN "checking" ELSE commit

-----------------------------------------------------------------------------
(***************************************************************************)
(* submit() and fence_boot().  A refused submission returns at once and    *)
(* changes nothing.                                                        *)
(***************************************************************************)
(* Mutated form: neither running nor stopping is looked at. *)
RoomOnly == Len(queue) < kMaxPendingRequests

MayEnqueue == running /\ ~stopping /\ Len(queue) < kMaxPendingRequests

Enqueue(t, b) ==
    /\ slot[t] = "idle"
    /\ MayEnqueue
    /\ queue' = Append(queue, Mutation(t, b))
    /\ slot' = [slot EXCEPT ![t] = "pushed"]
    /\ UNCHANGED <<owner, stopping, running, commit_vars, accept_vars, sessions, session_vars,
                   canonical>>

CallerSubmits(t) == \E b \in Boots \cup {NoBoot} : Enqueue(t, b)

SubmitNotifies(t) ==
    /\ slot[t] = "pushed"
    /\ Notify
    /\ slot' = [slot EXCEPT ![t] = "waiting"]
    /\ UNCHANGED <<owner, queue_vars, item, accept_vars, sessions, session_vars, canonical>>

(* The answer may be there before the submitter notifies or waits; the     *)
(* notification is then one nobody needs.                                  *)
SubmitReturns(t) ==
    /\ slot[t] = "done"
    /\ slot' = [slot EXCEPT ![t] = "idle"]
    /\ UNCHANGED <<owner, queue_vars, commit_vars, accept_vars, sessions, session_vars, canonical>>

FenceBoot(t, b) ==
    /\ slot[t] = "idle"
    /\ ~stopping
    /\ Len(queue) < MaxQueue
    /\ queue' = Append(queue, FenceItem(b))
    /\ slot' = [slot EXCEPT ![t] = "fencing"]
    /\ UNCHANGED <<owner, stopping, running, commit_vars, accept_vars, sessions, session_vars,
                   canonical>>

FenceBootNotifies(t) ==
    /\ slot[t] = "fencing"
    /\ Notify
    /\ slot' = [slot EXCEPT ![t] = "idle"]
    /\ UNCHANGED <<owner, queue_vars, item, accept_vars, sessions, session_vars, canonical>>

-----------------------------------------------------------------------------
(***************************************************************************)
(* run_commit.                                                             *)
(***************************************************************************)
(* Mutated form: the item stays at the front of the queue. *)
FrontRead == queue' = queue

FrontTaken == queue' = Tail(queue)

CommitTakes ==
    /\ commit = "checking" /\ queue # <<>>
    /\ commit' = "applying" /\ item' = <<Head(queue)>>
    /\ FrontTaken
    /\ UNCHANGED <<owner, stopping, running, slot, accept_vars, sessions, session_vars, canonical>>

(* Mutated form: the thread leaves as soon as the coordinator is stopping. *)
StoppingOnly == stopping

QueueDrained == queue = <<>> /\ stopping

CommitExits ==
    /\ commit = "checking" /\ QueueDrained
    /\ commit' = "exited"
    /\ UNCHANGED <<owner, queue_vars, item, slot, accept_vars, sessions, session_vars, canonical>>

CommitWaits ==
    /\ commit = "checking" /\ queue = <<>> /\ ~stopping
    /\ commit' = "blocked"
    /\ UNCHANGED <<owner, queue_vars, item, slot, accept_vars, sessions, session_vars, canonical>>

(* Mutated form: the finished item is kept. *)
ItemKept == commit' = "checking" /\ UNCHANGED item

ItemFinished == commit' = "checking" /\ item' = <<>>

(* apply_and_commit: the request is refused, or its incarnation becomes    *)
(* the owner of a record, possibly in place of another one.                *)
CommitMutates ==
    /\ commit = "applying" /\ item[1].kind = "Mutation"
    /\ \/ UNCHANGED owners
       \/ /\ item[1].boot # NoBoot
          /\ \E kept \in SUBSET owners : owners' = kept \cup {item[1].boot}
    /\ slot' = [slot EXCEPT ![item[1].slot] = "done"]
    /\ ItemFinished
    /\ UNCHANGED <<owner, queue_vars, accept_vars, sessions, session_vars, fenced_authorities,
                   persistence_failures>>

(* apply_fence; a fence whose save fails is rolled back and not retried. *)
CommitFences ==
    /\ commit = "applying" /\ item[1].kind = "Fence"
    /\ \/ /\ item[1].boot \in owners
          /\ fenced_authorities' = fenced_authorities \cup {item[1].boot}
          /\ UNCHANGED persistence_failures
       \/ /\ item[1].boot \in owners
          /\ persistence_failures' = TRUE
          /\ UNCHANGED fenced_authorities
       \/ /\ item[1].boot \notin owners
          /\ UNCHANGED <<fenced_authorities, persistence_failures>>
    /\ ItemFinished
    /\ UNCHANGED <<owner, queue_vars, slot, accept_vars, sessions, session_vars, owners>>

CommitStops ==
    /\ commit = "applying" /\ item[1].kind = "Stop"
    /\ commit' = "exited" /\ item' = <<>>
    /\ UNCHANGED <<owner, queue_vars, slot, accept_vars, sessions, session_vars, canonical>>

CommitStep ==
    CommitTakes \/ CommitExits \/ CommitWaits \/ CommitMutates \/ CommitFences \/ CommitStops

-----------------------------------------------------------------------------
(***************************************************************************)
(* run_accept.  A connection refused for lack of room changes nothing.  A  *)
(* connection that was already pending may still come out of accept()      *)
(* while the owner is closing the listener.                                *)
(***************************************************************************)
(* Mutated form: one session too many. *)
RoomForOneMore == Cardinality(sessions) <= max_sessions

Admitted == Cardinality(sessions) < max_sessions

AcceptAdmits(s) ==
    /\ acceptor = "accepting" /\ incoming = {}
    /\ worker[s] = "new"
    /\ Admitted
    /\ incoming' = {s}
    /\ UNCHANGED <<owner, queue_vars, commit_vars, slot, acceptor, accepting, sessions,
                   session_vars, canonical>>

AcceptRegisters ==
    /\ incoming # {}
    /\ sessions' = sessions \cup incoming
    /\ worker' = [s \in Sessions |-> IF s \in incoming THEN "reading" ELSE worker[s]]
    /\ incoming' = {}
    /\ UNCHANGED <<owner, queue_vars, commit_vars, slot, acceptor, accepting, boot, stop, canonical>>

AcceptExits ==
    /\ acceptor = "accepting" /\ incoming = {} /\ ~accepting
    /\ acceptor' = "exited"
    /\ UNCHANGED <<owner, queue_vars, commit_vars, slot, incoming, accepting, sessions,
                   session_vars, canonical>>

-----------------------------------------------------------------------------
(***************************************************************************)
(* run_session and detach_session.  A worker blocked in submit() reads     *)
(* nothing.                                                                *)
(***************************************************************************)
Reading(s) == worker[s] = "reading" /\ slot[s] = "idle"

(* HELLO is accepted at any time; the last one names the session's boot. *)
SessionHello(s, b) ==
    /\ Reading(s) /\ ~stop[s]
    /\ boot' = [boot EXCEPT ![s] = b]
    /\ UNCHANGED <<owner, queue_vars, commit_vars, slot, accept_vars, sessions, worker, stop,
                   canonical>>

(* REGISTER, PUBLISH and REVALIDATE, after the handshake. *)
SessionSubmits(s) ==
    /\ Reading(s) /\ ~stop[s]
    /\ boot[s] # NoBoot
    /\ Enqueue(s, boot[s])

SessionMoves(s, from, to) ==
    /\ worker[s] = from
    /\ worker' = [worker EXCEPT ![s] = to]

(* The peer closes, sends SHUTDOWN or a frame that is refused. *)
SessionEnds(s) ==
    /\ Reading(s) /\ ~stop[s]
    /\ SessionMoves(s, "reading", "leaving")
    /\ UNCHANGED <<owner, queue_vars, commit_vars, slot, accept_vars, sessions, boot, stop,
                   canonical>>

SessionSeesStop(s) ==
    /\ Reading(s) /\ stop[s]
    /\ SessionMoves(s, "reading", "leaving")
    /\ UNCHANGED <<owner, queue_vars, commit_vars, slot, accept_vars, sessions, boot, stop,
                   canonical>>

DetachErases(s) ==
    /\ SessionMoves(s, "leaving", "erased")
    /\ sessions' = sessions \ {s}
    /\ UNCHANGED <<owner, queue_vars, commit_vars, slot, accept_vars, boot, stop, canonical>>

(* Only an incarnation that owns evidence is fenced. *)
OwnsEvidence(s) == boot[s] # NoBoot /\ boot[s] \in owners

DetachReadsState(s) ==
    /\ SessionMoves(s, "erased", IF OwnsEvidence(s) THEN "fencing" ELSE "closing")
    /\ UNCHANGED <<owner, queue_vars, commit_vars, slot, accept_vars, sessions, boot, stop,
                   canonical>>

(* Mutated form: the fence is dropped when the queue is not empty. *)
FenceIfIdle(s) ==
    queue' = IF stopping \/ queue # <<>> THEN queue ELSE Append(queue, FenceItem(boot[s]))

(* Mutated form: the fence goes ahead of the requests. *)
FenceFirst(s) ==
    queue' = IF stopping THEN queue ELSE <<FenceItem(boot[s])>> \o queue

FencePushed(s) ==
    queue' = IF stopping THEN queue ELSE Append(queue, FenceItem(boot[s]))

DetachFences(s) ==
    /\ SessionMoves(s, "fencing", "notifying")
    /\ FencePushed(s)
    /\ UNCHANGED <<owner, stopping, running, commit_vars, slot, accept_vars, sessions, boot, stop,
                   canonical>>

DetachNotifies(s) ==
    /\ SessionMoves(s, "notifying", "closing")
    /\ Notify
    /\ UNCHANGED <<owner, queue_vars, item, slot, accept_vars, sessions, boot, stop, canonical>>

(* The last use of the coordinator: ++sessions_closed. *)
SessionExits(s) ==
    /\ SessionMoves(s, "closing", "exited")
    /\ UNCHANGED <<owner, queue_vars, commit_vars, slot, accept_vars, sessions, boot, stop,
                   canonical>>

Detach(s) ==
    \/ DetachErases(s) \/ DetachReadsState(s) \/ DetachFences(s) \/ DetachNotifies(s)
    \/ SessionExits(s)

-----------------------------------------------------------------------------
(***************************************************************************)
(* start() and stop(), called one after the other by the owner.            *)
(***************************************************************************)
OwnerMoves(from, to) == owner = from /\ owner' = to

(* load_durable_state: every incarnation on record is fenced. *)
StartLoads ==
    /\ OwnerMoves("down", "loaded")
    /\ fenced_authorities' = fenced_authorities \cup owners
    /\ UNCHANGED <<queue_vars, commit_vars, slot, accept_vars, sessions, session_vars, owners,
                   persistence_failures>>

StartClearsStopping ==
    /\ OwnerMoves("loaded", "spawning")
    /\ stopping' = FALSE
    /\ UNCHANGED <<queue, running, commit_vars, slot, accept_vars, sessions, session_vars,
                   canonical>>

StartSpawnsCommit ==
    /\ OwnerMoves("spawning", "spawned")
    /\ commit' = "checking"
    /\ UNCHANGED <<queue_vars, item, slot, accept_vars, sessions, session_vars, canonical>>

StartRuns ==
    /\ OwnerMoves("spawned", "running")
    /\ running' = TRUE
    /\ UNCHANGED <<queue, stopping, commit_vars, slot, accept_vars, sessions, session_vars,
                   canonical>>

StartListens ==
    /\ OwnerMoves("running", "up")
    /\ accepting' = TRUE /\ acceptor' = "accepting"
    /\ UNCHANGED <<queue_vars, commit_vars, slot, incoming, sessions, session_vars, canonical>>

(* The listener does not open: running is left set. *)
StartFails ==
    /\ OwnerMoves("running", "failing")
    /\ stopping' = TRUE
    /\ queue' = Append(queue, StopItem)
    /\ UNCHANGED <<running, commit_vars, slot, accept_vars, sessions, session_vars, canonical>>

FailNotifies ==
    /\ OwnerMoves("failing", "failed")
    /\ Notify
    /\ UNCHANGED <<queue_vars, item, slot, accept_vars, sessions, session_vars, canonical>>

FailJoins ==
    /\ OwnerMoves("failed", "down")
    /\ commit = "exited" /\ commit' = "none"
    /\ UNCHANGED <<queue_vars, item, slot, accept_vars, sessions, session_vars, canonical>>

(* stop() of a coordinator that is up, or that was never started, failed   *)
(* to start, or was stopped before.                                        *)
StopBegins ==
    /\ OwnerMoves("up", "stopping") \/ OwnerMoves("down", "stopping")
    /\ stopping' = TRUE
    /\ UNCHANGED <<queue, running, commit_vars, slot, accept_vars, sessions, session_vars,
                   canonical>>

StopClosesListener ==
    /\ OwnerMoves("stopping", "joining_accept")
    /\ running' = FALSE /\ accepting' = FALSE
    /\ UNCHANGED <<queue, stopping, commit_vars, slot, acceptor, incoming, sessions, session_vars,
                   canonical>>

(* accept_thread.join(), then close_all_sessions. *)
StopClosesSessions ==
    /\ OwnerMoves("joining_accept", "draining")
    /\ acceptor # "accepting" /\ acceptor' = "none"
    /\ stop' = [s \in Sessions |-> stop[s] \/ s \in sessions]
    /\ UNCHANGED <<queue_vars, commit_vars, slot, incoming, accepting, sessions, worker, boot,
                   canonical>>

StopPushes ==
    /\ OwnerMoves("draining", "pushed")
    /\ sessions = {}
    /\ queue' = Append(queue, StopItem)
    /\ UNCHANGED <<stopping, running, commit_vars, slot, accept_vars, sessions, session_vars,
                   canonical>>

StopNotifies ==
    /\ OwnerMoves("pushed", "joining_commit")
    /\ Notify
    /\ UNCHANGED <<queue_vars, item, slot, accept_vars, sessions, session_vars, canonical>>

StopJoinsCommit ==
    /\ OwnerMoves("joining_commit", "answering")
    /\ commit \in {"none", "exited"} /\ commit' = "none"
    /\ UNCHANGED <<queue_vars, item, slot, accept_vars, sessions, session_vars, canonical>>

(* Whatever is left in the queue is answered SHUTTING_DOWN. *)
StopAnswers ==
    /\ OwnerMoves("answering", "down")
    /\ slot' = [t \in Submitters |->
                   IF \E i \in DOMAIN queue : queue[i].slot = t THEN "done" ELSE slot[t]]
    /\ queue' = <<>>
    /\ UNCHANGED <<stopping, running, commit_vars, accept_vars, sessions, session_vars, canonical>>

(* What the owner does on its own once it has called start() or stop(). *)
OwnerStep ==
    \/ StartClearsStopping \/ StartSpawnsCommit \/ StartRuns \/ StartListens
    \/ StartFails \/ FailNotifies \/ FailJoins
    \/ StopClosesListener \/ StopClosesSessions \/ StopPushes \/ StopNotifies
    \/ StopJoinsCommit \/ StopAnswers

-----------------------------------------------------------------------------
Next ==
    \/ \E t \in Callers :
          CallerSubmits(t) \/ FenceBootNotifies(t) \/ \E b \in Boots : FenceBoot(t, b)
    \/ \E t \in Submitters : SubmitNotifies(t) \/ SubmitReturns(t)
    \/ CommitStep
    \/ \E s \in Sessions :
          \/ AcceptAdmits(s)
          \/ SessionSubmits(s) \/ SessionEnds(s) \/ SessionSeesStop(s)
          \/ \E b \in Boots : SessionHello(s, b)
          \/ Detach(s)
    \/ AcceptRegisters \/ AcceptExits
    \/ StartLoads \/ StopBegins \/ OwnerStep

(* Every thread keeps running: a thread that can take its next step        *)
(* eventually does.  Nobody has to connect, submit, hang up, or call       *)
(* start() or stop().                                                      *)
Fairness ==
    /\ WF_vars(CommitStep)
    /\ \A t \in Submitters : WF_vars(SubmitNotifies(t)) /\ WF_vars(SubmitReturns(t))
    /\ \A t \in Callers : WF_vars(FenceBootNotifies(t))
    /\ \A s \in Sessions : WF_vars(SessionSeesStop(s)) /\ WF_vars(Detach(s))
    /\ WF_vars(AcceptRegisters) /\ WF_vars(AcceptExits)
    /\ WF_vars(OwnerStep)

Spec == Init /\ [][Next]_vars /\ Fairness

-----------------------------------------------------------------------------
(***************************************************************************)
(* Properties.                                                             *)
(***************************************************************************)
Owner == {"down", "loaded", "spawning", "spawned", "running", "up", "failing", "failed",
          "stopping", "joining_accept", "draining", "pushed", "joining_commit", "answering"}

(* Types; the commit thread holds an item exactly while it applies one. *)
TypeOK ==
    /\ owner \in Owner
    /\ queue \in Seq(QueueItem)
    /\ stopping \in BOOLEAN /\ running \in BOOLEAN /\ accepting \in BOOLEAN
    /\ commit \in {"none", "checking", "blocked", "applying", "exited"}
    /\ IF commit = "applying" THEN \E x \in QueueItem : item = <<x>> ELSE item = <<>>
    /\ slot \in [Submitters -> {"idle", "pushed", "waiting", "done", "fencing"}]
    /\ acceptor \in {"none", "accepting", "exited"}
    /\ incoming \subseteq Sessions /\ sessions \subseteq Sessions
    /\ worker \in [Sessions -> {"new", "reading", "leaving", "erased", "fencing",
                                "notifying", "closing", "exited"}]
    /\ boot \in [Sessions -> Boots \cup {NoBoot}]
    /\ stop \in [Sessions -> BOOLEAN]
    /\ owners \subseteq Boots /\ fenced_authorities \subseteq Boots
    /\ persistence_failures \in BOOLEAN

Unanswered(t) == slot[t] \in {"pushed", "waiting"}

(* A submitter that waits has exactly one request on its way, in the queue *)
(* or with the commit thread, and a submitter that was answered has none:  *)
(* no request is lost and none is applied after its answer.                *)
EachRequestOnce ==
    \A t \in Submitters :
        LET queued == {i \in DOMAIN queue : queue[i].slot = t}
            taken == {i \in DOMAIN item : item[i].slot = t}
        IN  Cardinality(queued) + Cardinality(taken) = IF Unanswered(t) THEN 1 ELSE 0

(* When stop(), or a start() that failed, has returned, no thread of the   *)
(* coordinator serves the queue or accepts, no session is registered and   *)
(* no submitter waits for an answer nobody will give.                      *)
DownIsQuiet ==
    owner = "down" =>
        /\ commit = "none" /\ acceptor = "none" /\ incoming = {} /\ sessions = {}
        /\ \A t \in Submitters : ~Unanswered(t)

(* The registry never holds more than max_sessions sessions, although the  *)
(* room is checked and the session registered under two separate locks.    *)
RegistryBounded == Cardinality(sessions) <= max_sessions

(* What a caller sees of its submit(). *)
CallState(t) ==
    IF Unanswered(t) THEN "waiting" ELSE IF slot[t] = "done" THEN "answered" ELSE "idle"

Line == item \o queue
Calls == [t \in Submitters |-> CallState(t)]

Service == INSTANCE CommitService WITH line <- Line, call <- Calls

(* The threads implement the commit service: whatever they do meanwhile,   *)
(* accepted requests and fences are served in the order of acceptance,     *)
(* each once and at one instant before its answer; stop() never answers a  *)
(* request in the commit thread's place, and load_durable_state never runs *)
(* while one is on its way (submit, fence_boot, run_commit, start, stop).  *)
SubmitIsAtomic == Service!Spec

(* Every submission is answered, whatever stop() does meanwhile. *)
EverySubmitAnswered == \A t \in Submitters : Unanswered(t) ~> ~Unanswered(t)

(* stop() returns: the sessions it waits for, the submissions they wait    *)
(* for and the commit thread that answers them do not wait in a circle.    *)
StopReturns == owner \in {"stopping", "failing"} ~> owner = "down"

(* When a session ends whose incarnation owns evidence, the incarnation is *)
(* fenced, unless it is displaced first, the coordinator stops (a restart  *)
(* fences it) or the save of a fence has failed.                           *)
DeadIncarnationFenced ==
    \A s \in Sessions, b \in Boots :
        worker[s] = "leaving" /\ boot[s] = b /\ b \in owners
            ~> b \in fenced_authorities \/ b \notin owners \/ stopping \/ persistence_failures

(* src/coordinator_network.cpp, stop(): "an empty registry means no worker *)
(* can touch this object any more".                                        *)
NoWorkerOutlivesStop ==
    owner = "down" => \A s \in Sessions : worker[s] \in {"new", "exited"}
=============================================================================
