---------------------------- MODULE ThreadProofs ----------------------------
(***************************************************************************)
(* Proofs about the threads of a coordinator process, for any number of    *)
(* sessions and callers and every bound: the inductive invariant behind    *)
(* what start(), stop(), submit(), run_commit and run_accept promise.      *)
(***************************************************************************)
EXTENDS CoordinatorThreads, SequenceTheorems, FiniteSetTheorems, TLAPS

-----------------------------------------------------------------------------
(***************************************************************************)
(* The inductive invariant.                                                *)
(***************************************************************************)

(* A worker about to push a fence has an incarnation to name. *)
FenceIsNamed == \A s \in Sessions : worker[s] = "fencing" => boot[s] # NoBoot

(* What stopping says of where the owner is.  A start() that failed leaves *)
(* running set, so between two starts only stopping keeps requests out.    *)
StoppingFollowsOwner ==
    /\ owner \in {"spawning", "spawned", "running", "up"} => ~stopping
    /\ owner \in {"down", "loaded"} => stopping \/ ~running
    /\ owner \in {"failing", "failed", "stopping", "joining_accept", "draining", "pushed",
                  "joining_commit", "answering"} => stopping

(* When the commit thread exists, and when it may already have left. *)
CommitFollowsOwner ==
    /\ owner \in {"down", "loaded", "spawning", "answering"} => commit = "none"
    /\ owner \in {"spawned", "running", "up"} => commit # "exited"
    /\ owner \in {"failing", "failed"} /\ commit = "exited" => queue = <<>>

(* The request to stop is the last item the queue ever holds. *)
IsStop(x) == x.kind = "Stop"

StopIsLast ==
    /\ \A i \in DOMAIN queue : IsStop(queue[i]) => i = Len(queue)
    /\ \A i \in DOMAIN item : IsStop(item[i]) => queue = <<>>
    /\ (\E i \in DOMAIN queue : IsStop(queue[i])) \/ (\E i \in DOMAIN item : IsStop(item[i]))
          => owner \in {"failing", "failed", "pushed", "joining_commit", "answering"}

(* Sessions are admitted and registered only between the start and the     *)
(* join of the accept thread; the registry is empty once stop() has        *)
(* drained it.                                                             *)
AcceptFollowsOwner ==
    /\ acceptor # "none" => owner \in {"up", "stopping", "joining_accept"}
    /\ incoming # {} => acceptor = "accepting"
    /\ sessions # {} => owner \in {"up", "stopping", "joining_accept", "draining"}

(* A session is admitted only while the registry has room for it, and      *)
(* nobody else registers one before it is registered itself.               *)
RoomKept ==
    /\ IsFiniteSet(sessions) /\ Cardinality(sessions) <= max_sessions
    /\ incoming # {} => /\ \E s \in Sessions : incoming = {s}
                        /\ Cardinality(sessions) < max_sessions

(* Whose request is queued, and whose the commit thread is applying. *)
Queued(t) == \E i \in DOMAIN queue : queue[i].slot = t
Taken(t) == \E i \in DOMAIN item : item[i].slot = t

(* A submitter waits exactly while its one request is on its way. *)
OneRequestEach ==
    /\ \A i, j \in DOMAIN queue :
          queue[i].slot \in Submitters /\ queue[i].slot = queue[j].slot => i = j
    /\ \A t \in Submitters : ~(Queued(t) /\ Taken(t))
    /\ \A t \in Submitters : Unanswered(t) <=> Queued(t) \/ Taken(t)

NobodyWaits == \A t \in Submitters : ~Unanswered(t)

IInv ==
    /\ TypeOK
    /\ FenceIsNamed
    /\ StoppingFollowsOwner /\ CommitFollowsOwner /\ StopIsLast
    /\ AcceptFollowsOwner /\ RoomKept
    /\ OneRequestEach
    /\ owner \in {"down", "loaded"} => NobodyWaits

-----------------------------------------------------------------------------
(***************************************************************************)
(* Types.                                                                  *)
(***************************************************************************)

(* The request of a submitter names it and its incarnation. *)
LEMMA MutationFields ==
    ASSUME NEW t, NEW b, NEW x, x = Mutation(t, b)
    PROVE  x.slot = t /\ x.boot = b
BY DEF Mutation

(* What a submitter, a fence or the owner puts in the queue. *)
LEMMA ItemTypes ==
    /\ \A t \in Submitters, b \in Boots \cup {NoBoot} : Mutation(t, b) \in QueueItem
    /\ \A b \in Boots : FenceItem(b) \in QueueItem
    /\ StopItem \in QueueItem
BY Zenon DEF QueueItem, Mutation, FenceItem, StopItem

(* Whatever an item is, its kind and its slot agree. *)
LEMMA ItemFields ==
    ASSUME NEW x \in QueueItem
    PROVE  /\ x.kind \in {"Mutation", "Fence", "Stop"}
           /\ x.boot \in Boots \cup {NoBoot}
           /\ x.slot \in Submitters \cup {NoThread}
           /\ x.kind = "Mutation" <=> x.slot \in Submitters
           /\ x.kind = "Fence" => x.boot \in Boots
BY ThreadAssumption, Zenon DEF QueueItem, Submitters

(* The item the commit thread applies. *)
LEMMA AppliedItem ==
    ASSUME TypeOK, commit = "applying"
    PROVE  /\ item[1] \in QueueItem /\ item = <<item[1]>>
           /\ DOMAIN item = {1}
<1>1. PICK x \in QueueItem : item = <<x>>
  BY Zenon DEF TypeOK
<1> QED BY <1>1

(* A commit thread that applies nothing holds nothing. *)
LEMMA NoItem ==
    ASSUME TypeOK, commit # "applying"
    PROVE  item = <<>> /\ DOMAIN item = {}
BY DEF TypeOK

(* A notification wakes the commit thread or is lost. *)
LEMMA NotifyTypes ==
    ASSUME TypeOK, Notify
    PROVE  /\ commit' \in {"none", "checking", "blocked", "applying", "exited"}
           /\ commit' = "applying" <=> commit = "applying"
           /\ commit' = "exited" <=> commit = "exited"
           /\ commit' = "none" <=> commit = "none"
BY Zenon DEF TypeOK, Notify

(* The submitters' steps keep the types. *)
LEMMA SubmitterTypes ==
    ASSUME TypeOK, NEW t \in Submitters
    PROVE  /\ (\E b \in Boots \cup {NoBoot} : Enqueue(t, b)) => TypeOK'
           /\ SubmitNotifies(t) => TypeOK'
           /\ SubmitReturns(t) => TypeOK'
           /\ (\E b \in Boots : FenceBoot(t, b)) => TypeOK'
           /\ FenceBootNotifies(t) => TypeOK'
<1> USE DEF queue_vars, commit_vars, accept_vars, session_vars, canonical
<1>1. ASSUME NEW b \in Boots \cup {NoBoot}, Enqueue(t, b)
      PROVE  TypeOK'
  BY <1>1, ItemTypes, AppendProperties, Zenon DEF Enqueue, TypeOK
<1>2. CASE SubmitNotifies(t)
  BY <1>2, NotifyTypes DEF SubmitNotifies, TypeOK
<1>3. CASE SubmitReturns(t)
  BY <1>3 DEF SubmitReturns, TypeOK
<1>4. ASSUME NEW b \in Boots, FenceBoot(t, b)
      PROVE  TypeOK'
  BY <1>4, ItemTypes, AppendProperties, Zenon DEF FenceBoot, TypeOK
<1>5. CASE FenceBootNotifies(t)
  BY <1>5, NotifyTypes DEF FenceBootNotifies, TypeOK
<1> QED BY <1>1, <1>2, <1>3, <1>4, <1>5, Zenon

(* The commit thread's steps keep the types. *)
LEMMA CommitTypes ==
    ASSUME TypeOK, CommitStep
    PROVE  TypeOK'
<1> USE DEF queue_vars, commit_vars, accept_vars, session_vars, canonical
<1>1. CASE CommitTakes
  <2>1. Head(queue) \in QueueItem /\ Tail(queue) \in Seq(QueueItem)
    BY <1>1, HeadTailProperties, Zenon DEF CommitTakes, TypeOK
  <2> QED BY <1>1, <2>1, Zenon DEF CommitTakes, FrontTaken, TypeOK
<1>2. CASE CommitExits
  BY <1>2, Zenon DEF CommitExits, TypeOK
<1>3. CASE CommitWaits
  BY <1>3, Zenon DEF CommitWaits, TypeOK
<1>4. CASE CommitMutates
  <2>1. item[1] \in QueueItem /\ item[1].slot \in Submitters /\ item[1].boot \in Boots \cup {NoBoot}
    BY <1>4, AppliedItem, ItemFields, Zenon DEF CommitMutates
  <2>2. owners' \subseteq Boots
    BY <1>4, <2>1, Zenon DEF CommitMutates, TypeOK
  <2> QED BY <1>4, <2>1, <2>2, Zenon DEF CommitMutates, ItemFinished, TypeOK
<1>5. CASE CommitFences
  <2>1. item[1].boot \in Boots
    BY <1>5, AppliedItem, ItemFields, Zenon DEF CommitFences
  <2> QED BY <1>5, <2>1, Zenon DEF CommitFences, ItemFinished, TypeOK
<1>6. CASE CommitStops
  BY <1>6, Zenon DEF CommitStops, TypeOK
<1> QED BY <1>1, <1>2, <1>3, <1>4, <1>5, <1>6, Zenon DEF CommitStep

(* The accept thread's and the workers' steps keep the types. *)
LEMMA SessionTypes ==
    ASSUME TypeOK, FenceIsNamed, NEW s \in Sessions
    PROVE  /\ AcceptAdmits(s) \/ AcceptRegisters \/ AcceptExits => TypeOK'
           /\ SessionEnds(s) \/ SessionSeesStop(s) => TypeOK'
           /\ (\E b \in Boots : SessionHello(s, b)) => TypeOK'
           /\ Detach(s) => TypeOK'
<1> USE DEF queue_vars, commit_vars, accept_vars, session_vars, canonical
<1>1. CASE AcceptAdmits(s)
  BY <1>1, Zenon DEF AcceptAdmits, TypeOK
<1>2. CASE AcceptRegisters
  BY <1>2, Zenon DEF AcceptRegisters, TypeOK
<1>3. CASE AcceptExits
  BY <1>3, Zenon DEF AcceptExits, TypeOK
<1>4. CASE SessionEnds(s) \/ SessionSeesStop(s)
  <2>1. CASE SessionEnds(s)
    BY <2>1 DEF SessionEnds, SessionMoves, TypeOK
  <2>2. CASE SessionSeesStop(s)
    BY <2>2 DEF SessionSeesStop, SessionMoves, TypeOK
  <2> QED BY <1>4, <2>1, <2>2, Zenon
<1>5. ASSUME NEW b \in Boots, SessionHello(s, b)
      PROVE  TypeOK'
  BY <1>5, Zenon DEF SessionHello, TypeOK
<1>6. CASE DetachErases(s) \/ DetachReadsState(s)
  <2>1. CASE DetachErases(s)
    BY <2>1 DEF DetachErases, SessionMoves, TypeOK
  <2>2. CASE DetachReadsState(s)
    BY <2>2 DEF DetachReadsState, SessionMoves, TypeOK
  <2> QED BY <1>6, <2>1, <2>2, Zenon
<1>7. CASE DetachFences(s)
  <2>1. boot[s] \in Boots
    BY <1>7, Zenon DEF DetachFences, SessionMoves, FenceIsNamed, TypeOK
  <2>2. queue' \in Seq(QueueItem)
    BY <1>7, <2>1, ItemTypes, AppendProperties, Zenon DEF DetachFences, FencePushed, TypeOK
  <2> QED BY <1>7, <2>2, Zenon DEF DetachFences, SessionMoves, TypeOK
<1>8. CASE DetachNotifies(s)
  BY <1>8, NotifyTypes, Zenon DEF DetachNotifies, SessionMoves, TypeOK
<1>9. CASE SessionExits(s)
  BY <1>9, Zenon DEF SessionExits, SessionMoves, TypeOK
<1> QED BY <1>1, <1>2, <1>3, <1>4, <1>5, <1>6, <1>7, <1>8, <1>9, Zenon DEF Detach

(* The owner's steps keep the types.  It starts the commit thread only     *)
(* when there is none, and takes its end only when it has left.            *)
LEMMA OwnerTypes ==
    ASSUME TypeOK, CommitFollowsOwner, StartLoads \/ StopBegins \/ OwnerStep
    PROVE  TypeOK'
<1> USE DEF queue_vars, commit_vars, accept_vars, session_vars, canonical, OwnerMoves, Owner
<1>1. CASE StartLoads \/ StartClearsStopping \/ StartRuns \/ StartListens \/ StopBegins
  <2>1. CASE StartLoads
    BY <2>1, Zenon DEF StartLoads, TypeOK
  <2>2. CASE StartRuns
    BY <2>2, Zenon DEF StartRuns, TypeOK
  <2>3. CASE StartClearsStopping
    BY <2>3, Zenon DEF StartClearsStopping, TypeOK
  <2>4. CASE StartListens
    BY <2>4, Zenon DEF StartListens, TypeOK
  <2>5. CASE StopBegins
    BY <2>5, Zenon DEF StopBegins, TypeOK
  <2> QED BY <1>1, <2>1, <2>2, <2>3, <2>4, <2>5, Zenon
<1>2. CASE StartSpawnsCommit
  BY <1>2, Zenon DEF StartSpawnsCommit, CommitFollowsOwner, TypeOK
<1>3. CASE StartFails
  BY <1>3, ItemTypes, AppendProperties, Zenon DEF StartFails, TypeOK
<1>4. CASE FailNotifies \/ StopNotifies
  BY <1>4, NotifyTypes DEF FailNotifies, StopNotifies, TypeOK
<1>5. CASE FailJoins \/ StopJoinsCommit
  BY <1>5, Zenon DEF FailJoins, StopJoinsCommit, TypeOK
<1>6. CASE StopClosesListener \/ StopClosesSessions
  BY <1>6, Zenon DEF StopClosesListener, StopClosesSessions, TypeOK
<1>7. CASE StopPushes
  BY <1>7, ItemTypes, AppendProperties, Zenon DEF StopPushes, TypeOK
<1>8. CASE StopAnswers
  BY <1>8, EmptySeq, Zenon DEF StopAnswers, TypeOK
<1> QED BY <1>1, <1>2, <1>3, <1>4, <1>5, <1>6, <1>7, <1>8, Zenon DEF OwnerStep

-----------------------------------------------------------------------------
(***************************************************************************)
(* The queue.                                                              *)
(***************************************************************************)

(* A push leaves the items before it where they were. *)
LEMMA Pushed ==
    ASSUME TypeOK, NEW x \in QueueItem, queue' = Append(queue, x)
    PROVE  /\ Len(queue) \in Nat /\ Len(queue') = Len(queue) + 1
           /\ DOMAIN queue = 1 .. Len(queue) /\ DOMAIN queue' = 1 .. Len(queue) + 1
           /\ \A i \in DOMAIN queue : queue'[i] = queue[i]
           /\ queue'[Len(queue) + 1] = x
           /\ queue' # <<>>
<1>1. queue \in Seq(QueueItem)
  BY Zenon DEF TypeOK
<1>2. queue' \in Seq(QueueItem)
  BY <1>1, AppendProperties, Zenon
<1> QED BY <1>1, <1>2, AppendProperties, LenProperties

(* Nothing asks the commit thread to stop before stopping is set. *)
LEMMA NoStopYet ==
    ASSUME StoppingFollowsOwner, StopIsLast, ~stopping
    PROVE  /\ \A i \in DOMAIN queue : ~IsStop(queue[i])
           /\ \A i \in DOMAIN item : ~IsStop(item[i])
BY Zenon DEF StoppingFollowsOwner, StopIsLast

(* A request or a fence pushed while the coordinator runs. *)
LEMMA StopLastAfterPush ==
    ASSUME TypeOK, StoppingFollowsOwner, StopIsLast, ~stopping,
           NEW x \in QueueItem, ~IsStop(x), queue' = Append(queue, x), item' = item
    PROVE  StopIsLast'
<1>1. \A i \in DOMAIN queue' : ~IsStop(queue'[i])
  BY Pushed, NoStopYet
<1>2. \A i \in DOMAIN item' : ~IsStop(item'[i])
  BY NoStopYet, Zenon
<1> QED BY <1>1, <1>2, Zenon DEF StopIsLast

(* The request to stop pushed when there is none. *)
LEMMA StopLastAfterStop ==
    ASSUME TypeOK, StopIsLast, owner \in {"running", "draining"},
           queue' = Append(queue, StopItem), item' = item, owner' \in {"failing", "pushed"}
    PROVE  StopIsLast'
<1>1. /\ \A i \in DOMAIN queue : ~IsStop(queue[i])
      /\ \A i \in DOMAIN item : ~IsStop(item[i])
  BY Zenon DEF StopIsLast
<1>2. \A i \in DOMAIN queue' : IsStop(queue'[i]) => i = Len(queue')
  BY <1>1, Pushed, ItemTypes
<1> QED BY <1>1, <1>2, Zenon DEF StopIsLast

(* What is pushed for nobody changes nobody's request. *)
LEMMA OneRequestAfterPush ==
    ASSUME TypeOK, OneRequestEach, NEW x \in QueueItem, x.slot = NoThread,
           queue' = Append(queue, x), item' = item,
           \A t \in Submitters : Unanswered(t)' <=> Unanswered(t)
    PROVE  OneRequestEach'
<1>0. NoThread \notin Submitters
  BY ThreadAssumption, Zenon DEF Submitters
<1>1. \A t \in Submitters : (Queued(t)' <=> Queued(t)) /\ (Taken(t)' <=> Taken(t))
  BY <1>0, Pushed DEF Queued, Taken
<1>2. \A i, j \in DOMAIN queue' :
         queue'[i].slot \in Submitters /\ queue'[i].slot = queue'[j].slot => i = j
  BY <1>0, Pushed DEF OneRequestEach
<1> HIDE DEF Queued, Taken, Unanswered
<1> QED BY <1>1, <1>2, Zenon DEF OneRequestEach

(* A request pushed by a submitter that had none. *)
LEMMA OneRequestAfterEnqueue ==
    ASSUME TypeOK, OneRequestEach, NEW t \in Submitters, NEW x \in QueueItem, x.slot = t,
           ~Unanswered(t), Unanswered(t)',
           queue' = Append(queue, x), item' = item,
           \A u \in Submitters \ {t} : Unanswered(u)' <=> Unanswered(u)
    PROVE  OneRequestEach'
<1>1. ~Queued(t) /\ ~Taken(t)
  BY Zenon DEF OneRequestEach
<1>2. \A u \in Submitters : (Queued(u)' <=> Queued(u) \/ u = t) /\ (Taken(u)' <=> Taken(u))
  BY Pushed DEF Queued, Taken
<1>3. \A i, j \in DOMAIN queue' :
         queue'[i].slot \in Submitters /\ queue'[i].slot = queue'[j].slot => i = j
  BY <1>1, Pushed DEF OneRequestEach, Queued
<1> HIDE DEF Queued, Taken, Unanswered
<1> QED BY <1>1, <1>2, <1>3, Zenon DEF OneRequestEach

(* The queue after its front was taken. *)
LEMMA Popped ==
    ASSUME TypeOK, queue # <<>>
    PROVE  /\ Len(queue) \in Nat \ {0}
           /\ DOMAIN queue = 1 .. Len(queue)
           /\ Head(queue) = queue[1] /\ Head(queue) \in QueueItem
           /\ Len(Tail(queue)) = Len(queue) - 1
           /\ DOMAIN Tail(queue) = 1 .. Len(queue) - 1
           /\ \A i \in DOMAIN Tail(queue) : Tail(queue)[i] = queue[i + 1]
<1>1. queue \in Seq(QueueItem)
  BY Zenon DEF TypeOK
<1>2. Tail(queue) \in Seq(QueueItem) /\ Len(Tail(queue)) = Len(queue) - 1
  BY <1>1, HeadTailProperties, Zenon
<1> QED BY <1>1, <1>2, HeadTailProperties, LenProperties, EmptySeq

(* The commit thread takes the front of the queue: it is the same line of  *)
(* requests.                                                               *)
LEMMA TakeKeepsLine ==
    ASSUME TypeOK, OneRequestEach, StopIsLast, CommitTakes
    PROVE  OneRequestEach' /\ StopIsLast'
<1>1. /\ queue # <<>> /\ queue' = Tail(queue) /\ item' = <<Head(queue)>>
      /\ item = <<>> /\ UNCHANGED <<slot, owner>>
  BY NoItem, Zenon DEF CommitTakes, FrontTaken
<1>2. DOMAIN item = {} /\ DOMAIN item' = {1} /\ item'[1] = queue[1]
  BY <1>1, Popped
<1>3. \A t \in Submitters : ~Taken(t) /\ (Taken(t)' <=> queue[1].slot = t)
  BY <1>2, Zenon DEF Taken
<1>4. \A t \in Submitters : Queued(t) <=> Queued(t)' \/ queue[1].slot = t
  <2> SUFFICES ASSUME NEW t \in Submitters
               PROVE  Queued(t) <=> Queued(t)' \/ queue[1].slot = t
    BY Zenon
  <2>1. ASSUME NEW i \in DOMAIN queue, i # 1
        PROVE  i - 1 \in DOMAIN queue' /\ queue'[i - 1] = queue[i]
    BY <1>1, <2>1, Popped
  <2>2. ASSUME NEW i \in DOMAIN queue'
        PROVE  i + 1 \in DOMAIN queue /\ queue'[i] = queue[i + 1]
    BY <1>1, <2>2, Popped
  <2>3. 1 \in DOMAIN queue
    BY <1>1, Popped
  <2> QED BY <2>1, <2>2, <2>3 DEF Queued
<1>5. \A i, j \in DOMAIN queue' :
         queue'[i].slot \in Submitters /\ queue'[i].slot = queue'[j].slot => i = j
  BY <1>1, Popped DEF OneRequestEach
<1>6. \A t \in Submitters : ~(Queued(t)' /\ Taken(t)')
  BY <1>1, <1>3, Popped DEF OneRequestEach, Queued
<1>7. OneRequestEach'
  <2>1. \A t \in Submitters : Unanswered(t)' <=> Unanswered(t)
    BY <1>1, Zenon DEF Unanswered
  <2> HIDE DEF Queued, Taken, Unanswered
  <2> QED BY <1>3, <1>4, <1>5, <1>6, <2>1, Zenon DEF OneRequestEach
<1>8. StopIsLast'
  <2>1. \A i \in DOMAIN queue' : IsStop(queue'[i]) => i = Len(queue')
    BY <1>1, Popped DEF StopIsLast
  <2>2. IsStop(queue[1]) => queue' = <<>>
    <3>1. IsStop(queue[1]) => Len(queue') = 0 /\ queue' \in Seq(QueueItem)
      BY <1>1, Popped, HeadTailProperties DEF StopIsLast, TypeOK
    <3> QED BY <3>1, EmptySeq, Zenon
  <2>3. /\ (\E i \in DOMAIN queue' : IsStop(queue'[i])) => \E i \in DOMAIN queue : IsStop(queue[i])
        /\ IsStop(queue[1]) => \E i \in DOMAIN queue : IsStop(queue[i])
    BY <1>1, Popped
  <2> QED BY <1>1, <1>2, <2>1, <2>2, <2>3, Zenon DEF StopIsLast
<1> QED BY <1>7, <1>8, Zenon

(* The commit thread answers the request it applied, and no other. *)
LEMMA AnswerKeepsLine ==
    ASSUME TypeOK, OneRequestEach, commit = "applying", item' = <<>>, queue' = queue,
           slot' = IF item[1].slot \in Submitters
                   THEN [slot EXCEPT ![item[1].slot] = "done"] ELSE slot
    PROVE  OneRequestEach'
<1>1. DOMAIN item = {1} /\ DOMAIN item' = {}
  BY AppliedItem
<1>2. \A t \in Submitters :
          (Taken(t) <=> item[1].slot = t) /\ ~Taken(t)' /\ (Queued(t)' <=> Queued(t))
  BY <1>1, Zenon DEF Taken, Queued
<1>3. \A t \in Submitters : Unanswered(t)' <=> Unanswered(t) /\ item[1].slot # t
  BY Zenon DEF Unanswered, TypeOK
<1>4. \A i, j \in DOMAIN queue' :
         queue'[i].slot \in Submitters /\ queue'[i].slot = queue'[j].slot => i = j
  BY Zenon DEF OneRequestEach
<1> HIDE DEF Queued, Taken, Unanswered
<1> QED BY <1>2, <1>3, <1>4 DEF OneRequestEach

-----------------------------------------------------------------------------
(***************************************************************************)
(* Each thread preserves the invariant.                                    *)
(***************************************************************************)

(* What neither a submitter nor a worker's queue access touches. *)
Bystanders == <<owner, stopping, running, item, accept_vars, sessions, worker, boot>>

(* What those variables alone decide. *)
LEMMA BystandersKeep ==
    ASSUME IInv, UNCHANGED Bystanders
    PROVE  FenceIsNamed' /\ StoppingFollowsOwner' /\ AcceptFollowsOwner' /\ RoomKept'
BY Zenon DEF IInv, Bystanders, accept_vars, FenceIsNamed, StoppingFollowsOwner, AcceptFollowsOwner,
       RoomKept

(* Nobody pushes a request between two starts. *)
LEMMA NoRequestWhenDown ==
    ASSUME IInv, running, ~stopping
    PROVE  owner \notin {"down", "loaded"}
BY Zenon DEF IInv, StoppingFollowsOwner

(* A push while the coordinator is not stopping. *)
LEMMA PushKeepsCommit ==
    ASSUME IInv, ~stopping, UNCHANGED <<owner, commit>>
    PROVE  CommitFollowsOwner'
BY Zenon DEF IInv, StoppingFollowsOwner, CommitFollowsOwner

(* submit() pushes a request. *)
LEMMA EnqueueStep ==
    ASSUME IInv, NEW t \in Submitters, NEW b \in Boots \cup {NoBoot}, Enqueue(t, b)
    PROVE  IInv'
<1> DEFINE x == Mutation(t, b)
<1>1. /\ slot[t] = "idle" /\ running /\ ~stopping /\ queue' = Append(queue, x)
      /\ slot' = [slot EXCEPT ![t] = "pushed"] /\ UNCHANGED Bystanders
      /\ UNCHANGED <<owner, item, commit>>
  BY Zenon DEF Enqueue, MayEnqueue, Bystanders, commit_vars, session_vars
<1>2. x \in QueueItem /\ x.slot = t /\ ~IsStop(x)
  BY ItemTypes, Zenon DEF Mutation, IsStop
<1>3. TypeOK /\ TypeOK'
  BY SubmitterTypes, Zenon DEF IInv
<1>4. StopIsLast'
  BY <1>1, <1>2, StopLastAfterPush, Zenon DEF IInv
<1>5. OneRequestEach'
  <2>1. /\ ~Unanswered(t) /\ Unanswered(t)'
        /\ \A u \in Submitters \ {t} : Unanswered(u)' <=> Unanswered(u)
    BY <1>1, <1>3 DEF Unanswered, TypeOK
  <2> QED BY <1>1, <1>2, <1>3, <2>1, OneRequestAfterEnqueue, Zenon DEF IInv
<1>6. owner' \notin {"down", "loaded"} /\ CommitFollowsOwner'
  BY <1>1, NoRequestWhenDown, PushKeepsCommit
<1> QED BY <1>1, <1>3, <1>4, <1>5, <1>6, BystandersKeep DEF IInv

(* A fence pushed by a caller or by a worker. *)
LEMMA PushFenceStep ==
    ASSUME IInv, NEW b \in Boots, ~stopping, queue' = Append(queue, FenceItem(b)),
           TypeOK', UNCHANGED <<owner, stopping, running, item, commit>>,
           \A t \in Submitters : Unanswered(t)' <=> Unanswered(t)
    PROVE  /\ CommitFollowsOwner' /\ StopIsLast' /\ OneRequestEach'
           /\ owner' \in {"down", "loaded"} => NobodyWaits'
<1>1. FenceItem(b) \in QueueItem /\ FenceItem(b).slot = NoThread /\ ~IsStop(FenceItem(b))
  BY ItemTypes, Zenon DEF FenceItem, IsStop
<1>2. StopIsLast' /\ OneRequestEach' /\ CommitFollowsOwner'
  BY <1>1, StopLastAfterPush, OneRequestAfterPush, PushKeepsCommit DEF IInv
<1> QED BY <1>2, Zenon DEF IInv, NobodyWaits

(* A notification, or a submitter that moves on, leaves the line alone. *)
LEMMA LineUntouched ==
    ASSUME IInv, TypeOK', UNCHANGED <<owner, queue, item>>,
           commit' = "exited" <=> commit = "exited", commit' = "none" <=> commit = "none",
           \A t \in Submitters : Unanswered(t)' <=> Unanswered(t)
    PROVE  /\ CommitFollowsOwner' /\ StopIsLast' /\ OneRequestEach'
           /\ owner' \in {"down", "loaded"} => NobodyWaits'
<1>1. CommitFollowsOwner' /\ StopIsLast'
  BY Zenon DEF IInv, CommitFollowsOwner, StopIsLast
<1>2. OneRequestEach'
  BY Zenon DEF IInv, OneRequestEach, Queued, Taken
<1> QED BY <1>1, <1>2 DEF IInv, NobodyWaits

(* The other steps of submit() and fence_boot(). *)
LEMMA SubmitterStep ==
    ASSUME IInv, NEW t \in Submitters,
           \/ SubmitNotifies(t) \/ SubmitReturns(t) \/ FenceBootNotifies(t)
           \/ \E b \in Boots : FenceBoot(t, b)
    PROVE  IInv'
<1> USE DEF queue_vars, commit_vars, accept_vars, session_vars, canonical, Bystanders
<1>0. TypeOK /\ TypeOK'
  BY SubmitterTypes, Zenon DEF IInv
<1>1. CASE SubmitNotifies(t) \/ SubmitReturns(t) \/ FenceBootNotifies(t)
  <2>1. UNCHANGED Bystanders /\ UNCHANGED <<owner, queue, item>>
    BY <1>1, Zenon DEF SubmitNotifies, SubmitReturns, FenceBootNotifies
  <2>2. (commit' = "exited" <=> commit = "exited") /\ (commit' = "none" <=> commit = "none")
    BY <1>0, <1>1, NotifyTypes, Zenon DEF SubmitNotifies, SubmitReturns, FenceBootNotifies
  <2>3. \A u \in Submitters : Unanswered(u)' <=> Unanswered(u)
    BY <1>0, <1>1 DEF SubmitNotifies, SubmitReturns, FenceBootNotifies, Unanswered, TypeOK
  <2> QED BY <1>0, <2>1, <2>2, <2>3, LineUntouched, BystandersKeep, Zenon DEF IInv
<1>2. ASSUME NEW b \in Boots, FenceBoot(t, b)
      PROVE  IInv'
  <2>1. /\ UNCHANGED Bystanders /\ ~stopping /\ queue' = Append(queue, FenceItem(b))
        /\ UNCHANGED <<owner, stopping, running, item, commit>>
    BY <1>2, Zenon DEF FenceBoot
  <2>2. \A u \in Submitters : Unanswered(u)' <=> Unanswered(u)
    BY <1>0, <1>2 DEF FenceBoot, Unanswered, TypeOK
  <2> QED BY <1>0, <2>1, <2>2, PushFenceStep, BystandersKeep DEF IInv
<1> QED BY <1>1, <1>2

(* run_commit.  While the thread runs, the coordinator is not down. *)
LEMMA CommitThreadStep ==
    ASSUME IInv, CommitStep
    PROVE  IInv'
<1> USE DEF queue_vars, commit_vars, accept_vars, session_vars, canonical
<1>0. /\ TypeOK /\ TypeOK' /\ OneRequestEach
      /\ StopIsLast /\ StoppingFollowsOwner /\ CommitFollowsOwner
  BY CommitTypes, Zenon DEF IInv
<1>1. /\ commit \in {"checking", "applying"} /\ owner' = owner
      /\ UNCHANGED <<stopping, running, acceptor, incoming, accepting, sessions, worker, boot>>
  BY Zenon DEF CommitStep, CommitTakes, CommitExits, CommitWaits, CommitMutates, CommitFences, CommitStops
<1>2. owner' \notin {"down", "loaded", "spawning", "answering"}
  BY <1>0, <1>1 DEF CommitFollowsOwner
<1>3. FenceIsNamed' /\ StoppingFollowsOwner' /\ AcceptFollowsOwner' /\ RoomKept'
  BY <1>1, Zenon DEF IInv, FenceIsNamed, StoppingFollowsOwner, AcceptFollowsOwner, RoomKept
<1>4. CASE CommitTakes
  <2>1. OneRequestEach' /\ StopIsLast'
    BY <1>0, <1>4, TakeKeepsLine
  <2>2. CommitFollowsOwner'
    BY <1>2, <1>4, Zenon DEF CommitTakes, CommitFollowsOwner
  <2> QED BY <1>0, <1>2, <1>3, <2>1, <2>2 DEF IInv
<1>5. CASE CommitExits \/ CommitWaits
  <2>1. UNCHANGED <<queue, item, slot>>
    BY <1>5, Zenon DEF CommitExits, CommitWaits
  <2>2. CommitFollowsOwner'
    BY <1>0, <1>1, <1>2, <1>5
       DEF CommitExits, CommitWaits, QueueDrained, CommitFollowsOwner, StoppingFollowsOwner
  <2>3. StopIsLast' /\ OneRequestEach'
    BY <1>0, <1>1, <2>1 DEF StopIsLast, OneRequestEach, Queued, Taken, Unanswered
  <2> QED BY <1>0, <1>2, <1>3, <2>2, <2>3 DEF IInv
<1>6. CASE CommitMutates \/ CommitFences \/ CommitStops
  <2>1. commit = "applying" /\ queue' = queue /\ item' = <<>>
    BY <1>6, Zenon DEF CommitMutates, CommitFences, CommitStops, ItemFinished
  <2>2. item[1] \in QueueItem /\ DOMAIN item = {1}
    BY <1>0, <2>1, AppliedItem, Zenon
  <2>3. slot' = IF item[1].slot \in Submitters
                THEN [slot EXCEPT ![item[1].slot] = "done"] ELSE slot
    BY <1>6, <2>2, ItemFields, Zenon DEF CommitMutates, CommitFences, CommitStops
  <2>4. OneRequestEach'
    BY <1>0, <2>1, <2>3, AnswerKeepsLine, Zenon
  <2>5. StopIsLast'
    BY <1>0, <1>1, <2>1 DEF StopIsLast
  <2>6. commit' = "exited" => IsStop(item[1])
    BY <1>6, Zenon DEF CommitMutates, CommitFences, CommitStops, ItemFinished, IsStop
  <2>7. CommitFollowsOwner'
    BY <1>0, <1>1, <1>2, <2>1, <2>2, <2>6 DEF StopIsLast, CommitFollowsOwner
  <2> QED BY <1>0, <1>2, <1>3, <2>4, <2>5, <2>7, Zenon DEF IInv
<1> QED BY <1>4, <1>5, <1>6, Zenon DEF CommitStep

(* What a step of the accept thread or of a worker leaves alone, when it   *)
(* pushes nothing.                                                         *)
LEMMA SessionQuiet ==
    ASSUME IInv, TypeOK', UNCHANGED <<owner, stopping, running, queue, item, slot>>,
           commit' = "exited" <=> commit = "exited", commit' = "none" <=> commit = "none"
    PROVE  /\ StoppingFollowsOwner' /\ CommitFollowsOwner' /\ StopIsLast' /\ OneRequestEach'
           /\ owner' \in {"down", "loaded"} => NobodyWaits'
<1>1. \A t \in Submitters : Unanswered(t)' <=> Unanswered(t)
  BY Zenon DEF Unanswered
<1>2. StoppingFollowsOwner'
  BY Zenon DEF IInv, StoppingFollowsOwner
<1> QED BY <1>1, <1>2, LineUntouched, Zenon

(* run_accept: the room seen when a session was admitted is still there    *)
(* when it is registered.                                                  *)
LEMMA AcceptStep ==
    ASSUME IInv, (\E s \in Sessions : AcceptAdmits(s)) \/ AcceptRegisters \/ AcceptExits
    PROVE  IInv'
<1> USE DEF queue_vars, commit_vars, accept_vars, session_vars, canonical
<1>0. TypeOK /\ AcceptFollowsOwner /\ RoomKept
  BY Zenon DEF IInv
<1>1. TypeOK'
  <2>1. CASE \E s \in Sessions : AcceptAdmits(s)
    BY <2>1, SessionTypes, Zenon DEF IInv
  <2>2. CASE AcceptRegisters
    BY <1>0, <2>2, Zenon DEF AcceptRegisters, TypeOK
  <2>3. CASE AcceptExits
    BY <1>0, <2>3, Zenon DEF AcceptExits, TypeOK
  <2> QED BY <2>1, <2>2, <2>3, Zenon
<1>2. UNCHANGED <<owner, stopping, running, queue, item, slot, commit, boot>>
  BY Zenon DEF AcceptAdmits, AcceptRegisters, AcceptExits
<1>3. FenceIsNamed'
  BY <1>1, <1>2, Zenon DEF IInv, AcceptAdmits, AcceptRegisters, AcceptExits, FenceIsNamed, TypeOK
<1>4. AcceptFollowsOwner'
  BY <1>0, Zenon DEF AcceptAdmits, AcceptRegisters, AcceptExits, AcceptFollowsOwner
<1>5. RoomKept'
  <2>1. CASE AcceptRegisters
    <3>1. PICK s \in Sessions : incoming = {s}
      BY <1>0, <2>1, Zenon DEF AcceptRegisters, RoomKept
    <3>2. /\ IsFiniteSet(sessions) /\ Cardinality(sessions) < max_sessions
          /\ Cardinality(sessions) \in Nat
      BY <1>0, <2>1, FS_CardinalityType, Zenon DEF AcceptRegisters, RoomKept
    <3>3. sessions' = sessions \cup {s} /\ incoming' = {}
      BY <2>1, <3>1, Zenon DEF AcceptRegisters
    <3>4. IsFiniteSet(sessions') /\ Cardinality(sessions') <= Cardinality(sessions) + 1
      <4>1. /\ IsFiniteSet(sessions')
            /\ Cardinality(sessions') \in {Cardinality(sessions), Cardinality(sessions) + 1}
        BY <3>2, <3>3, FS_AddElement, Zenon
      <4> QED BY <3>2, <4>1
    <3>5. Cardinality(sessions') \in Nat
      BY <3>4, FS_CardinalityType, Zenon
    <3> QED BY <3>2, <3>3, <3>4, <3>5, ThreadAssumption DEF RoomKept
  <2>2. CASE (\E s \in Sessions : AcceptAdmits(s)) \/ AcceptExits
    BY <1>0, <2>2, Zenon DEF AcceptAdmits, AcceptExits, Admitted, RoomKept
  <2> QED BY <2>1, <2>2, Zenon
<1> QED BY <1>1, <1>2, <1>3, <1>4, <1>5, SessionQuiet, Zenon DEF IInv

(* run_session and detach_session, but for a request (EnqueueStep). *)
LEMMA SessionStep ==
    ASSUME IInv, NEW s \in Sessions,
           \/ SessionEnds(s) \/ SessionSeesStop(s) \/ Detach(s)
           \/ \E b \in Boots : SessionHello(s, b)
    PROVE  IInv'
<1> USE DEF queue_vars, commit_vars, accept_vars, session_vars, canonical
<1>0. TypeOK /\ TypeOK' /\ FenceIsNamed /\ AcceptFollowsOwner /\ RoomKept
  BY SessionTypes, Zenon DEF IInv
<1>1. FenceIsNamed'
  <2>1. ASSUME NEW b \in Boots, SessionHello(s, b)
        PROVE  FenceIsNamed'
    BY <1>0, <2>1, ThreadAssumption, Zenon DEF SessionHello, FenceIsNamed, TypeOK
  <2>2. CASE SessionEnds(s) \/ SessionSeesStop(s)
    <3>1. worker' = [worker EXCEPT ![s] = "leaving"] /\ boot' = boot
      BY <2>2, Zenon DEF SessionEnds, SessionSeesStop, SessionMoves
    <3> QED BY <1>0, <3>1 DEF FenceIsNamed, TypeOK
  <2>3. CASE Detach(s)
    BY <1>0, <2>3 DEF Detach, DetachErases, DetachReadsState, DetachFences, DetachNotifies,
                      SessionExits, SessionMoves, OwnsEvidence, FenceIsNamed, TypeOK
  <2> QED BY <2>1, <2>2, <2>3, Zenon
<1>2. /\ UNCHANGED <<owner, stopping, running, item, slot, acceptor, incoming>>
      /\ sessions' = sessions \/ sessions' = sessions \ {s}
  BY Zenon DEF SessionEnds, SessionSeesStop, SessionHello, Detach, DetachErases, DetachReadsState,
         DetachFences, DetachNotifies, SessionExits
<1>3. AcceptFollowsOwner'
  BY <1>0, <1>2, Zenon DEF AcceptFollowsOwner
<1>4. RoomKept'
  <2>1. CASE sessions' = sessions
    BY <1>0, <1>2, <2>1, Zenon DEF RoomKept
  <2>2. CASE sessions' = sessions \ {s}
    <3>1. /\ IsFiniteSet(sessions')
          /\ Cardinality(sessions') \in {Cardinality(sessions), Cardinality(sessions) - 1}
      BY <1>0, <2>2, FS_RemoveElement DEF RoomKept
    <3>2. Cardinality(sessions) \in Nat
      BY <1>0, FS_CardinalityType, Zenon DEF RoomKept
    <3> QED BY <1>0, <1>2, <3>1, <3>2, ThreadAssumption DEF RoomKept
  <2> QED BY <1>2, <2>1, <2>2, Zenon
<1>5. CASE DetachFences(s) /\ ~stopping
  <2>1. boot[s] \in Boots /\ queue' = Append(queue, FenceItem(boot[s])) /\ commit' = commit
    BY <1>0, <1>5 DEF DetachFences, FencePushed, SessionMoves, FenceIsNamed, TypeOK
  <2>2. \A t \in Submitters : Unanswered(t)' <=> Unanswered(t)
    BY <1>2, Zenon DEF Unanswered
  <2>3. StoppingFollowsOwner'
    BY <1>2, Zenon DEF IInv, StoppingFollowsOwner
  <2> QED BY <1>0, <1>1, <1>2, <1>3, <1>4, <1>5, <2>1, <2>2, <2>3, PushFenceStep, Zenon DEF IInv
<1>6. CASE ~(DetachFences(s) /\ ~stopping)
  <2>1. /\ queue' = queue
        /\ commit' = "exited" <=> commit = "exited"
        /\ commit' = "none" <=> commit = "none"
    BY <1>0, <1>6, NotifyTypes
       DEF SessionEnds, SessionSeesStop, SessionHello, Detach, DetachErases, DetachReadsState,
           DetachFences, DetachNotifies, SessionExits, FencePushed
  <2> QED BY <1>0, <1>1, <1>2, <1>3, <1>4, <2>1, SessionQuiet, Zenon DEF IInv
<1> QED BY <1>5, <1>6, Zenon

(* What the owner's steps that only move on leave alone. *)
LEMMA OwnerLine ==
    ASSUME IInv, UNCHANGED <<queue, item, slot>>
    PROVE  /\ OneRequestEach'
           /\ NobodyWaits => NobodyWaits'
           /\ (owner \in {"failing", "failed", "pushed", "joining_commit", "answering"}
               => owner' \in {"failing", "failed", "pushed", "joining_commit", "answering"})
              => StopIsLast'
<1>1. OneRequestEach'
  BY Zenon DEF IInv, OneRequestEach, Queued, Taken, Unanswered
<1>2. NobodyWaits => NobodyWaits'
  BY Zenon DEF NobodyWaits, Unanswered
<1> QED BY <1>1, <1>2, Zenon DEF IInv, StopIsLast

(* start() and stop() up to the end of the commit thread, but for the      *)
(* request to stop.                                                        *)
LEMMA OwnerMovesOn ==
    ASSUME IInv,
           \/ StartLoads \/ StartClearsStopping \/ StartSpawnsCommit \/ StartRuns \/ StartListens
           \/ FailNotifies \/ StopBegins \/ StopClosesListener \/ StopClosesSessions
           \/ StopNotifies \/ StopJoinsCommit
    PROVE  IInv'
<1> USE DEF queue_vars, commit_vars, accept_vars, session_vars, canonical, OwnerMoves
<1>0. /\ TypeOK /\ StoppingFollowsOwner /\ CommitFollowsOwner /\ AcceptFollowsOwner /\ RoomKept
      /\ FenceIsNamed
  BY Zenon DEF IInv
<1>1. TypeOK'
  BY <1>0, OwnerTypes, Zenon DEF OwnerStep
<1>2. UNCHANGED <<queue, item, slot, sessions, incoming, worker, boot>>
  BY Zenon DEF StartLoads, StartClearsStopping, StartSpawnsCommit, StartRuns, StartListens,
         FailNotifies, StopBegins, StopClosesListener, StopClosesSessions, StopNotifies,
         StopJoinsCommit
<1>3. FenceIsNamed' /\ RoomKept'
  BY <1>0, <1>2, Zenon DEF FenceIsNamed, RoomKept
<1>4. StoppingFollowsOwner' /\ CommitFollowsOwner' /\ AcceptFollowsOwner'
  <2> USE <1>0 DEF StoppingFollowsOwner, CommitFollowsOwner, AcceptFollowsOwner
  <2>1. CASE StartLoads
    BY <2>1, Zenon DEF StartLoads
  <2>2. CASE StartClearsStopping
    BY <2>2, Zenon DEF StartClearsStopping
  <2>3. CASE StartSpawnsCommit
    BY <2>3, Zenon DEF StartSpawnsCommit
  <2>4. CASE StartRuns
    BY <2>4, Zenon DEF StartRuns
  <2>5. CASE StartListens
    BY <2>5, Zenon DEF StartListens
  <2>6. CASE FailNotifies
    BY <2>6, NotifyTypes, Zenon DEF FailNotifies
  <2>7. CASE StopBegins
    BY <2>7, Zenon DEF StopBegins
  <2>8. CASE StopClosesListener
    BY <2>8, Zenon DEF StopClosesListener
  <2>9. CASE StopClosesSessions
    BY <2>9, Zenon DEF StopClosesSessions
  <2>10. CASE StopNotifies
    BY <2>10, NotifyTypes, Zenon DEF StopNotifies
  <2>11. CASE StopJoinsCommit
    BY <2>11, Zenon DEF StopJoinsCommit
  <2> QED
    BY <2>1, <2>2, <2>3, <2>4, <2>5, <2>6, <2>7, <2>8, <2>9, <2>10, <2>11, Zenon
<1>5. /\ owner \in {"failing", "failed", "pushed", "joining_commit", "answering"}
         => owner' \in {"failing", "failed", "pushed", "joining_commit", "answering"}
      /\ owner' \in {"down", "loaded"} => owner \in {"down", "loaded"}
  BY Zenon DEF StartLoads, StartClearsStopping, StartSpawnsCommit, StartRuns,
         StartListens, FailNotifies, StopBegins, StopClosesListener, StopClosesSessions,
         StopNotifies, StopJoinsCommit
<1>6. OneRequestEach' /\ StopIsLast' /\ (owner' \in {"down", "loaded"} => NobodyWaits')
  BY <1>2, <1>5, OwnerLine, Zenon DEF IInv
<1> QED BY <1>1, <1>3, <1>4, <1>6, Zenon DEF IInv

(* A failed start() and stop() push the request to stop. *)
LEMMA OwnerPushes ==
    ASSUME IInv, StartFails \/ StopPushes
    PROVE  IInv'
<1> USE DEF queue_vars, commit_vars, accept_vars, session_vars, canonical, OwnerMoves
<1>0. /\ TypeOK /\ StoppingFollowsOwner /\ CommitFollowsOwner /\ AcceptFollowsOwner /\ RoomKept
      /\ FenceIsNamed /\ StopIsLast /\ OneRequestEach
  BY Zenon DEF IInv
<1>1. TypeOK'
  BY <1>0, OwnerTypes, Zenon DEF OwnerStep
<1>2. /\ owner \in {"running", "draining"} /\ owner' \in {"failing", "pushed"}
      /\ owner = "running" <=> owner' = "failing"
      /\ queue' = Append(queue, StopItem) /\ stopping'
      /\ UNCHANGED <<item, slot, commit, acceptor, incoming, worker, boot, sessions>>
      /\ owner' = "pushed" => sessions = {}
  BY <1>0, Zenon DEF StartFails, StopPushes, StoppingFollowsOwner
<1>3. FenceIsNamed' /\ RoomKept' /\ StoppingFollowsOwner' /\ AcceptFollowsOwner'
  BY <1>0, <1>2, Zenon DEF FenceIsNamed, RoomKept, StoppingFollowsOwner, AcceptFollowsOwner
<1>4. CommitFollowsOwner'
  BY <1>0, <1>2, Zenon DEF CommitFollowsOwner
<1>5. StopIsLast'
  BY <1>0, <1>2, StopLastAfterStop, Zenon
<1>6. OneRequestEach'
  <2>1. StopItem \in QueueItem /\ StopItem.slot = NoThread
    BY ItemTypes, Zenon DEF StopItem
  <2>2. \A t \in Submitters : Unanswered(t)' <=> Unanswered(t)
    BY <1>2, Zenon DEF Unanswered
  <2> QED BY <1>0, <1>2, <2>1, <2>2, OneRequestAfterPush, Zenon
<1> QED BY <1>1, <1>2, <1>3, <1>4, <1>5, <1>6 DEF IInv

(* A start() that failed returns once the commit thread has left, and with *)
(* it the last request.                                                    *)
LEMMA OwnerFailed ==
    ASSUME IInv, FailJoins
    PROVE  IInv'
<1> USE DEF queue_vars, commit_vars, accept_vars, session_vars, canonical, OwnerMoves
<1>0. /\ TypeOK /\ StoppingFollowsOwner /\ CommitFollowsOwner /\ AcceptFollowsOwner /\ RoomKept
      /\ FenceIsNamed /\ StopIsLast /\ OneRequestEach
  BY Zenon DEF IInv
<1>1. TypeOK'
  BY <1>0, OwnerTypes, Zenon DEF OwnerStep
<1>2. /\ owner = "failed" /\ owner' = "down" /\ commit = "exited" /\ commit' = "none"
      /\ UNCHANGED <<queue, stopping, running, item, slot, acceptor, incoming, sessions,
                     worker, boot>>
  BY Zenon DEF FailJoins
<1>3. queue = <<>> /\ item = <<>>
  BY <1>0, <1>2, NoItem, Zenon DEF CommitFollowsOwner
<1>4. /\ FenceIsNamed' /\ RoomKept' /\ StoppingFollowsOwner'
      /\ AcceptFollowsOwner' /\ CommitFollowsOwner'
  BY <1>0, <1>2, Zenon DEF FenceIsNamed, RoomKept, StoppingFollowsOwner, AcceptFollowsOwner,
                    CommitFollowsOwner
<1>5. DOMAIN queue = {} /\ DOMAIN item = {}
  BY <1>3
<1>6. NobodyWaits /\ OneRequestEach' /\ NobodyWaits' /\ StopIsLast'
  BY <1>0, <1>2, <1>5, Zenon DEF OneRequestEach, Queued, Taken, Unanswered, NobodyWaits, StopIsLast
<1> QED BY <1>1, <1>4, <1>6, Zenon DEF IInv

(* stop() answers what is left in the queue: every submitter that still    *)
(* waits is there, for the commit thread holds nothing any more.           *)
LEMMA OwnerAnswers ==
    ASSUME IInv, StopAnswers
    PROVE  IInv'
<1> USE DEF queue_vars, commit_vars, accept_vars, session_vars, canonical, OwnerMoves
<1>0. /\ TypeOK /\ StoppingFollowsOwner /\ CommitFollowsOwner /\ AcceptFollowsOwner /\ RoomKept
      /\ FenceIsNamed /\ OneRequestEach
  BY Zenon DEF IInv
<1>1. TypeOK'
  BY <1>0, OwnerTypes, Zenon DEF OwnerStep
<1>2. /\ owner = "answering" /\ owner' = "down" /\ queue' = <<>>
      /\ UNCHANGED <<commit, stopping, running, item, acceptor, incoming, sessions, worker, boot>>
      /\ \A t \in Submitters : slot'[t] = IF Queued(t) THEN "done" ELSE slot[t]
  BY Zenon DEF StopAnswers, Queued
<1>3. item = <<>> /\ DOMAIN item = {} /\ DOMAIN queue' = {}
  BY <1>0, <1>2, NoItem, Zenon DEF CommitFollowsOwner
<1>4. /\ FenceIsNamed' /\ RoomKept' /\ StoppingFollowsOwner'
      /\ AcceptFollowsOwner' /\ CommitFollowsOwner'
  BY <1>0, <1>2, Zenon DEF FenceIsNamed, RoomKept, StoppingFollowsOwner, AcceptFollowsOwner,
                    CommitFollowsOwner
<1>5. \A t \in Submitters : ~Taken(t) /\ (Unanswered(t) <=> Queued(t))
  BY <1>0, <1>3, Zenon DEF OneRequestEach, Taken
<1>6. NobodyWaits'
  BY <1>2, <1>5, Zenon DEF NobodyWaits, Unanswered
<1>7. OneRequestEach' /\ StopIsLast'
  BY <1>2, <1>3, <1>6, Zenon DEF OneRequestEach, Queued, Taken, NobodyWaits, StopIsLast
<1> QED BY <1>1, <1>4, <1>6, <1>7, Zenon DEF IInv

-----------------------------------------------------------------------------
(***************************************************************************)
(* The theorems.                                                           *)
(***************************************************************************)

(* Initially the invariant holds. *)
LEMMA InitInvariant == Init => IInv
<1> SUFFICES ASSUME Init PROVE IInv
  BY Zenon
<1>1. TypeOK
  BY EmptySeq, ThreadAssumption, Zenon DEF Init, TypeOK, Owner
<1>2. FenceIsNamed /\ StoppingFollowsOwner /\ CommitFollowsOwner /\ AcceptFollowsOwner
  BY Zenon DEF Init, FenceIsNamed, StoppingFollowsOwner, CommitFollowsOwner, AcceptFollowsOwner
<1>3. RoomKept
  BY FS_EmptySet, ThreadAssumption DEF Init, RoomKept
<1>4. DOMAIN queue = {} /\ DOMAIN item = {}
  BY DEF Init
<1>5. NobodyWaits
  BY Zenon DEF Init, NobodyWaits, Unanswered
<1>6. OneRequestEach /\ StopIsLast
  BY <1>4, <1>5, Zenon DEF OneRequestEach, Queued, Taken, NobodyWaits, StopIsLast
<1> QED BY <1>1, <1>2, <1>3, <1>5, <1>6, Zenon DEF IInv

(* Every step of every thread preserves the invariant. *)
LEMMA InductiveStep ==
    ASSUME IInv, [Next]_vars
    PROVE  IInv'
<1>1. ASSUME NEW t \in Callers,
             \/ CallerSubmits(t) \/ FenceBootNotifies(t) \/ \E b \in Boots : FenceBoot(t, b)
      PROVE  IInv'
  BY <1>1, EnqueueStep, SubmitterStep, Zenon DEF CallerSubmits, Submitters
<1>2. ASSUME NEW t \in Submitters, SubmitNotifies(t) \/ SubmitReturns(t)
      PROVE  IInv'
  BY <1>2, SubmitterStep, Zenon
<1>3. CASE CommitStep
  BY <1>3, CommitThreadStep, Zenon
<1>4. ASSUME NEW s \in Sessions, SessionSubmits(s)
      PROVE  IInv'
  <2>1. s \in Submitters /\ boot[s] \in Boots \cup {NoBoot}
    BY Zenon DEF Submitters, IInv, TypeOK
  <2> QED BY <1>4, <2>1, EnqueueStep, Zenon DEF SessionSubmits
<1>5. ASSUME NEW s \in Sessions,
             \/ SessionEnds(s) \/ SessionSeesStop(s) \/ Detach(s)
             \/ \E b \in Boots : SessionHello(s, b)
      PROVE  IInv'
  BY <1>5, SessionStep, Zenon
<1>6. CASE (\E s \in Sessions : AcceptAdmits(s)) \/ AcceptRegisters \/ AcceptExits
  BY <1>6, AcceptStep, Zenon
<1>7. CASE StartLoads \/ StopBegins \/ OwnerStep
  BY <1>7, OwnerMovesOn, OwnerPushes, OwnerFailed, OwnerAnswers, Zenon DEF OwnerStep
<1>8. CASE UNCHANGED vars
  <2>1. UNCHANGED <<owner, queue, stopping, running, commit, item, slot, acceptor, incoming,
                    accepting, sessions, worker, boot, stop, owners, fenced_authorities,
                    persistence_failures>>
    BY <1>8, Zenon DEF vars, queue_vars, commit_vars, accept_vars, session_vars, canonical
  <2>2. TypeOK'
    BY <2>1, Zenon DEF IInv, TypeOK
  <2>3. UNCHANGED Bystanders
    BY <2>1, Zenon DEF Bystanders, accept_vars
  <2> QED BY <2>1, <2>2, <2>3, BystandersKeep, SessionQuiet, Zenon DEF IInv
<1> QED BY <1>1, <1>2, <1>3, <1>4, <1>5, <1>6, <1>7, <1>8, Zenon DEF Next

(* The inductive invariant of the threads. *)
THEOREM ThreadInvariant == Spec => []IInv
BY InitInvariant, InductiveStep, PTL DEF Spec

(* The shared state of the threads keeps its types; the commit thread      *)
(* holds an item exactly while it applies one (run_commit).                *)
THEOREM ThreadTypes == Spec => []TypeOK
<1>1. IInv => TypeOK
  BY Zenon DEF IInv
<1> QED BY <1>1, ThreadInvariant, PTL

(* No submission is lost, duplicated or applied after its answer, however  *)
(* submit(), run_commit, a failed start() and stop() interleave.           *)
THEOREM RequestsServedOnce == Spec => []EachRequestOnce
<1>1. ASSUME IInv
      PROVE  EachRequestOnce
  <2> SUFFICES ASSUME NEW t \in Submitters
               PROVE  Cardinality({i \in DOMAIN queue : queue[i].slot = t})
                         + Cardinality({i \in DOMAIN item : item[i].slot = t})
                      = IF Unanswered(t) THEN 1 ELSE 0
    BY Zenon DEF EachRequestOnce
  <2> DEFINE queued == {i \in DOMAIN queue : queue[i].slot = t}
             taken == {i \in DOMAIN item : item[i].slot = t}
  <2>1. OneRequestEach /\ TypeOK
    BY <1>1, Zenon DEF IInv
  <2>2. queued = {} <=> ~Queued(t)
    BY Zenon DEF Queued
  <2>3. taken = {} <=> ~Taken(t)
    BY Zenon DEF Taken
  <2>4. Queued(t) => \E i : queued = {i}
    BY <2>1 DEF Queued, OneRequestEach
  <2>5. Taken(t) => \E i : taken = {i}
    BY <2>1, AppliedItem, NoItem, Zenon DEF Taken
  <2>6. /\ Cardinality(queued) = IF Queued(t) THEN 1 ELSE 0
        /\ Cardinality(taken) = IF Taken(t) THEN 1 ELSE 0
    <3> HIDE DEF queued, taken, Queued, Taken
    <3> QED BY <2>2, <2>3, <2>4, <2>5, FS_EmptySet, FS_Singleton, Zenon
  <2> HIDE DEF queued, taken
  <2>7. Cardinality(queued) + Cardinality(taken) = IF Unanswered(t) THEN 1 ELSE 0
    BY <2>1, <2>6 DEF OneRequestEach
  <2> QED BY <2>7, Zenon DEF queued, taken
<1> QED BY <1>1, ThreadInvariant, PTL

(* When stop(), or a start() that failed, has returned, no thread serves   *)
(* the queue or accepts and nobody waits for an answer.                    *)
THEOREM DownMeansQuiet == Spec => []DownIsQuiet
<1>1. IInv => DownIsQuiet
  BY Zenon DEF IInv, DownIsQuiet, CommitFollowsOwner, AcceptFollowsOwner, NobodyWaits
<1> QED BY <1>1, ThreadInvariant, PTL

(* The session registry never outgrows max_sessions, although run_accept   *)
(* checks for room and registers under two separate locks.                 *)
THEOREM RegistryStaysBounded == Spec => []RegistryBounded
<1>1. IInv => RegistryBounded
  BY Zenon DEF IInv, RoomKept, RegistryBounded
<1> QED BY <1>1, ThreadInvariant, PTL

-----------------------------------------------------------------------------
(***************************************************************************)
(* No accepted request is cut off by stop() or by a failed start().        *)
(***************************************************************************)

(* The commit thread is there while the coordinator runs, and it leaves    *)
(* only when nobody waits any more.                                        *)
NoneLeftBehind ==
    /\ owner \in {"spawned", "running", "up"} => commit \notin {"none", "exited"}
    /\ stopping /\ commit \in {"none", "exited"} => NobodyWaits

(* With the queue empty and no item taken, nobody waits. *)
LEMMA EmptyLineIsQuiet ==
    ASSUME OneRequestEach, queue = <<>>, item = <<>>
    PROVE  NobodyWaits
<1>1. DOMAIN queue = {} /\ DOMAIN item = {}
  OBVIOUS
<1> QED BY <1>1, Zenon DEF OneRequestEach, Queued, Taken, NobodyWaits

(* A step that adds no waiting submitter, does not stop the coordinator    *)
(* and neither starts nor ends the commit thread.                          *)
LEMMA BehindUntouched ==
    ASSUME NoneLeftBehind, UNCHANGED <<owner, stopping>>,
           commit' \in {"none", "exited"} => commit' = commit,
           \A t \in Submitters : Unanswered(t)' => Unanswered(t)
    PROVE  NoneLeftBehind'
BY Zenon DEF NoneLeftBehind, NobodyWaits

(* run_commit leaves when the queue is drained or at the request to stop,  *)
(* behind which there is nothing.                                          *)
LEMMA CommitLeavesNone ==
    ASSUME IInv, IInv', NoneLeftBehind, CommitStep
    PROVE  NoneLeftBehind'
<1> USE DEF queue_vars, commit_vars, accept_vars, session_vars, canonical
<1>1. UNCHANGED <<owner, stopping>>
  BY Zenon DEF CommitStep, CommitTakes, CommitExits, CommitWaits, CommitMutates, CommitFences, CommitStops
<1>2. CASE CommitExits \/ CommitStops
  <2>1. /\ TypeOK /\ StopIsLast /\ StoppingFollowsOwner /\ OneRequestEach'
        /\ owner \in {"spawned", "running", "up"} => ~stopping
    BY Zenon DEF IInv, StoppingFollowsOwner
  <2>2. queue' = <<>> /\ item' = <<>>
    <3>1. CASE CommitExits
      BY <2>1, <3>1, NoItem, Zenon DEF CommitExits, QueueDrained
    <3>2. CASE CommitStops
      <4>1. commit = "applying" /\ IsStop(item[1]) /\ queue' = queue /\ item' = <<>>
        BY <3>2, Zenon DEF CommitStops, IsStop
      <4>2. 1 \in DOMAIN item
        BY <2>1, <4>1, AppliedItem, Zenon
      <4> QED BY <2>1, <4>1, <4>2, Zenon DEF StopIsLast
    <3> QED BY <1>2, <3>1, <3>2, Zenon
  <2>3. NobodyWaits'
    <3>1. (OneRequestEach /\ queue = <<>> /\ item = <<>> => NobodyWaits)'
      BY EmptyLineIsQuiet, PTL
    <3> QED BY <2>1, <2>2, <3>1, Zenon
  <2>4. owner \notin {"spawned", "running", "up"}
    <3>1. CASE CommitExits
      BY <2>1, <3>1, Zenon DEF CommitExits, QueueDrained
    <3>2. CASE CommitStops
      <4>1. commit = "applying" /\ IsStop(item[1])
        BY <3>2, Zenon DEF CommitStops, IsStop
      <4>2. 1 \in DOMAIN item
        BY <2>1, <4>1, AppliedItem, Zenon
      <4> QED BY <2>1, <4>1, <4>2, Zenon DEF StopIsLast
    <3> QED BY <1>2, <3>1, <3>2, Zenon
  <2> QED BY <1>1, <2>3, <2>4, Zenon DEF NoneLeftBehind
<1>3. CASE CommitTakes \/ CommitWaits \/ CommitMutates \/ CommitFences
  <2>1. commit' \in {"applying", "blocked", "checking"}
    BY <1>3, Zenon DEF CommitTakes, CommitWaits, CommitMutates, CommitFences, ItemFinished
  <2> QED BY <1>1, <2>1, Zenon DEF NoneLeftBehind
<1> QED BY <1>2, <1>3, Zenon DEF CommitStep

(* start() and stop(). *)
LEMMA OwnerLeavesNone ==
    ASSUME IInv, NoneLeftBehind, StartLoads \/ StopBegins \/ OwnerStep
    PROVE  NoneLeftBehind'
<1> USE DEF queue_vars, commit_vars, accept_vars, session_vars, canonical, OwnerMoves
<1>0. TypeOK /\ StoppingFollowsOwner /\ (owner \in {"down", "loaded"} => NobodyWaits)
  BY Zenon DEF IInv
<1>1. NobodyWaits => NobodyWaits'
  <2>1. CASE StopAnswers
    BY <2>1, Zenon DEF StopAnswers, NobodyWaits, Unanswered
  <2>2. CASE slot' = slot
    BY <2>2, Zenon DEF NobodyWaits, Unanswered
  <2> QED BY <2>1, <2>2, Zenon DEF OwnerStep, StartLoads, StopBegins, StartClearsStopping,
        StartSpawnsCommit, StartRuns, StartListens, StartFails, FailNotifies, FailJoins,
        StopClosesListener, StopClosesSessions, StopPushes, StopNotifies, StopJoinsCommit
<1>2. CASE StartLoads \/ StopBegins \/ StartClearsStopping \/ StartSpawnsCommit \/ StartRuns
           \/ StartListens \/ StartFails
  BY <1>0, <1>1, <1>2, Zenon DEF StartLoads, StopBegins, StartClearsStopping, StartSpawnsCommit, StartRuns,
        StartListens, StartFails, NoneLeftBehind, StoppingFollowsOwner
<1>3. CASE FailNotifies \/ StopNotifies
  BY <1>0, <1>1, <1>3, NotifyTypes DEF FailNotifies, StopNotifies, NoneLeftBehind
<1>4. CASE FailJoins \/ StopClosesListener \/ StopClosesSessions \/ StopPushes \/ StopJoinsCommit
           \/ StopAnswers
  BY <1>0, <1>1, <1>4, Zenon DEF FailJoins, StopClosesListener, StopClosesSessions, StopPushes,
        StopJoinsCommit, StopAnswers, NoneLeftBehind, StoppingFollowsOwner
<1> QED BY <1>2, <1>3, <1>4, Zenon DEF OwnerStep

(* Every step leaves nobody behind. *)
LEMMA NoneLeftStep ==
    ASSUME IInv, IInv', NoneLeftBehind, [Next]_vars
    PROVE  NoneLeftBehind'
<1> USE DEF queue_vars, commit_vars, accept_vars, session_vars, canonical
<1>0. TypeOK
  BY Zenon DEF IInv
<1>1. ASSUME NEW t \in Submitters, NEW b, Enqueue(t, b)
      PROVE  NoneLeftBehind'
  BY <1>1, Zenon DEF Enqueue, MayEnqueue, NoneLeftBehind
<1>2. ASSUME NEW t \in Submitters,
             \/ SubmitNotifies(t) \/ SubmitReturns(t) \/ FenceBootNotifies(t)
             \/ \E b \in Boots : FenceBoot(t, b)
      PROVE  NoneLeftBehind'
  <2>1. UNCHANGED <<owner, stopping>>
    BY <1>2, Zenon DEF SubmitNotifies, SubmitReturns, FenceBootNotifies, FenceBoot
  <2>2. commit' \in {"none", "exited"} => commit' = commit
    BY <1>0, <1>2, NotifyTypes DEF SubmitNotifies, SubmitReturns, FenceBootNotifies, FenceBoot
  <2>3. \A u \in Submitters : Unanswered(u)' => Unanswered(u)
    BY <1>0, <1>2, Zenon DEF SubmitNotifies, SubmitReturns, FenceBootNotifies, FenceBoot, Unanswered,
                      TypeOK
  <2> QED BY <2>1, <2>2, <2>3, BehindUntouched, Zenon
<1>3. CASE CommitStep
  BY <1>3, CommitLeavesNone, Zenon
<1>4. ASSUME NEW s \in Sessions,
             \/ AcceptAdmits(s) \/ SessionEnds(s) \/ SessionSeesStop(s) \/ Detach(s)
             \/ \E b \in Boots : SessionHello(s, b)
      PROVE  NoneLeftBehind'
  <2>1. UNCHANGED <<owner, stopping, slot>>
    BY <1>4, Zenon DEF AcceptAdmits, SessionEnds, SessionSeesStop, SessionHello, Detach,
         DetachErases, DetachReadsState, DetachFences, DetachNotifies, SessionExits
  <2>2. commit' \in {"none", "exited"} => commit' = commit
    <3>1. CASE DetachNotifies(s)
      BY <1>0, <3>1, NotifyTypes DEF DetachNotifies
    <3>2. CASE ~DetachNotifies(s)
      BY <1>4, <3>2, Zenon DEF AcceptAdmits, SessionEnds, SessionSeesStop, SessionHello, Detach,
            DetachErases, DetachReadsState, DetachFences, SessionExits
    <3> QED BY <3>1, <3>2, Zenon
  <2>3. \A u \in Submitters : Unanswered(u)' => Unanswered(u)
    BY <2>1, Zenon DEF Unanswered
  <2> QED BY <2>1, <2>2, <2>3, BehindUntouched, Zenon
<1>5. CASE AcceptRegisters \/ AcceptExits \/ UNCHANGED vars
  <2>1. UNCHANGED <<owner, stopping, slot, commit>>
    BY <1>5, Zenon DEF AcceptRegisters, AcceptExits, vars
  <2>2. \A u \in Submitters : Unanswered(u)' => Unanswered(u)
    BY <2>1, Zenon DEF Unanswered
  <2> QED BY <2>1, <2>2, BehindUntouched, Zenon
<1>6. CASE StartLoads \/ StopBegins \/ OwnerStep
  BY <1>6, OwnerLeavesNone, Zenon
<1> QED BY <1>1, <1>2, <1>3, <1>4, <1>5, <1>6, Zenon DEF Next, CallerSubmits, SessionSubmits, Submitters

(* Nobody who was accepted is left behind, in any reachable state. *)
THEOREM EveryAcceptedIsServed == Spec => []NoneLeftBehind
<1>1. Init => NoneLeftBehind
  BY Zenon DEF Init, NoneLeftBehind
<1> QED BY <1>1, ThreadInvariant, NoneLeftStep, PTL DEF Spec

-----------------------------------------------------------------------------
(***************************************************************************)
(* The threads implement the commit service.                               *)
(***************************************************************************)

(* The line is a sequence of items. *)
LEMMA LineTypes ==
    ASSUME TypeOK
    PROVE  /\ item \in Seq(QueueItem) /\ queue \in Seq(QueueItem) /\ Line \in Seq(QueueItem)
<1>1. item \in Seq(QueueItem) /\ queue \in Seq(QueueItem)
  <2>1. CASE commit = "applying"
    BY <2>1 DEF TypeOK
  <2>2. CASE commit # "applying"
    BY <2>2, NoItem, EmptySeq, Zenon DEF TypeOK
  <2> QED BY <2>1, <2>2, Zenon
<1> QED BY <1>1, ConcatProperties, Zenon DEF Line

(* What is pushed goes to the end of the line. *)
LEMMA LinePushed ==
    ASSUME TypeOK, NEW x \in QueueItem, queue' = Append(queue, x), item' = item
    PROVE  Line' = Append(Line, x)
<1>1. <<x>> \in Seq(QueueItem)
  OBVIOUS
<1>2. Line' = item \o (queue \o <<x>>)
  BY LineTypes, AppendIsConcat, Zenon DEF Line
<1>3. Line' = Line \o <<x>>
  BY <1>1, <1>2, LineTypes, ConcatAssociative DEF Line
<1> QED BY <1>3, LineTypes, AppendIsConcat, Zenon

(* An item that is taken stays at the front of the line. *)
LEMMA LineTaken ==
    ASSUME TypeOK, CommitTakes
    PROVE  Line' = Line
<1>1. /\ item = <<>> /\ queue # <<>>
      /\ item' = <<Head(queue)>> /\ queue' = Tail(queue)
  BY NoItem, Zenon DEF CommitTakes, FrontTaken
<1>2. /\ queue \in Seq(QueueItem) /\ Tail(queue) \in Seq(QueueItem)
      /\ <<Head(queue)>> \in Seq(QueueItem) /\ Line' \in Seq(QueueItem)
  BY <1>1, LineTypes, HeadTailProperties, ConcatProperties DEF Line
<1>3. Line = queue
  BY <1>1, <1>2, ConcatEmptySeq, Zenon DEF Line
<1>4. Len(Line') = Len(queue) /\ \A i \in 1 .. Len(queue) : Line'[i] = queue[i]
  <2> DEFINE h == <<Head(queue)>>
             q == Tail(queue)
  <2>1. Len(h) = 1 /\ h[1] = queue[1] /\ h \in Seq(QueueItem) /\ q \in Seq(QueueItem)
    BY <1>1, <1>2, Popped, Zenon
  <2>2. /\ Len(queue) \in Nat \ {0} /\ Len(q) = Len(queue) - 1
        /\ \A i \in 1 .. Len(queue) - 1 : q[i] = queue[i + 1]
    BY <1>1, Popped, Zenon
  <2>3. Line' = h \o q
    BY <1>1, Zenon DEF Line
  <2> HIDE DEF h, q
  <2>4. /\ Len(h \o q) = 1 + Len(q)
        /\ \A i \in 1 .. 1 + Len(q) : (h \o q)[i] = IF i <= 1 THEN h[i] ELSE q[i - 1]
    <3>1. /\ Len(h \o q) = Len(h) + Len(q)
          /\ \A i \in 1 .. Len(h) + Len(q) :
                (h \o q)[i] = IF i <= Len(h) THEN h[i] ELSE q[i - Len(h)]
      BY <2>1, ConcatProperties, Zenon
    <3> QED BY <2>1, <3>1, Zenon
  <2>5. ASSUME NEW i \in 1 .. Len(queue)
        PROVE  (h \o q)[i] = queue[i]
    <3>1. /\ i \in 1 .. 1 + Len(q)
          /\ i = 1 => i <= 1
          /\ i # 1 => ~(i <= 1) /\ i - 1 \in 1 .. Len(queue) - 1 /\ (i - 1) + 1 = i
      BY <2>2
    <3>2. CASE i = 1
      BY <2>1, <2>4, <3>1, <3>2, Zenon
    <3>3. CASE i # 1
      <4>1. (h \o q)[i] = q[i - 1]
        BY <2>4, <3>1, <3>3, Zenon
      <4>2. q[i - 1] = queue[(i - 1) + 1] /\ (i - 1) + 1 = i
        BY <2>2, <3>1, <3>3, Zenon
      <4> QED BY <4>1, <4>2, Zenon
    <3> QED BY <3>2, <3>3, Zenon
  <2>6. Len(h \o q) = Len(queue)
    BY <2>2, <2>4
  <2> QED BY <2>3, <2>5, <2>6, Zenon
<1> QED BY <1>2, <1>3, <1>4, SeqEqual, Zenon

(* An item that is finished leaves the front of the line. *)
LEMMA LineServed ==
    ASSUME TypeOK, commit = "applying", item' = <<>>, queue' = queue
    PROVE  Line # <<>> /\ Head(Line) = item[1] /\ Line' = Tail(Line)
<1>1. item[1] \in QueueItem /\ item = <<item[1]>>
  BY AppliedItem, Zenon
<1>2. PICK x \in QueueItem : item = <<x>>
  BY <1>1, Zenon
<1>3. <<x>> \in Seq(QueueItem) /\ queue \in Seq(QueueItem) /\ Len(<<x>>) = 1
  BY LineTypes
<1>4. /\ Line \in Seq(QueueItem) /\ Len(queue) \in Nat /\ Len(Line) = 1 + Len(queue)
      /\ \A i \in 1 .. 1 + Len(queue) : Line[i] = IF i <= 1 THEN <<x>>[i] ELSE queue[i - 1]
  BY <1>2, <1>3, ConcatProperties, LenProperties DEF Line
<1>5. Line # <<>>
  BY <1>4, EmptySeq
<1>6. Head(Line) = x
  BY <1>4, <1>5
<1>7. Line' = queue
  BY <1>3, ConcatEmptySeq, Zenon DEF Line
<1>8. /\ Tail(Line) \in Seq(QueueItem) /\ Len(Tail(Line)) = Len(queue)
      /\ \A i \in 1 .. Len(queue) : Tail(Line)[i] = queue[i]
  BY <1>4, <1>5, HeadTailProperties
<1>9. Tail(Line) = queue
  BY <1>3, <1>8, SeqEqual, Zenon
<1> QED BY <1>2, <1>5, <1>6, <1>7, <1>9, Zenon

(* The end of the line is the request to stop. *)
LEMMA LineOpen ==
    ASSUME TypeOK, \A i \in DOMAIN queue : ~IsStop(queue[i]), \A i \in DOMAIN item : ~IsStop(item[i])
    PROVE  ~Service!Closed
<1>1. /\ item \in Seq(QueueItem) /\ queue \in Seq(QueueItem) /\ Line \in Seq(QueueItem)
      /\ Len(item) \in Nat /\ Len(queue) \in Nat
      /\ DOMAIN item = 1 .. Len(item) /\ DOMAIN queue = 1 .. Len(queue)
      /\ DOMAIN Line = 1 .. Len(Line)
  BY LineTypes, LenProperties, Zenon
<1>2. /\ Len(Line) = Len(item) + Len(queue)
      /\ \A i \in 1 .. Len(item) + Len(queue) :
            Line[i] = IF i <= Len(item) THEN item[i] ELSE queue[i - Len(item)]
  BY <1>1, ConcatProperties DEF Line
<1>3. ASSUME NEW i \in DOMAIN Line
      PROVE  ~IsStop(Line[i])
  <2>1. CASE i <= Len(item)
    BY <1>1, <1>2, <2>1
  <2>2. CASE ~(i <= Len(item))
    <3>1. i - Len(item) \in DOMAIN queue /\ Line[i] = queue[i - Len(item)]
      BY <1>1, <1>2, <2>2
    <3> QED BY <3>1, Zenon
  <2> QED BY <2>1, <2>2
<1>4. IsStop(Service!End)
  BY Zenon DEF IsStop, Service!End
<1> QED BY <1>3, <1>4, Zenon DEF Service!Closed

(* A step that changes no submitter's slot changes no call. *)
LEMMA CallsKept ==
    ASSUME \A t \in Submitters : CallState(t)' = CallState(t)
    PROVE  Calls' = Calls
BY Zenon DEF Calls

(* The call of one submitter changes. *)
LEMMA OneCallMoves ==
    ASSUME NEW t \in Submitters, NEW v, CallState(t)' = v,
           \A u \in Submitters \ {t} : CallState(u)' = CallState(u)
    PROVE  Calls' = [Calls EXCEPT ![t] = v] /\ Calls[t] = CallState(t)
BY Zenon DEF Calls

(* Nobody waits in the service when nobody waits for a slot. *)
LEMMA NobodyCalls ==
    ASSUME NobodyWaits
    PROVE  Service!NobodyWaits
BY Zenon DEF NobodyWaits, Service!NobodyWaits, Calls, CallState

(* submit() is accepted. *)
LEMMA EnqueueServes ==
    ASSUME IInv, NEW t \in Submitters, NEW b \in Boots \cup {NoBoot}, Enqueue(t, b)
    PROVE  Service!submit(t, b)
<1> USE DEF queue_vars, commit_vars, accept_vars, session_vars, canonical
<1>1. /\ slot[t] = "idle" /\ ~stopping /\ queue' = Append(queue, Mutation(t, b))
      /\ slot' = [slot EXCEPT ![t] = "pushed"] /\ item' = item
      /\ UNCHANGED <<owners, fenced_authorities>>
  BY Zenon DEF Enqueue, MayEnqueue
<1>2. TypeOK /\ StoppingFollowsOwner /\ StopIsLast
  BY Zenon DEF IInv
<1>3. Mutation(t, b) \in QueueItem
  BY ItemTypes, Zenon
<1>4. Line' = Append(Line, Mutation(t, b))
  BY <1>1, <1>2, <1>3, LinePushed
<1>5. ~Service!Closed
  BY <1>1, <1>2, NoStopYet, LineOpen
<1>6. Calls' = [Calls EXCEPT ![t] = "waiting"] /\ Calls[t] = "idle"
  <2>1. CallState(t) = "idle" /\ CallState(t)' = "waiting"
    BY <1>1, <1>2 DEF CallState, Unanswered, TypeOK
  <2>2. \A u \in Submitters \ {t} : CallState(u)' = CallState(u)
    BY <1>1, <1>2 DEF CallState, Unanswered, TypeOK
  <2> QED BY <2>1, <2>2, OneCallMoves
<1> QED BY <1>1, <1>4, <1>5, <1>6 DEF Service!submit, Service!Accept, Service!Request, Mutation

(* A fence is accepted, from a caller or from a session that ended. *)
LEMMA FenceServes ==
    ASSUME IInv, NEW b \in Boots, ~stopping, queue' = Append(queue, FenceItem(b)),
           UNCHANGED <<item, owners, fenced_authorities>>,
           \A t \in Submitters : CallState(t)' = CallState(t)
    PROVE  Service!fence_boot(b)
<1>1. TypeOK /\ StoppingFollowsOwner /\ StopIsLast /\ FenceItem(b) \in QueueItem
  BY ItemTypes, Zenon DEF IInv
<1>2. Line' = Append(Line, FenceItem(b))
  BY <1>1, LinePushed
<1>3. ~Service!Closed
  BY <1>1, NoStopYet, LineOpen
<1>4. Calls' = Calls
  BY CallsKept, Zenon
<1> QED BY <1>2, <1>3, <1>4 DEF Service!fence_boot, Service!Accept, Service!Fence, FenceItem

(* The other steps of submit() and fence_boot(). *)
LEMMA SubmitterServes ==
    ASSUME IInv, NEW t \in Submitters,
           \/ SubmitNotifies(t) \/ SubmitReturns(t) \/ FenceBootNotifies(t)
           \/ \E b \in Boots : FenceBoot(t, b)
    PROVE  Service!Next \/ UNCHANGED <<Line, Calls, owners, fenced_authorities>>
<1> USE DEF queue_vars, commit_vars, accept_vars, session_vars, canonical
<1>0. TypeOK
  BY Zenon DEF IInv
<1>1. CASE SubmitNotifies(t) \/ FenceBootNotifies(t)
  <2>1. UNCHANGED <<queue, item, owners, fenced_authorities>>
    BY <1>1 DEF SubmitNotifies, FenceBootNotifies
  <2>2. \A u \in Submitters : CallState(u)' = CallState(u)
    BY <1>0, <1>1 DEF SubmitNotifies, FenceBootNotifies, CallState, Unanswered, TypeOK
  <2> QED BY <2>1, <2>2, CallsKept DEF Line
<1>2. CASE SubmitReturns(t)
  <2>1. UNCHANGED <<queue, item, owners, fenced_authorities>>
    BY <1>2, Zenon DEF SubmitReturns
  <2>2. CallState(t) = "answered" /\ CallState(t)' = "idle"
    BY <1>0, <1>2 DEF SubmitReturns, CallState, Unanswered, TypeOK
  <2>3. \A u \in Submitters \ {t} : CallState(u)' = CallState(u)
    BY <1>0, <1>2, Zenon DEF SubmitReturns, CallState, Unanswered, TypeOK
  <2>4. Service!Return(t)
    BY <2>1, <2>2, <2>3, OneCallMoves, Zenon DEF Service!Return, Line
  <2> QED BY <2>4, Zenon DEF Service!Next
<1>3. ASSUME NEW b \in Boots, FenceBoot(t, b)
      PROVE  Service!Next
  <2>1. \A u \in Submitters : CallState(u)' = CallState(u)
    BY <1>0, <1>3 DEF FenceBoot, CallState, Unanswered, TypeOK
  <2>2. Service!fence_boot(b)
    BY <1>3, <2>1, FenceServes DEF FenceBoot
  <2> QED BY <2>2 DEF Service!Next
<1> QED BY <1>1, <1>2, <1>3

(* run_commit serves the front of the line, or clears a line that nobody   *)
(* waits in.                                                               *)
LEMMA CommitServes ==
    ASSUME IInv, IInv', CommitStep
    PROVE  Service!Next \/ UNCHANGED <<Line, Calls, owners, fenced_authorities>>
<1> USE DEF queue_vars, commit_vars, accept_vars, session_vars, canonical
<1>0. TypeOK /\ StopIsLast /\ StoppingFollowsOwner /\ OneRequestEach
  BY Zenon DEF IInv
<1>1. CASE CommitTakes \/ CommitExits \/ CommitWaits
  <2>1. UNCHANGED <<slot, owners, fenced_authorities>>
    BY <1>1, Zenon DEF CommitTakes, CommitExits, CommitWaits
  <2>2. Line' = Line
    BY <1>0, <1>1, LineTaken, Zenon DEF CommitExits, CommitWaits, Line
  <2>3. \A t \in Submitters : CallState(t)' = CallState(t)
    BY <2>1, Zenon DEF CallState, Unanswered
  <2> QED BY <2>1, <2>2, <2>3, CallsKept, Zenon
<1>2. CASE CommitMutates
  <2>1. PICK t \in Submitters, b \in Boots \cup {NoBoot} : item[1] = Mutation(t, b)
    <3>1. item[1] \in QueueItem /\ item[1].kind = "Mutation"
      BY <1>0, <1>2, AppliedItem DEF CommitMutates
    <3> QED BY <3>1, Zenon DEF QueueItem, Mutation
  <2>2. item[1].slot = t /\ item[1].boot = b
    BY <2>1, MutationFields
  <2>3. /\ commit = "applying" /\ item' = <<>> /\ queue' = queue
        /\ slot' = [slot EXCEPT ![t] = "done"]
        /\ UNCHANGED fenced_authorities
        /\ \/ UNCHANGED owners
           \/ b # NoBoot /\ \E kept \in SUBSET owners : owners' = kept \cup {b}
    BY <1>2, <2>2, Zenon DEF CommitMutates, ItemFinished
  <2>4. Line # <<>> /\ Head(Line) = Mutation(t, b) /\ Line' = Tail(Line)
    BY <1>0, <2>1, <2>3, LineServed, Zenon
  <2>5. Unanswered(t)
    <3>1. 1 \in DOMAIN item
      BY <1>0, <2>3, AppliedItem
    <3>2. Taken(t)
      BY <2>2, <3>1, Zenon DEF Taken
    <3> QED BY <1>0, <3>2, Zenon DEF OneRequestEach
  <2>6. CallState(t) = "waiting" /\ CallState(t)' = "answered"
    BY <1>0, <2>3, <2>5 DEF CallState, Unanswered, TypeOK
  <2>7. \A u \in Submitters \ {t} : CallState(u)' = CallState(u)
    BY <1>0, <2>3, Zenon DEF CallState, Unanswered, TypeOK
  <2>8. Calls' = [Calls EXCEPT ![t] = "answered"] /\ Calls[t] = "waiting"
    BY <2>6, <2>7, OneCallMoves, Zenon
  <2>9. Service!ServeRequest(t, b)
    BY <2>3, <2>4, <2>8, Zenon DEF Service!ServeRequest, Service!Front, Service!Request, Mutation
  <2> QED BY <2>9, Zenon DEF Service!Next
<1>3. CASE CommitFences
  <2>1. PICK b \in Boots : item[1] = FenceItem(b)
    <3>1. item[1] \in QueueItem /\ item[1].kind = "Fence"
      BY <1>0, <1>3, AppliedItem DEF CommitFences
    <3> QED BY <3>1, Zenon DEF QueueItem, FenceItem
  <2>2. item[1].boot = b
    BY <2>1 DEF FenceItem
  <2>3. /\ commit = "applying" /\ item' = <<>> /\ UNCHANGED <<queue, slot, owners>>
        /\ \/ UNCHANGED fenced_authorities
           \/ b \in owners /\ fenced_authorities' = fenced_authorities \cup {b}
    BY <1>3, <2>2, Zenon DEF CommitFences, ItemFinished
  <2>4. Line # <<>> /\ Head(Line) = FenceItem(b) /\ Line' = Tail(Line)
    BY <1>0, <2>1, <2>3, LineServed, Zenon
  <2>5. \A t \in Submitters : CallState(t)' = CallState(t)
    BY <2>3, Zenon DEF CallState, Unanswered
  <2>6. Calls' = Calls
    BY <2>5, CallsKept, Zenon
  <2>7. Service!ServeFence(b)
    BY <2>3, <2>4, <2>6, Zenon DEF Service!ServeFence, Service!Front, Service!Fence, FenceItem
  <2> QED BY <2>7, Zenon DEF Service!Next
<1>4. CASE CommitStops
  <2>1. /\ commit = "applying" /\ IsStop(item[1]) /\ item' = <<>> /\ commit' = "exited"
        /\ UNCHANGED <<queue, slot, owners, fenced_authorities>>
    BY <1>4, Zenon DEF CommitStops, IsStop
  <2>2. queue = <<>>
    BY <1>0, <2>1, AppliedItem DEF StopIsLast
  <2>3. Line' = <<>>
    BY <2>1, <2>2, EmptySeq, ConcatEmptySeq DEF Line
  <2>4. \A t \in Submitters : CallState(t)' = CallState(t)
    BY <2>1, Zenon DEF CallState, Unanswered
  <2>5. NobodyWaits
    <3>1. (OneRequestEach /\ queue = <<>> /\ item = <<>> => NobodyWaits)'
      BY EmptyLineIsQuiet, PTL
    <3>2. NobodyWaits'
      BY <2>1, <2>2, <3>1 DEF IInv
    <3> QED BY <2>1, <3>2, Zenon DEF NobodyWaits, Unanswered
  <2>6. Service!Clear
    BY <2>1, <2>3, <2>4, <2>5, NobodyCalls, CallsKept, Zenon DEF Service!Clear
  <2> QED BY <2>6, Zenon DEF Service!Next
<1> QED BY <1>1, <1>2, <1>3, <1>4, Zenon DEF CommitStep

(* start() and stop(): a load, a close, a line cleared, or nothing. *)
LEMMA OwnerServes ==
    ASSUME IInv, NoneLeftBehind, StartLoads \/ StopBegins \/ OwnerStep
    PROVE  Service!Next \/ UNCHANGED <<Line, Calls, owners, fenced_authorities>>
<1> USE DEF queue_vars, commit_vars, accept_vars, session_vars, canonical, OwnerMoves
<1>0. TypeOK /\ StopIsLast /\ StoppingFollowsOwner /\ CommitFollowsOwner /\ OneRequestEach
  BY Zenon DEF IInv
<1>1. CASE StartLoads
  <2>1. NobodyWaits /\ UNCHANGED <<queue, item, slot, owners>>
        /\ fenced_authorities' = fenced_authorities \cup owners
    BY <1>1, Zenon DEF StartLoads, IInv
  <2>2. \A t \in Submitters : CallState(t)' = CallState(t)
    BY <2>1, Zenon DEF CallState, Unanswered
  <2>3. Service!recover
    BY <2>1, <2>2, NobodyCalls, CallsKept DEF Service!recover, Line
  <2> QED BY <2>3, Zenon DEF Service!Next
<1>2. CASE StartFails \/ StopPushes
  <2>1. /\ owner \in {"running", "draining"} /\ queue' = Append(queue, StopItem)
        /\ UNCHANGED <<item, slot, owners, fenced_authorities>>
    BY <1>2, Zenon DEF StartFails, StopPushes
  <2>2. /\ \A i \in DOMAIN queue : ~IsStop(queue[i])
        /\ \A i \in DOMAIN item : ~IsStop(item[i])
    BY <1>0, <2>1, Zenon DEF StopIsLast
  <2>3. ~Service!Closed
    BY <1>0, <2>2, LineOpen
  <2>4. Line' = Append(Line, StopItem)
    BY <1>0, <2>1, ItemTypes, LinePushed, Zenon
  <2>5. \A t \in Submitters : CallState(t)' = CallState(t)
    BY <2>1, Zenon DEF CallState, Unanswered
  <2>6. Service!close
    BY <2>1, <2>3, <2>4, <2>5, CallsKept DEF Service!close, Service!Accept, Service!End, StopItem
  <2> QED BY <2>6, Zenon DEF Service!Next
<1>3. CASE StopAnswers
  <2>1. /\ owner = "answering" /\ queue' = <<>> /\ UNCHANGED <<item, owners, fenced_authorities>>
        /\ \A t \in Submitters : slot'[t] = IF Queued(t) THEN "done" ELSE slot[t]
    BY <1>3, Zenon DEF StopAnswers, Queued
  <2>2. NobodyWaits /\ item = <<>>
    BY <1>0, <2>1, NoItem DEF NoneLeftBehind, StoppingFollowsOwner, CommitFollowsOwner
  <2>3. \A t \in Submitters : slot'[t] = slot[t]
    BY <1>0, <2>1, <2>2 DEF NobodyWaits, OneRequestEach
  <2>4. \A t \in Submitters : CallState(t)' = CallState(t)
    BY <2>3, Zenon DEF CallState, Unanswered
  <2>5. Line' = <<>>
    BY <2>1, <2>2, EmptySeq, ConcatEmptySeq, Zenon DEF Line
  <2>6. Service!Clear
    BY <2>1, <2>2, <2>4, <2>5, NobodyCalls, CallsKept, Zenon DEF Service!Clear
  <2> QED BY <2>6, Zenon DEF Service!Next
<1>4. CASE ~(StartLoads \/ StartFails \/ StopPushes \/ StopAnswers)
  <2>1. UNCHANGED <<queue, item, slot, owners, fenced_authorities>>
    BY <1>4 DEF OwnerStep, StopBegins, StartClearsStopping, StartSpawnsCommit, StartRuns,
         StartListens, FailNotifies, FailJoins, StopClosesListener, StopClosesSessions,
         StopNotifies, StopJoinsCommit
  <2>2. \A t \in Submitters : CallState(t)' = CallState(t)
    BY <2>1, Zenon DEF CallState, Unanswered
  <2> QED BY <2>1, <2>2, CallsKept, Zenon DEF Line
<1> QED BY <1>1, <1>2, <1>3, <1>4

(* The accept thread and the workers: a fence, or nothing callers see. *)
LEMMA SessionServes ==
    ASSUME IInv, NEW s \in Sessions,
           \/ AcceptAdmits(s) \/ SessionEnds(s) \/ SessionSeesStop(s) \/ Detach(s)
           \/ \E b \in Boots : SessionHello(s, b)
    PROVE  Service!Next \/ UNCHANGED <<Line, Calls, owners, fenced_authorities>>
<1> USE DEF queue_vars, commit_vars, accept_vars, session_vars, canonical
<1>0. TypeOK /\ FenceIsNamed
  BY Zenon DEF IInv
<1>1. UNCHANGED <<item, slot, owners, fenced_authorities>>
  BY Zenon DEF AcceptAdmits, SessionEnds, SessionSeesStop, SessionHello, Detach, DetachErases,
         DetachReadsState, DetachFences, DetachNotifies, SessionExits
<1>2. \A t \in Submitters : CallState(t)' = CallState(t)
  BY <1>1, Zenon DEF CallState, Unanswered
<1>3. CASE DetachFences(s) /\ ~stopping
  <2>1. boot[s] \in Boots /\ queue' = Append(queue, FenceItem(boot[s]))
    BY <1>0, <1>3 DEF DetachFences, FencePushed, SessionMoves, FenceIsNamed, TypeOK
  <2>2. PICK b \in Boots : b = boot[s]
    BY <2>1, Zenon
  <2>3. Service!fence_boot(b)
    BY <1>1, <1>2, <1>3, <2>1, <2>2, FenceServes, Zenon
  <2> QED BY <2>3 DEF Service!Next
<1>4. CASE ~(DetachFences(s) /\ ~stopping)
  <2>1. queue' = queue
    BY <1>4, Zenon DEF AcceptAdmits, SessionEnds, SessionSeesStop, SessionHello, Detach, DetachErases,
         DetachReadsState, DetachFences, DetachNotifies, SessionExits, FencePushed
  <2> QED BY <1>1, <1>2, <2>1, CallsKept, Zenon DEF Line
<1> QED BY <1>3, <1>4, Zenon

(* Every step of every thread is a step of the service or changes nothing  *)
(* that callers see.                                                       *)
LEMMA ThreadsServe ==
    ASSUME IInv, IInv', NoneLeftBehind, [Next]_vars
    PROVE  Service!Next \/ UNCHANGED <<Line, Calls, owners, fenced_authorities>>
<1> DEFINE Served == Service!Next \/ UNCHANGED <<Line, Calls, owners, fenced_authorities>>
<1> SUFFICES Served
  BY Zenon
<1>1. ASSUME NEW t \in Submitters, NEW b \in Boots \cup {NoBoot}, Enqueue(t, b)
      PROVE  Served
  BY <1>1, EnqueueServes, Zenon DEF Service!Next
<1>2. ASSUME NEW t \in Callers,
             \/ CallerSubmits(t) \/ FenceBootNotifies(t) \/ \E b \in Boots : FenceBoot(t, b)
      PROVE  Served
  <2>1. t \in Submitters
    BY Zenon DEF Submitters
  <2> HIDE DEF Served
  <2>2. CASE CallerSubmits(t)
    BY <1>1, <2>1, <2>2 DEF CallerSubmits
  <2>3. CASE FenceBootNotifies(t) \/ \E b \in Boots : FenceBoot(t, b)
    BY <2>1, <2>3, SubmitterServes DEF Served
  <2> QED BY <1>2, <2>2, <2>3
<1>3. ASSUME NEW t \in Submitters, SubmitNotifies(t) \/ SubmitReturns(t)
      PROVE  Served
  BY <1>3, SubmitterServes, Zenon
<1>4. CASE CommitStep
  BY <1>4, CommitServes, Zenon
<1>5. ASSUME NEW s \in Sessions, SessionSubmits(s)
      PROVE  Served
  <2>1. s \in Submitters /\ boot[s] \in Boots \cup {NoBoot}
    BY Zenon DEF Submitters, IInv, TypeOK
  <2> HIDE DEF Served
  <2> QED BY <1>1, <1>5, <2>1, Zenon DEF SessionSubmits
<1>6. ASSUME NEW s \in Sessions,
             \/ AcceptAdmits(s) \/ SessionEnds(s) \/ SessionSeesStop(s) \/ Detach(s)
             \/ \E b \in Boots : SessionHello(s, b)
      PROVE  Served
  BY <1>6, SessionServes, Zenon
<1>7. CASE AcceptRegisters \/ AcceptExits \/ UNCHANGED vars
  <2>1. UNCHANGED <<queue, item, slot, owners, fenced_authorities>>
    BY <1>7, Zenon DEF AcceptRegisters, AcceptExits, vars, queue_vars, commit_vars, canonical
  <2>2. \A t \in Submitters : CallState(t)' = CallState(t)
    BY <2>1, Zenon DEF CallState, Unanswered
  <2> QED BY <2>1, <2>2, CallsKept, Zenon DEF Line
<1>8. CASE StartLoads \/ StopBegins \/ OwnerStep
  BY <1>8, OwnerServes, Zenon
<1> HIDE DEF Served
<1> QED BY <1>1, <1>2, <1>3, <1>4, <1>5, <1>6, <1>7, <1>8 DEF Next

(* The threads implement the commit service: accepted requests and fences  *)
(* are served in the order of acceptance, each once, at one instant before *)
(* its answer, by the commit thread and not by stop(), and durable state   *)
(* is loaded only when nobody waits.                                       *)
THEOREM ThreadsImplementService == Spec => SubmitIsAtomic
<1>1. Init => Service!Init
  <2> SUFFICES ASSUME Init PROVE Service!Init
    BY Zenon
  <2>1. Line = <<>>
    BY EmptySeq, ConcatEmptySeq, Zenon DEF Init, Line
  <2>2. Calls = [t \in Submitters |-> "idle"]
    BY Zenon DEF Init, Calls, CallState, Unanswered
  <2> QED BY <2>1, <2>2, Zenon DEF Init, Service!Init
<1>2. IInv /\ IInv' /\ NoneLeftBehind /\ [Next]_vars
      => [Service!Next]_<<Line, Calls, owners, fenced_authorities>>
  BY ThreadsServe, Zenon
<1> QED BY <1>1, <1>2, ThreadInvariant, EveryAcceptedIsServed, PTL
        DEF Spec, SubmitIsAtomic, Service!Spec
=============================================================================
