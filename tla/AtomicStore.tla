------------------------------ MODULE AtomicStore ------------------------------
(***************************************************************************)
(* What PersistenceStore promises the commit engine: a save takes effect   *)
(* at one instant or not at all, and its answer says which.  Only the      *)
(* death of the caller's process leaves it unknown.  A load that answers a *)
(* state answers the one in place; it may also fail, or answer that there  *)
(* is no container when it cannot reach the one there is.                  *)
(* MemoryPersistenceStore is this store without those two failures.        *)
(***************************************************************************)
CONSTANTS
    Stores,        \* store objects, each in a process of its own
    States,        \* PersistedState values
    NoContainer,   \* the store holds no container
    Nothing        \* no argument, no answer

VARIABLES
    disk,          \* the container
    call           \* per store object: its call in progress and its last answer

Answers == {"ok", "failed", Nothing, NoContainer} \cup States

Call == [saving : States \cup {Nothing}, applied : BOOLEAN, answer : Answers]

Saving(x, applied) == [saving |-> x, applied |-> applied, answer |-> Nothing]
Answered(a) == [saving |-> Nothing, applied |-> FALSE, answer |-> a]

Init ==
    /\ disk = NoContainer
    /\ call = [s \in Stores |-> Answered(Nothing)]

save(s, x) ==
    /\ call[s].saving = Nothing
    /\ call' = [call EXCEPT ![s] = Saving(x, FALSE)]
    /\ UNCHANGED disk

(* The state could not be encoded, or the container could not be read. *)
Refuse(s) ==
    /\ call[s].saving = Nothing
    /\ call' = [call EXCEPT ![s] = Answered("failed")]
    /\ UNCHANGED disk

Apply(s) ==
    /\ call[s].saving # Nothing /\ ~call[s].applied
    /\ disk' = call[s].saving
    /\ call' = [call EXCEPT ![s] = Saving(call[s].saving, TRUE)]

Return(s) ==
    /\ call[s].saving # Nothing
    /\ call' = [call EXCEPT ![s] = Answered(IF call[s].applied THEN "ok" ELSE "failed")]
    /\ UNCHANGED disk

load(s) ==
    /\ call[s].saving = Nothing
    /\ call' = [call EXCEPT ![s] = Answered(disk)]
    /\ UNCHANGED disk

(* The container could not be opened: the answer is that of an empty store. *)
Miss(s) ==
    /\ call[s].saving = Nothing
    /\ call' = [call EXCEPT ![s] = Answered(NoContainer)]
    /\ UNCHANGED disk

Die(s) ==
    /\ call' = [call EXCEPT ![s] = Answered(Nothing)]
    /\ UNCHANGED disk

Next ==
    \E s \in Stores :
        \/ \E x \in States : save(s, x)
        \/ Refuse(s) \/ Apply(s) \/ Return(s) \/ load(s) \/ Miss(s) \/ Die(s)

Spec == Init /\ [][Next]_<<disk, call>>
=============================================================================
