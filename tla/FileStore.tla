------------------------------- MODULE FileStore -------------------------------
(***************************************************************************)
(* FilePersistenceStore: a save writes a temporary file in the destination *)
(* directory and renames it over the container.  Each call into the        *)
(* operating system is a step of its own and may fail; the process may die *)
(* between any two, and another process may use the same path meanwhile    *)
(* (a coordinator started before the old one is gone, the inspection       *)
(* tool).                                                                  *)
(*                                                                         *)
(* What a process wrote survives its death.  (The code does not flush to   *)
(* the device, so the loss of power is outside this module.)  A file is    *)
(* the state it encodes and whether all of it was written: a container cut *)
(* short fails its length or checksum and is refused.  An operating system *)
(* gives no two live processes the same identifier but may reuse that of a *)
(* dead one.                                                               *)
(***************************************************************************)
EXTENDS Integers, FiniteSets

CONSTANTS
    Stores, States, NoContainer, Nothing,
    Pids,          \* process identifiers
    Refused,       \* what decoding an incomplete container gives
    RemovalFails,  \* whether std::remove may fail
    MaxSaves       \* bound on temporary_counter_ of one process

ASSUME FileAssumption ==
    /\ NoContainer \notin States /\ Nothing \notin States /\ NoContainer # Nothing
    /\ {"ok", "failed"} \cap (States \cup {NoContainer, Nothing}) = {}
    /\ Refused \notin States \cup {NoContainer, Nothing, "ok", "failed"}
    /\ RemovalFails \in BOOLEAN /\ MaxSaves \in Nat

VARIABLES
    container,     \* the file at path_
    temporaries,   \* the file at path_.tmp-<pid>-<counter>, for each name
    store          \* the store objects

vars == <<container, temporaries, store>>

Absent == [state |-> Nothing, whole |-> FALSE]
File == [state : States \cup {Nothing}, whole : BOOLEAN]
Names == Pids \X (1 .. MaxSaves)

(* temporary: temporary_path_; status: what the last call returned. *)
Store ==
    [pc : {"down", "idle", "open", "write", "rename", "done"},
     pid : Pids, temporary_counter : 0 .. MaxSaves, temporary : Names \cup {Nothing},
     saving : States \cup {Nothing},
     status : {"ok", "failed", Nothing, NoContainer, Refused} \cup States]

Live(s) == store[s].pc # "down"

Init ==
    /\ container = Absent
    /\ temporaries = [n \in Names |-> Absent]
    /\ store \in [Stores ->
          {[pc |-> "down", pid |-> p, temporary_counter |-> 0, temporary |-> Nothing,
            saving |-> Nothing, status |-> Nothing] : p \in Pids}]

(* A process starts and constructs its store. *)
Start(s, p) ==
    /\ ~Live(s)
    /\ \A t \in Stores : Live(t) => store[t].pid # p
    /\ store' = [store EXCEPT ![s] =
          [pc |-> "idle", pid |-> p, temporary_counter |-> 0, temporary |-> Nothing,
           saving |-> Nothing, status |-> Nothing]]
    /\ UNCHANGED <<container, temporaries>>

(* Between two calls the store has no temporary file, so its destructor    *)
(* has nothing to discard and an orderly end is a death as well.           *)
Die(s) ==
    /\ Live(s)
    /\ store' = [store EXCEPT ![s] = [@ EXCEPT !.pc = "down", !.temporary_counter = 0,
                                              !.temporary = Nothing, !.saving = Nothing,
                                              !.status = Nothing]]
    /\ UNCHANGED <<container, temporaries>>

(* discard_temporary: when the removal fails the name is forgotten anyway. *)
discard_temporary(s) ==
    \/ /\ store[s].temporary = Nothing \/ RemovalFails
       /\ UNCHANGED temporaries
    \/ /\ store[s].temporary # Nothing
       /\ temporaries' = [temporaries EXCEPT ![store[s].temporary] = Absent]

(* Mutated form: a save that fails leaves the file and its name behind. *)
FailedKeepsName(s) ==
    /\ store' = [store EXCEPT ![s] = [@ EXCEPT !.pc = "idle", !.saving = Nothing,
                                              !.status = "failed"]]
    /\ UNCHANGED <<container, temporaries>>

Failed(s) ==
    /\ discard_temporary(s)
    /\ store' = [store EXCEPT ![s] = [@ EXCEPT !.pc = "idle", !.temporary = Nothing,
                                              !.saving = Nothing, !.status = "failed"]]
    /\ UNCHANGED container

(* Mutated form: the temporary name leaves the process identifier out. *)
CounterOnly(s) ==
    <<CHOOSE p \in Pids : TRUE, store[s].temporary_counter + 1>>

TemporaryName(s) == <<store[s].pid, store[s].temporary_counter + 1>>

(* save: the state is encoded, what an earlier save left is discarded, and *)
(* the temporary file gets a name.                                         *)
save(s, x) ==
    /\ store[s].pc = "idle"
    /\ store[s].temporary_counter < MaxSaves
    /\ discard_temporary(s)
    /\ store' = [store EXCEPT ![s] = [@ EXCEPT !.pc = "open", !.saving = x, !.status = Nothing,
                                              !.temporary_counter = store[s].temporary_counter + 1,
                                              !.temporary = TemporaryName(s)]]
    /\ UNCHANGED container

(* The state does not fit the format, or no path is configured: no file is *)
(* touched.                                                                *)
EncodeFails(s) ==
    /\ store[s].pc = "idle"
    /\ store' = [store EXCEPT ![s].status = "failed"]
    /\ UNCHANGED <<container, temporaries>>

(* The file is created or truncated. *)
OpenTemporary(s) ==
    /\ store[s].pc = "open"
    /\ temporaries' = [temporaries EXCEPT ![store[s].temporary] =
          [state |-> store[s].saving, whole |-> FALSE]]
    /\ store' = [store EXCEPT ![s].pc = "write"]
    /\ UNCHANGED container

OpenFails(s) == store[s].pc = "open" /\ Failed(s)

WriteTemporary(s) ==
    /\ store[s].pc = "write"
    /\ temporaries' = [temporaries EXCEPT ![store[s].temporary] =
          [state |-> store[s].saving, whole |-> TRUE]]
    /\ store' = [store EXCEPT ![s].pc = "rename"]
    /\ UNCHANGED container

(* Mutated form: the stream is not checked after the write. *)
UncheckedWrite(s) ==
    store[s].pc = "write" /\ store' = [store EXCEPT ![s].pc = "rename"]
    /\ UNCHANGED <<container, temporaries>>

WriteFails(s) == store[s].pc = "write" /\ Failed(s)

(* std::rename *)
Rename(s) ==
    /\ store[s].pc = "rename"
    /\ container' = temporaries[store[s].temporary]
    /\ temporaries' = [temporaries EXCEPT ![store[s].temporary] = Absent]
    /\ store' = [store EXCEPT ![s].pc = "done"]

RenameFails(s) == store[s].pc = "rename" /\ Failed(s)

Saved(s) ==
    /\ store[s].pc = "done"
    /\ store' = [store EXCEPT ![s] = [@ EXCEPT !.pc = "idle", !.temporary = Nothing,
                                              !.saving = Nothing, !.status = "ok"]]
    /\ UNCHANGED <<container, temporaries>>

(* The container as decode_persisted_state sees it. *)
Decoded(f) ==
    IF f = Absent THEN NoContainer ELSE IF f.whole THEN f.state ELSE Refused

(* load: the container is opened, read to its end and decoded. *)
load(s) ==
    /\ store[s].pc = "idle"
    /\ store' = [store EXCEPT ![s].status = Decoded(container)]
    /\ UNCHANGED <<container, temporaries>>

(* The stream does not open.  The code takes that for a missing file,      *)
(* whether the container is absent or there and out of reach.              *)
ContainerUnopened(s) ==
    /\ store[s].pc = "idle"
    /\ store' = [store EXCEPT ![s].status = NoContainer]
    /\ UNCHANGED <<container, temporaries>>

(* The container opens but cannot be read to its end, or no path is        *)
(* configured.                                                             *)
ReadFails(s) ==
    /\ store[s].pc = "idle"
    /\ store' = [store EXCEPT ![s].status = "failed"]
    /\ UNCHANGED <<container, temporaries>>

Next ==
    \E s \in Stores :
        \/ \E p \in Pids : Start(s, p)
        \/ \E x \in States : save(s, x)
        \/ EncodeFails(s)
        \/ OpenTemporary(s) \/ OpenFails(s)
        \/ WriteTemporary(s) \/ WriteFails(s)
        \/ Rename(s) \/ RenameFails(s) \/ Saved(s)
        \/ load(s) \/ ContainerUnopened(s) \/ ReadFails(s)
        \/ Die(s)

Spec == Init /\ [][Next]_vars

-----------------------------------------------------------------------------
(***************************************************************************)
(* Properties.                                                             *)
(***************************************************************************)
TypeOK ==
    /\ container \in File
    /\ temporaries \in [Names -> File]
    /\ store \in [Stores -> Store]

(* The refinement mapping. *)
Disk == Decoded(container)

CallOf(v) == [saving |-> v.saving, applied |-> v.pc = "done", answer |-> v.status]
Calls == [s \in Stores |-> CallOf(store[s])]

Atomic == INSTANCE AtomicStore WITH disk <- Disk, call <- Calls

(* A save through the temporary file is a save into an atomic store: with  *)
(* every interleaving of two processes and every death between two calls   *)
(* into the operating system, a load that answers a state answers that of  *)
(* the last completed rename, never part of one or an older one, and a     *)
(* save answers ok exactly when its state was put in place.  The engine    *)
(* rolls a mutation back on that answer.  (A load may miss a container it  *)
(* cannot open: that answer says nothing of what the store holds.)         *)
SaveIsAtomic == Atomic!Spec

(* The file a process is about to rename holds the whole of the state it   *)
(* saves: no other process writes under the same name, also when an        *)
(* identifier is reused after a death.                                     *)
RenamesItsOwn ==
    \A s \in Stores :
        store[s].pc = "rename" =>
            temporaries[store[s].temporary] = [state |-> store[s].saving, whole |-> TRUE]

(* What makes both inductive: the committed file is whole, live processes  *)
(* have identifiers of their own, and a save in progress uses a name made  *)
(* of its process's identifier.                                            *)
StoreInv ==
    /\ TypeOK
    /\ container # Absent => container.whole /\ container.state \in States
    /\ \A s, t \in Stores :
          s # t /\ Live(s) /\ Live(t) => store[s].pid # store[t].pid
    /\ \A s \in Stores :
          IF store[s].pc \in {"down", "idle"}
          THEN store[s].saving = Nothing /\ store[s].temporary = Nothing
          ELSE /\ store[s].saving \in States /\ store[s].status = Nothing
               /\ store[s].temporary \in Names /\ store[s].temporary[1] = store[s].pid
    /\ \A s \in Stores : store[s].pc = "down" => store[s].status = Nothing
    /\ RenamesItsOwn
=============================================================================
