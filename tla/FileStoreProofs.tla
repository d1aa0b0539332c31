--------------------------- MODULE FileStoreProofs ---------------------------
(***************************************************************************)
(* The file store implements the atomic store, for any number of processes *)
(* and states: StoreInv is inductive, and under it every step of a save is *)
(* a step of AtomicStore or leaves its variables alone.                    *)
(***************************************************************************)
EXTENDS FileStore, TLAPS

(* The fields of a store object. *)
LEMMA StoreFields ==
    ASSUME StoreInv, NEW s \in Stores
    PROVE  /\ store[s] \in Store
           /\ store[s].pc \in {"down", "idle", "open", "write", "rename", "done"}
           /\ store[s].pid \in Pids
           /\ store[s].temporary_counter \in 0 .. MaxSaves
           /\ store[s].temporary \in Names \cup {Nothing}
           /\ store[s].saving \in States \cup {Nothing}
BY Zenon DEF StoreInv, TypeOK, Store

(* Two live processes never name the same temporary file. *)
LEMMA NamesApart ==
    ASSUME StoreInv, NEW s \in Stores, NEW t \in Stores, s # t,
           store[s].pc \notin {"down", "idle"}, store[t].pc \notin {"down", "idle"}
    PROVE  store[s].temporary # store[t].temporary
BY DEF StoreInv, Live

(* A step that changes one store object, gives it a well-formed value and  *)
(* leaves the files of the others alone keeps StoreInv.                    *)
LEMMA OneStoreStep ==
    ASSUME StoreInv, NEW s \in Stores, NEW v \in Store,
           store' = [store EXCEPT ![s] = v],
           container' \in File, temporaries' \in [Names -> File],
           container' # Absent => container'.whole /\ container'.state \in States,
           v.pc # "down" => \A t \in Stores : t # s /\ Live(t) => store[t].pid # v.pid,
           IF v.pc \in {"down", "idle"}
           THEN v.saving = Nothing /\ v.temporary = Nothing
           ELSE /\ v.saving \in States /\ v.status = Nothing
                /\ v.temporary \in Names /\ v.temporary[1] = v.pid,
           v.pc = "down" => v.status = Nothing,
           v.pc = "rename" => temporaries'[v.temporary] = [state |-> v.saving, whole |-> TRUE],
           \A t \in Stores : t # s /\ store[t].pc = "rename" =>
               temporaries'[store[t].temporary] = temporaries[store[t].temporary]
    PROVE  StoreInv'
<1>1. \A t \in Stores : store'[t] = IF t = s THEN v ELSE store[t]
  BY Zenon DEF StoreInv, TypeOK
<1>2. TypeOK'
  BY <1>1, Zenon DEF StoreInv, TypeOK
<1>3. RenamesItsOwn'
  <2> SUFFICES ASSUME NEW t \in Stores, store'[t].pc = "rename"
               PROVE  temporaries'[store'[t].temporary]
                          = [state |-> store'[t].saving, whole |-> TRUE]
    BY Zenon DEF RenamesItsOwn
  <2>1. CASE t = s
    BY <1>1, <2>1, Zenon
  <2>2. CASE t # s
    <3>1. store'[t] = store[t] /\ store[t].pc = "rename"
      BY <1>1, <2>2, Zenon
    <3>2. temporaries[store[t].temporary] = [state |-> store[t].saving, whole |-> TRUE]
      BY <3>1, Zenon DEF StoreInv, RenamesItsOwn
    <3> QED BY <2>2, <3>1, <3>2, Zenon
  <2> QED BY <2>1, <2>2, Zenon
<1>4. \A t, u \in Stores : t # u /\ Live(t)' /\ Live(u)' => store'[t].pid # store'[u].pid
  BY <1>1 DEF StoreInv, Live
<1>5. \A t \in Stores :
          IF store'[t].pc \in {"down", "idle"}
          THEN store'[t].saving = Nothing /\ store'[t].temporary = Nothing
          ELSE /\ store'[t].saving \in States /\ store'[t].status = Nothing
               /\ store'[t].temporary \in Names /\ store'[t].temporary[1] = store'[t].pid
  BY <1>1 DEF StoreInv
<1>6. \A t \in Stores : store'[t].pc = "down" => store'[t].status = Nothing
  BY <1>1 DEF StoreInv
<1> QED BY <1>2, <1>3, <1>4, <1>5, <1>6, Zenon DEF StoreInv

(* As above, for a step that leaves the object without a save in progress  *)
(* and the container alone.                                                *)
LEMMA RestingStep ==
    ASSUME StoreInv, NEW s \in Stores, NEW v \in Store,
           store' = [store EXCEPT ![s] = v], container' = container,
           temporaries' \in [Names -> File],
           v.pc \in {"down", "idle"}, v.saving = Nothing, v.temporary = Nothing,
           v.pc = "down" => v.status = Nothing,
           v.pc # "down" => \A t \in Stores : t # s /\ Live(t) => store[t].pid # v.pid,
           \A t \in Stores : t # s /\ store[t].pc = "rename" =>
               temporaries'[store[t].temporary] = temporaries[store[t].temporary]
    PROVE  StoreInv'
<1>1. container' \in File
  BY Zenon DEF StoreInv, TypeOK
<1>2. container' # Absent => container'.whole /\ container'.state \in States
  BY Zenon DEF StoreInv
<1>3. v.pc # "rename"
  BY Zenon
<1>4. IF v.pc \in {"down", "idle"}
      THEN v.saving = Nothing /\ v.temporary = Nothing
      ELSE /\ v.saving \in States /\ v.status = Nothing
           /\ v.temporary \in Names /\ v.temporary[1] = v.pid
  BY Zenon
<1> QED BY <1>1, <1>2, <1>3, <1>4, OneStoreStep, Zenon

(* The files stay what they are. *)
LEMMA FilesTyped ==
    ASSUME StoreInv, UNCHANGED temporaries
    PROVE  /\ temporaries' \in [Names -> File]
           /\ \A t \in Stores : temporaries'[store[t].temporary] = temporaries[store[t].temporary]
BY Zenon DEF StoreInv, TypeOK

(* The initial state. *)
LEMMA StoreInvInit == Init => StoreInv
<1> SUFFICES ASSUME Init PROVE StoreInv
  BY Zenon
<1>1. TypeOK
  BY FileAssumption DEF Init, TypeOK, File, Absent, Store
<1> QED BY <1>1 DEF Init, StoreInv, Live, RenamesItsOwn, Absent

(* Every step keeps StoreInv.  The steps that write under a temporary name *)
(* use NamesApart: the other processes' files are not theirs.              *)
LEMMA StoreInvNext == StoreInv /\ [Next]_vars => StoreInv'
<1> SUFFICES ASSUME StoreInv, [Next]_vars PROVE StoreInv'
  BY Zenon
<1>1. CASE UNCHANGED vars
  BY <1>1, Zenon DEF vars, StoreInv, TypeOK, Live, RenamesItsOwn
<1>2. ASSUME NEW s \in Stores, NEW p \in Pids, Start(s, p) PROVE StoreInv'
  <2> DEFINE v == [pc |-> "idle", pid |-> p, temporary_counter |-> 0, temporary |-> Nothing,
                   saving |-> Nothing, status |-> Nothing]
  <2>1. v \in Store
    BY FileAssumption DEF Store
  <2>2. store' = [store EXCEPT ![s] = v] /\ UNCHANGED <<container, temporaries>>
    BY <1>2, Zenon DEF Start
  <2>3. \A t \in Stores : t # s /\ Live(t) => store[t].pid # v.pid
    BY <1>2, Zenon DEF Start
  <2> HIDE DEF v
  <2> QED
    <3>1. v.pc = "idle" /\ v.saving = Nothing /\ v.temporary = Nothing
      BY Zenon DEF v
    <3> QED BY <2>1, <2>2, <2>3, <3>1, FilesTyped, RestingStep, Zenon
<1>3. ASSUME NEW s \in Stores, Die(s) PROVE StoreInv'
  <2> DEFINE v == [store[s] EXCEPT !.pc = "down", !.temporary_counter = 0,
                                   !.temporary = Nothing, !.saving = Nothing,
                                   !.status = Nothing]
  <2>1. v \in Store /\ v.pc = "down" /\ v.saving = Nothing /\ v.temporary = Nothing
        /\ v.status = Nothing
    <3>1. store[s] \in Store /\ 0 \in 0 .. MaxSaves
      BY StoreFields, FileAssumption
    <3> QED BY <3>1, Zenon DEF Store
  <2>2. store' = [store EXCEPT ![s] = v] /\ UNCHANGED <<container, temporaries>>
    BY <1>3, Zenon DEF Die
  <2> HIDE DEF v
  <2> QED BY <2>1, <2>2, FilesTyped, RestingStep, Zenon
<1>4. ASSUME NEW s \in Stores, store[s].pc \in {"open", "write", "rename"}, Failed(s)
      PROVE  StoreInv'
  <2> DEFINE v == [store[s] EXCEPT !.pc = "idle", !.temporary = Nothing,
                                   !.saving = Nothing, !.status = "failed"]
  <2>1. v \in Store /\ v.pc = "idle" /\ v.saving = Nothing /\ v.temporary = Nothing
        /\ v.pid = store[s].pid
    <3>1. store[s] \in Store
      BY StoreFields, Zenon
    <3> QED BY <3>1, Zenon DEF Store
  <2>2. store' = [store EXCEPT ![s] = v] /\ container' = container
    BY <1>4, Zenon DEF Failed
  <2>3. temporaries' \in [Names -> File]
    <3>1. Absent \in File
      BY Zenon DEF File, Absent
    <3>2. temporaries \in [Names -> File]
      BY Zenon DEF StoreInv, TypeOK
    <3> QED BY <1>4, <3>1, <3>2, Zenon DEF Failed, discard_temporary
  <2>4. \A t \in Stores : t # s /\ store[t].pc = "rename" =>
            temporaries'[store[t].temporary] = temporaries[store[t].temporary]
    BY <1>4, NamesApart DEF Failed, discard_temporary, StoreInv, TypeOK
  <2>5. \A t \in Stores : t # s /\ Live(t) => store[t].pid # v.pid
    BY <1>4, <2>1 DEF StoreInv, Live
  <2> HIDE DEF v
  <2> QED BY <2>1, <2>2, <2>3, <2>4, <2>5, RestingStep, Zenon
<1>5. ASSUME NEW s \in Stores, NEW x \in States, save(s, x) PROVE StoreInv'
  <2> DEFINE v == [store[s] EXCEPT !.pc = "open", !.saving = x, !.status = Nothing,
                                   !.temporary_counter = store[s].temporary_counter + 1,
                                   !.temporary = TemporaryName(s)]
  <2>1. TemporaryName(s) \in Names /\ TemporaryName(s)[1] = store[s].pid
    BY <1>5, StoreFields, FileAssumption DEF save, TemporaryName, Names
  <2>2. v \in Store /\ v.pc = "open" /\ v.saving = x /\ v.temporary = TemporaryName(s)
        /\ v.pid = store[s].pid /\ v.status = Nothing
    <3>1. store[s] \in Store /\ store[s].temporary_counter + 1 \in 0 .. MaxSaves
      BY <1>5, StoreFields, FileAssumption DEF save
    <3> QED BY <2>1, <3>1, Zenon DEF Store
  <2>3. store' = [store EXCEPT ![s] = v] /\ UNCHANGED <<container, temporaries>>
    <3>1. store[s].temporary = Nothing
      BY <1>5, Zenon DEF save, StoreInv
    <3>2. UNCHANGED <<container, temporaries>>
      BY <1>5, <3>1, Zenon DEF save, discard_temporary
    <3>3. store' = [store EXCEPT ![s] = v]
      BY <1>5, Zenon DEF save
    <3> QED BY <3>2, <3>3, Zenon
  <2>4. \A t \in Stores : t # s /\ Live(t) => store[t].pid # v.pid
    BY <1>5, <2>2 DEF StoreInv, Live, save
  <2>5. container' \in File
        /\ (container' # Absent => container'.whole /\ container'.state \in States)
    BY <2>3, Zenon DEF StoreInv, TypeOK
  <2>6. v.pc \notin {"down", "idle", "rename"} /\ v.saving \in States /\ v.status = Nothing
        /\ v.temporary \in Names /\ v.temporary[1] = v.pid
    BY <2>1, <2>2, Zenon
  <2> HIDE DEF v
  <2> QED BY <2>2, <2>3, <2>4, <2>5, <2>6, FilesTyped, OneStoreStep, Zenon
<1>6. ASSUME NEW s \in Stores, OpenTemporary(s) \/ WriteTemporary(s) PROVE StoreInv'
  <2> DEFINE whole == store[s].pc = "write"
             v == [store[s] EXCEPT !.pc = IF whole THEN "rename" ELSE "write"]
             f == [state |-> store[s].saving, whole |-> whole]
  <2>1. store[s].pc \in {"open", "write"}
    BY <1>6, Zenon DEF OpenTemporary, WriteTemporary
  <2>2. v \in Store /\ v.pc \in {"write", "rename"} /\ v.saving = store[s].saving
        /\ v.temporary = store[s].temporary /\ v.pid = store[s].pid
        /\ v.status = store[s].status /\ (v.pc = "rename" => whole)
    BY <2>1 DEF StoreInv, TypeOK, Store
  <2>3. store' = [store EXCEPT ![s] = v] /\ container' = container
        /\ temporaries' = [temporaries EXCEPT ![store[s].temporary] = f]
    BY <1>6, Zenon DEF OpenTemporary, WriteTemporary
  <2>4. store[s].temporary \in Names /\ store[s].saving \in States
        /\ store[s].status = Nothing /\ store[s].temporary[1] = store[s].pid
    BY <2>1, Zenon DEF StoreInv
  <2>5. f \in File
    BY <2>4, Zenon DEF File
  <2>6. temporaries' \in [Names -> File] /\ temporaries'[store[s].temporary] = f
    BY <2>3, <2>4, <2>5, Zenon DEF StoreInv, TypeOK
  <2>7. \A t \in Stores : t # s /\ store[t].pc = "rename" =>
            temporaries'[store[t].temporary] = temporaries[store[t].temporary]
    BY <2>1, <2>3, NamesApart, Zenon DEF StoreInv, TypeOK
  <2>8. \A t \in Stores : t # s /\ Live(t) => store[t].pid # v.pid
    BY <2>1, <2>2 DEF StoreInv, Live
  <2>9. v.pc = "rename" => temporaries'[v.temporary] = [state |-> v.saving, whole |-> TRUE]
    BY <2>2, <2>6, Zenon
  <2>10. container' \in File
         /\ (container' # Absent => container'.whole /\ container'.state \in States)
    BY <2>3, Zenon DEF StoreInv, TypeOK
  <2>11. v.pc \notin {"down", "idle"} /\ v.saving \in States /\ v.status = Nothing
         /\ v.temporary \in Names /\ v.temporary[1] = v.pid
    BY <2>2, <2>4, Zenon
  <2> HIDE DEF v, f, whole
  <2> QED BY <2>2, <2>3, <2>6, <2>7, <2>8, <2>9, <2>10, <2>11, OneStoreStep, Zenon
<1>7. ASSUME NEW s \in Stores, Rename(s) PROVE StoreInv'
  <2> DEFINE v == [store[s] EXCEPT !.pc = "done"]
  <2>1. store[s].pc = "rename"
    BY <1>7, Zenon DEF Rename
  <2>2. v \in Store /\ v.pc = "done" /\ v.saving = store[s].saving
        /\ v.temporary = store[s].temporary /\ v.pid = store[s].pid
        /\ v.status = store[s].status
    BY DEF StoreInv, TypeOK, Store
  <2>3. store' = [store EXCEPT ![s] = v]
        /\ temporaries' = [temporaries EXCEPT ![store[s].temporary] = Absent]
    BY <1>7, Zenon DEF Rename
  <2>4. container' = [state |-> store[s].saving, whole |-> TRUE]
    BY <1>7, <2>1, Zenon DEF Rename, StoreInv, RenamesItsOwn
  <2>5. store[s].temporary \in Names /\ store[s].saving \in States
        /\ store[s].status = Nothing /\ store[s].temporary[1] = store[s].pid
    BY <2>1, Zenon DEF StoreInv
  <2>6. container' \in File /\ container'.whole /\ container'.state \in States
    BY <2>4, <2>5, Zenon DEF File
  <2>7. temporaries' \in [Names -> File]
    BY <2>3, Zenon DEF StoreInv, TypeOK, File, Absent
  <2>8. \A t \in Stores : t # s /\ store[t].pc = "rename" =>
            temporaries'[store[t].temporary] = temporaries[store[t].temporary]
    BY <2>1, <2>3, NamesApart, Zenon DEF StoreInv, TypeOK
  <2>9. \A t \in Stores : t # s /\ Live(t) => store[t].pid # v.pid
    BY <2>1, <2>2 DEF StoreInv, Live
  <2>10. v.pc \notin {"down", "idle", "rename"} /\ v.saving \in States /\ v.status = Nothing
         /\ v.temporary \in Names /\ v.temporary[1] = v.pid
    BY <2>2, <2>5, Zenon
  <2>11. v \in Store /\ store' = [store EXCEPT ![s] = v]
    BY <2>2, <2>3, Zenon
  <2> HIDE DEF v
  <2> QED BY <2>6, <2>7, <2>8, <2>9, <2>10, <2>11, OneStoreStep, Zenon
<1>8. ASSUME NEW s \in Stores, Saved(s) PROVE StoreInv'
  <2> DEFINE v == [store[s] EXCEPT !.pc = "idle", !.temporary = Nothing,
                                   !.saving = Nothing, !.status = "ok"]
  <2>1. v \in Store /\ v.pc = "idle" /\ v.saving = Nothing /\ v.temporary = Nothing
        /\ v.pid = store[s].pid
    <3>1. store[s] \in Store
      BY StoreFields, Zenon
    <3> QED BY <3>1, Zenon DEF Store
  <2>2. store' = [store EXCEPT ![s] = v] /\ UNCHANGED <<container, temporaries>>
    BY <1>8, Zenon DEF Saved
  <2>3. \A t \in Stores : t # s /\ Live(t) => store[t].pid # v.pid
    BY <1>8, <2>1 DEF StoreInv, Live, Saved
  <2> HIDE DEF v
  <2> QED BY <2>1, <2>2, <2>3, FilesTyped, RestingStep, Zenon
<1>9. ASSUME NEW s \in Stores, EncodeFails(s) \/ load(s) \/ ContainerUnopened(s) \/ ReadFails(s)
      PROVE  StoreInv'
  <2>1. PICK a \in {"failed", NoContainer, Decoded(container)} :
          store' = [store EXCEPT ![s].status = a]
    BY <1>9, Zenon DEF EncodeFails, load, ContainerUnopened, ReadFails
  <2> DEFINE v == [store[s] EXCEPT !.status = a]
  <2>2. store[s].pc = "idle" /\ UNCHANGED <<container, temporaries>>
    BY <1>9, Zenon DEF EncodeFails, load, ContainerUnopened, ReadFails
  <2>3. a \in {"failed", NoContainer, Refused} \cup States
    BY <2>1, Zenon DEF Decoded, StoreInv
  <2>4. v \in Store /\ v.pc = "idle" /\ v.saving = store[s].saving
        /\ v.temporary = store[s].temporary /\ v.pid = store[s].pid
    BY <2>2, <2>3 DEF StoreInv, TypeOK, Store
  <2>5. store' = [store EXCEPT ![s] = v]
    BY <2>1, Zenon
  <2>6. \A t \in Stores : t # s /\ Live(t) => store[t].pid # v.pid
    BY <2>2, <2>4 DEF StoreInv, Live
  <2>7. v.saving = Nothing /\ v.temporary = Nothing
    BY <2>2, <2>4, Zenon DEF StoreInv
  <2> HIDE DEF v
  <2> QED BY <2>2, <2>4, <2>5, <2>6, <2>7, FilesTyped, RestingStep, Zenon
<1> QED BY <1>1, <1>2, <1>3, <1>4, <1>5, <1>6, <1>7, <1>8, <1>9, Zenon
        DEF Next, OpenFails, WriteFails, RenameFails

(* The mapped calls after a step that changes one store object. *)
LEMMA OneCallStep ==
    ASSUME StoreInv, NEW s \in Stores, NEW v, store' = [store EXCEPT ![s] = v]
    PROVE  Calls' = [Calls EXCEPT ![s] = CallOf(v)]
BY Zenon DEF StoreInv, TypeOK, Calls

(* Every step of the file store is a step of the atomic store or leaves    *)
(* its variables alone: the rename is the instant at which a save applies. *)
LEMMA StepRefines == StoreInv /\ [Next]_vars => [Atomic!Next]_<<Disk, Calls>>
<1> SUFFICES ASSUME StoreInv, [Next]_vars
             PROVE  Atomic!Next \/ UNCHANGED <<Disk, Calls>>
  BY Zenon
<1>0. \A s \in Stores : /\ Calls[s].saving = store[s].saving
                         /\ Calls[s].answer = store[s].status
                         /\ Calls[s] = CallOf(store[s])
  BY Zenon DEF Calls, CallOf
<1>a. \A s \in Stores : Calls[s].applied <=> store[s].pc = "done"
  BY Zenon DEF Calls, CallOf
<1>1. CASE UNCHANGED vars
  BY <1>1, Zenon DEF vars, Disk, Calls
<1>2. ASSUME NEW s \in Stores, NEW p \in Pids, Start(s, p)
      PROVE  UNCHANGED <<Disk, Calls>>
  <2>1. store[s].saving = Nothing /\ store[s].status = Nothing /\ store[s].pc = "down"
    BY <1>2, Zenon DEF StoreInv, Start, Live
  <2>2. Calls' = [Calls EXCEPT ![s] = CallOf(store[s])]
    BY <1>2, <2>1, OneCallStep DEF Start, CallOf
  <2>3. Calls' = Calls
    BY <1>0, <2>2, Zenon DEF Calls
  <2> QED BY <1>2, <2>3, Zenon DEF Start, Disk
<1>3. ASSUME NEW s \in Stores, Die(s) PROVE Atomic!Die(s)
  <2> DEFINE v == [store[s] EXCEPT !.pc = "down", !.temporary_counter = 0,
                                   !.temporary = Nothing, !.saving = Nothing,
                                   !.status = Nothing]
  <2>1. CallOf(v) = Atomic!Answered(Nothing)
    BY StoreFields DEF CallOf, Atomic!Answered, Store
  <2>2. Calls' = [Calls EXCEPT ![s] = CallOf(v)]
    BY <1>3, OneCallStep, Zenon DEF Die
  <2> QED BY <1>3, <2>1, <2>2, Zenon DEF Die, Disk, Atomic!Die
<1>4. ASSUME NEW s \in Stores, store[s].pc \in {"open", "write", "rename"}, Failed(s)
      PROVE  Atomic!Return(s)
  <2> DEFINE v == [store[s] EXCEPT !.pc = "idle", !.temporary = Nothing,
                                   !.saving = Nothing, !.status = "failed"]
  <2>1. CallOf(v) = Atomic!Answered("failed")
    BY StoreFields DEF CallOf, Atomic!Answered, Store
  <2>2. Calls' = [Calls EXCEPT ![s] = CallOf(v)]
    BY <1>4, OneCallStep, Zenon DEF Failed
  <2>3. Calls[s].saving # Nothing
    BY <1>0, <1>4, FileAssumption DEF StoreInv
  <2>4. ~Calls[s].applied
    <3>1. store[s].pc # "done"
      BY <1>4, Zenon
    <3> QED BY <1>a, <3>1, Zenon
  <2>5. Disk' = Disk
    BY <1>4, Zenon DEF Failed, Disk
  <2>6. (IF Calls[s].applied THEN "ok" ELSE "failed") = "failed"
    BY <2>4, Zenon
  <2> QED BY <2>1, <2>2, <2>3, <2>5, <2>6, Zenon DEF Atomic!Return
<1>5. ASSUME NEW s \in Stores, NEW x \in States, save(s, x) PROVE Atomic!save(s, x)
  <2> DEFINE v == [store[s] EXCEPT !.pc = "open", !.saving = x, !.status = Nothing,
                                   !.temporary_counter = store[s].temporary_counter + 1,
                                   !.temporary = TemporaryName(s)]
  <2>1. CallOf(v) = Atomic!Saving(x, FALSE)
    BY StoreFields DEF CallOf, Store, Atomic!Saving
  <2>2. store' = [store EXCEPT ![s] = v]
    BY <1>5, Zenon DEF save
  <2>3. Calls' = [Calls EXCEPT ![s] = CallOf(v)]
    BY <2>2, OneCallStep, Zenon
  <2>4. Calls[s].saving = Nothing
    BY <1>0, <1>5, Zenon DEF StoreInv, save
  <2> QED BY <1>5, <2>1, <2>3, <2>4, Zenon DEF save, Disk, Atomic!save
<1>6. ASSUME NEW s \in Stores, OpenTemporary(s) \/ WriteTemporary(s)
      PROVE  UNCHANGED <<Disk, Calls>>
  <2>1. PICK c \in {"write", "rename"} : store' = [store EXCEPT ![s].pc = c]
    BY <1>6, Zenon DEF OpenTemporary, WriteTemporary
  <2>2. store' = [store EXCEPT ![s] = [store[s] EXCEPT !.pc = c]]
    BY <2>1, Zenon
  <2>3. CallOf([store[s] EXCEPT !.pc = c]) = CallOf(store[s])
    BY <1>6, StoreFields DEF CallOf, Store, OpenTemporary, WriteTemporary
  <2>4. Calls' = [Calls EXCEPT ![s] = CallOf(store[s])]
    BY <2>2, <2>3, OneCallStep, Zenon
  <2>5. Calls' = Calls
    BY <1>0, <2>4, Zenon DEF Calls
  <2> QED BY <1>6, <2>5, Zenon DEF OpenTemporary, WriteTemporary, Disk
<1>7. ASSUME NEW s \in Stores, Rename(s) PROVE Atomic!Apply(s)
  <2>1. store' = [store EXCEPT ![s] = [store[s] EXCEPT !.pc = "done"]]
    BY <1>7, Zenon DEF Rename
  <2>2. CallOf([store[s] EXCEPT !.pc = "done"]) = Atomic!Saving(store[s].saving, TRUE)
    <3>1. store[s].status = Nothing
      BY <1>7, Zenon DEF StoreInv, Rename
    <3> QED BY <3>1, StoreFields DEF CallOf, Store, Atomic!Saving
  <2>3. Calls' = [Calls EXCEPT ![s] = Atomic!Saving(Calls[s].saving, TRUE)]
    <3>1. Calls' = [Calls EXCEPT ![s] = Atomic!Saving(store[s].saving, TRUE)]
      BY <2>1, <2>2, OneCallStep, Zenon
    <3>2. Calls[s].saving = store[s].saving
      BY <1>0, Zenon
    <3> QED BY <3>1, <3>2, Zenon
  <2>4. container' = [state |-> store[s].saving, whole |-> TRUE]
    BY <1>7, Zenon DEF Rename, StoreInv, RenamesItsOwn
  <2>5. Disk' = Calls[s].saving
    BY <1>0, <2>4, Zenon DEF Disk, Decoded, Absent
  <2>6. Calls[s].saving # Nothing /\ store[s].pc # "done"
    BY <1>0, <1>7, FileAssumption DEF StoreInv, Rename
  <2>7. ~Calls[s].applied
    BY <1>a, <2>6, Zenon
  <2> QED BY <2>3, <2>5, <2>6, <2>7, Zenon DEF Atomic!Apply
<1>8. ASSUME NEW s \in Stores, Saved(s) PROVE Atomic!Return(s)
  <2> DEFINE v == [store[s] EXCEPT !.pc = "idle", !.temporary = Nothing,
                                   !.saving = Nothing, !.status = "ok"]
  <2>1. CallOf(v) = Atomic!Answered("ok")
    BY StoreFields DEF CallOf, Atomic!Answered, Store
  <2>2. Calls' = [Calls EXCEPT ![s] = CallOf(v)]
    BY <1>8, OneCallStep, Zenon DEF Saved
  <2>3. Calls[s].saving # Nothing /\ store[s].pc = "done" /\ Disk' = Disk
    BY <1>0, <1>8, FileAssumption DEF StoreInv, Saved, Disk
  <2>4. (IF Calls[s].applied THEN "ok" ELSE "failed") = "ok"
    BY <1>a, <2>3, Zenon
  <2> QED BY <2>1, <2>2, <2>3, <2>4, Zenon DEF Atomic!Return
<1>9. ASSUME NEW s \in Stores, EncodeFails(s) \/ load(s) \/ ContainerUnopened(s) \/ ReadFails(s)
      PROVE  Atomic!Refuse(s) \/ Atomic!load(s) \/ Atomic!Miss(s)
  <2>1. PICK a \in {"failed", NoContainer, Disk} : store' = [store EXCEPT ![s].status = a]
    BY <1>9, Zenon DEF EncodeFails, load, ContainerUnopened, ReadFails, Disk
  <2>2. store[s].pc = "idle" /\ Disk' = Disk
    BY <1>9, Zenon DEF EncodeFails, load, ContainerUnopened, ReadFails, Disk
  <2>3. CallOf([store[s] EXCEPT !.status = a]) = Atomic!Answered(a)
    BY <2>2, StoreFields DEF CallOf, Store, StoreInv, Atomic!Answered
  <2>4. Calls' = [Calls EXCEPT ![s] = Atomic!Answered(a)]
    BY <2>1, <2>3, OneCallStep, Zenon
  <2>5. Calls[s].saving = Nothing
    BY <1>0, <2>2, Zenon DEF StoreInv
  <2> QED BY <2>1, <2>2, <2>4, <2>5, Zenon DEF Atomic!Refuse, Atomic!load, Atomic!Miss
<1> QED BY <1>1, <1>2, <1>3, <1>4, <1>5, <1>6, <1>7, <1>8, <1>9, Zenon
        DEF Next, OpenFails, WriteFails, RenameFails, Atomic!Next

(* StoreInv, and with it RenamesItsOwn, holds always. *)
THEOREM FilesStayApart == Spec => [](StoreInv /\ RenamesItsOwn)
<1>1. StoreInv => RenamesItsOwn
  BY Zenon DEF StoreInv
<1> QED BY <1>1, StoreInvInit, StoreInvNext, PTL DEF Spec

(* FilePersistenceStore implements the atomic store its callers rely on:   *)
(* a crash between any two steps of a save leaves the old or the new       *)
(* container, the answer of a save is right, and a load that answers a     *)
(* state answers that container.                                           *)
THEOREM SaveRefinesAtomicStore == Spec => SaveIsAtomic
<1>1. Init => Atomic!Init
  <2> SUFFICES ASSUME Init PROVE Atomic!Init
    BY Zenon
  <2>1. Disk = NoContainer
    BY Zenon DEF Init, Disk, Decoded
  <2>2. \A s \in Stores : CallOf(store[s]) = Atomic!Answered(Nothing)
    <3> SUFFICES ASSUME NEW s \in Stores PROVE CallOf(store[s]) = Atomic!Answered(Nothing)
      BY Zenon
    <3>1. store[s].pc = "down" /\ store[s].saving = Nothing /\ store[s].status = Nothing
      BY DEF Init
    <3> QED BY <3>1, Zenon DEF CallOf, Atomic!Answered
  <2> QED BY <2>1, <2>2, Zenon DEF Calls, Atomic!Init
<1> QED BY <1>1, FilesStayApart, StepRefines, PTL DEF Spec, SaveIsAtomic, Atomic!Spec
=============================================================================
