------------------------- MODULE RequestCreationProofs -------------------------
(***************************************************************************)
(* Theorems about RequestCreation for every set of items, keys, handlers   *)
(* and instances, and every bound.                                         *)
(***************************************************************************)
EXTENDS RequestCreation, TLAPS

(***************************************************************************)
(* What a handler's place says about the operation it works on.  A POST    *)
(* has one owner; a reconciliation may share its operation only with those *)
(* of other instances.                                                     *)
(***************************************************************************)
Labels == Owning \cup {"idle", "joined", "confirming", "beginning"}
Live(k) == ops[k].status \in {"pending", "uncertain", "created"}

Ownership ==
    \A h \in Handlers :
       /\ pc[h] # "idle" => opKey[h] \in Keys
       /\ pc[h] \in Owning => Live(opKey[h]) /\ ops[opKey[h]].fp = body[h]
       /\ pc[h] \in {"posting", "saved"} => ops[opKey[h]].status = "pending"
       /\ \A g \in Handlers :
            (pc[h] \in {"posting", "saved"} /\ pc[g] \in Owning /\ opKey[g] = opKey[h]) => g = h

(***************************************************************************)
(* What the wire and Seerr know belongs to live operations: an operation   *)
(* is failed, or forgotten, only if its POST is over and was refused.      *)
(***************************************************************************)
Delivery ==
    /\ \A p \in wire : Live(p.key) /\ ops[p.key].fp.item = p.item /\ p.key \notin served
    /\ \A k \in served : Live(k)
    /\ \A h \in Handlers :
         /\ pc[h] \notin {"posting", "saved"} => reply[h] = "none"
         /\ (pc[h] = "posting" /\ reply[h] = "refused") =>
               (opKey[h] \notin served /\ \A p \in wire : p.key # opKey[h])

(* One instance: an operation has at most one owner, and is unresolved as  *)
(* long as it has one.                                                     *)
SingleInstance == \A g, h \in Handlers : InstanceOf[g] = InstanceOf[h]

SoleOwner ==
    \A h \in Handlers : pc[h] \in Owning =>
       /\ Unresolved(opKey[h])
       /\ \A g \in Handlers : (pc[g] \in Owning /\ opKey[g] = opKey[h]) => g = h

IInv == TypeOK /\ Ownership /\ Delivery

-------------------------------------------------------------------------------
(***************************************************************************)
(* Types of what the actions are built from.                               *)
(***************************************************************************)
(* Setting the status of an operation that exists keeps the table's type.  *)
LEMMA StatusTypes ==
  ASSUME DbTypeOK, NEW k \in Keys, ops[k].status # "none",
         NEW status \in {"pending", "uncertain", "created", "failed"}, NEW at \in Time
  PROVE  [ops EXCEPT ![k].status = status, ![k].at = at] \in [Keys -> {NoOperation} \cup Operation]
  <1> DEFINE new == [[ops[k] EXCEPT !.status = status] EXCEPT !.at = at]
  <1>1. ops[k] \in Operation
    BY DEF DbTypeOK, NoOperation
  <1>2. new \in Operation
    BY <1>1 DEF Operation
  <1>3. [ops EXCEPT ![k].status = status, ![k].at = at] = [ops EXCEPT ![k] = new]
    BY DEF DbTypeOK
  <1> QED BY <1>2, <1>3 DEF DbTypeOK

(* The start of time is a time, and so is no snapshot a snapshot.          *)
LEMMA StartTypes == 0 \in Time /\ NoSnapshot \in [start : Time, seen : [Items -> ItemState]]
  BY BoundsAssumption DEF Time, NoSnapshot, ItemState

(* The token of a preview is a fingerprint.                                *)
LEMMA GenerationTypes ==
  ASSUME DbTypeOK, NEW i \in Items PROVE GenerationForItem(i) \in Generation
  BY DEF DbTypeOK, GenerationForItem, Generation

(* A handler that finishes keeps the types of its variables.               *)
LEMMA FinishTypes ==
  ASSUME HandlerTypeOK, ReaderTypeOK, NEW h \in Handlers, Finish(h)
  PROVE  HandlerTypeOK' /\ ReaderTypeOK'
  <1> USE InstanceOfAssumption, StartTypes
  <1>1. HandlerTypeOK'
    BY DEF HandlerTypeOK, Finish, Release
  <1>2. ReaderTypeOK'
    BY DEF ReaderTypeOK, Finish, Readers
  <1> QED BY <1>1, <1>2

(* Ingesting and clearing keep the type of the rows.                       *)
LEMMA RowTypes ==
  ASSUME DbTypeOK, NEW s \in [start : Time, seen : [Items -> ItemState]], NEW I
  PROVE  /\ Ingested(I, s) \in [Items -> [st : ItemState, seen : Time]]
         /\ WithoutCleared(s) \in [Items -> [st : ItemState, seen : Time]]
  BY StartTypes DEF DbTypeOK, Ingested, WithoutCleared, ItemState

(* The history variable keeps its type.                                    *)
LEMMA DeniedTypes ==
  ASSUME denied \in [Items -> Time], NEW I,
         NEW s \in [start : Time, seen : [Items -> ItemState]], NoteDenied(I, s)
  PROVE  denied' \in [Items -> Time]
  BY DEF NoteDenied

(***************************************************************************)
(* Every step keeps the type invariant.  One step per action, with the     *)
(* variable groups that the action writes one level down.                  *)
(***************************************************************************)
LEMMA TypeStep ==
  ASSUME TypeOK, Ownership, [Next]_vars PROVE TypeOK'
<1> USE StartTypes, InstanceOfAssumption, SyncingAssumption DEF TypeOK
<1>1. ASSUME NEW h \in Handlers, Preview(h) PROVE TypeOK'
  <2>1. HandlerTypeOK'
    <3>1. PICK i \in Items : body' = [body EXCEPT ![h] = [item |-> i, gen |-> GenerationForItem(i)]]
      BY <1>1 DEF Preview
    <3>2. GenerationForItem(i) \in Generation
      BY GenerationTypes
    <3> QED BY <1>1, <3>1, <3>2 DEF Preview, HandlerTypeOK, Fingerprint
  <2>2. DbTypeOK' /\ ReaderTypeOK' /\ SeerrTypeOK' /\ clock' \in Time /\ denied' \in [Items -> Time]
    BY <1>1 DEF Preview, DbTypeOK, ReaderTypeOK, SeerrTypeOK, dbVars, readerVars, seerrVars
  <2> QED BY <2>1, <2>2
<1>2. ASSUME NEW h \in Handlers, JoinInFlight(h) PROVE TypeOK'
  <2>1. HandlerTypeOK'
    BY <1>2 DEF JoinInFlight, Join, MainFree, HandlerTypeOK, handlerVars
  <2>2. DbTypeOK' /\ ReaderTypeOK' /\ SeerrTypeOK' /\ clock' \in Time /\ denied' \in [Items -> Time]
    BY <1>2 DEF JoinInFlight, Join, DbTypeOK, ReaderTypeOK, SeerrTypeOK, dbVars, readerVars, seerrVars
  <2> QED BY <2>1, <2>2
<1>3. ASSUME NEW h \in Handlers, Joined(h) PROVE TypeOK'
  <2>1. HandlerTypeOK' /\ ReaderTypeOK'
    BY <1>3, FinishTypes DEF Joined
  <2>2. DbTypeOK' /\ SeerrTypeOK' /\ clock' \in Time /\ denied' \in [Items -> Time]
    BY <1>3 DEF Joined, DbTypeOK, SeerrTypeOK, dbVars, seerrVars
  <2> QED BY <2>1, <2>2
<1>4. ASSUME NEW h \in Handlers, Reconcile(h) PROVE TypeOK'
  <2>1. HandlerTypeOK'
    BY <1>4 DEF Reconcile, Join, HandlerTypeOK, ActiveOperation, Owning, Reconciling
  <2>2. ReaderTypeOK'
    <3>1. sync' = sync /\ todo' = todo
      BY <1>4 DEF Reconcile, Join, readerVars
    <3>2. CASE snap' = snap
      BY <3>1, <3>2 DEF ReaderTypeOK
    <3>3. CASE snap' = [snap EXCEPT ![h].start = clock]
      BY <3>1, <3>3 DEF ReaderTypeOK, Readers
    <3> QED BY <1>4, <3>2, <3>3 DEF Reconcile, Join, readerVars
  <2>3. DbTypeOK' /\ SeerrTypeOK' /\ clock' \in Time /\ denied' \in [Items -> Time]
    BY <1>4 DEF Reconcile, Join, DbTypeOK, SeerrTypeOK, dbVars, seerrVars
  <2> QED BY <2>1, <2>2, <2>3
<1>5. ASSUME NEW h \in Handlers, Admit(h) PROVE TypeOK'
  <2>1. HandlerTypeOK'
    BY <1>5 DEF Admit, Goto, Hold, MainFree, HandlerTypeOK, handlerVars
  <2>2. DbTypeOK' /\ ReaderTypeOK' /\ SeerrTypeOK' /\ clock' \in Time /\ denied' \in [Items -> Time]
    BY <1>5 DEF Admit, DbTypeOK, ReaderTypeOK, SeerrTypeOK, dbVars, readerVars, seerrVars
  <2> QED BY <2>1, <2>2
<1>6. ASSUME NEW h \in Handlers, Confirm(h) PROVE TypeOK'
  <2>1. HandlerTypeOK'
    BY <1>6 DEF Confirm, Goto, Hold, HandlerTypeOK, handlerVars
  <2>2. DbTypeOK' /\ ReaderTypeOK' /\ SeerrTypeOK' /\ clock' \in Time /\ denied' \in [Items -> Time]
    BY <1>6 DEF Confirm, DbTypeOK, ReaderTypeOK, SeerrTypeOK, dbVars, readerVars, seerrVars
  <2> QED BY <2>1, <2>2
<1>7. ASSUME NEW h \in Handlers, RefuseConfirmation(h) PROVE TypeOK'
  <2>1. HandlerTypeOK' /\ ReaderTypeOK'
    BY <1>7, FinishTypes DEF RefuseConfirmation
  <2>2. DbTypeOK' /\ SeerrTypeOK' /\ clock' \in Time /\ denied' \in [Items -> Time]
    BY <1>7 DEF RefuseConfirmation, DbTypeOK, SeerrTypeOK, dbVars, seerrVars
  <2> QED BY <2>1, <2>2
<1>8. ASSUME NEW h \in Handlers, BeginAcquire(h) PROVE TypeOK'
  <2>1. DbTypeOK'
    <3>1. opKey[h] \in Keys /\ body[h] \in Fingerprint
      BY <1>8 DEF BeginAcquire, Ownership, HandlerTypeOK
    <3>2. [status |-> "pending", fp |-> body[h], at |-> 0] \in Operation
      BY <3>1, StartTypes DEF Operation
    <3>3. \A old : Purged(old) \in [Keys -> {NoOperation} \cup Operation]
      BY DEF DbTypeOK, Purged
    <3> QED BY <1>8, <3>1, <3>2, <3>3 DEF BeginAcquire, DbTypeOK
  <2>2. HandlerTypeOK'
    BY <1>8 DEF BeginAcquire, Release, HandlerTypeOK, Owning
  <2>3. SeerrTypeOK'
    BY <1>8 DEF BeginAcquire, Target, HandlerTypeOK, SeerrTypeOK, Ownership, Fingerprint
  <2>4. ReaderTypeOK' /\ clock' \in Time /\ denied' \in [Items -> Time]
    BY <1>8 DEF BeginAcquire, ReaderTypeOK, readerVars
  <2> QED BY <2>1, <2>2, <2>3, <2>4
<1>9. ASSUME NEW h \in Handlers, BeginRefuse(h) PROVE TypeOK'
  <2>1. HandlerTypeOK' /\ ReaderTypeOK'
    BY <1>9, FinishTypes DEF BeginRefuse
  <2>2. DbTypeOK'
    BY <1>9 DEF BeginRefuse, FailedKeys, Finish, Purged, Release, DbTypeOK, dbVars
  <2>3. SeerrTypeOK' /\ clock' \in Time /\ denied' \in [Items -> Time]
    BY <1>9 DEF BeginRefuse, SeerrTypeOK, seerrVars
  <2> QED BY <2>1, <2>2, <2>3
<1>10. ASSUME NEW h \in Handlers, SaveRequest(h) PROVE TypeOK'
  <2>1. DbTypeOK'
    BY <1>10 DEF SaveRequest, Target, HandlerTypeOK, DbTypeOK, Fingerprint, ItemState
  <2>2. HandlerTypeOK'
    BY <1>10 DEF SaveRequest, Goto, Hold, HandlerTypeOK, Owning, Reconciling
  <2>3. ReaderTypeOK' /\ SeerrTypeOK' /\ clock' \in Time /\ denied' \in [Items -> Time]
    BY <1>10 DEF SaveRequest, ReaderTypeOK, SeerrTypeOK, readerVars, seerrVars
  <2> QED BY <2>1, <2>2, <2>3
<1>11. ASSUME NEW h \in Handlers, CompleteOperation(h) PROVE TypeOK'
  <2>1. HandlerTypeOK' /\ ReaderTypeOK'
    BY <1>11, FinishTypes DEF CompleteOperation
  <2>2. DbTypeOK'
    <3>1. opKey[h] \in Keys /\ ops[opKey[h]].status # "none"
      BY <1>11 DEF CompleteOperation, Ownership, Live, Owning, Reconciling
    <3>2. [ops EXCEPT ![opKey[h]].status = "created", ![opKey[h]].at = clock]
             \in [Keys -> {NoOperation} \cup Operation]
      BY <3>1, StatusTypes, StartTypes
    <3> QED BY <1>11, <3>2 DEF CompleteOperation, DbTypeOK
  <2>3. SeerrTypeOK' /\ clock' \in Time /\ denied' \in [Items -> Time]
    BY <1>11 DEF CompleteOperation, SeerrTypeOK, seerrVars
  <2> QED BY <2>1, <2>2, <2>3
<1>12. ASSUME NEW h \in Handlers, FailOperation(h) PROVE TypeOK'
  <2>1. HandlerTypeOK' /\ ReaderTypeOK'
    BY <1>12, FinishTypes DEF FailOperation
  <2>2. DbTypeOK'
    <3>1. opKey[h] \in Keys /\ ops[opKey[h]].status # "none"
      BY <1>12 DEF FailOperation, Ownership, Live, Owning, Reconciling
    <3>2. [ops EXCEPT ![opKey[h]].status = "failed", ![opKey[h]].at = 0]
             \in [Keys -> {NoOperation} \cup Operation]
      BY <3>1, StatusTypes, StartTypes
    <3> QED BY <1>12, <3>2 DEF FailOperation, SetStatus, DbTypeOK
  <2>3. SeerrTypeOK' /\ clock' \in Time /\ denied' \in [Items -> Time]
    BY <1>12 DEF FailOperation, SeerrTypeOK, seerrVars
  <2> QED BY <2>1, <2>2, <2>3
<1>13. ASSUME NEW h \in Handlers, PostUncertain(h) PROVE TypeOK'
  <2>1. HandlerTypeOK' /\ ReaderTypeOK'
    BY <1>13, FinishTypes DEF PostUncertain
  <2>2. DbTypeOK'
    <3>1. opKey[h] \in Keys /\ ops[opKey[h]].status # "none"
      BY <1>13 DEF PostUncertain, Ownership, Live, Owning, Reconciling
    <3>2. [ops EXCEPT ![opKey[h]].status = "uncertain", ![opKey[h]].at = 0]
             \in [Keys -> {NoOperation} \cup Operation]
      BY <3>1, StatusTypes, StartTypes
    <3> QED BY <1>13, <3>2 DEF PostUncertain, SetStatus, DbTypeOK
  <2>3. SeerrTypeOK' /\ clock' \in Time /\ denied' \in [Items -> Time]
    BY <1>13 DEF PostUncertain, SeerrTypeOK, seerrVars
  <2> QED BY <2>1, <2>2, <2>3
<1>14. ASSUME NEW h \in Handlers, WriteFails(h) PROVE TypeOK'
  <2>1. HandlerTypeOK' /\ ReaderTypeOK'
    BY <1>14, FinishTypes DEF WriteFails
  <2>2. DbTypeOK' /\ SeerrTypeOK' /\ clock' \in Time /\ denied' \in [Items -> Time]
    BY <1>14 DEF WriteFails, DbTypeOK, SeerrTypeOK, dbVars, seerrVars
  <2> QED BY <2>1, <2>2
<1>15. ASSUME NEW h \in Handlers, FetchSnapshot(h) PROVE TypeOK'
  <2>1. HandlerTypeOK'
    BY <1>15 DEF FetchSnapshot, Goto, Hold, HandlerTypeOK, Owning, Reconciling
  <2>2. ReaderTypeOK'
    BY <1>15 DEF FetchSnapshot, ReaderTypeOK, SeerrTypeOK, Readers
  <2>3. DbTypeOK' /\ SeerrTypeOK' /\ clock' \in Time /\ denied' \in [Items -> Time]
    BY <1>15 DEF FetchSnapshot, DbTypeOK, SeerrTypeOK, dbVars, seerrVars
  <2> QED BY <2>1, <2>2, <2>3
<1>16. ASSUME NEW h \in Handlers, ReconcileIngest(h) PROVE TypeOK'
  <2>1. DbTypeOK'
    <3>1. snap[h] \in [start : Time, seen : [Items -> ItemState]]
      BY DEF ReaderTypeOK, Readers
    <3> QED BY <1>16, <3>1, RowTypes DEF ReconcileIngest, DbTypeOK
  <2>2. HandlerTypeOK'
    BY <1>16 DEF ReconcileIngest, Goto, Hold, HandlerTypeOK, Owning, Reconciling
  <2>3. clock' \in Time /\ denied' \in [Items -> Time]
    <3>1. snap[h] \in [start : Time, seen : [Items -> ItemState]]
      BY DEF ReaderTypeOK, Readers
    <3> QED BY <1>16, <3>1, DeniedTypes DEF ReconcileIngest
  <2>4. ReaderTypeOK' /\ SeerrTypeOK'
    BY <1>16 DEF ReconcileIngest, ReaderTypeOK, SeerrTypeOK, readerVars, seerrVars
  <2> QED BY <2>1, <2>2, <2>3, <2>4
<1>17. ASSUME NEW h \in Handlers, ReconcileAbsence(h) PROVE TypeOK'
  <2>1. DbTypeOK'
    <3>1. snap[h] \in [start : Time, seen : [Items -> ItemState]]
      BY DEF ReaderTypeOK, Readers
    <3> QED BY <1>17, <3>1, RowTypes DEF ReconcileAbsence, CompleteSnapshot, DbTypeOK
  <2>2. HandlerTypeOK'
    BY <1>17 DEF ReconcileAbsence, Goto, Hold, HandlerTypeOK, Owning, Reconciling
  <2>3. clock' \in Time /\ denied' \in [Items -> Time]
    <3>1. snap[h] \in [start : Time, seen : [Items -> ItemState]]
      BY DEF ReaderTypeOK, Readers
    <3> QED BY <1>17, <3>1, DeniedTypes DEF ReconcileAbsence, CompleteSnapshot
  <2>4. ReaderTypeOK' /\ SeerrTypeOK'
    BY <1>17 DEF ReconcileAbsence, ReaderTypeOK, SeerrTypeOK, readerVars, seerrVars
  <2> QED BY <2>1, <2>2, <2>3, <2>4
<1>18. ASSUME NEW h \in Handlers, RecoverRequest(h) PROVE TypeOK'
  <2>1. DbTypeOK'
    BY <1>18 DEF RecoverRequest, Target, HandlerTypeOK, DbTypeOK, Fingerprint, ItemState
  <2>2. HandlerTypeOK'
    BY <1>18 DEF RecoverRequest, Goto, Hold, HandlerTypeOK, Owning, Reconciling
  <2>3. ReaderTypeOK' /\ SeerrTypeOK' /\ clock' \in Time /\ denied' \in [Items -> Time]
    BY <1>18 DEF RecoverRequest, ReaderTypeOK, SeerrTypeOK, readerVars, seerrVars
  <2> QED BY <2>1, <2>2, <2>3
<1>19. ASSUME NEW h \in Handlers, RecoverySuperseded(h) PROVE TypeOK'
  <2>1. HandlerTypeOK' /\ ReaderTypeOK'
    BY <1>19, FinishTypes DEF RecoverySuperseded
  <2>2. DbTypeOK' /\ SeerrTypeOK' /\ clock' \in Time /\ denied' \in [Items -> Time]
    BY <1>19 DEF RecoverySuperseded, DbTypeOK, SeerrTypeOK, dbVars, seerrVars
  <2> QED BY <2>1, <2>2
<1>20. ASSUME NEW h \in Handlers, ReconcileUncertain(h) PROVE TypeOK'
  <2>1. HandlerTypeOK' /\ ReaderTypeOK'
    BY <1>20, FinishTypes DEF ReconcileUncertain
  <2>2. DbTypeOK'
    <3>1. opKey[h] \in Keys /\ ops[opKey[h]].status # "none"
      BY <1>20 DEF ReconcileUncertain, Ownership, Live, Owning, Reconciling
    <3>2. [ops EXCEPT ![opKey[h]].status = "uncertain", ![opKey[h]].at = 0]
             \in [Keys -> {NoOperation} \cup Operation]
      BY <3>1, StatusTypes, StartTypes
    <3> QED BY <1>20, <3>2 DEF ReconcileUncertain, SetStatus, DbTypeOK
  <2>3. SeerrTypeOK' /\ clock' \in Time /\ denied' \in [Items -> Time]
    BY <1>20 DEF ReconcileUncertain, SeerrTypeOK, seerrVars
  <2> QED BY <2>1, <2>2, <2>3
<1>21. ASSUME NEW n \in Instances, SyncStart(n) PROVE TypeOK'
  <2>1. ReaderTypeOK'
    BY <1>21 DEF SyncStart, ReaderTypeOK, Readers, readerVars
  <2>2. DbTypeOK' /\ HandlerTypeOK' /\ SeerrTypeOK' /\ clock' \in Time /\ denied' \in [Items -> Time]
    BY <1>21 DEF SyncStart, DbTypeOK, HandlerTypeOK, SeerrTypeOK, dbVars, handlerVars, seerrVars
  <2> QED BY <2>1, <2>2
<1>22. ASSUME NEW n \in Instances, SyncFetch(n) PROVE TypeOK'
  <2>1. ReaderTypeOK'
    BY <1>22 DEF SyncFetch, ReaderTypeOK, SeerrTypeOK, Readers
  <2>2. DbTypeOK' /\ HandlerTypeOK' /\ SeerrTypeOK' /\ clock' \in Time /\ denied' \in [Items -> Time]
    BY <1>22 DEF SyncFetch, DbTypeOK, HandlerTypeOK, SeerrTypeOK, dbVars, handlerVars, seerrVars
  <2> QED BY <2>1, <2>2
<1>23. ASSUME NEW n \in Instances, SyncIngest(n) PROVE TypeOK'
  <2>1. DbTypeOK'
    <3>1. snap[n] \in [start : Time, seen : [Items -> ItemState]]
      BY DEF ReaderTypeOK, Readers
    <3> QED BY <1>23, <3>1, RowTypes DEF SyncIngest, DbTypeOK
  <2>2. ReaderTypeOK'
    BY <1>23 DEF SyncIngest, NoteDenied, ReaderTypeOK, Readers, readerVars
  <2>3. clock' \in Time /\ denied' \in [Items -> Time]
    <3>1. snap[n] \in [start : Time, seen : [Items -> ItemState]]
      BY DEF ReaderTypeOK, Readers
    <3> QED BY <1>23, <3>1, DeniedTypes DEF SyncIngest
  <2>4. HandlerTypeOK' /\ SeerrTypeOK'
    BY <1>23 DEF SyncIngest, HandlerTypeOK, SeerrTypeOK, handlerVars, seerrVars
  <2> QED BY <2>1, <2>2, <2>3, <2>4
<1>24. ASSUME NEW n \in Instances, SyncFinish(n) PROVE TypeOK'
  <2>1. DbTypeOK'
    <3>1. snap[n] \in [start : Time, seen : [Items -> ItemState]]
      BY DEF ReaderTypeOK, Readers
    <3> QED BY <1>24, <3>1, RowTypes DEF SyncFinish, CompleteSnapshot, DbTypeOK
  <2>2. ReaderTypeOK'
    BY <1>24 DEF SyncFinish, CompleteSnapshot, EndSync, NoteDenied, ReaderTypeOK, Readers, readerVars
  <2>3. clock' \in Time /\ denied' \in [Items -> Time]
    <3>1. snap[n] \in [start : Time, seen : [Items -> ItemState]]
      BY DEF ReaderTypeOK, Readers
    <3> QED BY <1>24, <3>1, DeniedTypes DEF SyncFinish, CompleteSnapshot
  <2>4. HandlerTypeOK' /\ SeerrTypeOK'
    BY <1>24 DEF SyncFinish, HandlerTypeOK, SeerrTypeOK, handlerVars, seerrVars
  <2> QED BY <2>1, <2>2, <2>3, <2>4
<1>25. ASSUME NEW n \in Instances, SyncAbort(n) PROVE TypeOK'
  <2>1. ReaderTypeOK'
    BY <1>25 DEF SyncAbort, EndSync, ReaderTypeOK, Readers, readerVars
  <2>2. DbTypeOK' /\ HandlerTypeOK' /\ SeerrTypeOK' /\ clock' \in Time /\ denied' \in [Items -> Time]
    BY <1>25 DEF SyncAbort, DbTypeOK, HandlerTypeOK, SeerrTypeOK, dbVars, handlerVars, seerrVars
  <2> QED BY <2>1, <2>2
<1>26. ASSUME NEW n \in Instances, Crash(n) PROVE TypeOK'
  <2>1. HandlerTypeOK'
    BY <1>26 DEF Crash, HandlerTypeOK, handlerVars
  <2>2. ReaderTypeOK'
    BY <1>26 DEF Crash, ReaderTypeOK, Readers, readerVars
  <2>3. DbTypeOK' /\ SeerrTypeOK' /\ clock' \in Time /\ denied' \in [Items -> Time]
    BY <1>26 DEF Crash, DbTypeOK, SeerrTypeOK, dbVars, seerrVars
  <2> QED BY <2>1, <2>2, <2>3
<1>27. ASSUME SeerrAccepts PROVE TypeOK'
  <2>1. HandlerTypeOK'
    BY <1>27 DEF SeerrAccepts, Answer, HandlerTypeOK, handlerVars
  <2>2. SeerrTypeOK'
    BY <1>27 DEF SeerrAccepts, SeerrTypeOK, ItemState
  <2>3. DbTypeOK' /\ ReaderTypeOK' /\ clock' \in Time /\ denied' \in [Items -> Time]
    BY <1>27 DEF SeerrAccepts, DbTypeOK, ReaderTypeOK, dbVars, readerVars
  <2> QED BY <2>1, <2>2, <2>3
<1>28. ASSUME SeerrRefuses PROVE TypeOK'
  <2>1. HandlerTypeOK'
    BY <1>28 DEF SeerrRefuses, Answer, HandlerTypeOK, handlerVars
  <2>2. SeerrTypeOK'
    BY <1>28 DEF SeerrRefuses, Answer, SeerrTypeOK, seerrVars
  <2>3. DbTypeOK' /\ ReaderTypeOK' /\ clock' \in Time /\ denied' \in [Items -> Time]
    BY <1>28 DEF SeerrRefuses, DbTypeOK, ReaderTypeOK, dbVars, readerVars
  <2> QED BY <2>1, <2>2, <2>3
<1>29. ASSUME PostLost PROVE TypeOK'
  <2>1. SeerrTypeOK'
    BY <1>29 DEF PostLost, SeerrTypeOK, seerrVars
  <2>2. DbTypeOK' /\ HandlerTypeOK' /\ ReaderTypeOK' /\ clock' \in Time /\ denied' \in [Items -> Time]
    BY <1>29 DEF PostLost, DbTypeOK, HandlerTypeOK, ReaderTypeOK, dbVars, handlerVars, readerVars
  <2> QED BY <2>1, <2>2
<1>30. ASSUME SeerrDeclines PROVE TypeOK'
  <2>1. SeerrTypeOK'
    BY <1>30 DEF SeerrDeclines, SeerrTypeOK, ItemState
  <2>2. DbTypeOK' /\ HandlerTypeOK' /\ ReaderTypeOK' /\ clock' \in Time /\ denied' \in [Items -> Time]
    BY <1>30 DEF SeerrDeclines, DbTypeOK, HandlerTypeOK, ReaderTypeOK, dbVars, handlerVars, readerVars
  <2> QED BY <2>1, <2>2
<1>31. ASSUME SeerrDeletes PROVE TypeOK'
  <2>1. SeerrTypeOK'
    BY <1>31 DEF SeerrDeletes, SeerrTypeOK, ItemState
  <2>2. DbTypeOK' /\ HandlerTypeOK' /\ ReaderTypeOK' /\ clock' \in Time /\ denied' \in [Items -> Time]
    BY <1>31 DEF SeerrDeletes, DbTypeOK, HandlerTypeOK, ReaderTypeOK, dbVars, handlerVars, readerVars
  <2> QED BY <2>1, <2>2
<1>32. ASSUME ForeignRequest PROVE TypeOK'
  <2>1. SeerrTypeOK'
    BY <1>32, BoundsAssumption DEF ForeignRequest, SeerrTypeOK, ItemState
  <2>2. DbTypeOK' /\ HandlerTypeOK' /\ ReaderTypeOK' /\ clock' \in Time /\ denied' \in [Items -> Time]
    BY <1>32 DEF ForeignRequest, DbTypeOK, HandlerTypeOK, ReaderTypeOK, dbVars, handlerVars, readerVars
  <2> QED BY <2>1, <2>2
<1>33. ASSUME Tick PROVE TypeOK'
  <2>1. clock' \in Time /\ denied' \in [Items -> Time]
    BY <1>33, BoundsAssumption DEF Tick, Time
  <2>2. DbTypeOK' /\ HandlerTypeOK' /\ ReaderTypeOK' /\ SeerrTypeOK'
    BY <1>33 DEF Tick, DbTypeOK, HandlerTypeOK, ReaderTypeOK, SeerrTypeOK, dbVars, handlerVars, readerVars, seerrVars
  <2> QED BY <2>1, <2>2
<1>34. CASE UNCHANGED vars
  BY <1>34 DEF vars, DbTypeOK, HandlerTypeOK, ReaderTypeOK, SeerrTypeOK, dbVars, handlerVars, readerVars, seerrVars
<1> QED
  BY <1>1, <1>2, <1>3, <1>4, <1>5, <1>6, <1>7, <1>8, <1>9, <1>10, <1>11, <1>12, <1>13, <1>14, <1>15, <1>16, <1>17, <1>18, <1>19, <1>20, <1>21, <1>22, <1>23, <1>24, <1>25, <1>26, <1>27, <1>28, <1>29, <1>30, <1>31, <1>32, <1>33, <1>34
  DEF Next, CreateStep, ReconcileStep, SyncStep, Environment

-------------------------------------------------------------------------------
(***************************************************************************)
(* Every step keeps the ownership of operations.                           *)
(***************************************************************************)
LEMMA OwnershipStep ==
  ASSUME TypeOK, Ownership, [Next]_vars PROVE Ownership'
<1> USE SentinelAssumption DEF TypeOK, DbTypeOK, HandlerTypeOK, Ownership, Live, Unresolved, Owning, Reconciling
<1>1. ASSUME NEW h \in Handlers, Preview(h) PROVE Ownership'
  BY <1>1 DEF Preview, dbVars
<1>2. ASSUME NEW h \in Handlers, JoinInFlight(h) PROVE Ownership'
  BY <1>2 DEF JoinInFlight, Join, dbVars
<1>3. ASSUME NEW h \in Handlers, Joined(h) PROVE Ownership'
  BY <1>3 DEF Joined, Finish, dbVars
<1>4. ASSUME NEW h \in Handlers, Reconcile(h) PROVE Ownership'
  <2>1. PICK t \in Keys :
          /\ ops[t].fp = body[h]
          /\ ops[t].status = "uncertain" \/ (ops[t].status = "pending" /\ Abandoned(t))
          /\ \/ Join(h, t)
             \/ /\ InFlight(h, t) = {}
                /\ pc' = [pc EXCEPT ![h] = "fetching"]
                /\ opKey' = [opKey EXCEPT ![h] = t]
                /\ UNCHANGED <<ops, body>>
    BY <1>4 DEF Reconcile, ActiveOperation, dbVars
  <2>3. CASE Join(h, t)
    BY <2>3 DEF Join, dbVars, Owning, Reconciling
  <2>4. CASE ~Join(h, t)
    <3>1. /\ pc' = [pc EXCEPT ![h] = "fetching"] /\ opKey' = [opKey EXCEPT ![h] = t]
          /\ ops' = ops /\ body' = body
      BY <2>1, <2>4 DEF dbVars
    <3>2. ASSUME NEW g \in Handlers, pc[g] \in {"posting", "saved"} PROVE opKey[g] # t
      BY <2>1, <2>4, <3>2 DEF Abandoned, Owning
    <3> QED BY <2>1, <3>1, <3>2 DEF Owning, Reconciling
  <2> QED BY <2>3, <2>4
<1>5. ASSUME NEW h \in Handlers, Admit(h) PROVE Ownership'
  BY <1>5 DEF Admit, Goto, Target, dbVars
<1>6. ASSUME NEW h \in Handlers, Confirm(h) PROVE Ownership'
  BY <1>6 DEF Confirm, Goto, Target, dbVars
<1>7. ASSUME NEW h \in Handlers, RefuseConfirmation(h) PROVE Ownership'
  BY <1>7 DEF RefuseConfirmation, Finish, Target, dbVars
<1>8. ASSUME NEW h \in Handlers, BeginAcquire(h) PROVE Ownership'
  <2>1. /\ opKey[h] \in Keys /\ ops[opKey[h]].status \in {"none", "failed"}
        /\ pc[h] = "beginning" /\ pc' = [pc EXCEPT ![h] = "posting"]
        /\ opKey' = opKey /\ body' = body
    BY <1>8 DEF BeginAcquire
  <2>2. /\ ops'[opKey[h]] = [status |-> "pending", fp |-> body[h], at |-> 0]
        /\ \A k \in Keys : Live(k) => ops'[k] = ops[k]
    BY <1>8, <2>1 DEF BeginAcquire, Purged, FailedKeys
  <2>3. \A g \in Handlers : (pc[g] \in Owning) => opKey[g] # opKey[h]
    BY <2>1
  <2> QED BY <2>1, <2>2, <2>3
<1>9. ASSUME NEW h \in Handlers, BeginRefuse(h) PROVE Ownership'
  BY <1>9 DEF BeginRefuse, FailedKeys, Finish, Purged, Target
<1>10. ASSUME NEW h \in Handlers, SaveRequest(h) PROVE Ownership'
  BY <1>10 DEF SaveRequest, Goto, Target
<1>11. ASSUME NEW h \in Handlers, CompleteOperation(h) PROVE Ownership'
  BY <1>11 DEF CompleteOperation, Finish
<1>12. ASSUME NEW h \in Handlers, FailOperation(h) PROVE Ownership'
  BY <1>12 DEF FailOperation, Finish, SetStatus
<1>13. ASSUME NEW h \in Handlers, PostUncertain(h) PROVE Ownership'
  BY <1>13 DEF PostUncertain, Finish, SetStatus
<1>14. ASSUME NEW h \in Handlers, WriteFails(h) PROVE Ownership'
  BY <1>14 DEF WriteFails, Finish, dbVars
<1>15. ASSUME NEW h \in Handlers, FetchSnapshot(h) PROVE Ownership'
  BY <1>15 DEF FetchSnapshot, dbVars
<1>16. ASSUME NEW h \in Handlers, ReconcileIngest(h) PROVE Ownership'
  BY <1>16 DEF ReconcileIngest, Goto
<1>17. ASSUME NEW h \in Handlers, ReconcileAbsence(h) PROVE Ownership'
  BY <1>17 DEF ReconcileAbsence, Goto
<1>18. ASSUME NEW h \in Handlers, RecoverRequest(h) PROVE Ownership'
  BY <1>18 DEF RecoverRequest, Goto, Target
<1>19. ASSUME NEW h \in Handlers, RecoverySuperseded(h) PROVE Ownership'
  BY <1>19 DEF RecoverySuperseded, Finish, Target, dbVars
<1>20. ASSUME NEW h \in Handlers, ReconcileUncertain(h) PROVE Ownership'
  BY <1>20 DEF ReconcileUncertain, Finish, SetStatus
<1>21. ASSUME NEW n \in Instances, SyncStart(n) PROVE Ownership'
  BY <1>21 DEF SyncStart, dbVars, handlerVars
<1>22. ASSUME NEW n \in Instances, SyncFetch(n) PROVE Ownership'
  BY <1>22 DEF SyncFetch, dbVars, handlerVars
<1>23. ASSUME NEW n \in Instances, SyncIngest(n) PROVE Ownership'
  BY <1>23 DEF SyncIngest, handlerVars
<1>24. ASSUME NEW n \in Instances, SyncFinish(n) PROVE Ownership'
  BY <1>24 DEF SyncFinish, handlerVars
<1>25. ASSUME NEW n \in Instances, SyncAbort(n) PROVE Ownership'
  BY <1>25 DEF SyncAbort, dbVars, handlerVars
<1>26. ASSUME NEW n \in Instances, Crash(n) PROVE Ownership'
  BY <1>26 DEF Crash, dbVars
<1>27. ASSUME SeerrAccepts PROVE Ownership'
  BY <1>27 DEF SeerrAccepts, Answer, dbVars
<1>28. ASSUME SeerrRefuses PROVE Ownership'
  BY <1>28 DEF SeerrRefuses, Answer, dbVars
<1>29. ASSUME PostLost PROVE Ownership'
  BY <1>29 DEF PostLost, dbVars, handlerVars
<1>30. ASSUME SeerrDeclines PROVE Ownership'
  BY <1>30 DEF SeerrDeclines, dbVars, handlerVars
<1>31. ASSUME SeerrDeletes PROVE Ownership'
  BY <1>31 DEF SeerrDeletes, dbVars, handlerVars
<1>32. ASSUME ForeignRequest PROVE Ownership'
  BY <1>32 DEF ForeignRequest, dbVars, handlerVars
<1>33. ASSUME Tick PROVE Ownership'
  BY <1>33 DEF Tick, dbVars, handlerVars
<1>34. CASE UNCHANGED vars
  BY <1>34 DEF vars, dbVars, handlerVars
<1> QED
  BY SyncingAssumption, <1>1, <1>2, <1>3, <1>4, <1>5, <1>6, <1>7, <1>8, <1>9, <1>10, <1>11, <1>12, <1>13, <1>14, <1>15, <1>16, <1>17, <1>18, <1>19, <1>20, <1>21, <1>22, <1>23, <1>24, <1>25, <1>26, <1>27, <1>28, <1>29, <1>30, <1>31, <1>32, <1>33, <1>34
  DEF Next, CreateStep, ReconcileStep, SyncStep, Environment

(***************************************************************************)
(* Every step keeps what is said of the wire and of Seerr.                 *)
(***************************************************************************)
LEMMA DeliveryStep ==
  ASSUME TypeOK, Ownership, Delivery, [Next]_vars PROVE Delivery'
<1> USE SentinelAssumption DEF TypeOK, DbTypeOK, HandlerTypeOK, SeerrTypeOK, Ownership, Delivery, Live, Owning
<1>1. ASSUME NEW h \in Handlers, Preview(h) PROVE Delivery'
  BY <1>1 DEF Preview, dbVars, seerrVars
<1>2. ASSUME NEW h \in Handlers, JoinInFlight(h) PROVE Delivery'
  BY <1>2 DEF JoinInFlight, Join, dbVars, seerrVars
<1>3. ASSUME NEW h \in Handlers, Joined(h) PROVE Delivery'
  BY <1>3 DEF Joined, Finish, dbVars, seerrVars
<1>4. ASSUME NEW h \in Handlers, Reconcile(h) PROVE Delivery'
  BY <1>4 DEF Reconcile, Join, dbVars, seerrVars
<1>5. ASSUME NEW h \in Handlers, Admit(h) PROVE Delivery'
  BY <1>5 DEF Admit, Goto, Target, dbVars, seerrVars
<1>6. ASSUME NEW h \in Handlers, Confirm(h) PROVE Delivery'
  BY <1>6 DEF Confirm, Goto, Target, dbVars, seerrVars
<1>7. ASSUME NEW h \in Handlers, RefuseConfirmation(h) PROVE Delivery'
  BY <1>7 DEF RefuseConfirmation, Finish, Target, dbVars, seerrVars
<1>8. ASSUME NEW h \in Handlers, BeginAcquire(h) PROVE Delivery'
  <2>1. /\ opKey[h] \in Keys /\ ~Live(opKey[h])
        /\ pc' = [pc EXCEPT ![h] = "posting"] /\ reply' = reply /\ served' = served
        /\ opKey' = opKey /\ body' = body /\ pc[h] = "beginning"
        /\ wire' = wire \cup {[key |-> opKey[h], item |-> Target(h)]}
    BY <1>8 DEF BeginAcquire
  <2>2. /\ ops'[opKey[h]] = [status |-> "pending", fp |-> body[h], at |-> 0]
        /\ \A k \in Keys : Live(k) => ops'[k] = ops[k]
    BY <1>8, <2>1 DEF BeginAcquire, Purged, FailedKeys
  <2>3. \A p \in wire : Live(p.key)' /\ ops'[p.key].fp.item = p.item /\ p.key \notin served
    BY <2>2
  <2>4. \A k \in served : Live(k)'
    BY <2>2
  <2>5. ASSUME NEW g \in Handlers
        PROVE  /\ pc'[g] \notin {"posting", "saved"} => reply[g] = "none"
               /\ (pc'[g] = "posting" /\ reply[g] = "refused") =>
                     opKey[g] \notin served /\ \A p \in wire' : p.key # opKey[g]
    BY <2>1, <2>5 DEF Owning
  <2> QED BY <2>1, <2>2, <2>3, <2>4, <2>5 DEF Target
<1>9. ASSUME NEW h \in Handlers, BeginRefuse(h) PROVE Delivery'
  <2>1. \A k \in Keys : Live(k) => ops'[k] = ops[k]
    BY <1>9 DEF BeginRefuse, FailedKeys, Purged
  <2>2. /\ pc' = [pc EXCEPT ![h] = "idle"] /\ opKey' = [opKey EXCEPT ![h] = NoKey]
        /\ reply' = [reply EXCEPT ![h] = "none"] /\ wire' = wire /\ served' = served
    BY <1>9 DEF BeginRefuse, Finish, seerrVars
  <2>3. ASSUME NEW g \in Handlers
        PROVE  /\ pc'[g] \notin {"posting", "saved"} => reply'[g] = "none"
               /\ (pc'[g] = "posting" /\ reply'[g] = "refused") =>
                     opKey'[g] \notin served' /\ \A p \in wire' : p.key # opKey'[g]
    <3>1. CASE g = h
      BY <2>2, <3>1
    <3>2. CASE g # h
      BY <2>2, <3>2
    <3> QED BY <3>1, <3>2
  <2>4. \A p \in wire' : Live(p.key)' /\ ops'[p.key].fp.item = p.item /\ p.key \notin served'
    BY <2>1, <2>2
  <2>5. \A k \in served' : Live(k)'
    BY <2>1, <2>2
  <2> QED BY <2>3, <2>4, <2>5
<1>10. ASSUME NEW h \in Handlers, SaveRequest(h) PROVE Delivery'
  BY <1>10 DEF SaveRequest, Goto, Target, seerrVars
<1>11. ASSUME NEW h \in Handlers, CompleteOperation(h) PROVE Delivery'
  BY <1>11 DEF CompleteOperation, Finish, seerrVars
<1>12. ASSUME NEW h \in Handlers, FailOperation(h) PROVE Delivery'
  BY <1>12 DEF FailOperation, Finish, SetStatus, seerrVars
<1>13. ASSUME NEW h \in Handlers, PostUncertain(h) PROVE Delivery'
  BY <1>13 DEF PostUncertain, Finish, SetStatus, seerrVars
<1>14. ASSUME NEW h \in Handlers, WriteFails(h) PROVE Delivery'
  BY <1>14 DEF WriteFails, Finish, dbVars, seerrVars
<1>15. ASSUME NEW h \in Handlers, FetchSnapshot(h) PROVE Delivery'
  BY <1>15 DEF FetchSnapshot, dbVars, seerrVars
<1>16. ASSUME NEW h \in Handlers, ReconcileIngest(h) PROVE Delivery'
  BY <1>16 DEF ReconcileIngest, Goto, seerrVars
<1>17. ASSUME NEW h \in Handlers, ReconcileAbsence(h) PROVE Delivery'
  BY <1>17 DEF ReconcileAbsence, Goto, seerrVars
<1>18. ASSUME NEW h \in Handlers, RecoverRequest(h) PROVE Delivery'
  BY <1>18 DEF RecoverRequest, Goto, Target, seerrVars
<1>19. ASSUME NEW h \in Handlers, RecoverySuperseded(h) PROVE Delivery'
  BY <1>19 DEF RecoverySuperseded, Finish, Target, dbVars, seerrVars
<1>20. ASSUME NEW h \in Handlers, ReconcileUncertain(h) PROVE Delivery'
  BY <1>20 DEF ReconcileUncertain, Finish, SetStatus, seerrVars
<1>21. ASSUME NEW n \in Instances, SyncStart(n) PROVE Delivery'
  BY <1>21 DEF SyncStart, dbVars, handlerVars, seerrVars
<1>22. ASSUME NEW n \in Instances, SyncFetch(n) PROVE Delivery'
  BY <1>22 DEF SyncFetch, dbVars, handlerVars, seerrVars
<1>23. ASSUME NEW n \in Instances, SyncIngest(n) PROVE Delivery'
  BY <1>23 DEF SyncIngest, handlerVars, seerrVars
<1>24. ASSUME NEW n \in Instances, SyncFinish(n) PROVE Delivery'
  BY <1>24 DEF SyncFinish, handlerVars, seerrVars
<1>25. ASSUME NEW n \in Instances, SyncAbort(n) PROVE Delivery'
  BY <1>25 DEF SyncAbort, dbVars, handlerVars, seerrVars
<1>26. ASSUME NEW n \in Instances, Crash(n) PROVE Delivery'
  BY <1>26 DEF Crash, dbVars, seerrVars
<1>27. ASSUME SeerrAccepts PROVE Delivery'
  BY <1>27 DEF SeerrAccepts, Answer, dbVars
<1>28. ASSUME SeerrRefuses PROVE Delivery'
  BY <1>28 DEF SeerrRefuses, Answer, dbVars
<1>29. ASSUME PostLost PROVE Delivery'
  BY <1>29 DEF PostLost, dbVars, handlerVars
<1>30. ASSUME SeerrDeclines PROVE Delivery'
  BY <1>30 DEF SeerrDeclines, dbVars, handlerVars
<1>31. ASSUME SeerrDeletes PROVE Delivery'
  BY <1>31 DEF SeerrDeletes, dbVars, handlerVars
<1>32. ASSUME ForeignRequest PROVE Delivery'
  BY <1>32 DEF ForeignRequest, dbVars, handlerVars
<1>33. ASSUME Tick PROVE Delivery'
  BY <1>33 DEF Tick, dbVars, handlerVars, seerrVars
<1>34. CASE UNCHANGED vars
  BY <1>34 DEF vars, dbVars, handlerVars, seerrVars
<1> QED
  BY SyncingAssumption, <1>1, <1>2, <1>3, <1>4, <1>5, <1>6, <1>7, <1>8, <1>9, <1>10, <1>11, <1>12, <1>13, <1>14, <1>15, <1>16, <1>17, <1>18, <1>19, <1>20, <1>21, <1>22, <1>23, <1>24, <1>25, <1>26, <1>27, <1>28, <1>29, <1>30, <1>31, <1>32, <1>33, <1>34
  DEF Next, CreateStep, ReconcileStep, SyncStep, Environment

(***************************************************************************)
(* In a single instance every step keeps operations in one hand.           *)
(***************************************************************************)
LEMMA SoleOwnerStep ==
  ASSUME SingleInstance, TypeOK, Ownership, SoleOwner, [Next]_vars PROVE SoleOwner'
<1> USE SentinelAssumption DEF TypeOK, DbTypeOK, HandlerTypeOK, SingleInstance, Ownership, SoleOwner, Unresolved, Owning, Reconciling
<1>1. ASSUME NEW h \in Handlers, Preview(h) PROVE SoleOwner'
  BY <1>1 DEF Preview, dbVars
<1>2. ASSUME NEW h \in Handlers, JoinInFlight(h) PROVE SoleOwner'
  BY <1>2 DEF JoinInFlight, Join, dbVars
<1>3. ASSUME NEW h \in Handlers, Joined(h) PROVE SoleOwner'
  BY <1>3 DEF Joined, Finish, dbVars
<1>4. ASSUME NEW h \in Handlers, Reconcile(h) PROVE SoleOwner'
  BY <1>4 DEF Reconcile, Join, ActiveOperation, InFlight, dbVars
<1>5. ASSUME NEW h \in Handlers, Admit(h) PROVE SoleOwner'
  BY <1>5 DEF Admit, Goto, Target, dbVars
<1>6. ASSUME NEW h \in Handlers, Confirm(h) PROVE SoleOwner'
  BY <1>6 DEF Confirm, Goto, Target, dbVars
<1>7. ASSUME NEW h \in Handlers, RefuseConfirmation(h) PROVE SoleOwner'
  BY <1>7 DEF RefuseConfirmation, Finish, Target, dbVars
<1>8. ASSUME NEW h \in Handlers, BeginAcquire(h) PROVE SoleOwner'
  BY <1>8 DEF BeginAcquire, FailedKeys, Purged, Target
<1>9. ASSUME NEW h \in Handlers, BeginRefuse(h) PROVE SoleOwner'
  BY <1>9 DEF BeginRefuse, FailedKeys, Finish, Purged, Target
<1>10. ASSUME NEW h \in Handlers, SaveRequest(h) PROVE SoleOwner'
  BY <1>10 DEF SaveRequest, Goto, Target
<1>11. ASSUME NEW h \in Handlers, CompleteOperation(h) PROVE SoleOwner'
  BY <1>11 DEF CompleteOperation, Finish
<1>12. ASSUME NEW h \in Handlers, FailOperation(h) PROVE SoleOwner'
  BY <1>12 DEF FailOperation, Finish, SetStatus
<1>13. ASSUME NEW h \in Handlers, PostUncertain(h) PROVE SoleOwner'
  BY <1>13 DEF PostUncertain, Finish, SetStatus
<1>14. ASSUME NEW h \in Handlers, WriteFails(h) PROVE SoleOwner'
  BY <1>14 DEF WriteFails, Finish, dbVars
<1>15. ASSUME NEW h \in Handlers, FetchSnapshot(h) PROVE SoleOwner'
  BY <1>15 DEF FetchSnapshot, dbVars
<1>16. ASSUME NEW h \in Handlers, ReconcileIngest(h) PROVE SoleOwner'
  BY <1>16 DEF ReconcileIngest, Goto
<1>17. ASSUME NEW h \in Handlers, ReconcileAbsence(h) PROVE SoleOwner'
  BY <1>17 DEF ReconcileAbsence, Goto
<1>18. ASSUME NEW h \in Handlers, RecoverRequest(h) PROVE SoleOwner'
  BY <1>18 DEF RecoverRequest, Goto, Target
<1>19. ASSUME NEW h \in Handlers, RecoverySuperseded(h) PROVE SoleOwner'
  BY <1>19 DEF RecoverySuperseded, Finish, Target, dbVars
<1>20. ASSUME NEW h \in Handlers, ReconcileUncertain(h) PROVE SoleOwner'
  BY <1>20 DEF ReconcileUncertain, Finish, SetStatus
<1>21. ASSUME NEW n \in Instances, SyncStart(n) PROVE SoleOwner'
  BY <1>21 DEF SyncStart, dbVars, handlerVars
<1>22. ASSUME NEW n \in Instances, SyncFetch(n) PROVE SoleOwner'
  BY <1>22 DEF SyncFetch, dbVars, handlerVars
<1>23. ASSUME NEW n \in Instances, SyncIngest(n) PROVE SoleOwner'
  BY <1>23 DEF SyncIngest, handlerVars
<1>24. ASSUME NEW n \in Instances, SyncFinish(n) PROVE SoleOwner'
  BY <1>24 DEF SyncFinish, handlerVars
<1>25. ASSUME NEW n \in Instances, SyncAbort(n) PROVE SoleOwner'
  BY <1>25 DEF SyncAbort, dbVars, handlerVars
<1>26. ASSUME NEW n \in Instances, Crash(n) PROVE SoleOwner'
  BY <1>26 DEF Crash, dbVars
<1>27. ASSUME SeerrAccepts PROVE SoleOwner'
  BY <1>27 DEF SeerrAccepts, Answer, dbVars
<1>28. ASSUME SeerrRefuses PROVE SoleOwner'
  BY <1>28 DEF SeerrRefuses, Answer, dbVars
<1>29. ASSUME PostLost PROVE SoleOwner'
  BY <1>29 DEF PostLost, dbVars, handlerVars
<1>30. ASSUME SeerrDeclines PROVE SoleOwner'
  BY <1>30 DEF SeerrDeclines, dbVars, handlerVars
<1>31. ASSUME SeerrDeletes PROVE SoleOwner'
  BY <1>31 DEF SeerrDeletes, dbVars, handlerVars
<1>32. ASSUME ForeignRequest PROVE SoleOwner'
  BY <1>32 DEF ForeignRequest, dbVars, handlerVars
<1>33. ASSUME Tick PROVE SoleOwner'
  BY <1>33 DEF Tick, dbVars, handlerVars
<1>34. CASE UNCHANGED vars
  BY <1>34 DEF vars, dbVars, handlerVars
<1> QED
  BY SyncingAssumption, <1>1, <1>2, <1>3, <1>4, <1>5, <1>6, <1>7, <1>8, <1>9, <1>10, <1>11, <1>12, <1>13, <1>14, <1>15, <1>16, <1>17, <1>18, <1>19, <1>20, <1>21, <1>22, <1>23, <1>24, <1>25, <1>26, <1>27, <1>28, <1>29, <1>30, <1>31, <1>32, <1>33, <1>34
  DEF Next, CreateStep, ReconcileStep, SyncStep, Environment

-------------------------------------------------------------------------------
(* The inductive invariant holds in the initial states.                    *)
LEMMA InitIInv == Init => IInv
<1> SUFFICES ASSUME Init PROVE IInv
  OBVIOUS
<1> USE BoundsAssumption, SentinelAssumption, StartTypes DEF Init
<1>1. DbTypeOK /\ clock \in Time /\ denied \in [Items -> Time]
  BY DEF DbTypeOK, NoOperation, Time, ItemState
<1>2. HandlerTypeOK
  BY DEF HandlerTypeOK, Fingerprint, Generation, ItemState
<1>3. ReaderTypeOK /\ SeerrTypeOK
  BY DEF ReaderTypeOK, SeerrTypeOK, ItemState
<1>4. Ownership /\ Delivery
  BY DEF Ownership, Delivery, Owning, Reconciling
<1> QED BY <1>1, <1>2, <1>3, <1>4 DEF IInv, TypeOK

(* RequestCreation, for every number of users, keys, handlers, instances   *)
(* and items: the inductive invariant holds in every reachable state.      *)
THEOREM Inductive == Spec => []IInv
<1>1. IInv /\ [Next]_vars => IInv'
  BY TypeStep, OwnershipStep, DeliveryStep DEF IInv
<1> QED BY InitIInv, <1>1, PTL DEF Spec

(* Every variable of a reachable state has its type: no status, time or    *)
(* fingerprint outside the ranges the tables of the server declare.        *)
THEOREM TypeCorrect == Spec => []TypeOK
<1>1. IInv => TypeOK
  BY DEF IInv
<1> QED BY Inductive, <1>1, PTL

(* An operation that may be sent again under its key was never accepted by *)
(* Seerr and has no POST under way, with any number of server instances,   *)
(* crashes, lost answers and reconciliations.                              *)
THEOREM ResendIsSafe == Spec => []FailedMeansNotAccepted
<1>1. IInv => FailedMeansNotAccepted
  BY DEF IInv, TypeOK, SeerrTypeOK, Delivery, Live, FailedMeansNotAccepted
<1> QED BY Inductive, <1>1, PTL

(* The steps of handlers that write the operation table.                   *)
LEMMA TableWriters ==
  ASSUME NEW h \in Handlers, CreateStep(h) \/ ReconcileStep(h)
  PROVE  \/ BeginAcquire(h) \/ BeginRefuse(h) \/ UNCHANGED ops
         \/ CompleteOperation(h) \/ FailOperation(h)
         \/ PostUncertain(h) \/ ReconcileUncertain(h)
BY DEF CreateStep, ReconcileStep, dbVars, Preview, JoinInFlight, Join, Joined, Reconcile,
   Admit, Confirm, RefuseConfirmation, SaveRequest, WriteFails, FetchSnapshot, ReconcileIngest,
   ReconcileAbsence, RecoverRequest, RecoverySuperseded

(* Syncs and the rest of the world do not write it.                        *)
LEMMA NoOtherWriters ==
  ASSUME (\E n \in Syncing : SyncStep(n)) \/ Environment \/ UNCHANGED vars
  PROVE  UNCHANGED ops
BY DEF SyncStep, Environment, vars, dbVars, SyncStart, SyncFetch, SyncIngest, SyncFinish,
   SyncAbort, SeerrAccepts, SeerrRefuses, PostLost, SeerrDeclines, SeerrDeletes,
   ForeignRequest, Crash, Tick

(* One server instance serializes the operations of an item: two of them   *)
(* are never pending or uncertain at once.                                 *)
LEMMA SerializedStep ==
  ASSUME SingleInstance, IInv, SoleOwner, OneUnresolvedPerItem, [Next]_vars
  PROVE  OneUnresolvedPerItem'
<1> USE DEF IInv, TypeOK, DbTypeOK, HandlerTypeOK, OneUnresolvedPerItem, Unresolved, OnItem
<1>1. ASSUME NEW h \in Handlers, BeginAcquire(h) PROVE OneUnresolvedPerItem'
  <2>1. opKey[h] \in Keys /\ ~ItemUnresolved(Target(h))
    BY <1>1 DEF BeginAcquire, Ownership
  <2>2. /\ ops'[opKey[h]] = [status |-> "pending", fp |-> body[h], at |-> 0]
        /\ \A k \in Keys \ {opKey[h]} : ops'[k] = ops[k] \/ ops'[k] = NoOperation
    BY <1>1, <2>1 DEF BeginAcquire, Purged, FailedKeys
  <2> QED BY <2>1, <2>2 DEF ItemUnresolved, Target, NoOperation
<1>2. ASSUME NEW h \in Handlers, BeginRefuse(h) PROVE OneUnresolvedPerItem'
  <2>1. \A k \in Keys : ops'[k] = ops[k] \/ ops'[k] = NoOperation
    BY <1>2 DEF BeginRefuse, Purged, FailedKeys
  <2>2. \A k \in Keys : Unresolved(k)' => ops'[k] = ops[k]
    BY <2>1 DEF NoOperation
  <2>3. \A k \in Keys, i \in Items : Unresolved(k)' /\ OnItem(k, i)' => Unresolved(k) /\ OnItem(k, i)
    BY <2>2
  <2> QED BY <2>3
<1>3. ASSUME NEW h \in Handlers, pc[h] \in Owning,
             \A k \in Keys \ {opKey[h]} : ops'[k] = ops[k],
             ops'[opKey[h]].fp = ops[opKey[h]].fp
      PROVE  OneUnresolvedPerItem'
  BY <1>3 DEF SoleOwner, Ownership, Live
<1>4. ASSUME NEW h \in Handlers,
             \/ CompleteOperation(h) \/ FailOperation(h)
             \/ PostUncertain(h) \/ ReconcileUncertain(h)
      PROVE  OneUnresolvedPerItem'
  <2>1. /\ pc[h] \in Owning
        /\ \E status, at : ops' = [ops EXCEPT ![opKey[h]].status = status, ![opKey[h]].at = at]
    BY <1>4 DEF CompleteOperation, FailOperation, PostUncertain, ReconcileUncertain,
                SetStatus, Owning, Reconciling
  <2>2. /\ opKey[h] \in Keys /\ ops[opKey[h]] \in Operation
    BY <2>1 DEF Ownership, Live, NoOperation, Owning, Reconciling
  <2>3. /\ \A k \in Keys \ {opKey[h]} : ops'[k] = ops[k]
        /\ ops'[opKey[h]].fp = ops[opKey[h]].fp
    BY <2>1, <2>2 DEF Operation
  <2> QED BY <1>3, <2>1, <2>3
<1>5. CASE UNCHANGED ops
  BY <1>5
<1> QED BY <1>1, <1>2, <1>4, <1>5, TableWriters, NoOtherWriters DEF Next

(* README: "Pending or uncertain operations serialize the shared Seerr     *)
(* side effect globally for that media item".  It holds of one server      *)
(* process with any number of concurrent calls; two processes on one       *)
(* database violate it (run request_instances_reopen).                     *)
THEOREM Serialized == SingleInstance /\ Spec => []OneUnresolvedPerItem
<1>1. Init => SoleOwner /\ OneUnresolvedPerItem
  BY DEF Init, SoleOwner, OneUnresolvedPerItem, Unresolved, NoOperation, Owning, Reconciling
<1>2. SingleInstance /\ IInv /\ SoleOwner /\ OneUnresolvedPerItem /\ [Next]_vars
        => SoleOwner' /\ OneUnresolvedPerItem'
  BY SoleOwnerStep, SerializedStep DEF IInv
<1>3. SUFFICES ASSUME SingleInstance PROVE Spec => []OneUnresolvedPerItem
  OBVIOUS
<1>4. IInv /\ SoleOwner /\ OneUnresolvedPerItem /\ [Next]_vars => SoleOwner' /\ OneUnresolvedPerItem'
  BY <1>2, <1>3
<1> QED BY Inductive, <1>1, <1>4, PTL DEF Spec
===============================================================================
