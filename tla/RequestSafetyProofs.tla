-------------------------- MODULE RequestSafetyProofs --------------------------
(***************************************************************************)
(* Theorems about RequestCreation that relate the operation table, the     *)
(* rows, the wire, the snapshots being read and Seerr: no duplicate write, *)
(* true successes, one success per preview, rows that are not erased and   *)
(* not restored, and the refinement of RequestLedger.                      *)
(***************************************************************************)
EXTENDS RequestCreationProofs

(***************************************************************************)
(* What Seerr accepted, as long as nobody else files requests there: an    *)
(* operation that was accepted stays known as such, a live request on an   *)
(* item has been accepted for every operation that is still held for it,   *)
(* and a POST under way is the only one its item waits for.                *)
(***************************************************************************)
Attribution ==
    /\ \A p \in wire : Unresolved(p.key)
    /\ \A k \in Keys : ops[k].status = "created" => k \in served
    /\ \A k \in Keys : (Live(k) /\ remote[ops[k].fp.item] = "active") => k \in served
    /\ \A p \in wire : \A k \in Keys :
          (Live(k) /\ ops[k].fp.item = p.item) => k = p.key \/ k \in served

(* A handler that goes on to store a success works on an accepted          *)
(* operation.                                                              *)
HasSnapshot == {"fetched", "ingested", "reconciled"}

Acceptance ==
    \A h \in Handlers :
       /\ (pc[h] = "posting" /\ reply[h] = "accepted") => opKey[h] \in served
       /\ pc[h] \in {"saved", "recovered"} => opKey[h] \in served
       /\ (pc[h] \in HasSnapshot /\ snap[h].seen[Target(h)] = "active") => opKey[h] \in served

(* The successes a token hashes were accepted; once a live request exists  *)
(* that an admitted call had not seen, its token misses a success.         *)
Tokens ==
    \A h \in Handlers :
       /\ body[h].gen.created \subseteq served
       /\ (pc[h] \in {"confirming", "beginning"} /\ remote[Target(h)] = "active") =>
             \E k \in served : ops[k].fp.item = Target(h) /\ k \notin body[h].gen.created

(* An operation whose owner has not written its row yet.                   *)
Unwritten(i) ==
    \E k \in Keys : /\ Unresolved(k) /\ OnItem(k, i)
                    /\ \A h \in Handlers : opKey[h] = k => pc[h] \notin {"saved", "recovered"}

(* The row of an item and its operations keep a snapshot with this start   *)
(* from touching it.                                                       *)
Protected(i, start) ==
    /\ rows[i].st = "active" /\ rows[i].seen >= start
    /\ \E k \in Keys : /\ OnItem(k, i)
                       /\ Unresolved(k) \/ (ops[k].status = "created" /\ ops[k].at >= start)

Snapshots == {h \in Handlers : pc[h] \in HasSnapshot} \cup {n \in Instances : sync[n] = "ingesting"}

(* A live request of Seerr is known to the database, and a snapshot that   *)
(* does not show it cannot erase it.                                       *)
Knowledge ==
    \A i \in Items : remote[i] = "active" =>
       /\ Unwritten(i) \/ rows[i].st = "active"
       /\ \A r \in Snapshots :
             snap[r].seen[i] # "active" => Unwritten(i) \/ Protected(i, snap[r].start)

(* No snapshot starts in the future.                                       *)
Past == \A r \in Readers : snap[r].start <= clock

Undisturbed == Attribution /\ Acceptance /\ Tokens /\ Knowledge
SafetyInv == Past /\ (foreign = 0 => Undisturbed)

(* Two operations of an item have been told apart by the token of the      *)
(* later one, which hashes the earlier success.                            *)
Told ==
    \A k \in Keys : Live(k) =>
       /\ k \notin ops[k].fp.gen.created
       /\ \A t \in Keys : (Live(t) /\ ops[t].fp.item = ops[k].fp.item /\ t # k)
             => k \in ops[t].fp.gen.created \/ t \in ops[k].fp.gen.created

(* What a snapshot denied is below the watermark or below the row, and for *)
(* a reconciliation of a single instance below the watermark or its start. *)
RowDenials ==
    \A i \in Items : denied[i] <= clock /\ (denied[i] <= watermark \/ denied[i] <= rows[i].seen)

ReconciledDenials ==
    \A h \in Handlers : pc[h] \in Reconciling =>
          denied[Target(h)] <= watermark \/ denied[Target(h)] <= snap[h].start

-------------------------------------------------------------------------------
(***************************************************************************)
(* What the writes of the operation table change.                          *)
(***************************************************************************)
(* The owner of an operation sets its status: its item, its token and all  *)
(* other operations stay.                                                  *)
LEMMA StatusWrite ==
  ASSUME IInv, NEW h \in Handlers, pc[h] \in Owning,
         NEW status \in {"pending", "uncertain", "created", "failed"}, NEW at,
         ops' = [ops EXCEPT ![opKey[h]].status = status, ![opKey[h]].at = at]
  PROVE  /\ opKey[h] \in Keys /\ Live(opKey[h]) /\ ops[opKey[h]].fp = body[h]
         /\ ops'[opKey[h]].status = status /\ ops'[opKey[h]].at = at
         /\ ops'[opKey[h]].fp = ops[opKey[h]].fp
         /\ \A k \in Keys : k # opKey[h] => ops'[k] = ops[k]
<1>1. opKey[h] \in Keys /\ Live(opKey[h]) /\ ops[opKey[h]].fp = body[h]
  BY DEF IInv, Ownership, Owning, Reconciling
<1>2. ops[opKey[h]] \in Operation
  BY <1>1 DEF IInv, TypeOK, DbTypeOK, Live, NoOperation
<1> QED BY <1>1, <1>2 DEF IInv, TypeOK, DbTypeOK, Operation

(* An acquisition writes one operation that was not held, and at most      *)
(* forgets failed ones.                                                    *)
LEMMA Acquisition ==
  ASSUME IInv, NEW h \in Handlers, BeginAcquire(h)
  PROVE  /\ opKey[h] \in Keys /\ ~Live(opKey[h])
         /\ ops'[opKey[h]] = [status |-> "pending", fp |-> body[h], at |-> 0]
         /\ \A k \in Keys : k # opKey[h] =>
               ops'[k] = ops[k] \/ (ops[k].status = "failed" /\ ops'[k] = NoOperation)
<1>1. opKey[h] \in Keys /\ ~Live(opKey[h])
  BY DEF BeginAcquire, IInv, Ownership, Live
<1> QED BY <1>1 DEF BeginAcquire, Purged, FailedKeys, IInv, TypeOK, DbTypeOK

(* So every operation that was held stays as it is, and the new one joins. *)
LEMMA AcquiredLives ==
  ASSUME IInv, NEW h \in Handlers, BeginAcquire(h)
  PROVE  /\ opKey[h] \in Keys /\ ~Live(opKey[h])
         /\ ops'[opKey[h]].status = "pending" /\ ops'[opKey[h]].fp = body[h]
         /\ \A k \in Keys : Live(k) => ops'[k] = ops[k]
         /\ \A k \in Keys : Live(k)' => k = opKey[h] \/ (Live(k) /\ ops'[k] = ops[k])
<1>1. /\ opKey[h] \in Keys /\ ~Live(opKey[h])
      /\ ops'[opKey[h]] = [status |-> "pending", fp |-> body[h], at |-> 0]
      /\ \A k \in Keys : k # opKey[h] =>
            ops'[k] = ops[k] \/ (ops[k].status = "failed" /\ ops'[k] = NoOperation)
  BY Acquisition
<1> QED BY <1>1 DEF Live, NoOperation

(* A refused acquisition at most forgets failed operations.                *)
LEMMA Refusal ==
  ASSUME IInv, NEW h \in Handlers, BeginRefuse(h)
  PROVE  \A k \in Keys :
            ops'[k] = ops[k] \/ (ops[k].status = "failed" /\ ops'[k] = NoOperation)
BY DEF BeginRefuse, Purged, FailedKeys, IInv, TypeOK, DbTypeOK

(* When an operation is acquired, Seerr holds no live request for its item *)
(* and no POST for it is under way.                                        *)
LEMMA NothingHeld ==
  ASSUME IInv, Attribution, Tokens, NEW h \in Handlers, BeginAcquire(h)
  PROVE  /\ remote[Target(h)] # "active"
         /\ \A p \in wire : p.item # Target(h)
         /\ \A k \in Keys : (Live(k) /\ ops[k].fp.item = Target(h)) => k \in served
<1> USE DEF IInv, TypeOK, DbTypeOK, HandlerTypeOK, SeerrTypeOK
<1>1. \A k \in Keys : (Live(k) /\ ops[k].fp.item = Target(h)) => ops[k].status = "created"
  BY DEF BeginAcquire, ItemUnresolved, Unresolved, OnItem, Live
<1>2. body[h].gen.created = {k \in Keys : ops[k].status = "created" /\ OnItem(k, Target(h))}
  BY DEF BeginAcquire, StaleGeneration, GenerationForItem
<1>3. \A k \in served : ops[k].fp.item = Target(h) => k \in body[h].gen.created
  BY <1>1, <1>2 DEF Delivery, Live, OnItem
<1>4. remote[Target(h)] # "active"
  BY <1>3 DEF Tokens, BeginAcquire
<1>5. \A p \in wire : p.item # Target(h)
  BY <1>1 DEF Attribution, Delivery, Live, Unresolved
<1> QED BY <1>1, <1>4, <1>5 DEF Attribution

LEMMA AttributionStep ==
  ASSUME IInv, Attribution, Acceptance, Tokens, foreign = 0, foreign' = 0, [Next]_vars
  PROVE  Attribution'
<1> USE DEF IInv, TypeOK, DbTypeOK, HandlerTypeOK, SeerrTypeOK, Attribution, Live, Unresolved
<1>1. ASSUME NEW h \in Handlers, Preview(h) PROVE Attribution'
  BY <1>1 DEF Preview, dbVars, readerVars, seerrVars
<1>2. ASSUME NEW h \in Handlers, JoinInFlight(h) PROVE Attribution'
  BY <1>2 DEF JoinInFlight, Join, dbVars, readerVars, seerrVars
<1>3. ASSUME NEW h \in Handlers, Joined(h) PROVE Attribution'
  BY <1>3 DEF Joined, Finish, dbVars, seerrVars
<1>4. ASSUME NEW h \in Handlers, Reconcile(h) PROVE Attribution'
  BY <1>4 DEF Reconcile, Join, dbVars, readerVars, seerrVars
<1>5. ASSUME NEW h \in Handlers, Admit(h) PROVE Attribution'
  BY <1>5 DEF Admit, Goto, Target, dbVars, readerVars, seerrVars
<1>6. ASSUME NEW h \in Handlers, Confirm(h) PROVE Attribution'
  BY <1>6 DEF Confirm, Goto, dbVars, readerVars, seerrVars
<1>7. ASSUME NEW h \in Handlers, RefuseConfirmation(h) PROVE Attribution'
  BY <1>7 DEF RefuseConfirmation, Finish, dbVars, seerrVars
<1>8. ASSUME NEW h \in Handlers, BeginAcquire(h) PROVE Attribution'
  <2>1. /\ remote' = remote /\ served' = served
        /\ wire' = wire \cup {[key |-> opKey[h], item |-> Target(h)]}
    BY <1>8 DEF BeginAcquire
  <2>2. /\ opKey[h] \in Keys /\ ~Live(opKey[h])
        /\ ops'[opKey[h]].status = "pending" /\ ops'[opKey[h]].fp = body[h]
        /\ \A k \in Keys : Live(k) => ops'[k] = ops[k]
        /\ \A k \in Keys : Live(k)' => k = opKey[h] \/ (Live(k) /\ ops'[k] = ops[k])
    BY <1>8, AcquiredLives
  <2>3. /\ remote[Target(h)] # "active" /\ \A p \in wire : p.item # Target(h)
        /\ \A k \in Keys : (Live(k) /\ ops[k].fp.item = Target(h)) => k \in served
    BY <1>8, NothingHeld
  <2>4. \A p \in wire' : Unresolved(p.key)'
    BY <2>1, <2>2 DEF Delivery
  <2>5. \A k \in Keys : ops'[k].status = "created" => k \in served
    BY <2>2
  <2>6. \A k \in Keys : (Live(k)' /\ remote[ops'[k].fp.item] = "active") => k \in served
    BY <2>2, <2>3 DEF Target
  <2>7. \A p \in wire' : \A k \in Keys :
           (Live(k)' /\ ops'[k].fp.item = p.item) => k = p.key \/ k \in served
    BY <2>1, <2>2, <2>3 DEF Target
  <2> QED BY <2>1, <2>4, <2>5, <2>6, <2>7
<1>9. ASSUME NEW h \in Handlers, BeginRefuse(h) PROVE Attribution'
  <2>1. UNCHANGED <<wire, remote, served>>
    BY <1>9 DEF BeginRefuse, seerrVars
  <2>2. \A k \in Keys :
           ops'[k] = ops[k] \/ (ops[k].status = "failed" /\ ops'[k] = NoOperation)
    BY <1>9, Refusal
  <2>3. \A k \in Keys : ops'[k].status = "created" \/ Live(k)' => ops'[k] = ops[k]
    BY <2>2 DEF NoOperation
  <2>4. \A p \in wire : Unresolved(p.key)'
    BY <2>2 DEF Delivery
  <2>5. \A k \in Keys : ops'[k].status = "created" => k \in served
    BY <2>3
  <2>6. \A k \in Keys : (Live(k)' /\ remote[ops'[k].fp.item] = "active") => k \in served
    BY <2>3
  <2>7. \A p \in wire : \A k \in Keys :
           (Live(k)' /\ ops'[k].fp.item = p.item) => k = p.key \/ k \in served
    BY <2>3
  <2> QED BY <2>1, <2>4, <2>5, <2>6, <2>7
<1>10. ASSUME NEW h \in Handlers, SaveRequest(h) PROVE Attribution'
  BY <1>10 DEF SaveRequest, Goto, readerVars, seerrVars
<1>11. ASSUME NEW h \in Handlers, CompleteOperation(h) PROVE Attribution'
  <2>1. pc[h] \in Owning /\ UNCHANGED <<wire, remote, served>>
    BY <1>11 DEF CompleteOperation, Owning, Reconciling, seerrVars
  <2>2. opKey[h] \in served
    BY <1>11 DEF CompleteOperation, Acceptance
  <2>3. /\ ops'[opKey[h]].status = "created" /\ ops'[opKey[h]].fp = ops[opKey[h]].fp
        /\ opKey[h] \in Keys /\ Live(opKey[h])
        /\ \A k \in Keys : k # opKey[h] => ops'[k] = ops[k]
    BY <1>11, <2>1, StatusWrite DEF CompleteOperation
  <2>4. \A k \in Keys : (Live(k)' => Live(k)) /\ ops'[k].fp = ops[k].fp
    BY <2>3
  <2>5. \A p \in wire : Unresolved(p.key)'
    BY <2>2, <2>3 DEF Delivery
  <2>6. \A k \in Keys : ops'[k].status = "created" => k \in served
    BY <2>2, <2>3
  <2>7. \A k \in Keys : (Live(k)' /\ remote[ops'[k].fp.item] = "active") => k \in served
    BY <2>4
  <2>8. \A p \in wire : \A k \in Keys :
           (Live(k)' /\ ops'[k].fp.item = p.item) => k = p.key \/ k \in served
    BY <2>4
  <2> QED BY <2>1, <2>5, <2>6, <2>7, <2>8
<1>12. ASSUME NEW h \in Handlers, FailOperation(h) PROVE Attribution'
  <2>1. pc[h] \in Owning /\ UNCHANGED <<wire, remote, served>>
    BY <1>12 DEF FailOperation, Owning, Reconciling, seerrVars
  <2>2. \A p \in wire : p.key # opKey[h]
    BY <1>12 DEF FailOperation, Delivery
  <2>3. /\ ops'[opKey[h]].status = "failed" /\ opKey[h] \in Keys
        /\ \A k \in Keys : k # opKey[h] => ops'[k] = ops[k]
    BY <1>12, <2>1, StatusWrite DEF FailOperation, SetStatus
  <2>4. \A k \in Keys : ops'[k].status = "created" \/ Live(k)' => ops'[k] = ops[k]
    BY <2>3
  <2>5. \A p \in wire : Unresolved(p.key)'
    BY <2>2, <2>3 DEF Delivery
  <2>6. \A k \in Keys : ops'[k].status = "created" => k \in served
    BY <2>4
  <2>7. \A k \in Keys : (Live(k)' /\ remote[ops'[k].fp.item] = "active") => k \in served
    BY <2>4
  <2>8. \A p \in wire : \A k \in Keys :
           (Live(k)' /\ ops'[k].fp.item = p.item) => k = p.key \/ k \in served
    BY <2>4
  <2> QED BY <2>1, <2>5, <2>6, <2>7, <2>8
<1>13. ASSUME NEW h \in Handlers, PostUncertain(h) PROVE Attribution'
  <2>1. pc[h] \in Owning /\ UNCHANGED <<wire, remote, served>>
    BY <1>13 DEF PostUncertain, Owning, Reconciling, seerrVars
  <2>2. /\ ops'[opKey[h]].status = "uncertain" /\ ops'[opKey[h]].fp = ops[opKey[h]].fp
        /\ opKey[h] \in Keys /\ Live(opKey[h])
        /\ \A k \in Keys : k # opKey[h] => ops'[k] = ops[k]
    BY <1>13, <2>1, StatusWrite DEF PostUncertain, SetStatus
  <2>3. \A k \in Keys : (Live(k)' => Live(k)) /\ ops'[k].fp = ops[k].fp
    BY <2>2
  <2>4. \A p \in wire : Unresolved(p.key)'
    BY <2>2
  <2>5. \A k \in Keys : ops'[k].status = "created" => k \in served
    BY <2>2
  <2>6. \A k \in Keys : (Live(k)' /\ remote[ops'[k].fp.item] = "active") => k \in served
    BY <2>3
  <2>7. \A p \in wire : \A k \in Keys :
           (Live(k)' /\ ops'[k].fp.item = p.item) => k = p.key \/ k \in served
    BY <2>3
  <2> QED BY <2>1, <2>4, <2>5, <2>6, <2>7
<1>14. ASSUME NEW h \in Handlers, WriteFails(h) PROVE Attribution'
  BY <1>14 DEF WriteFails, Finish, dbVars, seerrVars
<1>15. ASSUME NEW h \in Handlers, FetchSnapshot(h) PROVE Attribution'
  BY <1>15 DEF FetchSnapshot, dbVars, seerrVars
<1>16. ASSUME NEW h \in Handlers, ReconcileIngest(h) PROVE Attribution'
  BY <1>16 DEF ReconcileIngest, Goto, readerVars, seerrVars
<1>17. ASSUME NEW h \in Handlers, ReconcileAbsence(h) PROVE Attribution'
  BY <1>17 DEF ReconcileAbsence, Goto, CompleteSnapshot, readerVars, seerrVars
<1>18. ASSUME NEW h \in Handlers, RecoverRequest(h) PROVE Attribution'
  BY <1>18 DEF RecoverRequest, Goto, readerVars, seerrVars
<1>19. ASSUME NEW h \in Handlers, RecoverySuperseded(h) PROVE Attribution'
  BY <1>19 DEF RecoverySuperseded, Finish, dbVars, seerrVars
<1>20. ASSUME NEW h \in Handlers, ReconcileUncertain(h) PROVE Attribution'
  <2>1. pc[h] \in Owning /\ UNCHANGED <<wire, remote, served>>
    BY <1>20 DEF ReconcileUncertain, Owning, Reconciling, seerrVars
  <2>2. /\ ops'[opKey[h]].status = "uncertain" /\ ops'[opKey[h]].fp = ops[opKey[h]].fp
        /\ opKey[h] \in Keys /\ Live(opKey[h])
        /\ \A k \in Keys : k # opKey[h] => ops'[k] = ops[k]
    BY <1>20, <2>1, StatusWrite DEF ReconcileUncertain, SetStatus
  <2>3. \A k \in Keys : (Live(k)' => Live(k)) /\ ops'[k].fp = ops[k].fp
    BY <2>2
  <2>4. \A p \in wire : Unresolved(p.key)'
    BY <2>2
  <2>5. \A k \in Keys : ops'[k].status = "created" => k \in served
    BY <2>2
  <2>6. \A k \in Keys : (Live(k)' /\ remote[ops'[k].fp.item] = "active") => k \in served
    BY <2>3
  <2>7. \A p \in wire : \A k \in Keys :
           (Live(k)' /\ ops'[k].fp.item = p.item) => k = p.key \/ k \in served
    BY <2>3
  <2> QED BY <2>1, <2>4, <2>5, <2>6, <2>7
<1>21. ASSUME NEW n \in Instances, SyncStart(n) PROVE Attribution'
  BY <1>21 DEF SyncStart, dbVars, handlerVars, seerrVars
<1>22. ASSUME NEW n \in Instances, SyncFetch(n) PROVE Attribution'
  BY <1>22 DEF SyncFetch, dbVars, handlerVars, seerrVars
<1>23. ASSUME NEW n \in Instances, SyncIngest(n) PROVE Attribution'
  BY <1>23 DEF SyncIngest, handlerVars, seerrVars
<1>24. ASSUME NEW n \in Instances, SyncFinish(n) PROVE Attribution'
  BY <1>24 DEF SyncFinish, CompleteSnapshot, EndSync, handlerVars, seerrVars
<1>25. ASSUME NEW n \in Instances, SyncAbort(n) PROVE Attribution'
  BY <1>25 DEF SyncAbort, EndSync, dbVars, handlerVars, seerrVars
<1>26. ASSUME NEW n \in Instances, Crash(n) PROVE Attribution'
  BY <1>26 DEF Crash, dbVars, seerrVars
<1>27. ASSUME SeerrAccepts PROVE Attribution'
  BY <1>27 DEF SeerrAccepts, Answer, dbVars, readerVars
<1>28. ASSUME SeerrRefuses PROVE Attribution'
  BY <1>28 DEF SeerrRefuses, Answer, dbVars, readerVars
<1>29. ASSUME PostLost PROVE Attribution'
  BY <1>29 DEF PostLost, dbVars, handlerVars, readerVars
<1>30. ASSUME SeerrDeclines PROVE Attribution'
  BY <1>30 DEF SeerrDeclines, dbVars, handlerVars, readerVars
<1>31. ASSUME SeerrDeletes PROVE Attribution'
  BY <1>31 DEF SeerrDeletes, dbVars, handlerVars, readerVars
<1>32. ASSUME ForeignRequest PROVE Attribution'
  BY <1>32 DEF ForeignRequest
<1>33. ASSUME Tick PROVE Attribution'
  BY <1>33 DEF Tick, dbVars, handlerVars, readerVars, seerrVars
<1>34. CASE UNCHANGED vars
  BY <1>34 DEF vars, dbVars, handlerVars, readerVars, seerrVars
<1> QED
  BY SyncingAssumption, <1>1, <1>2, <1>3, <1>4, <1>5, <1>6, <1>7, <1>8, <1>9, <1>10, <1>11, <1>12, <1>13, <1>14, <1>15, <1>16, <1>17, <1>18, <1>19, <1>20, <1>21, <1>22, <1>23, <1>24, <1>25, <1>26, <1>27, <1>28, <1>29, <1>30, <1>31, <1>32, <1>33, <1>34
  DEF Next, CreateStep, ReconcileStep, SyncStep, Environment

LEMMA AcceptanceStep ==
  ASSUME IInv, Attribution, Acceptance, Tokens, foreign = 0, foreign' = 0, [Next]_vars
  PROVE  Acceptance'
<1> USE DEF IInv, TypeOK, DbTypeOK, HandlerTypeOK, ReaderTypeOK, SeerrTypeOK, Acceptance, HasSnapshot, Target
<1>1. ASSUME NEW h \in Handlers, Preview(h) PROVE Acceptance'
  BY <1>1 DEF Preview, dbVars, readerVars, seerrVars
<1>2. ASSUME NEW h \in Handlers, JoinInFlight(h) PROVE Acceptance'
  BY <1>2 DEF JoinInFlight, Join, dbVars, readerVars, seerrVars
<1>3. ASSUME NEW h \in Handlers, Joined(h) PROVE Acceptance'
  BY <1>3 DEF Joined, Finish, dbVars, seerrVars
<1>4. ASSUME NEW h \in Handlers, Reconcile(h) PROVE Acceptance'
  <2>1. /\ \A g \in Handlers : snap'[g].seen = snap[g].seen
        /\ UNCHANGED <<body, reply, served>>
    <3>1. snap' = snap \/ snap' = [snap EXCEPT ![h].start = clock]
      BY <1>4 DEF Reconcile, Join, readerVars
    <3>2. \A g \in Handlers : snap'[g].seen = snap[g].seen
      <4>1. snap[h] \in [start : Time, seen : [Items -> ItemState]] /\ h \in DOMAIN snap
        BY DEF Readers
      <4>2. [snap[h] EXCEPT !.start = clock].seen = snap[h].seen
        BY <4>1
      <4> QED BY <3>1, <4>1, <4>2 DEF Readers
    <3> QED BY <1>4, <3>2 DEF Reconcile, Join, seerrVars
  <2>2. \A g \in Handlers : \/ pc'[g] = pc[g] /\ opKey'[g] = opKey[g]
                            \/ pc'[g] \in {"joined", "fetching"}
    BY <1>4 DEF Reconcile, Join
  <2> QED BY <2>1, <2>2
<1>5. ASSUME NEW h \in Handlers, Admit(h) PROVE Acceptance'
  BY <1>5 DEF Admit, Goto, Target, dbVars, readerVars, seerrVars
<1>6. ASSUME NEW h \in Handlers, Confirm(h) PROVE Acceptance'
  BY <1>6 DEF Confirm, Goto, dbVars, readerVars, seerrVars
<1>7. ASSUME NEW h \in Handlers, RefuseConfirmation(h) PROVE Acceptance'
  BY <1>7 DEF RefuseConfirmation, Finish, dbVars, seerrVars
<1>8. ASSUME NEW h \in Handlers, BeginAcquire(h) PROVE Acceptance'
  <2>1. /\ pc[h] = "beginning" /\ pc' = [pc EXCEPT ![h] = "posting"]
        /\ UNCHANGED <<opKey, body, reply, snap, served>>
    BY <1>8 DEF BeginAcquire, readerVars
  <2>2. reply[h] = "none"
    BY <2>1 DEF Delivery
  <2> QED BY <2>1, <2>2
<1>9. ASSUME NEW h \in Handlers, BeginRefuse(h) PROVE Acceptance'
  BY <1>9 DEF BeginRefuse, FailedKeys, Finish, Purged, seerrVars
<1>10. ASSUME NEW h \in Handlers, SaveRequest(h) PROVE Acceptance'
  BY <1>10 DEF SaveRequest, Goto, readerVars, seerrVars
<1>11. ASSUME NEW h \in Handlers, CompleteOperation(h) PROVE Acceptance'
  BY <1>11 DEF CompleteOperation, Finish, seerrVars
<1>12. ASSUME NEW h \in Handlers, FailOperation(h) PROVE Acceptance'
  BY <1>12 DEF FailOperation, Finish, SetStatus, seerrVars
<1>13. ASSUME NEW h \in Handlers, PostUncertain(h) PROVE Acceptance'
  BY <1>13 DEF PostUncertain, Finish, SetStatus, seerrVars
<1>14. ASSUME NEW h \in Handlers, WriteFails(h) PROVE Acceptance'
  BY <1>14 DEF WriteFails, Finish, dbVars, seerrVars
<1>15. ASSUME NEW h \in Handlers, FetchSnapshot(h) PROVE Acceptance'
  <2>1. /\ pc[h] = "fetching" /\ pc' = [pc EXCEPT ![h] = "fetched"]
        /\ \A g \in Handlers : g # h => snap'[g] = snap[g]
        /\ snap'[h].seen = remote
        /\ UNCHANGED <<opKey, body, reply, served>>
    BY <1>15 DEF FetchSnapshot, Readers, seerrVars
  <2>2. /\ opKey[h] \in Keys /\ Live(opKey[h]) /\ ops[opKey[h]].fp = body[h]
    BY <2>1 DEF Ownership, Owning, Reconciling
  <2>3. remote[body[h].item] = "active" => opKey[h] \in served
    BY <2>2 DEF Attribution
  <2> QED BY <2>1, <2>3
<1>16. ASSUME NEW h \in Handlers, ReconcileIngest(h) PROVE Acceptance'
  BY <1>16 DEF ReconcileIngest, Goto, readerVars, seerrVars
<1>17. ASSUME NEW h \in Handlers, ReconcileAbsence(h) PROVE Acceptance'
  BY <1>17 DEF ReconcileAbsence, Goto, CompleteSnapshot, readerVars, seerrVars
<1>18. ASSUME NEW h \in Handlers, RecoverRequest(h) PROVE Acceptance'
  BY <1>18 DEF RecoverRequest, Goto, readerVars, seerrVars
<1>19. ASSUME NEW h \in Handlers, RecoverySuperseded(h) PROVE Acceptance'
  BY <1>19 DEF RecoverySuperseded, Finish, dbVars, seerrVars
<1>20. ASSUME NEW h \in Handlers, ReconcileUncertain(h) PROVE Acceptance'
  BY <1>20 DEF ReconcileUncertain, Finish, SetStatus, seerrVars
<1>21. ASSUME NEW n \in Instances, SyncStart(n) PROVE Acceptance'
  BY <1>21 DEF SyncStart, dbVars, handlerVars, seerrVars
<1>22. ASSUME NEW n \in Instances, SyncFetch(n) PROVE Acceptance'
  <2>1. \A g \in Handlers : snap'[g] = snap[g]
    BY <1>22, ReaderAssumption DEF SyncFetch, Readers
  <2> QED BY <1>22, <2>1 DEF SyncFetch, handlerVars, seerrVars
<1>23. ASSUME NEW n \in Instances, SyncIngest(n) PROVE Acceptance'
  BY <1>23 DEF SyncIngest, handlerVars, seerrVars
<1>24. ASSUME NEW n \in Instances, SyncFinish(n) PROVE Acceptance'
  <2>1. \A g \in Handlers : snap'[g] = snap[g]
    BY <1>24, ReaderAssumption DEF SyncFinish, EndSync, Readers
  <2> QED BY <1>24, <2>1 DEF SyncFinish, handlerVars, seerrVars
<1>25. ASSUME NEW n \in Instances, SyncAbort(n) PROVE Acceptance'
  <2>1. \A g \in Handlers : snap'[g] = snap[g]
    BY <1>25, ReaderAssumption DEF SyncAbort, EndSync, Readers
  <2> QED BY <1>25, <2>1 DEF SyncAbort, handlerVars, seerrVars
<1>26. ASSUME NEW n \in Instances, Crash(n) PROVE Acceptance'
  <2>1. \A g \in Handlers : \/ pc'[g] = "idle"
                            \/ /\ pc'[g] = pc[g] /\ opKey'[g] = opKey[g] /\ reply'[g] = reply[g]
                               /\ snap'[g] = snap[g]
    BY <1>26, ReaderAssumption DEF Crash, Readers
  <2> QED BY <1>26, <2>1 DEF Crash, seerrVars
<1>27. ASSUME SeerrAccepts PROVE Acceptance'
  BY <1>27 DEF SeerrAccepts, Answer, dbVars, readerVars
<1>28. ASSUME SeerrRefuses PROVE Acceptance'
  BY <1>28 DEF SeerrRefuses, Answer, dbVars, readerVars
<1>29. ASSUME PostLost PROVE Acceptance'
  BY <1>29 DEF PostLost, dbVars, handlerVars, readerVars
<1>30. ASSUME SeerrDeclines PROVE Acceptance'
  BY <1>30 DEF SeerrDeclines, dbVars, handlerVars, readerVars
<1>31. ASSUME SeerrDeletes PROVE Acceptance'
  BY <1>31 DEF SeerrDeletes, dbVars, handlerVars, readerVars
<1>32. ASSUME ForeignRequest PROVE Acceptance'
  BY <1>32 DEF ForeignRequest
<1>33. ASSUME Tick PROVE Acceptance'
  BY <1>33 DEF Tick, dbVars, handlerVars, readerVars, seerrVars
<1>34. CASE UNCHANGED vars
  BY <1>34 DEF vars, dbVars, handlerVars, readerVars, seerrVars
<1> QED
  BY SyncingAssumption, <1>1, <1>2, <1>3, <1>4, <1>5, <1>6, <1>7, <1>8, <1>9, <1>10, <1>11, <1>12, <1>13, <1>14, <1>15, <1>16, <1>17, <1>18, <1>19, <1>20, <1>21, <1>22, <1>23, <1>24, <1>25, <1>26, <1>27, <1>28, <1>29, <1>30, <1>31, <1>32, <1>33, <1>34
  DEF Next, CreateStep, ReconcileStep, SyncStep, Environment

LEMMA TokensStep ==
  ASSUME IInv, Attribution, Acceptance, Tokens, Knowledge, foreign = 0, foreign' = 0, [Next]_vars
  PROVE  Tokens'
<1> USE DEF IInv, TypeOK, DbTypeOK, HandlerTypeOK, SeerrTypeOK, Tokens, Target
<1>1. ASSUME NEW h \in Handlers, Preview(h) PROVE Tokens'
  <2>1. /\ UNCHANGED <<ops, pc, remote, served>> /\ pc[h] = "idle"
        /\ \A g \in Handlers : g # h => body'[g] = body[g]
    BY <1>1 DEF Preview, dbVars, seerrVars
  <2>2. body'[h].gen.created \subseteq served
    BY <1>1 DEF Preview, GenerationForItem, Attribution
  <2> QED BY <2>1, <2>2
<1>2. ASSUME NEW h \in Handlers, JoinInFlight(h) PROVE Tokens'
  BY <1>2 DEF JoinInFlight, Join, dbVars, readerVars, seerrVars
<1>3. ASSUME NEW h \in Handlers, Joined(h) PROVE Tokens'
  BY <1>3 DEF Joined, Finish, dbVars, seerrVars
<1>4. ASSUME NEW h \in Handlers, Reconcile(h) PROVE Tokens'
  BY <1>4 DEF Reconcile, Join, dbVars, readerVars, seerrVars
<1>5. ASSUME NEW h \in Handlers, Admit(h) PROVE Tokens'
  <2>1. remote[body[h].item] # "active"
    BY <1>5 DEF Admit, Target, Knowledge, Unwritten, ItemUnresolved, Fingerprint
  <2> QED BY <1>5, <2>1 DEF Admit, Goto, dbVars, seerrVars
<1>6. ASSUME NEW h \in Handlers, Confirm(h) PROVE Tokens'
  BY <1>6 DEF Confirm, Goto, dbVars, readerVars, seerrVars
<1>7. ASSUME NEW h \in Handlers, RefuseConfirmation(h) PROVE Tokens'
  BY <1>7 DEF RefuseConfirmation, Finish, dbVars, seerrVars
<1>8. ASSUME NEW h \in Handlers, BeginAcquire(h) PROVE Tokens'
  <2>1. \A k \in served : ops'[k] = ops[k]
    BY <1>8, AcquiredLives DEF Delivery
  <2>2. /\ pc' = [pc EXCEPT ![h] = "posting"] /\ UNCHANGED <<body, remote, served>>
    BY <1>8 DEF BeginAcquire
  <2> QED BY <2>1, <2>2
<1>9. ASSUME NEW h \in Handlers, BeginRefuse(h) PROVE Tokens'
  <2>1. \A k \in served : ops'[k] = ops[k]
    BY <1>9, Refusal DEF Delivery, Live
  <2> QED BY <1>9, <2>1 DEF BeginRefuse, Finish, seerrVars
<1>10. ASSUME NEW h \in Handlers, SaveRequest(h) PROVE Tokens'
  BY <1>10 DEF SaveRequest, Goto, readerVars, seerrVars
<1>11. ASSUME NEW h \in Handlers, CompleteOperation(h) PROVE Tokens'
  BY <1>11 DEF CompleteOperation, Finish, seerrVars
<1>12. ASSUME NEW h \in Handlers, FailOperation(h) PROVE Tokens'
  BY <1>12 DEF FailOperation, Finish, SetStatus, seerrVars
<1>13. ASSUME NEW h \in Handlers, PostUncertain(h) PROVE Tokens'
  <2>1. \A k \in Keys : ops'[k].fp = ops[k].fp
    BY <1>13, StatusWrite DEF PostUncertain, SetStatus, Owning, Reconciling
  <2> QED BY <1>13, <2>1 DEF PostUncertain, Finish, seerrVars
<1>14. ASSUME NEW h \in Handlers, WriteFails(h) PROVE Tokens'
  BY <1>14 DEF WriteFails, Finish, dbVars, seerrVars
<1>15. ASSUME NEW h \in Handlers, FetchSnapshot(h) PROVE Tokens'
  BY <1>15 DEF FetchSnapshot, dbVars, seerrVars
<1>16. ASSUME NEW h \in Handlers, ReconcileIngest(h) PROVE Tokens'
  BY <1>16 DEF ReconcileIngest, Goto, readerVars, seerrVars
<1>17. ASSUME NEW h \in Handlers, ReconcileAbsence(h) PROVE Tokens'
  BY <1>17 DEF ReconcileAbsence, Goto, CompleteSnapshot, readerVars, seerrVars
<1>18. ASSUME NEW h \in Handlers, RecoverRequest(h) PROVE Tokens'
  BY <1>18 DEF RecoverRequest, Goto, readerVars, seerrVars
<1>19. ASSUME NEW h \in Handlers, RecoverySuperseded(h) PROVE Tokens'
  BY <1>19 DEF RecoverySuperseded, Finish, dbVars, seerrVars
<1>20. ASSUME NEW h \in Handlers, ReconcileUncertain(h) PROVE Tokens'
  BY <1>20 DEF ReconcileUncertain, Finish, SetStatus, seerrVars
<1>21. ASSUME NEW n \in Instances, SyncStart(n) PROVE Tokens'
  BY <1>21 DEF SyncStart, dbVars, handlerVars, seerrVars
<1>22. ASSUME NEW n \in Instances, SyncFetch(n) PROVE Tokens'
  BY <1>22 DEF SyncFetch, dbVars, handlerVars, seerrVars
<1>23. ASSUME NEW n \in Instances, SyncIngest(n) PROVE Tokens'
  BY <1>23 DEF SyncIngest, handlerVars, seerrVars
<1>24. ASSUME NEW n \in Instances, SyncFinish(n) PROVE Tokens'
  BY <1>24 DEF SyncFinish, CompleteSnapshot, EndSync, handlerVars, seerrVars
<1>25. ASSUME NEW n \in Instances, SyncAbort(n) PROVE Tokens'
  BY <1>25 DEF SyncAbort, EndSync, dbVars, handlerVars, seerrVars
<1>26. ASSUME NEW n \in Instances, Crash(n) PROVE Tokens'
  BY <1>26 DEF Crash, dbVars, seerrVars
<1>27. ASSUME SeerrAccepts PROVE Tokens'
  <2>1. PICK p \in wire : /\ remote' = [remote EXCEPT ![p.item] = "active"]
                          /\ served' = served \cup {p.key}
    BY <1>27 DEF SeerrAccepts
  <2>2. UNCHANGED <<ops, pc, body>>
    BY <1>27 DEF SeerrAccepts, dbVars
  <2>3. p.key \notin served /\ ops[p.key].fp.item = p.item
    BY DEF Delivery
  <2>4. ASSUME NEW h \in Handlers, pc[h] \in {"confirming", "beginning"}, remote'[body[h].item] = "active"
        PROVE  \E k \in served' : ops[k].fp.item = body[h].item /\ k \notin body[h].gen.created
    <3>1. CASE body[h].item = p.item
      BY <2>1, <2>3, <3>1
    <3>2. CASE body[h].item # p.item
      BY <2>1, <2>4, <3>2
    <3> QED BY <3>1, <3>2
  <2> QED BY <2>1, <2>2, <2>4
<1>28. ASSUME SeerrRefuses PROVE Tokens'
  BY <1>28 DEF SeerrRefuses, Answer, dbVars, readerVars
<1>29. ASSUME PostLost PROVE Tokens'
  BY <1>29 DEF PostLost, dbVars, handlerVars, readerVars
<1>30. ASSUME SeerrDeclines PROVE Tokens'
  BY <1>30 DEF SeerrDeclines, dbVars, handlerVars, readerVars
<1>31. ASSUME SeerrDeletes PROVE Tokens'
  BY <1>31 DEF SeerrDeletes, dbVars, handlerVars, readerVars
<1>32. ASSUME ForeignRequest PROVE Tokens'
  BY <1>32 DEF ForeignRequest
<1>33. ASSUME Tick PROVE Tokens'
  BY <1>33 DEF Tick, dbVars, handlerVars, readerVars, seerrVars
<1>34. CASE UNCHANGED vars
  BY <1>34 DEF vars, dbVars, handlerVars, readerVars, seerrVars
<1> QED
  BY SyncingAssumption, <1>1, <1>2, <1>3, <1>4, <1>5, <1>6, <1>7, <1>8, <1>9, <1>10, <1>11, <1>12, <1>13, <1>14, <1>15, <1>16, <1>17, <1>18, <1>19, <1>20, <1>21, <1>22, <1>23, <1>24, <1>25, <1>26, <1>27, <1>28, <1>29, <1>30, <1>31, <1>32, <1>33, <1>34
  DEF Next, CreateStep, ReconcileStep, SyncStep, Environment

-------------------------------------------------------------------------------
(***************************************************************************)
(* What the database knows of live requests.                               *)
(***************************************************************************)
(* Steps that write neither operations nor rows: nothing becomes live, no  *)
(* handler comes to the second half of a success, and a new snapshot shows *)
(* what Seerr holds.                                                       *)
LEMMA QuietStep ==
  ASSUME Knowledge, UNCHANGED <<ops, rows>>,
         \A i \in Items : remote'[i] = "active" => remote[i] = "active",
         \A g \in Handlers : pc'[g] \in {"saved", "recovered"} =>
                                pc[g] = pc'[g] /\ opKey'[g] = opKey[g],
         \A r \in Snapshots' : (r \in Snapshots /\ snap'[r] = snap[r]) \/ snap'[r].seen = remote'
  PROVE  Knowledge'
<1>1. ASSUME NEW i \in Items, Unwritten(i) PROVE Unwritten(i)'
  BY <1>1 DEF Unwritten, Unresolved, OnItem
<1>2. ASSUME NEW i \in Items, NEW r \in Snapshots', remote'[i] = "active", snap'[r].seen[i] # "active"
      PROVE  Unwritten(i)' \/ Protected(i, snap[r].start)'
  <2>1. r \in Snapshots /\ snap'[r] = snap[r] /\ remote[i] = "active"
    BY <1>2
  <2>2. Unwritten(i) \/ Protected(i, snap[r].start)
    BY <2>1, <1>2 DEF Knowledge
  <2>3. CASE Unwritten(i)
    BY <2>3, <1>1
  <2>4. CASE Protected(i, snap[r].start)
    BY <2>1, <2>4 DEF Protected, Unresolved, OnItem
  <2> QED BY <2>2, <2>3, <2>4
<1> QED BY <1>1, <1>2 DEF Knowledge

(* A snapshot in hand does not erase a live request: the row stays, or is  *)
(* refreshed as active by a snapshot that shows the request.               *)
LEMMA RowsKept ==
  ASSUME IInv, Knowledge, NEW r \in Snapshots, NEW I,
         rows' = Ingested(I, snap[r]) \/ rows' = WithoutCleared(snap[r]),
         NEW i \in Items, remote[i] = "active"
  PROVE  \/ rows'[i] = rows[i]
         \/ rows'[i].st = "active" /\ rows'[i].seen >= rows[i].seen /\ ~ItemUnresolved(i)
<1> DEFINE s == snap[r]
<1>1. s.start \in Time /\ rows[i].seen \in Time /\ \A k \in Keys : OnItem(k, i) => ops[k].at \in Time
  BY DEF IInv, TypeOK, DbTypeOK, ReaderTypeOK, Readers, Snapshots, Operation, OnItem, NoOperation
<1>2. s.seen[i] # "active" => ItemUnresolved(i) \/ Protected(i, s.start)
  BY DEF Knowledge, Unwritten, ItemUnresolved
<1>3. CASE rows' = Ingested(I, s)
  <2>1. CASE Skipped(i, s)
    BY <1>3, <2>1 DEF Ingested
  <2>2. CASE ~Skipped(i, s)
    <3>1. rows[i].seen <= s.start /\ ~ItemUnresolved(i) /\ ~Protected(i, s.start)
      BY <1>1, <2>2 DEF Skipped, ItemUnresolved, Protected, Time
    <3>2. s.seen[i] = "active"
      BY <1>2, <3>1
    <3> QED BY <1>1, <1>3, <3>1, <3>2 DEF Ingested, Time
  <2> QED BY <2>1, <2>2
<1>4. CASE rows' = WithoutCleared(s)
  <2>1. i \notin Cleared(s)
    BY <1>1, <1>2 DEF Cleared, Protected, Time
  <2> QED BY <1>4, <2>1 DEF WithoutCleared
<1> QED BY <1>3, <1>4

(* So the steps that apply a snapshot keep what the database knows.        *)
LEMMA ApplyStep ==
  ASSUME IInv, Knowledge, NEW s \in Snapshots, NEW I,
         rows' = Ingested(I, snap[s]) \/ rows' = WithoutCleared(snap[s]),
         UNCHANGED <<ops, remote, opKey>>,
         \A g \in Handlers : pc'[g] \in {"saved", "recovered"} => pc[g] = pc'[g],
         \A r \in Snapshots' : r \in Snapshots /\ snap'[r] = snap[r]
  PROVE  Knowledge'
<1>1. ASSUME NEW i \in Items, Unwritten(i) PROVE Unwritten(i)'
  BY <1>1 DEF Unwritten, Unresolved, OnItem
<1>2. ASSUME NEW i \in Items, remote[i] = "active"
      PROVE  \/ rows'[i] = rows[i]
             \/ rows'[i].st = "active" /\ rows'[i].seen >= rows[i].seen /\ ~ItemUnresolved(i)
  BY <1>2, RowsKept
<1>3. ASSUME NEW i \in Items, remote[i] = "active", rows'[i] \in [st : ItemState, seen : Time],
             NEW start \in Time, Protected(i, start)
      PROVE  Protected(i, start)'
  <2>1. rows[i].seen \in Time /\ rows[i].seen >= start /\ rows[i].st = "active"
    BY <1>3 DEF IInv, TypeOK, DbTypeOK, Protected
  <2>2. rows'[i].st = "active" /\ rows'[i].seen >= start
    BY <1>2, <1>3, <2>1 DEF Time
  <2> QED BY <1>3, <2>2 DEF Protected, Unresolved, OnItem
<1>4. \A i \in Items : rows'[i] \in [st : ItemState, seen : Time]
  <2>1. snap[s] \in [start : Time, seen : [Items -> ItemState]]
    BY DEF IInv, TypeOK, ReaderTypeOK, Readers, Snapshots
  <2> QED BY <2>1, RowTypes DEF IInv, TypeOK
<1>5. ASSUME NEW i \in Items, NEW r \in Snapshots', remote[i] = "active", snap'[r].seen[i] # "active"
      PROVE  Unwritten(i)' \/ Protected(i, snap[r].start)'
  <2>1. r \in Snapshots /\ snap'[r] = snap[r] /\ snap[r].start \in Time
    BY DEF IInv, TypeOK, ReaderTypeOK, Readers, Snapshots
  <2>2. Unwritten(i) \/ Protected(i, snap[r].start)
    BY <2>1, <1>5 DEF Knowledge
  <2>3. CASE Unwritten(i)
    BY <2>3, <1>1
  <2>4. CASE Protected(i, snap[r].start)
    <3>1. PICK start \in Time : start = snap[r].start
      BY <2>1
    <3>2. Protected(i, start)'
      BY <1>3, <1>4, <1>5, <2>4, <3>1
    <3> QED BY <2>1, <3>1, <3>2 DEF Protected
  <2> QED BY <2>2, <2>3, <2>4
<1>6. ASSUME NEW i \in Items, remote[i] = "active"
      PROVE  Unwritten(i)' \/ rows'[i].st = "active"
  BY <1>1, <1>2, <1>6 DEF Knowledge
<1> QED BY <1>5, <1>6 DEF Knowledge

(* Steps on the operation table: an operation whose item has a live        *)
(* request stays, becomes unresolved, or is created now by a handler that  *)
(* has written the row.                                                    *)
LEMMA TableStep ==
  ASSUME IInv, Past, Knowledge, UNCHANGED <<rows, remote>>,
         \A k \in Keys : (Live(k) /\ remote[ops[k].fp.item] = "active") =>
            /\ ops'[k].fp = ops[k].fp
            /\ \/ Unresolved(k)'
               \/ ops'[k] = ops[k]
               \/ /\ ops'[k].status = "created" /\ ops'[k].at = clock
                  /\ \E g \in Handlers : opKey[g] = k /\ pc[g] \in {"saved", "recovered"},
         \A g \in Handlers : pc'[g] \in {"saved", "recovered"} =>
                                pc[g] = pc'[g] /\ opKey'[g] = opKey[g],
         \A r \in Snapshots' : r \in Snapshots /\ snap'[r] = snap[r]
  PROVE  Knowledge'
<1>1. ASSUME NEW i \in Items, remote[i] = "active", Unwritten(i) PROVE Unwritten(i)'
  <2>1. PICK k \in Keys : /\ Unresolved(k) /\ OnItem(k, i)
                          /\ \A g \in Handlers : opKey[g] = k => pc[g] \notin {"saved", "recovered"}
    BY <1>1 DEF Unwritten
  <2>2. Live(k) /\ ops[k].fp.item = i
    BY <2>1 DEF Live, Unresolved, OnItem
  <2>3. Unresolved(k)' /\ ops'[k].fp = ops[k].fp
    BY <1>1, <2>1, <2>2 DEF Unresolved
  <2>4. OnItem(k, i)'
    BY <2>2, <2>3 DEF OnItem, Unresolved
  <2> QED BY <2>1, <2>3, <2>4 DEF Unwritten
<1>2. ASSUME NEW i \in Items, remote[i] = "active", NEW r \in Snapshots, snap'[r] = snap[r],
             Protected(i, snap[r].start)
      PROVE  Protected(i, snap[r].start)'
  <2>1. PICK k \in Keys : /\ OnItem(k, i)
                          /\ Unresolved(k) \/ (ops[k].status = "created" /\ ops[k].at >= snap[r].start)
    BY <1>2 DEF Protected
  <2>2. Live(k) /\ ops[k].fp.item = i
    BY <2>1 DEF Live, Unresolved, OnItem
  <2>3. clock >= snap[r].start
    BY DEF Past, Snapshots, Readers, IInv, TypeOK, ReaderTypeOK, Time
  <2>4. /\ ops'[k].fp.item = i
        /\ Unresolved(k)' \/ (ops'[k].status = "created" /\ ops'[k].at >= snap[r].start)
    BY <1>2, <2>1, <2>2, <2>3 DEF Unresolved
  <2>5. OnItem(k, i)'
    BY <2>4 DEF OnItem, Unresolved
  <2> QED BY <1>2, <2>4, <2>5 DEF Protected
<1>3. ASSUME NEW i \in Items, NEW r \in Snapshots', remote[i] = "active", snap'[r].seen[i] # "active"
      PROVE  Unwritten(i)' \/ Protected(i, snap[r].start)'
  <2>1. r \in Snapshots /\ snap'[r] = snap[r]
    OBVIOUS
  <2>2. Unwritten(i) \/ Protected(i, snap[r].start)
    BY <2>1, <1>3 DEF Knowledge
  <2> QED BY <2>1, <2>2, <1>1, <1>2, <1>3
<1> QED BY <1>1, <1>3 DEF Knowledge

(* The owner of an operation stores its item as requested.                 *)
LEMMA StoreStep ==
  ASSUME IInv, Past, Knowledge, NEW h \in Handlers, pc[h] \in Owning,
         rows' = [rows EXCEPT ![Target(h)] = [st |-> "active", seen |-> clock]],
         UNCHANGED <<ops, remote, opKey>>, \A g \in Handlers : g # h => pc'[g] = pc[g],
         \A r \in Snapshots' : r \in Snapshots /\ snap'[r] = snap[r]
  PROVE  Knowledge'
<1>1. Live(opKey[h]) /\ ops[opKey[h]].fp.item = Target(h) /\ Target(h) \in Items
  BY DEF IInv, TypeOK, HandlerTypeOK, Ownership, Target, Fingerprint
<1>2. rows'[Target(h)] = [st |-> "active", seen |-> clock]
      /\ \A i \in Items : i # Target(h) => rows'[i] = rows[i]
  BY <1>1 DEF IInv, TypeOK, DbTypeOK
<1>3. ASSUME NEW i \in Items, i # Target(h), Unwritten(i) PROVE Unwritten(i)'
  BY <1>1, <1>3 DEF Unwritten, Unresolved, OnItem
<1>4. ASSUME NEW i \in Items, NEW r \in Snapshots', remote[i] = "active", snap'[r].seen[i] # "active"
      PROVE  Unwritten(i)' \/ Protected(i, snap[r].start)'
  <2>1. /\ r \in Snapshots /\ snap'[r] = snap[r] /\ clock >= snap[r].start
    BY DEF Past, Snapshots, Readers, IInv, TypeOK, ReaderTypeOK, Time
  <2>2. Unwritten(i) \/ Protected(i, snap[r].start)
    BY <2>1, <1>4 DEF Knowledge
  <2>3. CASE i # Target(h)
    <3>1. CASE Unwritten(i)
      BY <1>3, <2>3, <3>1
    <3>2. CASE Protected(i, snap[r].start)
      BY <1>2, <2>1, <2>3, <3>2 DEF Protected, Unresolved, OnItem
    <3> QED BY <2>2, <3>1, <3>2
  <2>4. CASE i = Target(h)
    <3>1. \E k \in Keys : /\ OnItem(k, i)
                          /\ Unresolved(k) \/ (ops[k].status = "created" /\ ops[k].at >= snap[r].start)
      BY <2>2 DEF Unwritten, Protected
    <3>2. rows'[i].st = "active" /\ rows'[i].seen >= snap[r].start
      BY <1>2, <2>1, <2>4
    <3> QED BY <2>1, <3>1, <3>2 DEF Protected, Unresolved, OnItem
  <2> QED BY <2>3, <2>4
<1>5. ASSUME NEW i \in Items, remote[i] = "active" PROVE Unwritten(i)' \/ rows'[i].st = "active"
  BY <1>2, <1>3, <1>5 DEF Knowledge
<1> QED BY <1>4, <1>5 DEF Knowledge

(* Every step keeps what the database knows of live requests.              *)
LEMMA KnowledgeStep ==
  ASSUME IInv, Past, Attribution, Acceptance, Knowledge,
         foreign = 0, foreign' = 0, [Next]_vars
  PROVE  Knowledge'
<1> USE DEF IInv, TypeOK, DbTypeOK, HandlerTypeOK, ReaderTypeOK, SeerrTypeOK, HasSnapshot
<1>1. ASSUME NEW h \in Handlers, Preview(h) PROVE Knowledge'
  <2>1. UNCHANGED <<ops, rows>> /\ \A i \in Items : remote'[i] = "active" => remote[i] = "active"
    BY <1>1 DEF Preview, dbVars, readerVars, seerrVars
  <2>2. \A g \in Handlers : pc'[g] \in {"saved", "recovered"} => pc[g] = pc'[g] /\ opKey'[g] = opKey[g]
    BY <1>1 DEF Preview, dbVars, readerVars, seerrVars
  <2>3. \A r \in Snapshots' : (r \in Snapshots /\ snap'[r] = snap[r]) \/ snap'[r].seen = remote'
    BY <1>1, ReaderAssumption DEF Preview, dbVars, readerVars, seerrVars, Readers, Snapshots
  <2> QED BY <2>1, <2>2, <2>3, QuietStep
<1>2. ASSUME NEW h \in Handlers, JoinInFlight(h) PROVE Knowledge'
  <2>1. UNCHANGED <<ops, rows>> /\ \A i \in Items : remote'[i] = "active" => remote[i] = "active"
    BY <1>2 DEF JoinInFlight, Join, dbVars, readerVars, seerrVars
  <2>2. \A g \in Handlers : pc'[g] \in {"saved", "recovered"} => pc[g] = pc'[g] /\ opKey'[g] = opKey[g]
    BY <1>2 DEF JoinInFlight, Join, dbVars, readerVars, seerrVars
  <2>3. \A r \in Snapshots' : (r \in Snapshots /\ snap'[r] = snap[r]) \/ snap'[r].seen = remote'
    BY <1>2, ReaderAssumption DEF JoinInFlight, Join, dbVars, readerVars, seerrVars, Readers, Snapshots
  <2> QED BY <2>1, <2>2, <2>3, QuietStep
<1>3. ASSUME NEW h \in Handlers, Joined(h) PROVE Knowledge'
  <2>1. UNCHANGED <<ops, rows>> /\ \A i \in Items : remote'[i] = "active" => remote[i] = "active"
    BY <1>3 DEF Joined, Finish, dbVars, seerrVars
  <2>2. \A g \in Handlers : pc'[g] \in {"saved", "recovered"} => pc[g] = pc'[g] /\ opKey'[g] = opKey[g]
    BY <1>3 DEF Joined, Finish, dbVars, seerrVars
  <2>3. \A r \in Snapshots' : (r \in Snapshots /\ snap'[r] = snap[r]) \/ snap'[r].seen = remote'
    BY <1>3, ReaderAssumption DEF Joined, Finish, dbVars, seerrVars, Readers, Snapshots
  <2> QED BY <2>1, <2>2, <2>3, QuietStep
<1>4. ASSUME NEW h \in Handlers, Reconcile(h) PROVE Knowledge'
  <2>1. UNCHANGED <<ops, rows>> /\ \A i \in Items : remote'[i] = "active" => remote[i] = "active"
    BY <1>4 DEF Reconcile, Join, dbVars, readerVars, seerrVars
  <2>2. \A g \in Handlers : pc'[g] \in {"saved", "recovered"} => pc[g] = pc'[g] /\ opKey'[g] = opKey[g]
    BY <1>4 DEF Reconcile, Join, dbVars, readerVars, seerrVars
  <2>3. \A r \in Snapshots' : (r \in Snapshots /\ snap'[r] = snap[r]) \/ snap'[r].seen = remote'
    BY <1>4, ReaderAssumption DEF Reconcile, Join, dbVars, readerVars, seerrVars, Readers, Snapshots
  <2> QED BY <2>1, <2>2, <2>3, QuietStep
<1>5. ASSUME NEW h \in Handlers, Admit(h) PROVE Knowledge'
  <2>1. UNCHANGED <<ops, rows>> /\ \A i \in Items : remote'[i] = "active" => remote[i] = "active"
    BY <1>5 DEF Admit, Goto, Target, dbVars, readerVars, seerrVars
  <2>2. \A g \in Handlers : pc'[g] \in {"saved", "recovered"} => pc[g] = pc'[g] /\ opKey'[g] = opKey[g]
    BY <1>5 DEF Admit, Goto, Target, dbVars, readerVars, seerrVars
  <2>3. \A r \in Snapshots' : (r \in Snapshots /\ snap'[r] = snap[r]) \/ snap'[r].seen = remote'
    BY <1>5, ReaderAssumption DEF Admit, Goto, Target, dbVars, readerVars, seerrVars, Readers, Snapshots
  <2> QED BY <2>1, <2>2, <2>3, QuietStep
<1>6. ASSUME NEW h \in Handlers, Confirm(h) PROVE Knowledge'
  <2>1. UNCHANGED <<ops, rows>> /\ \A i \in Items : remote'[i] = "active" => remote[i] = "active"
    BY <1>6 DEF Confirm, Goto, dbVars, readerVars, seerrVars
  <2>2. \A g \in Handlers : pc'[g] \in {"saved", "recovered"} => pc[g] = pc'[g] /\ opKey'[g] = opKey[g]
    BY <1>6 DEF Confirm, Goto, dbVars, readerVars, seerrVars
  <2>3. \A r \in Snapshots' : (r \in Snapshots /\ snap'[r] = snap[r]) \/ snap'[r].seen = remote'
    BY <1>6, ReaderAssumption DEF Confirm, Goto, dbVars, readerVars, seerrVars, Readers, Snapshots
  <2> QED BY <2>1, <2>2, <2>3, QuietStep
<1>7. ASSUME NEW h \in Handlers, RefuseConfirmation(h) PROVE Knowledge'
  <2>1. UNCHANGED <<ops, rows>> /\ \A i \in Items : remote'[i] = "active" => remote[i] = "active"
    BY <1>7 DEF RefuseConfirmation, Finish, dbVars, seerrVars
  <2>2. \A g \in Handlers : pc'[g] \in {"saved", "recovered"} => pc[g] = pc'[g] /\ opKey'[g] = opKey[g]
    BY <1>7 DEF RefuseConfirmation, Finish, dbVars, seerrVars
  <2>3. \A r \in Snapshots' : (r \in Snapshots /\ snap'[r] = snap[r]) \/ snap'[r].seen = remote'
    BY <1>7, ReaderAssumption DEF RefuseConfirmation, Finish, dbVars, seerrVars, Readers, Snapshots
  <2> QED BY <2>1, <2>2, <2>3, QuietStep
<1>8. ASSUME NEW h \in Handlers, BeginAcquire(h) PROVE Knowledge'
  <2>1. UNCHANGED <<rows, remote>> /\ \A k \in Keys : Live(k) => ops'[k] = ops[k]
    BY <1>8, AcquiredLives DEF BeginAcquire
  <2>2. \A g \in Handlers : pc'[g] \in {"saved", "recovered"} => pc[g] = pc'[g] /\ opKey'[g] = opKey[g]
    BY <1>8 DEF BeginAcquire, readerVars
  <2>3. \A r \in Snapshots' : r \in Snapshots /\ snap'[r] = snap[r]
    BY <1>8, ReaderAssumption DEF BeginAcquire, readerVars, Readers, Snapshots
  <2> QED BY <2>1, <2>2, <2>3, TableStep
<1>9. ASSUME NEW h \in Handlers, BeginRefuse(h) PROVE Knowledge'
  <2>1. UNCHANGED <<rows, remote>>
    BY <1>9 DEF BeginRefuse, seerrVars
  <2>2. \A k \in Keys : Live(k) => ops'[k] = ops[k]
    BY <1>9, Refusal DEF Live
  <2>3. \A g \in Handlers : pc'[g] \in {"saved", "recovered"} => pc[g] = pc'[g] /\ opKey'[g] = opKey[g]
    BY <1>9 DEF BeginRefuse, Finish
  <2>4. \A r \in Snapshots' : r \in Snapshots /\ snap'[r] = snap[r]
    BY <1>9, ReaderAssumption DEF BeginRefuse, Finish, Readers, Snapshots
  <2> QED BY <2>1, <2>2, <2>3, <2>4, TableStep
<1>10. ASSUME NEW h \in Handlers, SaveRequest(h) PROVE Knowledge'
  <2>1. /\ pc[h] \in Owning /\ UNCHANGED <<ops, remote, opKey>>
        /\ rows' = [rows EXCEPT ![Target(h)] = [st |-> "active", seen |-> clock]]
        /\ \A g \in Handlers : g # h => pc'[g] = pc[g]
    BY <1>10 DEF SaveRequest, Goto, Owning, Reconciling, seerrVars
  <2>2. \A r \in Snapshots' : r \in Snapshots /\ snap'[r] = snap[r]
    BY <1>10, ReaderAssumption DEF SaveRequest, Goto, readerVars, Snapshots
  <2> QED BY <2>1, <2>2, StoreStep
<1>11. ASSUME NEW h \in Handlers, CompleteOperation(h) PROVE Knowledge'
  <2>1. UNCHANGED <<rows, remote>> /\ pc[h] \in {"saved", "recovered"}
    BY <1>11 DEF CompleteOperation, seerrVars
  <2>2. /\ ops'[opKey[h]].status = "created" /\ ops'[opKey[h]].at = clock
        /\ ops'[opKey[h]].fp = ops[opKey[h]].fp
        /\ \A k \in Keys : k # opKey[h] => ops'[k] = ops[k]
    BY <1>11, <2>1, StatusWrite DEF CompleteOperation, Owning, Reconciling
  <2>3. \A g \in Handlers : pc'[g] \in {"saved", "recovered"} => pc[g] = pc'[g] /\ opKey'[g] = opKey[g]
    BY <1>11 DEF CompleteOperation, Finish
  <2>4. \A r \in Snapshots' : r \in Snapshots /\ snap'[r] = snap[r]
    BY <1>11, ReaderAssumption DEF CompleteOperation, Finish, Readers, Snapshots
  <2> QED BY <2>1, <2>2, <2>3, <2>4, TableStep
<1>12. ASSUME NEW h \in Handlers, FailOperation(h) PROVE Knowledge'
  <2>1. UNCHANGED <<rows, remote>> /\ pc[h] \in Owning
    BY <1>12 DEF FailOperation, Owning, Reconciling, seerrVars
  <2>2. opKey[h] \notin served
    BY <1>12 DEF FailOperation, Delivery
  <2>3. \A k \in Keys : k # opKey[h] => ops'[k] = ops[k]
    BY <1>12, <2>1, StatusWrite DEF FailOperation, SetStatus
  <2>4. \A g \in Handlers : pc'[g] \in {"saved", "recovered"} => pc[g] = pc'[g] /\ opKey'[g] = opKey[g]
    BY <1>12 DEF FailOperation, Finish
  <2>5. \A r \in Snapshots' : r \in Snapshots /\ snap'[r] = snap[r]
    BY <1>12, ReaderAssumption DEF FailOperation, Finish, Readers, Snapshots
  <2>6. \A k \in Keys : (Live(k) /\ remote[ops[k].fp.item] = "active") => ops'[k] = ops[k]
    BY <2>2, <2>3 DEF Attribution
  <2> QED BY <2>1, <2>6, <2>4, <2>5, TableStep
<1>13. ASSUME NEW h \in Handlers, PostUncertain(h) PROVE Knowledge'
  <2>1. UNCHANGED <<rows, remote>> /\ pc[h] \in Owning
    BY <1>13 DEF PostUncertain, Owning, Reconciling, seerrVars
  <2>2. /\ ops'[opKey[h]].status = "uncertain" /\ ops'[opKey[h]].fp = ops[opKey[h]].fp
        /\ \A k \in Keys : k # opKey[h] => ops'[k] = ops[k]
    BY <1>13, <2>1, StatusWrite DEF PostUncertain, SetStatus
  <2>3. \A g \in Handlers : pc'[g] \in {"saved", "recovered"} => pc[g] = pc'[g] /\ opKey'[g] = opKey[g]
    BY <1>13 DEF PostUncertain, Finish
  <2>4. \A r \in Snapshots' : r \in Snapshots /\ snap'[r] = snap[r]
    BY <1>13, ReaderAssumption DEF PostUncertain, Finish, Readers, Snapshots
  <2>5. \A k \in Keys : ops'[k].fp = ops[k].fp /\ (Unresolved(k)' \/ ops'[k] = ops[k])
    BY <2>2 DEF Unresolved
  <2> QED BY <2>1, <2>5, <2>3, <2>4, TableStep
<1>14. ASSUME NEW h \in Handlers, WriteFails(h) PROVE Knowledge'
  <2>1. UNCHANGED <<ops, rows>> /\ \A i \in Items : remote'[i] = "active" => remote[i] = "active"
    BY <1>14 DEF WriteFails, Finish, dbVars, seerrVars
  <2>2. \A g \in Handlers : pc'[g] \in {"saved", "recovered"} => pc[g] = pc'[g] /\ opKey'[g] = opKey[g]
    BY <1>14 DEF WriteFails, Finish, dbVars, seerrVars
  <2>3. \A r \in Snapshots' : (r \in Snapshots /\ snap'[r] = snap[r]) \/ snap'[r].seen = remote'
    BY <1>14, ReaderAssumption DEF WriteFails, Finish, dbVars, seerrVars, Readers, Snapshots
  <2> QED BY <2>1, <2>2, <2>3, QuietStep
<1>15. ASSUME NEW h \in Handlers, FetchSnapshot(h) PROVE Knowledge'
  <2>1. UNCHANGED <<ops, rows>> /\ \A i \in Items : remote'[i] = "active" => remote[i] = "active"
    BY <1>15 DEF FetchSnapshot, dbVars, seerrVars
  <2>2. \A g \in Handlers : pc'[g] \in {"saved", "recovered"} => pc[g] = pc'[g] /\ opKey'[g] = opKey[g]
    BY <1>15 DEF FetchSnapshot, dbVars, seerrVars
  <2>3. \A r \in Snapshots' : (r \in Snapshots /\ snap'[r] = snap[r]) \/ snap'[r].seen = remote'
    BY <1>15, ReaderAssumption DEF FetchSnapshot, dbVars, seerrVars, Readers, Snapshots
  <2> QED BY <2>1, <2>2, <2>3, QuietStep
<1>16. ASSUME NEW h \in Handlers, ReconcileIngest(h) PROVE Knowledge'
  <2>1. h \in Snapshots /\ UNCHANGED <<ops, remote, opKey>>
    BY <1>16, SyncingAssumption DEF ReconcileIngest, Snapshots, handlerVars, seerrVars
  <2>2. PICK I : rows' = Ingested(I, snap[h])
    BY <1>16 DEF ReconcileIngest, CompleteSnapshot
  <2>3. \A g \in Handlers : pc'[g] \in {"saved", "recovered"} => pc[g] = pc'[g]
    BY <1>16 DEF ReconcileIngest, Goto, handlerVars
  <2>4. \A r \in Snapshots' : r \in Snapshots /\ snap'[r] = snap[r]
    BY <1>16, ReaderAssumption DEF ReconcileIngest, Goto, readerVars, Readers, Snapshots
  <2> QED BY <2>1, <2>2, <2>3, <2>4, ApplyStep
<1>17. ASSUME NEW h \in Handlers, ReconcileAbsence(h) PROVE Knowledge'
  <2>1. h \in Snapshots /\ UNCHANGED <<ops, remote, opKey>>
    BY <1>17, SyncingAssumption DEF ReconcileAbsence, Snapshots, handlerVars, seerrVars
  <2>2. PICK I : rows' = Ingested(I, snap[h]) \/ rows' = WithoutCleared(snap[h])
    BY <1>17 DEF ReconcileAbsence, CompleteSnapshot
  <2>3. \A g \in Handlers : pc'[g] \in {"saved", "recovered"} => pc[g] = pc'[g]
    BY <1>17 DEF ReconcileAbsence, Goto, handlerVars
  <2>4. \A r \in Snapshots' : r \in Snapshots /\ snap'[r] = snap[r]
    BY <1>17, ReaderAssumption DEF ReconcileAbsence, Goto, readerVars, Readers, Snapshots
  <2> QED BY <2>1, <2>2, <2>3, <2>4, ApplyStep
<1>18. ASSUME NEW h \in Handlers, RecoverRequest(h) PROVE Knowledge'
  <2>1. /\ pc[h] \in Owning /\ UNCHANGED <<ops, remote, opKey>>
        /\ rows' = [rows EXCEPT ![Target(h)] = [st |-> "active", seen |-> clock]]
        /\ \A g \in Handlers : g # h => pc'[g] = pc[g]
    BY <1>18 DEF RecoverRequest, Goto, Owning, Reconciling, seerrVars
  <2>2. \A r \in Snapshots' : r \in Snapshots /\ snap'[r] = snap[r]
    BY <1>18, ReaderAssumption DEF RecoverRequest, Goto, readerVars, Snapshots
  <2> QED BY <2>1, <2>2, StoreStep
<1>19. ASSUME NEW h \in Handlers, RecoverySuperseded(h) PROVE Knowledge'
  <2>1. UNCHANGED <<ops, rows>> /\ \A i \in Items : remote'[i] = "active" => remote[i] = "active"
    BY <1>19 DEF RecoverySuperseded, Finish, dbVars, seerrVars
  <2>2. \A g \in Handlers : pc'[g] \in {"saved", "recovered"} => pc[g] = pc'[g] /\ opKey'[g] = opKey[g]
    BY <1>19 DEF RecoverySuperseded, Finish, dbVars, seerrVars
  <2>3. \A r \in Snapshots' : (r \in Snapshots /\ snap'[r] = snap[r]) \/ snap'[r].seen = remote'
    BY <1>19, ReaderAssumption DEF RecoverySuperseded, Finish, dbVars, seerrVars, Readers, Snapshots
  <2> QED BY <2>1, <2>2, <2>3, QuietStep
<1>20. ASSUME NEW h \in Handlers, ReconcileUncertain(h) PROVE Knowledge'
  <2>1. UNCHANGED <<rows, remote>> /\ pc[h] \in Owning
    BY <1>20 DEF ReconcileUncertain, Owning, Reconciling, seerrVars
  <2>2. /\ ops'[opKey[h]].status = "uncertain" /\ ops'[opKey[h]].fp = ops[opKey[h]].fp
        /\ \A k \in Keys : k # opKey[h] => ops'[k] = ops[k]
    BY <1>20, <2>1, StatusWrite DEF ReconcileUncertain, SetStatus
  <2>3. \A g \in Handlers : pc'[g] \in {"saved", "recovered"} => pc[g] = pc'[g] /\ opKey'[g] = opKey[g]
    BY <1>20 DEF ReconcileUncertain, Finish
  <2>4. \A r \in Snapshots' : r \in Snapshots /\ snap'[r] = snap[r]
    BY <1>20, ReaderAssumption DEF ReconcileUncertain, Finish, Readers, Snapshots
  <2>5. \A k \in Keys : ops'[k].fp = ops[k].fp /\ (Unresolved(k)' \/ ops'[k] = ops[k])
    BY <2>2 DEF Unresolved
  <2> QED BY <2>1, <2>5, <2>3, <2>4, TableStep
<1>21. ASSUME NEW n \in Instances, SyncStart(n) PROVE Knowledge'
  <2>1. UNCHANGED <<ops, rows>> /\ \A i \in Items : remote'[i] = "active" => remote[i] = "active"
    BY <1>21 DEF SyncStart, dbVars, handlerVars, seerrVars
  <2>2. \A g \in Handlers : pc'[g] \in {"saved", "recovered"} => pc[g] = pc'[g] /\ opKey'[g] = opKey[g]
    BY <1>21 DEF SyncStart, dbVars, handlerVars, seerrVars
  <2>3. \A r \in Snapshots' : (r \in Snapshots /\ snap'[r] = snap[r]) \/ snap'[r].seen = remote'
    BY <1>21, ReaderAssumption DEF SyncStart, dbVars, handlerVars, seerrVars, Readers, Snapshots
  <2> QED BY <2>1, <2>2, <2>3, QuietStep
<1>22. ASSUME NEW n \in Instances, SyncFetch(n) PROVE Knowledge'
  <2>1. UNCHANGED <<ops, rows>> /\ \A i \in Items : remote'[i] = "active" => remote[i] = "active"
    BY <1>22 DEF SyncFetch, dbVars, handlerVars, seerrVars
  <2>2. \A g \in Handlers : pc'[g] \in {"saved", "recovered"} => pc[g] = pc'[g] /\ opKey'[g] = opKey[g]
    BY <1>22 DEF SyncFetch, dbVars, handlerVars, seerrVars
  <2>3. \A r \in Snapshots' : (r \in Snapshots /\ snap'[r] = snap[r]) \/ snap'[r].seen = remote'
    BY <1>22, ReaderAssumption DEF SyncFetch, dbVars, handlerVars, seerrVars, Readers, Snapshots
  <2> QED BY <2>1, <2>2, <2>3, QuietStep
<1>23. ASSUME NEW n \in Instances, SyncIngest(n) PROVE Knowledge'
  <2>1. n \in Snapshots /\ UNCHANGED <<ops, remote, opKey>>
    BY <1>23, SyncingAssumption DEF SyncIngest, Snapshots, handlerVars, seerrVars
  <2>2. PICK I : rows' = Ingested(I, snap[n])
    BY <1>23 DEF SyncIngest, CompleteSnapshot
  <2>3. \A g \in Handlers : pc'[g] \in {"saved", "recovered"} => pc[g] = pc'[g]
    BY <1>23 DEF SyncIngest, Goto, handlerVars
  <2>4. \A r \in Snapshots' : r \in Snapshots /\ snap'[r] = snap[r]
    BY <1>23, ReaderAssumption DEF SyncIngest, readerVars, handlerVars, Readers, Snapshots
  <2> QED BY <2>1, <2>2, <2>3, <2>4, ApplyStep
<1>24. ASSUME NEW n \in Instances, SyncFinish(n) PROVE Knowledge'
  <2>1. n \in Snapshots /\ UNCHANGED <<ops, remote, opKey>>
    BY <1>24, SyncingAssumption DEF SyncFinish, Snapshots, handlerVars, seerrVars
  <2>2. PICK I : rows' = Ingested(I, snap[n]) \/ rows' = WithoutCleared(snap[n])
    BY <1>24 DEF SyncFinish, CompleteSnapshot
  <2>3. \A g \in Handlers : pc'[g] \in {"saved", "recovered"} => pc[g] = pc'[g]
    BY <1>24 DEF SyncFinish, Goto, handlerVars
  <2>4. \A r \in Snapshots' : r \in Snapshots /\ snap'[r] = snap[r]
    BY <1>24, ReaderAssumption DEF SyncFinish, EndSync, handlerVars, Readers, Snapshots
  <2> QED BY <2>1, <2>2, <2>3, <2>4, ApplyStep
<1>25. ASSUME NEW n \in Instances, SyncAbort(n) PROVE Knowledge'
  <2>1. UNCHANGED <<ops, rows>> /\ \A i \in Items : remote'[i] = "active" => remote[i] = "active"
    BY <1>25 DEF SyncAbort, EndSync, dbVars, handlerVars, seerrVars
  <2>2. \A g \in Handlers : pc'[g] \in {"saved", "recovered"} => pc[g] = pc'[g] /\ opKey'[g] = opKey[g]
    BY <1>25 DEF SyncAbort, EndSync, dbVars, handlerVars, seerrVars
  <2>3. \A r \in Snapshots' : (r \in Snapshots /\ snap'[r] = snap[r]) \/ snap'[r].seen = remote'
    BY <1>25, ReaderAssumption DEF SyncAbort, EndSync, dbVars, handlerVars, seerrVars, Readers, Snapshots
  <2> QED BY <2>1, <2>2, <2>3, QuietStep
<1>26. ASSUME NEW n \in Instances, Crash(n) PROVE Knowledge'
  <2>1. UNCHANGED <<ops, rows>> /\ \A i \in Items : remote'[i] = "active" => remote[i] = "active"
    BY <1>26 DEF Crash, dbVars, seerrVars
  <2>2. \A g \in Handlers : pc'[g] \in {"saved", "recovered"} => pc[g] = pc'[g] /\ opKey'[g] = opKey[g]
    BY <1>26 DEF Crash, dbVars, seerrVars
  <2>3. \A r \in Snapshots' : (r \in Snapshots /\ snap'[r] = snap[r]) \/ snap'[r].seen = remote'
    BY <1>26, ReaderAssumption DEF Crash, dbVars, seerrVars, Readers, Snapshots
  <2> QED BY <2>1, <2>2, <2>3, QuietStep
<1>27. ASSUME SeerrAccepts PROVE Knowledge'
  <2>1. PICK p \in wire : remote' = [remote EXCEPT ![p.item] = "active"]
    BY <1>27 DEF SeerrAccepts
  <2>2. UNCHANGED <<ops, rows, pc, opKey, snap, sync>>
    BY <1>27 DEF SeerrAccepts, dbVars, readerVars
  <2>3. /\ p.key \in Keys /\ Unresolved(p.key) /\ OnItem(p.key, p.item)
        /\ \A g \in Handlers : opKey[g] = p.key => pc[g] \notin {"saved", "recovered"}
    BY DEF Attribution, Acceptance, Delivery, Live, OnItem
  <2>4. Unwritten(p.item)
    BY <2>3 DEF Unwritten
  <2>5. \A i \in Items : Unwritten(i) => Unwritten(i)'
    BY <2>2 DEF Unwritten, Unresolved, OnItem
  <2>6. \A i \in Items : (remote'[i] = "active" /\ ~Unwritten(i)) => remote[i] = "active"
    BY <2>1, <2>4
  <2>7. ASSUME NEW i \in Items, NEW r \in Snapshots, remote'[i] = "active", snap[r].seen[i] # "active"
        PROVE  Unwritten(i)' \/ Protected(i, snap[r].start)'
    <3>1. CASE Unwritten(i)
      BY <2>5, <3>1
    <3>2. CASE ~Unwritten(i)
      <4>1. Protected(i, snap[r].start)
        BY <2>6, <2>7, <3>2 DEF Knowledge
      <4> QED BY <2>2, <4>1 DEF Protected, Unresolved, OnItem
    <3> QED BY <3>1, <3>2
  <2>8. Snapshots' = Snapshots
    BY <2>2 DEF Snapshots
  <2>9. \A i \in Items : remote'[i] = "active" => Unwritten(i)' \/ rows'[i].st = "active"
    BY <2>2, <2>5, <2>6 DEF Knowledge
  <2> QED BY <2>2, <2>7, <2>8, <2>9 DEF Knowledge
<1>28. ASSUME SeerrRefuses PROVE Knowledge'
  <2>1. UNCHANGED <<ops, rows>> /\ \A i \in Items : remote'[i] = "active" => remote[i] = "active"
    BY <1>28 DEF SeerrRefuses, Answer, dbVars, readerVars
  <2>2. \A g \in Handlers : pc'[g] \in {"saved", "recovered"} => pc[g] = pc'[g] /\ opKey'[g] = opKey[g]
    BY <1>28 DEF SeerrRefuses, Answer, dbVars, readerVars
  <2>3. \A r \in Snapshots' : (r \in Snapshots /\ snap'[r] = snap[r]) \/ snap'[r].seen = remote'
    BY <1>28, ReaderAssumption DEF SeerrRefuses, Answer, dbVars, readerVars, Readers, Snapshots
  <2> QED BY <2>1, <2>2, <2>3, QuietStep
<1>29. ASSUME PostLost PROVE Knowledge'
  <2>1. UNCHANGED <<ops, rows>> /\ \A i \in Items : remote'[i] = "active" => remote[i] = "active"
    BY <1>29 DEF PostLost, dbVars, handlerVars, readerVars
  <2>2. \A g \in Handlers : pc'[g] \in {"saved", "recovered"} => pc[g] = pc'[g] /\ opKey'[g] = opKey[g]
    BY <1>29 DEF PostLost, dbVars, handlerVars, readerVars
  <2>3. \A r \in Snapshots' : (r \in Snapshots /\ snap'[r] = snap[r]) \/ snap'[r].seen = remote'
    BY <1>29, ReaderAssumption DEF PostLost, dbVars, handlerVars, readerVars, Readers, Snapshots
  <2> QED BY <2>1, <2>2, <2>3, QuietStep
<1>30. ASSUME SeerrDeclines PROVE Knowledge'
  <2>1. UNCHANGED <<ops, rows>> /\ \A i \in Items : remote'[i] = "active" => remote[i] = "active"
    BY <1>30 DEF SeerrDeclines, dbVars, handlerVars, readerVars
  <2>2. \A g \in Handlers : pc'[g] \in {"saved", "recovered"} => pc[g] = pc'[g] /\ opKey'[g] = opKey[g]
    BY <1>30 DEF SeerrDeclines, dbVars, handlerVars, readerVars
  <2>3. \A r \in Snapshots' : (r \in Snapshots /\ snap'[r] = snap[r]) \/ snap'[r].seen = remote'
    BY <1>30, ReaderAssumption DEF SeerrDeclines, dbVars, handlerVars, readerVars, Readers, Snapshots
  <2> QED BY <2>1, <2>2, <2>3, QuietStep
<1>31. ASSUME SeerrDeletes PROVE Knowledge'
  <2>1. UNCHANGED <<ops, rows>> /\ \A i \in Items : remote'[i] = "active" => remote[i] = "active"
    BY <1>31 DEF SeerrDeletes, dbVars, handlerVars, readerVars
  <2>2. \A g \in Handlers : pc'[g] \in {"saved", "recovered"} => pc[g] = pc'[g] /\ opKey'[g] = opKey[g]
    BY <1>31 DEF SeerrDeletes, dbVars, handlerVars, readerVars
  <2>3. \A r \in Snapshots' : (r \in Snapshots /\ snap'[r] = snap[r]) \/ snap'[r].seen = remote'
    BY <1>31, ReaderAssumption DEF SeerrDeletes, dbVars, handlerVars, readerVars, Readers, Snapshots
  <2> QED BY <2>1, <2>2, <2>3, QuietStep
<1>32. ASSUME ForeignRequest PROVE Knowledge'
  BY <1>32 DEF ForeignRequest
<1>33. ASSUME Tick PROVE Knowledge'
  <2>1. UNCHANGED <<ops, rows>> /\ \A i \in Items : remote'[i] = "active" => remote[i] = "active"
    BY <1>33 DEF Tick, dbVars, handlerVars, readerVars, seerrVars
  <2>2. \A g \in Handlers : pc'[g] \in {"saved", "recovered"} => pc[g] = pc'[g] /\ opKey'[g] = opKey[g]
    BY <1>33 DEF Tick, dbVars, handlerVars, readerVars, seerrVars
  <2>3. \A r \in Snapshots' : (r \in Snapshots /\ snap'[r] = snap[r]) \/ snap'[r].seen = remote'
    BY <1>33, ReaderAssumption DEF Tick, dbVars, handlerVars, readerVars, seerrVars, Readers, Snapshots
  <2> QED BY <2>1, <2>2, <2>3, QuietStep
<1>34. CASE UNCHANGED vars
  <2>1. UNCHANGED <<ops, rows, remote, pc, opKey, snap, sync>>
    BY <1>34 DEF vars, dbVars, handlerVars, readerVars, seerrVars
  <2>2. Snapshots' = Snapshots
    BY <2>1 DEF Snapshots
  <2> QED BY <2>1, <2>2, QuietStep
<1> QED
  BY SyncingAssumption, <1>1, <1>2, <1>3, <1>4, <1>5, <1>6, <1>7, <1>8, <1>9, <1>10, <1>11, <1>12, <1>13, <1>14, <1>15, <1>16, <1>17, <1>18, <1>19, <1>20, <1>21, <1>22, <1>23, <1>24, <1>25, <1>26, <1>27, <1>28, <1>29, <1>30, <1>31, <1>32, <1>33, <1>34
  DEF Next, CreateStep, ReconcileStep, SyncStep, Environment

-------------------------------------------------------------------------------
(***************************************************************************)
(* Time, and which steps write the operation table.                        *)
(***************************************************************************)
(* A reader that starts reads the clock, one that ends forgets its start.  *)
LEMMA PastKept ==
  ASSUME IInv, Past, UNCHANGED clock,
         \A r \in Readers : \/ snap'[r] = NoSnapshot
                            \/ snap'[r].start \in {snap[r].start, clock}
  PROVE  Past'
BY DEF IInv, TypeOK, ReaderTypeOK, Past, NoSnapshot, Time

(* Every step keeps the starts of the snapshots in the past.               *)
LEMMA PastStep ==
  ASSUME IInv, Past, [Next]_vars PROVE Past'
<1> USE DEF IInv, TypeOK, ReaderTypeOK, Past, Readers, Time
<1>1. ASSUME NEW h \in Handlers, Preview(h) PROVE Past'
  BY <1>1 DEF Preview, dbVars, readerVars, seerrVars
<1>2. ASSUME NEW h \in Handlers, JoinInFlight(h) PROVE Past'
  BY <1>2 DEF JoinInFlight, Join, dbVars, readerVars, seerrVars
<1>3. ASSUME NEW h \in Handlers, Joined(h) PROVE Past'
  <2>1. \A r \in Readers : snap'[r] = NoSnapshot \/ snap'[r].start \in {snap[r].start, clock}
    BY <1>3 DEF Joined, Finish, dbVars, seerrVars
  <2> QED BY <1>3, <2>1, PastKept DEF Joined
<1>4. ASSUME NEW h \in Handlers, Reconcile(h) PROVE Past'
  <2>1. \A r \in Readers : snap'[r] = NoSnapshot \/ snap'[r].start \in {snap[r].start, clock}
    BY <1>4 DEF Reconcile, Join, dbVars, readerVars, seerrVars
  <2> QED BY <1>4, <2>1, PastKept DEF Reconcile, Join
<1>5. ASSUME NEW h \in Handlers, Admit(h) PROVE Past'
  BY <1>5 DEF Admit, Goto, Target, dbVars, readerVars, seerrVars
<1>6. ASSUME NEW h \in Handlers, Confirm(h) PROVE Past'
  BY <1>6 DEF Confirm, Goto, dbVars, readerVars, seerrVars
<1>7. ASSUME NEW h \in Handlers, RefuseConfirmation(h) PROVE Past'
  <2>1. \A r \in Readers : snap'[r] = NoSnapshot \/ snap'[r].start \in {snap[r].start, clock}
    BY <1>7 DEF RefuseConfirmation, Finish, dbVars, seerrVars
  <2> QED BY <1>7, <2>1, PastKept DEF RefuseConfirmation
<1>8. ASSUME NEW h \in Handlers, BeginAcquire(h) PROVE Past'
  BY <1>8 DEF BeginAcquire, readerVars
<1>9. ASSUME NEW h \in Handlers, BeginRefuse(h) PROVE Past'
  <2>1. \A r \in Readers : snap'[r] = NoSnapshot \/ snap'[r].start \in {snap[r].start, clock}
    BY <1>9 DEF BeginRefuse, FailedKeys, Finish, Purged, seerrVars
  <2> QED BY <1>9, <2>1, PastKept DEF BeginRefuse
<1>10. ASSUME NEW h \in Handlers, SaveRequest(h) PROVE Past'
  BY <1>10 DEF SaveRequest, Goto, readerVars, seerrVars
<1>11. ASSUME NEW h \in Handlers, CompleteOperation(h) PROVE Past'
  <2>1. \A r \in Readers : snap'[r] = NoSnapshot \/ snap'[r].start \in {snap[r].start, clock}
    BY <1>11 DEF CompleteOperation, Finish, seerrVars
  <2> QED BY <1>11, <2>1, PastKept DEF CompleteOperation
<1>12. ASSUME NEW h \in Handlers, FailOperation(h) PROVE Past'
  <2>1. \A r \in Readers : snap'[r] = NoSnapshot \/ snap'[r].start \in {snap[r].start, clock}
    BY <1>12 DEF FailOperation, Finish, SetStatus, seerrVars
  <2> QED BY <1>12, <2>1, PastKept DEF FailOperation
<1>13. ASSUME NEW h \in Handlers, PostUncertain(h) PROVE Past'
  <2>1. \A r \in Readers : snap'[r] = NoSnapshot \/ snap'[r].start \in {snap[r].start, clock}
    BY <1>13 DEF PostUncertain, Finish, SetStatus, seerrVars
  <2> QED BY <1>13, <2>1, PastKept DEF PostUncertain
<1>14. ASSUME NEW h \in Handlers, WriteFails(h) PROVE Past'
  <2>1. \A r \in Readers : snap'[r] = NoSnapshot \/ snap'[r].start \in {snap[r].start, clock}
    BY <1>14 DEF WriteFails, Finish, dbVars, seerrVars
  <2> QED BY <1>14, <2>1, PastKept DEF WriteFails
<1>15. ASSUME NEW h \in Handlers, FetchSnapshot(h) PROVE Past'
  BY <1>15 DEF FetchSnapshot, dbVars, seerrVars
<1>16. ASSUME NEW h \in Handlers, ReconcileIngest(h) PROVE Past'
  BY <1>16 DEF ReconcileIngest, Goto, readerVars, seerrVars
<1>17. ASSUME NEW h \in Handlers, ReconcileAbsence(h) PROVE Past'
  BY <1>17 DEF ReconcileAbsence, Goto, CompleteSnapshot, readerVars, seerrVars
<1>18. ASSUME NEW h \in Handlers, RecoverRequest(h) PROVE Past'
  BY <1>18 DEF RecoverRequest, Goto, readerVars, seerrVars
<1>19. ASSUME NEW h \in Handlers, RecoverySuperseded(h) PROVE Past'
  <2>1. \A r \in Readers : snap'[r] = NoSnapshot \/ snap'[r].start \in {snap[r].start, clock}
    BY <1>19 DEF RecoverySuperseded, Finish, dbVars, seerrVars
  <2> QED BY <1>19, <2>1, PastKept DEF RecoverySuperseded
<1>20. ASSUME NEW h \in Handlers, ReconcileUncertain(h) PROVE Past'
  <2>1. \A r \in Readers : snap'[r] = NoSnapshot \/ snap'[r].start \in {snap[r].start, clock}
    BY <1>20 DEF ReconcileUncertain, Finish, SetStatus, seerrVars
  <2> QED BY <1>20, <2>1, PastKept DEF ReconcileUncertain
<1>21. ASSUME NEW n \in Instances, SyncStart(n) PROVE Past'
  BY <1>21 DEF SyncStart, dbVars, handlerVars, seerrVars
<1>22. ASSUME NEW n \in Instances, SyncFetch(n) PROVE Past'
  BY <1>22 DEF SyncFetch, dbVars, handlerVars, seerrVars
<1>23. ASSUME NEW n \in Instances, SyncIngest(n) PROVE Past'
  BY <1>23 DEF SyncIngest, handlerVars, seerrVars
<1>24. ASSUME NEW n \in Instances, SyncFinish(n) PROVE Past'
  <2>1. \A r \in Readers : snap'[r] = NoSnapshot \/ snap'[r].start \in {snap[r].start, clock}
    BY <1>24 DEF SyncFinish, CompleteSnapshot, EndSync, handlerVars, seerrVars
  <2> QED BY <1>24, <2>1, PastKept DEF SyncFinish
<1>25. ASSUME NEW n \in Instances, SyncAbort(n) PROVE Past'
  <2>1. \A r \in Readers : snap'[r] = NoSnapshot \/ snap'[r].start \in {snap[r].start, clock}
    BY <1>25 DEF SyncAbort, EndSync, dbVars, handlerVars, seerrVars
  <2> QED BY <1>25, <2>1, PastKept DEF SyncAbort
<1>26. ASSUME NEW n \in Instances, Crash(n) PROVE Past'
  <2>1. \A r \in Readers : snap'[r] = NoSnapshot \/ snap'[r].start \in {snap[r].start, clock}
    BY <1>26 DEF Crash, dbVars, seerrVars
  <2> QED BY <1>26, <2>1, PastKept DEF Crash
<1>27. ASSUME SeerrAccepts PROVE Past'
  BY <1>27 DEF SeerrAccepts, Answer, dbVars, readerVars
<1>28. ASSUME SeerrRefuses PROVE Past'
  BY <1>28 DEF SeerrRefuses, Answer, dbVars, readerVars
<1>29. ASSUME PostLost PROVE Past'
  BY <1>29 DEF PostLost, dbVars, handlerVars, readerVars
<1>30. ASSUME SeerrDeclines PROVE Past'
  BY <1>30 DEF SeerrDeclines, dbVars, handlerVars, readerVars
<1>31. ASSUME SeerrDeletes PROVE Past'
  BY <1>31 DEF SeerrDeletes, dbVars, handlerVars, readerVars
<1>32. ASSUME ForeignRequest PROVE Past'
  BY <1>32 DEF ForeignRequest, dbVars, handlerVars, readerVars
<1>33. ASSUME Tick PROVE Past'
  BY <1>33 DEF Tick, dbVars, handlerVars, readerVars, seerrVars
<1>34. CASE UNCHANGED vars
  BY <1>34 DEF vars, dbVars, handlerVars, readerVars, seerrVars
<1> QED
  BY SyncingAssumption, <1>1, <1>2, <1>3, <1>4, <1>5, <1>6, <1>7, <1>8, <1>9, <1>10, <1>11, <1>12, <1>13, <1>14, <1>15, <1>16, <1>17, <1>18, <1>19, <1>20, <1>21, <1>22, <1>23, <1>24, <1>25, <1>26, <1>27, <1>28, <1>29, <1>30, <1>31, <1>32, <1>33, <1>34
  DEF Next, CreateStep, ReconcileStep, SyncStep, Environment

(* The clock does not run backwards.                                       *)
LEMMA ClockRuns == ASSUME IInv, [Next]_vars PROVE clock' >= clock
<1>1. CASE Tick
  BY <1>1 DEF Tick, IInv, TypeOK, Time
<1>2. CASE UNCHANGED clock
  BY <1>2 DEF IInv, TypeOK, Time
<1>3. ASSUME NEW h \in Handlers, CreateStep(h) \/ ReconcileStep(h) PROVE UNCHANGED clock
  BY <1>3 DEF CreateStep, ReconcileStep, Preview, JoinInFlight, Join, Joined, Reconcile,
     Admit, Confirm, RefuseConfirmation, BeginAcquire, BeginRefuse, SaveRequest, CompleteOperation,
     FailOperation, PostUncertain, WriteFails, FetchSnapshot, ReconcileIngest, ReconcileAbsence,
     RecoverRequest, RecoverySuperseded, ReconcileUncertain
<1>4. ASSUME (\E n \in Syncing : SyncStep(n)) \/ Environment \/ UNCHANGED vars
      PROVE  Tick \/ UNCHANGED clock
  BY <1>4 DEF SyncStep, Environment, vars, SyncStart, SyncFetch, SyncIngest, SyncFinish,
     SyncAbort, SeerrAccepts, SeerrRefuses, PostLost, SeerrDeclines, SeerrDeletes, ForeignRequest, Crash
<1> QED BY <1>1, <1>2, <1>3, <1>4 DEF Next

(* Only RecoverRequest goes from a reconciled snapshot to a recovery.      *)
LEMMA OnlyRecoveryRecovers ==
  ASSUME IInv, [Next]_vars, NEW h \in Handlers, pc[h] = "reconciled", pc'[h] = "recovered"
  PROVE  RecoverRequest(h)
<1> USE DEF IInv, TypeOK, HandlerTypeOK
<1>1. ASSUME NEW g \in Handlers, CreateStep(g) PROVE FALSE
  BY <1>1 DEF CreateStep, Preview, JoinInFlight, Join, Joined, Reconcile, Admit, Confirm,
     RefuseConfirmation, BeginAcquire, BeginRefuse, SaveRequest, CompleteOperation, FailOperation,
     PostUncertain, WriteFails, Finish, Goto
<1>2. ASSUME NEW g \in Handlers, ReconcileStep(g) PROVE RecoverRequest(h)
  BY <1>2 DEF ReconcileStep, FetchSnapshot, ReconcileIngest, ReconcileAbsence, RecoverRequest,
     RecoverySuperseded, ReconcileUncertain, Finish, Goto
<1>3. ASSUME (\E n \in Syncing : SyncStep(n)) \/ Environment \/ UNCHANGED vars PROVE FALSE
  BY <1>3 DEF SyncStep, Environment, vars, handlerVars, SyncStart, SyncFetch, SyncIngest, SyncFinish,
     SyncAbort, SeerrAccepts, SeerrRefuses, PostLost, SeerrDeclines, SeerrDeletes, ForeignRequest,
     Crash, Tick
<1> QED BY <1>1, <1>2, <1>3 DEF Next

(* Only an acquisition opens an operation: every other step keeps those    *)
(* that are held, with their items and tokens, or lets go of them.         *)
LEMMA OnlyAcquisitionOpens ==
  ASSUME IInv, [Next]_vars
  PROVE  \/ \E h \in Handlers : BeginAcquire(h)
         \/ \A k \in Keys : Live(k)' => Live(k) /\ ops'[k].fp = ops[k].fp
<1>1. ASSUME NEW h \in Handlers, BeginRefuse(h)
      PROVE  \A k \in Keys : Live(k)' => Live(k) /\ ops'[k].fp = ops[k].fp
  BY <1>1, Refusal DEF Live, NoOperation
<1>2. ASSUME NEW h \in Handlers,
             \/ CompleteOperation(h) \/ FailOperation(h)
             \/ PostUncertain(h) \/ ReconcileUncertain(h)
      PROVE  \A k \in Keys : Live(k)' => Live(k) /\ ops'[k].fp = ops[k].fp
  <2>1. PICK status \in {"pending", "uncertain", "created", "failed"}, at \in {0, clock} :
           ops' = [ops EXCEPT ![opKey[h]].status = status, ![opKey[h]].at = at]
    BY <1>2 DEF CompleteOperation, FailOperation, PostUncertain, ReconcileUncertain, SetStatus
  <2>2. pc[h] \in Owning
    BY <1>2 DEF CompleteOperation, FailOperation, PostUncertain, ReconcileUncertain, Owning, Reconciling
  <2>3. /\ Live(opKey[h]) /\ ops'[opKey[h]].fp = ops[opKey[h]].fp
        /\ \A k \in Keys : k # opKey[h] => ops'[k] = ops[k]
    BY <2>1, <2>2, StatusWrite
  <2> QED BY <2>3 DEF Live
<1>3. CASE UNCHANGED ops
  BY <1>3 DEF Live
<1>4. ASSUME NEW h \in Handlers, CreateStep(h) \/ ReconcileStep(h)
      PROVE  \/ BeginAcquire(h) \/ BeginRefuse(h) \/ UNCHANGED ops
             \/ CompleteOperation(h) \/ FailOperation(h)
             \/ PostUncertain(h) \/ ReconcileUncertain(h)
  BY <1>4, TableWriters
<1> QED BY <1>1, <1>2, <1>3, <1>4, NoOtherWriters DEF Next

(* Every step keeps the operations of an item told apart.                  *)
LEMMA ToldStep ==
  ASSUME IInv, Told, [Next]_vars PROVE Told'
<1>1. ASSUME NEW h \in Handlers, BeginAcquire(h) PROVE Told'
  <2>1. /\ opKey[h] \in Keys /\ ~Live(opKey[h]) /\ ops'[opKey[h]].fp = body[h]
        /\ \A k \in Keys : Live(k)' => k = opKey[h] \/ (Live(k) /\ ops'[k] = ops[k])
    BY <1>1, AcquiredLives
  <2>2. \A k \in Keys : (Live(k) /\ ops[k].fp.item = body[h].item) => ops[k].status = "created"
    BY <1>1 DEF BeginAcquire, ItemUnresolved, Unresolved, OnItem, Live, Target
  <2>3. body[h].gen.created = {k \in Keys : ops[k].status = "created" /\ OnItem(k, body[h].item)}
    BY <1>1 DEF BeginAcquire, StaleGeneration, GenerationForItem, Target
  <2>4. /\ opKey[h] \notin body[h].gen.created
        /\ \A k \in Keys : (Live(k) /\ ops[k].fp.item = body[h].item) => k \in body[h].gen.created
    BY <2>1, <2>2, <2>3 DEF Live, OnItem
  <2> QED BY <2>1, <2>4 DEF Told
<1>2. ASSUME \A k \in Keys : Live(k)' => Live(k) /\ ops'[k].fp = ops[k].fp PROVE Told'
  BY <1>2 DEF Told
<1> QED BY <1>1, <1>2, OnlyAcquisitionOpens

-------------------------------------------------------------------------------
(* The initial states.                                                     *)
LEMMA InitSafety == Init => SafetyInv /\ Told
<1> SUFFICES ASSUME Init PROVE SafetyInv /\ Told
  OBVIOUS
<1> USE BoundsAssumption DEF Init
<1>1. Attribution /\ Acceptance /\ Tokens /\ Told
  BY DEF Attribution, Acceptance, Tokens, Told, Live, NoOperation, HasSnapshot
<1>2. Knowledge /\ Past
  BY DEF Knowledge, Past, NoSnapshot
<1> QED BY <1>1, <1>2 DEF SafetyInv, Undisturbed

(* Requests of others are counted and never forgotten.                     *)
LEMMA ForeignStays == ASSUME IInv, [Next]_vars, foreign' = 0 PROVE foreign = 0
<1>1. ASSUME ForeignRequest PROVE foreign = 0
  BY <1>1 DEF ForeignRequest, IInv, TypeOK, SeerrTypeOK
<1>2. CASE UNCHANGED foreign
  BY <1>2
<1>3. ASSUME NEW h \in Handlers, CreateStep(h) \/ ReconcileStep(h) PROVE UNCHANGED foreign
  BY <1>3 DEF CreateStep, ReconcileStep, seerrVars, Preview, JoinInFlight, Join, Joined, Reconcile,
     Admit, Confirm, RefuseConfirmation, BeginAcquire, BeginRefuse, SaveRequest, CompleteOperation,
     FailOperation, PostUncertain, WriteFails, FetchSnapshot, ReconcileIngest, ReconcileAbsence,
     RecoverRequest, RecoverySuperseded, ReconcileUncertain
<1>4. ASSUME (\E n \in Syncing : SyncStep(n)) \/ Environment \/ UNCHANGED vars
      PROVE  ForeignRequest \/ UNCHANGED foreign
  BY <1>4 DEF SyncStep, Environment, vars, seerrVars, SyncStart, SyncFetch, SyncIngest, SyncFinish,
     SyncAbort, SeerrAccepts, SeerrRefuses, PostLost, SeerrDeclines, SeerrDeletes, Crash, Tick
<1> QED BY <1>1, <1>2, <1>3, <1>4 DEF Next

(* RequestCreation, for every number of users, keys, handlers, instances   *)
(* and items: what the server and Seerr know of each other stays true as   *)
(* long as Moodarr is the only one that files requests, and operations of  *)
(* an item are always told apart.                                          *)
THEOREM SafetyInductive == Spec => [](SafetyInv /\ Told)
<1>1. IInv /\ SafetyInv /\ Told /\ [Next]_vars => SafetyInv' /\ Told'
  BY PastStep, ToldStep, ForeignStays, AttributionStep, AcceptanceStep, TokensStep, KnowledgeStep
  DEF SafetyInv, Undisturbed
<1> QED BY Inductive, InitSafety, <1>1, PTL DEF Spec

(* As long as nobody else files requests in Seerr, no two POSTs for an     *)
(* item are under way and none is while Seerr holds a live request for it: *)
(* for any number of processes, users, retries, crashes and lost answers.  *)
THEOREM NoDuplicates == MaxForeign = 0 /\ Spec => []NoDuplicateWrite
<1>1. MaxForeign = 0 /\ IInv /\ SafetyInv => NoDuplicateWrite
  <2> SUFFICES ASSUME MaxForeign = 0, IInv, SafetyInv,
                      NEW p \in wire
               PROVE  remote[p.item] # "active" /\ \A q \in wire : q.item = p.item => q = p
    BY DEF NoDuplicateWrite
  <2>1. Attribution
    BY DEF IInv, TypeOK, SeerrTypeOK, SafetyInv, Undisturbed
  <2>2. \A q \in wire : /\ q \in [key : Keys, item : Items] /\ Live(q.key)
                        /\ ops[q.key].fp.item = q.item /\ q.key \notin served
    BY DEF IInv, TypeOK, SeerrTypeOK, Delivery
  <2>3. remote[p.item] # "active"
    BY <2>1, <2>2 DEF Attribution
  <2>4. ASSUME NEW q \in wire, q.item = p.item PROVE q.key = p.key
    BY <2>1, <2>2, <2>4 DEF Attribution
  <2>5. \A q \in wire : q.item = p.item => q = p
    BY <2>2, <2>4
  <2> QED BY <2>3, <2>5
<1>2. SUFFICES ASSUME MaxForeign = 0 PROVE Spec => []NoDuplicateWrite
  OBVIOUS
<1>3. IInv /\ SafetyInv => NoDuplicateWrite
  BY <1>1, <1>2
<1> QED BY Inductive, SafetyInductive, <1>3, PTL

(* A POST under way belongs to an unresolved operation on its item, so a   *)
(* retry of the call can only reconcile.                                   *)
THEOREM OutcomeStaysOpen == Spec => []WireIsAccountedFor
<1>1. IInv /\ SafetyInv => WireIsAccountedFor
  BY DEF IInv, SafetyInv, Undisturbed, Attribution, Delivery, WireIsAccountedFor, Unresolved, OnItem
<1> QED BY Inductive, SafetyInductive, <1>1, PTL

(* A stored success was accepted by Seerr, for that very operation, unless *)
(* somebody else has filed a request.                                      *)
THEOREM SuccessIsAccepted == Spec => []CreatedMeansAccepted
<1>1. IInv /\ SafetyInv => CreatedMeansAccepted
  BY DEF IInv, TypeOK, SeerrTypeOK, SafetyInv, Undisturbed, Attribution, CreatedMeansAccepted
<1> QED BY Inductive, SafetyInductive, <1>1, PTL

(* One preview never yields two successes: the token of an operation       *)
(* hashes every earlier success of its item.                               *)
THEOREM OnePreviewOneSuccess == Spec => []OneSuccessPerPreview
<1>1. Told => OneSuccessPerPreview
  BY DEF Told, Live, OneSuccessPerPreview
<1> QED BY SafetyInductive, <1>1, PTL

-------------------------------------------------------------------------------
(***************************************************************************)
(* What snapshots write to the rows.                                       *)
(***************************************************************************)
(* The rows are written by a handler that stores a success and by a        *)
(* current snapshot that is applied.                                       *)
Stores(h) == rows' = [rows EXCEPT ![Target(h)] = [st |-> "active", seen |-> clock]]

Applies(r) ==
    /\ Current(snap[r].start)
    /\ \/ /\ UNCHANGED watermark
          /\ \E I \in SUBSET Items :
                /\ rows' = Ingested(I, snap[r])
                /\ NoteDenied({i \in I : rows'[i] # rows[i]}, snap[r])
       \/ CompleteSnapshot(snap[r])

LEMMA RowWrites ==
  ASSUME IInv, [Next]_vars
  PROVE  \/ UNCHANGED <<rows, watermark, denied>>
         \/ /\ UNCHANGED <<watermark, denied>>
            /\ \E h \in Handlers : Stores(h) /\ StoresSuccess(Target(h))
         \/ \E r \in Snapshots : Applies(r) /\ UNCHANGED <<ops, remote, clock>>
<1>1. ASSUME NEW h \in Handlers, SaveRequest(h) \/ RecoverRequest(h)
      PROVE  UNCHANGED <<watermark, denied>> /\ Stores(h) /\ StoresSuccess(Target(h))
  <2>1. UNCHANGED <<watermark, denied>> /\ Stores(h)
    BY <1>1 DEF SaveRequest, RecoverRequest, Stores
  <2>2. pc'[h] # pc[h] /\ pc'[h] \in {"saved", "recovered"}
    BY <1>1 DEF SaveRequest, RecoverRequest, Goto, IInv, TypeOK, HandlerTypeOK
  <2> QED BY <2>1, <2>2 DEF StoresSuccess
<1>2. ASSUME NEW h \in Handlers, ReconcileIngest(h)
      PROVE  h \in Snapshots /\ Applies(h) /\ UNCHANGED <<ops, remote, clock>>
  BY <1>2 DEF ReconcileIngest, Snapshots, HasSnapshot, Applies, seerrVars
<1>3. ASSUME NEW h \in Handlers, ReconcileAbsence(h)
      PROVE  h \in Snapshots /\ Applies(h) /\ UNCHANGED <<ops, remote, clock>>
  BY <1>3 DEF ReconcileAbsence, Snapshots, HasSnapshot, Applies, seerrVars
<1>4. ASSUME NEW n \in Syncing, SyncIngest(n)
      PROVE  n \in Snapshots /\ Applies(n) /\ UNCHANGED <<ops, remote, clock>>
  <2>1. PICK i \in todo[n] : /\ rows' = Ingested({i}, snap[n])
                             /\ NoteDenied({j \in {i} : rows'[j] # rows[j]}, snap[n])
    BY <1>4 DEF SyncIngest
  <2>2. n \in Instances /\ {i} \in SUBSET Items
    BY SyncingAssumption DEF IInv, TypeOK, ReaderTypeOK
  <2> QED BY <1>4, <2>1, <2>2 DEF SyncIngest, Snapshots, Applies, seerrVars
<1>5. ASSUME NEW n \in Syncing, SyncFinish(n)
      PROVE  n \in Snapshots /\ Applies(n) /\ UNCHANGED <<ops, remote, clock>>
  BY <1>5, SyncingAssumption DEF SyncFinish, Snapshots, Applies, seerrVars
<1>6. ASSUME NEW h \in Handlers, CreateStep(h) \/ ReconcileStep(h)
      PROVE  \/ SaveRequest(h) \/ RecoverRequest(h) \/ ReconcileIngest(h) \/ ReconcileAbsence(h)
             \/ UNCHANGED <<rows, watermark, denied>>
  BY <1>6 DEF CreateStep, ReconcileStep, dbVars, Preview, JoinInFlight, Join, Joined, Reconcile,
     Admit, Confirm, RefuseConfirmation, BeginAcquire, BeginRefuse, CompleteOperation, FailOperation,
     PostUncertain, WriteFails, FetchSnapshot, RecoverySuperseded, ReconcileUncertain
<1>7. ASSUME NEW n \in Syncing, SyncStep(n)
      PROVE  SyncIngest(n) \/ SyncFinish(n) \/ UNCHANGED <<rows, watermark, denied>>
  BY <1>7 DEF SyncStep, dbVars, SyncStart, SyncFetch, SyncAbort
<1>8. ASSUME Environment \/ UNCHANGED vars PROVE UNCHANGED <<rows, watermark, denied>>
  BY <1>8 DEF Environment, vars, dbVars, SeerrAccepts, SeerrRefuses, PostLost, SeerrDeclines,
     SeerrDeletes, ForeignRequest, Crash, Tick
<1> QED BY <1>1, <1>2, <1>3, <1>4, <1>5, <1>6, <1>7, <1>8 DEF Next

(* Items without an applied record keep their rows; a record is applied    *)
(* only to a row that is not newer, of an item that nobody is waiting for. *)
LEMMA IngestedRow ==
  ASSUME IInv, NEW r \in Snapshots, NEW I, rows' = Ingested(I, snap[r]), NEW i \in Items
  PROVE  \/ rows'[i] = rows[i]
         \/ /\ rows'[i] = [st |-> snap[r].seen[i], seen |-> snap[r].start]
            /\ rows[i].seen <= snap[r].start /\ ~ItemUnresolved(i)
<1>1. snap[r].start \in Time /\ rows[i].seen \in Time
  BY DEF IInv, TypeOK, DbTypeOK, ReaderTypeOK, Readers, Snapshots
<1>2. CASE Skipped(i, snap[r])
  BY <1>2 DEF Ingested
<1>3. CASE ~Skipped(i, snap[r])
  <2>1. rows[i].seen <= snap[r].start /\ ~ItemUnresolved(i)
    BY <1>1, <1>3 DEF Skipped, ItemUnresolved, Time
  <2> QED BY <2>1 DEF Ingested
<1> QED BY <1>2, <1>3

(* Every step keeps what is said of denials by the watermark and the rows. *)
LEMMA RowDenialsStep ==
  ASSUME IInv, Past, RowDenials, [Next]_vars PROVE RowDenials'
<1> USE DEF IInv, TypeOK, DbTypeOK, Time
<1>1. clock' >= clock
  BY ClockRuns
<1>2. CASE UNCHANGED <<rows, watermark, denied>>
  BY <1>1, <1>2, TypeStep DEF RowDenials
<1>3. ASSUME NEW h \in Handlers, Stores(h), UNCHANGED <<watermark, denied>> PROVE RowDenials'
  <2>1. \A i \in Items : rows'[i] = rows[i] \/ rows'[i].seen = clock
    BY <1>3 DEF Stores
  <2> QED BY <1>1, <1>3, <2>1, TypeStep DEF RowDenials
<1>4. ASSUME NEW r \in Snapshots, Applies(r), UNCHANGED clock PROVE RowDenials'
  <2>1. snap[r].start \in Time /\ snap[r].start <= clock /\ watermark < snap[r].start
    BY <1>4 DEF Applies, Current, Past, Snapshots, Readers, ReaderTypeOK
  <2>2. CASE CompleteSnapshot(snap[r])
    <3>1. ASSUME NEW i \in Items
          PROVE  /\ watermark' = snap[r].start
                 /\ denied'[i] = denied[i] \/ denied'[i] = snap[r].start
                 /\ rows'[i] = rows[i] \/ rows[i].seen < snap[r].start
      BY <2>2 DEF CompleteSnapshot, NoteDenied, WithoutCleared, Cleared
    <3> QED BY <1>4, <2>1, <3>1 DEF RowDenials
  <2>3. ASSUME NEW I \in SUBSET Items, UNCHANGED watermark, rows' = Ingested(I, snap[r]),
               NoteDenied({i \in I : rows'[i] # rows[i]}, snap[r])
        PROVE  RowDenials'
    <3>1. ASSUME NEW i \in Items
          PROVE  \/ rows'[i] = rows[i] /\ denied'[i] = denied[i]
                 \/ /\ denied'[i] = denied[i] \/ denied'[i] = snap[r].start
                    /\ rows'[i].seen = snap[r].start /\ rows[i].seen <= snap[r].start
      <4>1. \/ rows'[i] = rows[i]
            \/ rows'[i] = [st |-> snap[r].seen[i], seen |-> snap[r].start] /\ rows[i].seen <= snap[r].start
        BY <2>3, IngestedRow
      <4>2. \/ denied'[i] = denied[i]
            \/ denied'[i] = snap[r].start /\ rows'[i] # rows[i]
        BY <2>3 DEF NoteDenied
      <4> QED BY <4>1, <4>2
    <3> QED BY <1>4, <2>1, <2>3, <3>1 DEF RowDenials
  <2> QED BY <1>4, <2>2, <2>3 DEF Applies
<1> QED BY <1>2, <1>3, <1>4, RowWrites

(* A reconciliation starts at the clock; while it runs, its operation      *)
(* keeps other snapshots from its item unless they complete.               *)
LEMMA Reconciliations ==
  ASSUME IInv, [Next]_vars, NEW g \in Handlers, pc'[g] \in Reconciling
  PROVE  /\ body'[g] = body[g]
         /\ \/ pc[g] \in Reconciling /\ snap'[g].start = snap[g].start
            \/ snap'[g].start = clock /\ UNCHANGED <<rows, watermark, denied>>
<1> USE ReaderAssumption DEF IInv, TypeOK, HandlerTypeOK, ReaderTypeOK, Readers, Reconciling
<1>1. ASSUME NEW h \in Handlers, Preview(h) 
      PROVE  /\ body'[g] = body[g]
             /\ \/ pc[g] \in Reconciling /\ snap'[g].start = snap[g].start
                \/ snap'[g].start = clock /\ UNCHANGED <<rows, watermark, denied>>
  BY <1>1 DEF Preview, dbVars, readerVars, seerrVars
<1>2. ASSUME NEW h \in Handlers, JoinInFlight(h) 
      PROVE  /\ body'[g] = body[g]
             /\ \/ pc[g] \in Reconciling /\ snap'[g].start = snap[g].start
                \/ snap'[g].start = clock /\ UNCHANGED <<rows, watermark, denied>>
  BY <1>2 DEF JoinInFlight, Join, dbVars, readerVars, seerrVars
<1>3. ASSUME NEW h \in Handlers, Joined(h) 
      PROVE  /\ body'[g] = body[g]
             /\ \/ pc[g] \in Reconciling /\ snap'[g].start = snap[g].start
                \/ snap'[g].start = clock /\ UNCHANGED <<rows, watermark, denied>>
  BY <1>3 DEF Joined, Finish, dbVars, seerrVars
<1>4. ASSUME NEW h \in Handlers, Reconcile(h) 
      PROVE  /\ body'[g] = body[g]
             /\ \/ pc[g] \in Reconciling /\ snap'[g].start = snap[g].start
                \/ snap'[g].start = clock /\ UNCHANGED <<rows, watermark, denied>>
  <2>1. UNCHANGED <<body, rows, watermark, denied>>
    BY <1>4 DEF Reconcile, Join, dbVars
  <2>2. CASE pc' = [pc EXCEPT ![h] = "joined"] /\ snap' = snap
    BY <2>1, <2>2
  <2>3. CASE pc' = [pc EXCEPT ![h] = "fetching"] /\ snap' = [snap EXCEPT ![h].start = clock]
    <3>1. snap'[h].start = clock
      <4>1. snap[h] \in [start : Time, seen : [Items -> ItemState]] /\ h \in DOMAIN snap
        OBVIOUS
      <4>2. [snap[h] EXCEPT !.start = clock].start = clock
        BY <4>1
      <4> QED BY <2>3, <4>1, <4>2
    <3>2. g # h => pc'[g] = pc[g] /\ snap'[g] = snap[g]
      BY <2>3
    <3> QED BY <2>1, <3>1, <3>2
  <2> QED BY <1>4, <2>2, <2>3 DEF Reconcile, Join, readerVars
<1>5. ASSUME NEW h \in Handlers, Admit(h) 
      PROVE  /\ body'[g] = body[g]
             /\ \/ pc[g] \in Reconciling /\ snap'[g].start = snap[g].start
                \/ snap'[g].start = clock /\ UNCHANGED <<rows, watermark, denied>>
  BY <1>5 DEF Admit, Goto, Target, dbVars, readerVars, seerrVars
<1>6. ASSUME NEW h \in Handlers, Confirm(h) 
      PROVE  /\ body'[g] = body[g]
             /\ \/ pc[g] \in Reconciling /\ snap'[g].start = snap[g].start
                \/ snap'[g].start = clock /\ UNCHANGED <<rows, watermark, denied>>
  BY <1>6 DEF Confirm, Goto, dbVars, readerVars, seerrVars
<1>7. ASSUME NEW h \in Handlers, RefuseConfirmation(h) 
      PROVE  /\ body'[g] = body[g]
             /\ \/ pc[g] \in Reconciling /\ snap'[g].start = snap[g].start
                \/ snap'[g].start = clock /\ UNCHANGED <<rows, watermark, denied>>
  BY <1>7 DEF RefuseConfirmation, Finish, dbVars, seerrVars
<1>8. ASSUME NEW h \in Handlers, BeginAcquire(h) 
      PROVE  /\ body'[g] = body[g]
             /\ \/ pc[g] \in Reconciling /\ snap'[g].start = snap[g].start
                \/ snap'[g].start = clock /\ UNCHANGED <<rows, watermark, denied>>
  BY <1>8 DEF BeginAcquire, readerVars
<1>9. ASSUME NEW h \in Handlers, BeginRefuse(h) 
      PROVE  /\ body'[g] = body[g]
             /\ \/ pc[g] \in Reconciling /\ snap'[g].start = snap[g].start
                \/ snap'[g].start = clock /\ UNCHANGED <<rows, watermark, denied>>
  BY <1>9 DEF BeginRefuse, FailedKeys, Finish, Purged, seerrVars
<1>10. ASSUME NEW h \in Handlers, SaveRequest(h) 
      PROVE  /\ body'[g] = body[g]
             /\ \/ pc[g] \in Reconciling /\ snap'[g].start = snap[g].start
                \/ snap'[g].start = clock /\ UNCHANGED <<rows, watermark, denied>>
  BY <1>10 DEF SaveRequest, Goto, readerVars, seerrVars
<1>11. ASSUME NEW h \in Handlers, CompleteOperation(h) 
      PROVE  /\ body'[g] = body[g]
             /\ \/ pc[g] \in Reconciling /\ snap'[g].start = snap[g].start
                \/ snap'[g].start = clock /\ UNCHANGED <<rows, watermark, denied>>
  BY <1>11 DEF CompleteOperation, Finish, seerrVars
<1>12. ASSUME NEW h \in Handlers, FailOperation(h) 
      PROVE  /\ body'[g] = body[g]
             /\ \/ pc[g] \in Reconciling /\ snap'[g].start = snap[g].start
                \/ snap'[g].start = clock /\ UNCHANGED <<rows, watermark, denied>>
  BY <1>12 DEF FailOperation, Finish, SetStatus, seerrVars
<1>13. ASSUME NEW h \in Handlers, PostUncertain(h) 
      PROVE  /\ body'[g] = body[g]
             /\ \/ pc[g] \in Reconciling /\ snap'[g].start = snap[g].start
                \/ snap'[g].start = clock /\ UNCHANGED <<rows, watermark, denied>>
  BY <1>13 DEF PostUncertain, Finish, SetStatus, seerrVars
<1>14. ASSUME NEW h \in Handlers, WriteFails(h) 
      PROVE  /\ body'[g] = body[g]
             /\ \/ pc[g] \in Reconciling /\ snap'[g].start = snap[g].start
                \/ snap'[g].start = clock /\ UNCHANGED <<rows, watermark, denied>>
  BY <1>14 DEF WriteFails, Finish, dbVars, seerrVars
<1>15. ASSUME NEW h \in Handlers, FetchSnapshot(h) 
      PROVE  /\ body'[g] = body[g]
             /\ \/ pc[g] \in Reconciling /\ snap'[g].start = snap[g].start
                \/ snap'[g].start = clock /\ UNCHANGED <<rows, watermark, denied>>
  BY <1>15 DEF FetchSnapshot, dbVars, seerrVars
<1>16. ASSUME NEW h \in Handlers, ReconcileIngest(h) 
      PROVE  /\ body'[g] = body[g]
             /\ \/ pc[g] \in Reconciling /\ snap'[g].start = snap[g].start
                \/ snap'[g].start = clock /\ UNCHANGED <<rows, watermark, denied>>
  BY <1>16 DEF ReconcileIngest, Goto, readerVars
<1>17. ASSUME NEW h \in Handlers, ReconcileAbsence(h) 
      PROVE  /\ body'[g] = body[g]
             /\ \/ pc[g] \in Reconciling /\ snap'[g].start = snap[g].start
                \/ snap'[g].start = clock /\ UNCHANGED <<rows, watermark, denied>>
  BY <1>17 DEF ReconcileAbsence, Goto, CompleteSnapshot, readerVars, seerrVars
<1>18. ASSUME NEW h \in Handlers, RecoverRequest(h) 
      PROVE  /\ body'[g] = body[g]
             /\ \/ pc[g] \in Reconciling /\ snap'[g].start = snap[g].start
                \/ snap'[g].start = clock /\ UNCHANGED <<rows, watermark, denied>>
  BY <1>18 DEF RecoverRequest, Goto, readerVars, seerrVars
<1>19. ASSUME NEW h \in Handlers, RecoverySuperseded(h) 
      PROVE  /\ body'[g] = body[g]
             /\ \/ pc[g] \in Reconciling /\ snap'[g].start = snap[g].start
                \/ snap'[g].start = clock /\ UNCHANGED <<rows, watermark, denied>>
  BY <1>19 DEF RecoverySuperseded, Finish, dbVars, seerrVars
<1>20. ASSUME NEW h \in Handlers, ReconcileUncertain(h) 
      PROVE  /\ body'[g] = body[g]
             /\ \/ pc[g] \in Reconciling /\ snap'[g].start = snap[g].start
                \/ snap'[g].start = clock /\ UNCHANGED <<rows, watermark, denied>>
  BY <1>20 DEF ReconcileUncertain, Finish, SetStatus, seerrVars
<1>21. ASSUME NEW n \in Instances, SyncStart(n) 
      PROVE  /\ body'[g] = body[g]
             /\ \/ pc[g] \in Reconciling /\ snap'[g].start = snap[g].start
                \/ snap'[g].start = clock /\ UNCHANGED <<rows, watermark, denied>>
  BY <1>21 DEF SyncStart, dbVars, handlerVars, seerrVars
<1>22. ASSUME NEW n \in Instances, SyncFetch(n) 
      PROVE  /\ body'[g] = body[g]
             /\ \/ pc[g] \in Reconciling /\ snap'[g].start = snap[g].start
                \/ snap'[g].start = clock /\ UNCHANGED <<rows, watermark, denied>>
  BY <1>22 DEF SyncFetch, dbVars, handlerVars, seerrVars
<1>23. ASSUME NEW n \in Instances, SyncIngest(n) 
      PROVE  /\ body'[g] = body[g]
             /\ \/ pc[g] \in Reconciling /\ snap'[g].start = snap[g].start
                \/ snap'[g].start = clock /\ UNCHANGED <<rows, watermark, denied>>
  BY <1>23 DEF SyncIngest, handlerVars, seerrVars
<1>24. ASSUME NEW n \in Instances, SyncFinish(n) 
      PROVE  /\ body'[g] = body[g]
             /\ \/ pc[g] \in Reconciling /\ snap'[g].start = snap[g].start
                \/ snap'[g].start = clock /\ UNCHANGED <<rows, watermark, denied>>
  BY <1>24 DEF SyncFinish, CompleteSnapshot, EndSync, handlerVars, seerrVars
<1>25. ASSUME NEW n \in Instances, SyncAbort(n) 
      PROVE  /\ body'[g] = body[g]
             /\ \/ pc[g] \in Reconciling /\ snap'[g].start = snap[g].start
                \/ snap'[g].start = clock /\ UNCHANGED <<rows, watermark, denied>>
  BY <1>25 DEF SyncAbort, EndSync, dbVars, handlerVars, seerrVars
<1>26. ASSUME NEW n \in Instances, Crash(n) 
      PROVE  /\ body'[g] = body[g]
             /\ \/ pc[g] \in Reconciling /\ snap'[g].start = snap[g].start
                \/ snap'[g].start = clock /\ UNCHANGED <<rows, watermark, denied>>
  BY <1>26 DEF Crash, dbVars, seerrVars
<1>27. ASSUME SeerrAccepts 
      PROVE  /\ body'[g] = body[g]
             /\ \/ pc[g] \in Reconciling /\ snap'[g].start = snap[g].start
                \/ snap'[g].start = clock /\ UNCHANGED <<rows, watermark, denied>>
  BY <1>27 DEF SeerrAccepts, Answer, dbVars, readerVars
<1>28. ASSUME SeerrRefuses 
      PROVE  /\ body'[g] = body[g]
             /\ \/ pc[g] \in Reconciling /\ snap'[g].start = snap[g].start
                \/ snap'[g].start = clock /\ UNCHANGED <<rows, watermark, denied>>
  BY <1>28 DEF SeerrRefuses, Answer, dbVars, readerVars
<1>29. ASSUME PostLost 
      PROVE  /\ body'[g] = body[g]
             /\ \/ pc[g] \in Reconciling /\ snap'[g].start = snap[g].start
                \/ snap'[g].start = clock /\ UNCHANGED <<rows, watermark, denied>>
  BY <1>29 DEF PostLost, dbVars, handlerVars, readerVars
<1>30. ASSUME SeerrDeclines 
      PROVE  /\ body'[g] = body[g]
             /\ \/ pc[g] \in Reconciling /\ snap'[g].start = snap[g].start
                \/ snap'[g].start = clock /\ UNCHANGED <<rows, watermark, denied>>
  BY <1>30 DEF SeerrDeclines, dbVars, handlerVars, readerVars
<1>31. ASSUME SeerrDeletes 
      PROVE  /\ body'[g] = body[g]
             /\ \/ pc[g] \in Reconciling /\ snap'[g].start = snap[g].start
                \/ snap'[g].start = clock /\ UNCHANGED <<rows, watermark, denied>>
  BY <1>31 DEF SeerrDeletes, dbVars, handlerVars, readerVars
<1>32. ASSUME ForeignRequest 
      PROVE  /\ body'[g] = body[g]
             /\ \/ pc[g] \in Reconciling /\ snap'[g].start = snap[g].start
                \/ snap'[g].start = clock /\ UNCHANGED <<rows, watermark, denied>>
  BY <1>32 DEF ForeignRequest, dbVars, handlerVars, readerVars
<1>33. ASSUME Tick 
      PROVE  /\ body'[g] = body[g]
             /\ \/ pc[g] \in Reconciling /\ snap'[g].start = snap[g].start
                \/ snap'[g].start = clock /\ UNCHANGED <<rows, watermark, denied>>
  BY <1>33 DEF Tick, dbVars, handlerVars, readerVars, seerrVars
<1>34. CASE UNCHANGED vars
  BY <1>34 DEF vars, dbVars, handlerVars, readerVars, seerrVars
<1> QED
  BY SyncingAssumption, <1>1, <1>2, <1>3, <1>4, <1>5, <1>6, <1>7, <1>8, <1>9, <1>10, <1>11, <1>12, <1>13, <1>14, <1>15, <1>16, <1>17, <1>18, <1>19, <1>20, <1>21, <1>22, <1>23, <1>24, <1>25, <1>26, <1>27, <1>28, <1>29, <1>30, <1>31, <1>32, <1>33, <1>34
  DEF Next, CreateStep, ReconcileStep, SyncStep, Environment

LEMMA ReconciledDenialsStep ==
  ASSUME SingleInstance, IInv, SoleOwner, Past, RowDenials, ReconciledDenials, [Next]_vars
  PROVE  ReconciledDenials'
<1> USE DEF IInv, TypeOK, DbTypeOK, Time
<1> SUFFICES ASSUME NEW g \in Handlers, pc'[g] \in Reconciling
             PROVE  \/ denied'[body'[g].item] <= watermark'
                    \/ denied'[body'[g].item] <= snap'[g].start
  BY DEF ReconciledDenials, Target
<1> DEFINE i == body[g].item
<1>1. i \in Items /\ body'[g] = body[g]
  BY Reconciliations DEF HandlerTypeOK, Fingerprint
<1>2. CASE snap'[g].start = clock /\ UNCHANGED <<rows, watermark, denied>>
  BY <1>1, <1>2 DEF RowDenials
<1>3. CASE pc[g] \in Reconciling /\ snap'[g].start = snap[g].start
  <2>1. /\ denied[i] <= watermark \/ denied[i] <= snap[g].start
        /\ snap[g].start \in Time
    BY <1>3 DEF ReconciledDenials, Target, ReaderTypeOK, Readers
  <2>2. CASE UNCHANGED <<watermark, denied>>
    BY <1>1, <1>3, <2>1, <2>2
  <2>3. ASSUME NEW r \in Snapshots, Applies(r)
        PROVE  denied'[i] <= watermark' \/ denied'[i] <= snap[g].start
    <3>1. snap[r].start \in Time /\ watermark < snap[r].start
      BY <2>3 DEF Applies, Current, Snapshots, Readers, ReaderTypeOK
    <3>2. CASE CompleteSnapshot(snap[r])
      <4>1. watermark' = snap[r].start /\ (denied'[i] = denied[i] \/ denied'[i] = snap[r].start)
        BY <1>1, <3>2 DEF CompleteSnapshot, NoteDenied
      <4> QED BY <1>1, <2>1, <3>1, <4>1
    <3>3. ASSUME NEW I \in SUBSET Items, UNCHANGED watermark, rows' = Ingested(I, snap[r]),
                 NoteDenied({j \in I : rows'[j] # rows[j]}, snap[r])
          PROVE  denied'[i] <= watermark' \/ denied'[i] <= snap[g].start
      <4>1. ItemUnresolved(i)
        <5>1. pc[g] \in Owning
          BY <1>3 DEF Owning
        <5>2. opKey[g] \in Keys /\ Unresolved(opKey[g]) /\ ops[opKey[g]].fp = body[g]
          BY <5>1 DEF SoleOwner, Ownership, Owning, Reconciling
        <5> QED BY <5>2 DEF ItemUnresolved, OnItem, Unresolved
      <4>2. rows'[i] = rows[i]
        BY <1>1, <3>3, <4>1, IngestedRow
      <4>3. denied'[i] = denied[i]
        BY <1>1, <3>3, <4>2 DEF NoteDenied
      <4> QED BY <2>1, <3>3, <4>3
    <3> QED BY <2>3, <3>2, <3>3 DEF Applies
  <2> QED BY <1>1, <1>3, <2>2, <2>3, RowWrites
<1> QED BY <1>1, <1>2, <1>3, Reconciliations

-------------------------------------------------------------------------------
(* docs/UPGRADING.md: "older overlapping syncs cannot restore cleared      *)
(* request state".  For one server process: an item becomes requested only *)
(* by a write that is at least as new as the newest snapshot that showed   *)
(* no live request for it, and a recovery rests on such a snapshot.  What  *)
(* is ingested is newer, once a snapshot of that time has completed.       *)
THEOREM DenialsAreKept == SingleInstance /\ Spec => ClearedStaysCleared
<1> DEFINE Requested == \A i \in Items :
         /\ (rows[i].st # "active" /\ rows'[i].st = "active") =>
              /\ rows'[i].seen >= denied[i]
              /\ rows'[i].seen = denied[i] => denied[i] > watermark \/ StoresSuccess(i)
         /\ \A h \in Handlers : (pc[h] = "reconciled" /\ pc'[h] = "recovered" /\ Target(h) = i)
                                  => snap[h].start >= denied[i]
<1>1. Init => RowDenials /\ ReconciledDenials
  BY BoundsAssumption DEF Init, RowDenials, ReconciledDenials, Reconciling
<1>2. IInv /\ Past /\ RowDenials /\ [Next]_vars => RowDenials'
  BY RowDenialsStep
<1>3. ASSUME IInv, Past, RowDenials, [Next]_vars, NEW i \in Items,
             rows[i].st # "active", rows'[i].st = "active"
      PROVE  /\ rows'[i].seen >= denied[i]
             /\ rows'[i].seen = denied[i] => denied[i] > watermark \/ StoresSuccess(i)
  <2> USE DEF IInv, TypeOK, DbTypeOK, Time
  <2>1. ASSUME NEW h \in Handlers, Stores(h), StoresSuccess(Target(h))
        PROVE  rows'[i].seen >= denied[i] /\ StoresSuccess(i)
    <3>1. rows'[i].seen = clock /\ Target(h) = i
      BY <1>3, <2>1 DEF Stores
    <3> QED BY <1>3, <2>1, <3>1 DEF RowDenials
  <2>2. ASSUME NEW r \in Snapshots, Applies(r)
        PROVE  /\ rows'[i].seen >= denied[i]
               /\ rows'[i].seen = denied[i] => denied[i] > watermark
    <3>1. snap[r].start \in Time /\ watermark < snap[r].start
      BY <1>3, <2>2 DEF Applies, Current, Snapshots, Readers, ReaderTypeOK
    <3>2. CASE rows' = WithoutCleared(snap[r])
      BY <1>3, <3>2 DEF WithoutCleared
    <3>3. ASSUME NEW I, rows' = Ingested(I, snap[r])
          PROVE  rows'[i].seen >= denied[i] /\ rows'[i].seen > watermark
      <4>1. rows'[i].seen = snap[r].start /\ rows[i].seen <= snap[r].start
        <5>1. \/ rows'[i] = rows[i]
              \/ /\ rows'[i] = [st |-> snap[r].seen[i], seen |-> snap[r].start]
                 /\ rows[i].seen <= snap[r].start
          BY <1>3, <3>3, IngestedRow
        <5> QED BY <1>3, <5>1
      <4> QED BY <1>3, <3>1, <4>1 DEF RowDenials
    <3> QED BY <2>2, <3>2, <3>3 DEF Applies, CompleteSnapshot
  <2> QED BY <1>3, <2>1, <2>2, RowWrites
<1>4. ASSUME IInv, ReconciledDenials, [Next]_vars, NEW h \in Handlers,
             pc[h] = "reconciled", pc'[h] = "recovered"
      PROVE  snap[h].start >= denied[Target(h)]
  <2>1. watermark <= snap[h].start
    BY <1>4, OnlyRecoveryRecovers DEF RecoverRequest
  <2>2. Target(h) \in Items /\ snap[h].start \in Time /\ watermark \in Time
    BY <1>4 DEF IInv, TypeOK, DbTypeOK, HandlerTypeOK, ReaderTypeOK, Readers, Fingerprint, Target
  <2>3. denied[Target(h)] <= watermark \/ denied[Target(h)] <= snap[h].start
    BY <1>4 DEF ReconciledDenials, Reconciling
  <2>4. denied[Target(h)] \in Time
    BY <1>4, <2>2 DEF IInv, TypeOK
  <2> QED BY <2>1, <2>2, <2>3, <2>4 DEF Time
<1>5. IInv /\ Past /\ RowDenials /\ ReconciledDenials /\ [Next]_vars => [Requested]_vars
  BY <1>3, <1>4
<1>6. SUFFICES ASSUME SingleInstance PROVE Spec => ClearedStaysCleared
  OBVIOUS
<1>7. IInv /\ SoleOwner /\ Past /\ RowDenials /\ ReconciledDenials /\ [Next]_vars
        => SoleOwner' /\ ReconciledDenials'
  BY <1>6, SoleOwnerStep, ReconciledDenialsStep DEF IInv
<1>8. Init => SoleOwner
  BY DEF Init, SoleOwner, Owning, Reconciling
<1>9. SafetyInv => Past
  BY DEF SafetyInv
<1> HIDE DEF Requested
<1>10. Spec => [][Requested]_vars
  BY Inductive, SafetyInductive, <1>1, <1>2, <1>5, <1>7, <1>8, <1>9, PTL DEF Spec
<1> QED BY <1>10 DEF Requested, ClearedStaysCleared

(* As long as nobody else files requests in Seerr, the end of a snapshot   *)
(* never takes the row of an item away while Seerr holds a live request    *)
(* for it, whatever was accepted after the snapshot was read.              *)
THEOREM RequestsAreKept == Spec => AcceptedIsNotErased
<1> DEFINE Kept == \A i \in Items :
         (rows[i].st = "active" /\ rows'[i].st # "active" /\ foreign = 0) => remote[i] # "active"
<1>1. ASSUME IInv, SafetyInv, [Next]_vars PROVE Kept
  <2> SUFFICES ASSUME NEW i \in Items, rows[i].st = "active", foreign = 0, remote[i] = "active"
               PROVE  rows'[i].st = "active"
    OBVIOUS
  <2>1. Knowledge
    BY <1>1 DEF SafetyInv, Undisturbed
  <2>2. ASSUME NEW h \in Handlers, Stores(h) PROVE rows'[i].st = "active"
    BY <1>1, <2>2 DEF Stores, IInv, TypeOK, DbTypeOK
  <2>3. ASSUME NEW r \in Snapshots, Applies(r) PROVE rows'[i].st = "active"
    <3>1. PICK I : rows' = Ingested(I, snap[r]) \/ rows' = WithoutCleared(snap[r])
      BY <2>3 DEF Applies, CompleteSnapshot
    <3>2. \/ rows'[i] = rows[i]
          \/ rows'[i].st = "active"
      BY <1>1, <2>1, <3>1, RowsKept
    <3> QED BY <3>2
  <2> QED BY <1>1, <2>2, <2>3, RowWrites
<1>2. IInv /\ SafetyInv /\ [Next]_vars => [Kept]_vars
  BY <1>1
<1> HIDE DEF Kept
<1>3. Spec => [][Kept]_vars
  BY Inductive, SafetyInductive, <1>2, PTL DEF Spec
<1> QED BY <1>3 DEF Kept, AcceptedIsNotErased

-------------------------------------------------------------------------------
(***************************************************************************)
(* Refinement.  The life of an operation is the ledger's; the steps on the *)
(* operation table are the ledger's steps, all others leave it unchanged.  *)
(***************************************************************************)
LEMMA OpenStep ==
  ASSUME IInv, NEW h \in Handlers, BeginAcquire(h)
  PROVE  \E old \in SUBSET Keys : Ledger!Open(opKey[h], Target(h), old)
<1> USE DEF IInv, TypeOK, DbTypeOK
<1>1. PICK old \in SUBSET FailedKeys :
         ops' = [Purged(old) EXCEPT ![opKey[h]] = [status |-> "pending", fp |-> body[h], at |-> 0]]
  BY DEF BeginAcquire
<1>2. opKey[h] \in Keys /\ ops[opKey[h]].status \in {"none", "failed"}
  BY DEF BeginAcquire, Ownership
<1>3. \A k \in Keys : ops'[k] = IF k = opKey[h] THEN [status |-> "pending", fp |-> body[h], at |-> 0]
                                ELSE IF k \in old THEN NoOperation ELSE ops[k]
  BY <1>1, <1>2 DEF Purged
<1>4. old \subseteq {k \in Keys : Life(k) = "failed"}
  BY <1>1 DEF FailedKeys, Life, Unresolved
<1>5. \A k \in Keys : Life(k)' = IF k = opKey[h] THEN "open" ELSE IF k \in old THEN "none" ELSE Life(k)
  BY <1>3 DEF Life, Unresolved, NoOperation
<1>6. \A k \in Keys :
        (IF ops[k].status = "none" THEN "nothing" ELSE ops[k].fp.item)'
          = IF k = opKey[h] THEN Target(h)
            ELSE IF k \in old THEN "nothing"
            ELSE IF ops[k].status = "none" THEN "nothing" ELSE ops[k].fp.item
  BY <1>3 DEF NoOperation, Target
<1>7. \A k \in Keys : (IF ops[k].status = "none" THEN "nothing" ELSE ops[k].fp.item) = Target(h)
                          => Life(k) # "open"
  BY DEF BeginAcquire, ItemUnresolved, OnItem, Unresolved, Life, Operation, NoOperation
<1>8. Life(opKey[h]) \in {"none", "failed"}
  BY <1>2 DEF Life, Unresolved
<1>9. old \in SUBSET Keys
  BY <1>1 DEF FailedKeys
<1> HIDE DEF IInv, TypeOK, DbTypeOK
<1>10. Ledger!Open(opKey[h], Target(h), old)
  BY <1>2, <1>4, <1>5, <1>6, <1>7, <1>8 DEF Ledger!Open, Ledger!Nothing
<1> QED BY <1>9, <1>10

LEMMA ForgetStep ==
  ASSUME IInv, NEW h \in Handlers, BeginRefuse(h)
  PROVE  (\E old \in SUBSET Keys : Ledger!Forget(old)) \/ UNCHANGED ops
<1> SUFFICES ASSUME NEW old \in SUBSET FailedKeys, ops' = Purged(old)
             PROVE  Ledger!Forget(old) /\ old \in SUBSET Keys
  BY DEF BeginRefuse
<1>1. \A k \in Keys : ops'[k] = IF k \in old THEN NoOperation ELSE ops[k]
  BY DEF Purged
<1>2. old \subseteq {k \in Keys : Life(k) = "failed"} /\ old \in SUBSET Keys
  BY DEF FailedKeys, Life, Unresolved
<1>3. \A k \in Keys : Life(k)' = IF k \in old THEN "none" ELSE Life(k)
  BY <1>1 DEF Life, Unresolved, NoOperation
<1>4. \A k \in Keys :
        (IF ops[k].status = "none" THEN "nothing" ELSE ops[k].fp.item)'
          = IF k \in old THEN "nothing"
            ELSE IF ops[k].status = "none" THEN "nothing" ELSE ops[k].fp.item
  BY <1>1 DEF NoOperation
<1> QED BY <1>2, <1>3, <1>4 DEF Ledger!Forget, Ledger!Nothing

(* Setting the status of an unresolved operation settles it, or leaves it  *)
(* open.                                                                   *)
LEMMA SettleStep ==
  ASSUME NEW k \in Keys, Unresolved(k), NEW status \in {"uncertain", "created", "failed"},
         ops'[k].status = status, ops'[k].fp = ops[k].fp,
         \A t \in Keys : t # k => ops'[t] = ops[t]
  PROVE  \/ status # "uncertain" /\ Ledger!Settle(k, status)
         \/ UNCHANGED Ledger!ledgerVars
<1>1. \A t \in Keys : (IF ops[t].status = "none" THEN "nothing" ELSE ops[t].fp.item)'
                       = IF ops[t].status = "none" THEN "nothing" ELSE ops[t].fp.item
  BY DEF Unresolved
<1>2. Life(k) = "open"
  BY DEF Life
<1>3. \A t \in Keys : t # k => Life(t)' = Life(t)
  BY DEF Life, Unresolved
<1>4. Life(k)' = IF status = "uncertain" THEN "open" ELSE status
  BY DEF Life, Unresolved
<1>5. CASE status = "uncertain"
  BY <1>1, <1>2, <1>3, <1>4, <1>5 DEF Ledger!ledgerVars
<1>6. CASE status # "uncertain"
  BY <1>1, <1>2, <1>3, <1>4, <1>6 DEF Ledger!Settle
<1> QED BY <1>5, <1>6

LEMMA LedgerStep ==
  ASSUME IInv, SoleOwner, [Next]_vars PROVE [Ledger!Next]_(Ledger!ledgerVars)
<1>1. ASSUME NEW h \in Handlers, BeginAcquire(h) PROVE Ledger!Next
  <2>1. opKey[h] \in Keys /\ Target(h) \in Items
    BY <1>1 DEF BeginAcquire, IInv, TypeOK, HandlerTypeOK, Ownership, Target, Fingerprint
  <2>2. PICK old \in SUBSET Keys : Ledger!Open(opKey[h], Target(h), old)
    BY <1>1, OpenStep
  <2> QED BY <2>1, <2>2 DEF Ledger!Next
<1>2. CASE UNCHANGED ops
  BY <1>2 DEF Ledger!ledgerVars, Life, Unresolved
<1>3. ASSUME NEW h \in Handlers, BeginRefuse(h) PROVE [Ledger!Next]_(Ledger!ledgerVars)
  BY <1>2, <1>3, ForgetStep DEF Ledger!Next
<1>4. ASSUME NEW h \in Handlers,
             \/ CompleteOperation(h) \/ FailOperation(h)
             \/ PostUncertain(h) \/ ReconcileUncertain(h)
      PROVE  [Ledger!Next]_(Ledger!ledgerVars)
  <2>1. PICK status \in {"uncertain", "created", "failed"}, at \in {0, clock} :
           ops' = [ops EXCEPT ![opKey[h]].status = status, ![opKey[h]].at = at]
    BY <1>4 DEF CompleteOperation, FailOperation, PostUncertain, ReconcileUncertain, SetStatus
  <2>2. pc[h] \in Owning
    BY <1>4 DEF CompleteOperation, FailOperation, PostUncertain, ReconcileUncertain, Owning, Reconciling
  <2>3. opKey[h] \in Keys /\ Unresolved(opKey[h])
    BY <2>2 DEF SoleOwner, IInv, Ownership, Owning, Reconciling
  <2>4. /\ ops'[opKey[h]].status = status /\ ops'[opKey[h]].fp = ops[opKey[h]].fp
        /\ \A t \in Keys : t # opKey[h] => ops'[t] = ops[t]
    BY <2>1, <2>2, StatusWrite
  <2>5. \/ status # "uncertain" /\ Ledger!Settle(opKey[h], status)
        \/ UNCHANGED Ledger!ledgerVars
    BY <2>3, <2>4, SettleStep
  <2> QED BY <2>3, <2>5 DEF Ledger!Next
<1> QED BY <1>1, <1>2, <1>3, <1>4, TableWriters, NoOtherWriters DEF Next

(* The operations of one server process behave as the ledger promises, for *)
(* any number of concurrent calls: a key is opened for one item, an item   *)
(* has one open operation, an open operation is settled once and a success *)
(* is final.                                                               *)
THEOREM ImplementsTheLedger == SingleInstance /\ Spec => ImplementsLedger
<1>1. Init => Ledger!Init /\ SoleOwner
  BY DEF Init, Ledger!Init, Ledger!Nothing, Life, Unresolved, NoOperation, SoleOwner, Owning, Reconciling
<1>2. SUFFICES ASSUME SingleInstance PROVE Spec => ImplementsLedger
  OBVIOUS
<1>3. IInv /\ SoleOwner /\ [Next]_vars => SoleOwner'
  BY <1>2, SoleOwnerStep DEF IInv
<1>4. IInv /\ SoleOwner /\ [Next]_vars => [Ledger!Next]_(Ledger!ledgerVars)
  BY LedgerStep
<1> QED BY Inductive, <1>1, <1>3, <1>4, PTL DEF Spec, ImplementsLedger, Ledger!Spec

================================================================================
