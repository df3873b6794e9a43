---------------------------- MODULE RequestCreation ----------------------------
(***************************************************************************)
(* Confirmed media requests: POST /api/requests/preview and /create        *)
(* (server/app.ts), the operation table request_creation_operations and    *)
(* the Seerr rows in SQLite (server/db/mediaRepository.ts), the snapshot   *)
(* reads of a scheduled sync and of a reconciliation, and the Seerr server *)
(* at the other end of the wire.                                           *)
(*                                                                         *)
(* Every database transaction is one step.  A handler that runs on without *)
(* awaiting keeps the main thread of its server instance (mainThread), but *)
(* the sync worker thread and the other instances on the same database     *)
(* commit between its statements.                                          *)
(*                                                                         *)
(* A request body is abstracted to the item and to the generation that its *)
(* confirmation token hashes: type, media id, seasons and phrase follow    *)
(* from the item.  A row's request state is "absent", "declined" (a new    *)
(* request is possible) or "active" (every other Seerr status).            *)
(***************************************************************************)
EXTENDS Naturals, FiniteSets

CONSTANTS
    Items,        \* media items
    Keys,         \* idempotency keys, as hashed with the scope of their user
    Scopes,       \* authScope: one per user, and the admin
    KeyScope,     \* the scope of each key
    Handlers,     \* concurrent HTTP calls, each with the last preview it holds
    Instances,    \* server processes on one database
    InstanceOf,   \* the instance that serves a handler
    Syncing,      \* the instances that run syncs
    MaxClock,     \* bound: the last millisecond of the wall clock
    MaxForeign,   \* bound: requests filed or revived in Seerr by others
    Free, NoKey   \* nobody holds the main thread; a handler without operation

ASSUME KeyScopeAssumption   == KeyScope \in [Keys -> Scopes]
ASSUME InstanceOfAssumption == InstanceOf \in [Handlers -> Instances]
ASSUME SyncingAssumption    == Syncing \subseteq Instances
ASSUME BoundsAssumption     == MaxClock \in Nat \ {0} /\ MaxForeign \in Nat
ASSUME SentinelAssumption   == Free \notin Handlers /\ NoKey \notin Keys
ASSUME ReaderAssumption     == Handlers \cap Instances = {}

VARIABLES
    ops,         \* request_creation_operations, by idempotency key
    rows,        \* seerr_items: request state of each item and last_seen_at
    watermark,   \* seerr_sync_state.completed_snapshot_started_at, 0 if none
    mainThread,  \* the handler that occupies the main thread of an instance
    pc, opKey,   \* where a handler is and the operation it works on
    body,        \* the previewed body (fingerprint) the client of a handler sends
    reply,       \* what Seerr answered to the POST a handler awaits
    snap,        \* the snapshot a handler or the sync of an instance is reading
    sync, todo,  \* phase of a sync and the records it has not ingested yet
    wire,        \* POSTs sent to Seerr and not yet processed by it
    remote,      \* what Seerr holds for each item
    foreign,     \* requests made in Seerr by others so far
    clock,       \* wall clock
    served,      \* history: keys whose POST Seerr accepted
    denied       \* history: start of the newest applied snapshot without a live request

dbVars      == <<ops, rows, watermark>>
handlerVars == <<mainThread, pc, opKey, body, reply>>
readerVars  == <<snap, sync, todo>>
seerrVars   == <<wire, remote, foreign, served>>
vars        == <<dbVars, handlerVars, readerVars, seerrVars, clock, denied>>

Time        == 0..MaxClock
ItemState   == {"absent", "active", "declined"}
Readers     == Handlers \cup Instances
Generation  == [st : ItemState, created : SUBSET Keys]
Fingerprint == [item : Items, gen : Generation]
NoOperation == [status |-> "none"]
Operation   == [status : {"pending", "uncertain", "created", "failed"},
                fp : Fingerprint, at : Time]
NoSnapshot  == [start |-> 0, seen |-> [i \in Items |-> "absent"]]

Unresolved(k)      == ops[k].status \in {"pending", "uncertain"}
OnItem(k, i)       == ops[k].status # "none" /\ ops[k].fp.item = i
\* Mutation: only pending operations hold their item.
ItemUnresolvedPendingOnly(i) == \E k \in Keys : ops[k].status = "pending" /\ OnItem(k, i)

ItemUnresolved(i)  == \E k \in Keys : Unresolved(k) /\ OnItem(k, i)

-------------------------------------------------------------------------------
\* Mutation: the generation leaves out the successful operations.
GenerationWithoutSuccesses(i) == [st |-> rows[i].st, created |-> {}]

\* The generation hashes the stored state of the item and the keys of its
\* successful operations.
GenerationForItem(i) ==
    [st      |-> rows[i].st,
     created |-> {k \in Keys : ops[k].status = "created" /\ OnItem(k, i)}]

Target(h) == body[h].item

Init ==
    /\ ops = [k \in Keys |-> NoOperation]
    /\ rows = [i \in Items |-> [st |-> "absent", seen |-> 0]]
    /\ watermark = 0
    /\ mainThread = [n \in Instances |-> Free]
    /\ pc = [h \in Handlers |-> "idle"]
    /\ opKey = [h \in Handlers |-> NoKey]
    /\ body \in [Handlers -> [item : Items, gen : {[st |-> "absent", created |-> {}]}]]
    /\ reply = [h \in Handlers |-> "none"]
    /\ snap = [r \in Readers |-> NoSnapshot]
    /\ sync = [n \in Instances |-> "idle"]
    /\ todo = [n \in Instances |-> {}]
    /\ wire = {}
    /\ remote = [i \in Items |-> "absent"]
    /\ foreign = 0
    /\ clock = 1
    /\ served = {}
    /\ denied = [i \in Items |-> 0]

-------------------------------------------------------------------------------
(***************************************************************************)
(* Handlers: the main thread, the in-flight map and the way back to idle.  *)
(***************************************************************************)
Main(h)       == mainThread[InstanceOf[h]]
MainFree(h)   == Main(h) = Free
Hold(h)       == mainThread' = [mainThread EXCEPT ![InstanceOf[h]] = h]
Release(h)    == mainThread' = [mainThread EXCEPT ![InstanceOf[h]] =
                                  IF @ = h THEN Free ELSE @]

Reconciling == {"fetching", "fetched", "ingested", "reconciled", "recovered"}
Owning      == Reconciling \cup {"posting", "saved"}

\* Mutation: reconciliations are not entered in the in-flight map.
InFlightPostsOnly(h, k) == {g \in Handlers : /\ InstanceOf[g] = InstanceOf[h]
                                             /\ opKey[g] = k /\ pc[g] \in {"posting", "saved"}}

\* requestCreations: the handlers of h's instance that work on operation k.
InFlight(h, k) == {g \in Handlers : /\ InstanceOf[g] = InstanceOf[h]
                                    /\ opKey[g] = k /\ pc[g] \in Owning}

\* The handler answers its call and gives up the main thread.
Finish(h) ==
    /\ pc' = [pc EXCEPT ![h] = "idle"]
    /\ opKey' = [opKey EXCEPT ![h] = NoKey]
    /\ reply' = [reply EXCEPT ![h] = "none"]
    /\ snap' = [snap EXCEPT ![h] = NoSnapshot]
    /\ Release(h)
    /\ UNCHANGED <<body, sync, todo>>

Goto(h, label) ==
    /\ pc' = [pc EXCEPT ![h] = label]
    /\ Hold(h)

SetStatus(k, status) == ops' = [ops EXCEPT ![k].status = status, ![k].at = 0]

-------------------------------------------------------------------------------
(***************************************************************************)
(* Preview and the admission of a create call.                             *)
(***************************************************************************)
\* POST /api/requests/preview: even a blocked preview carries its token.
Preview(h) ==
    /\ pc[h] = "idle" /\ MainFree(h)
    /\ \E i \in Items : body' = [body EXCEPT ![h] = [item |-> i, gen |-> GenerationForItem(i)]]
    /\ UNCHANGED <<dbVars, mainThread, pc, opKey, reply, readerVars, seerrVars, clock, denied>>

\* The stored operation of this key, or else an unresolved one of the same
\* scope and fingerprint.
ActiveOperation(h, k) ==
    IF ops[k].status # "none" THEN {k}
    ELSE {t \in Keys : /\ Unresolved(t) /\ ops[t].fp = body[h]
                       /\ KeyScope[t] = KeyScope[k]}

\* A call whose operation is in flight awaits the same promise.
Join(h, k) ==
    /\ pc' = [pc EXCEPT ![h] = "joined"]
    /\ opKey' = [opKey EXCEPT ![h] = k]
    /\ UNCHANGED <<dbVars, mainThread, body, reply, readerVars, seerrVars, clock, denied>>

JoinInFlight(h) ==
    /\ pc[h] = "idle" /\ MainFree(h)
    /\ \E k \in Keys : \E g \in InFlight(h, k) : body[g] = body[h] /\ Join(h, k)

Joined(h) ==
    /\ pc[h] = "joined" /\ MainFree(h) /\ InFlight(h, opKey[h]) = {}
    /\ Finish(h)
    /\ UNCHANGED <<dbVars, seerrVars, clock, denied>>

\* A pending operation older than two minutes has lost its handler: a POST is
\* aborted after twelve seconds.  A younger one is refused.
Abandoned(t) == ~ \E g \in Handlers : opKey[g] = t /\ pc[g] \in Owning

\* reconcileOperation: join a running reconciliation or start one.
Reconcile(h) ==
    /\ pc[h] = "idle" /\ MainFree(h)
    /\ \E k \in Keys : \E t \in ActiveOperation(h, k) :
         /\ InFlight(h, k) = {}
         /\ ops[t].fp = body[h]
         /\ \/ ops[t].status = "uncertain"
            \/ ops[t].status = "pending" /\ Abandoned(t)
         /\ \/ \E g \in InFlight(h, t) : body[g] = body[h] /\ Join(h, t)
            \/ /\ InFlight(h, t) = {}
               /\ pc' = [pc EXCEPT ![h] = "fetching"]
               /\ opKey' = [opKey EXCEPT ![h] = t]
               /\ snap' = [snap EXCEPT ![h].start = clock]
               /\ UNCHANGED <<dbVars, mainThread, body, reply, sync, todo, seerrVars, clock, denied>>

\* Nothing unresolved for this call or its item and, by the row just read, the
\* item is not requested: go on to confirm.
Admit(h) ==
    /\ pc[h] = "idle" /\ MainFree(h)
    /\ \E k \in Keys :
         /\ InFlight(h, k) = {}
         /\ ops[k].status = "none" \/ (ops[k].status = "failed" /\ ops[k].fp = body[h])
         /\ \A t \in ActiveOperation(h, k) : ~Unresolved(t)
         /\ ~ItemUnresolved(Target(h))
         /\ rows[Target(h)].st # "active"
         /\ opKey' = [opKey EXCEPT ![h] = k]
    /\ Goto(h, "confirming")
    /\ UNCHANGED <<dbVars, body, reply, readerVars, seerrVars, clock, denied>>

\* The generation is read after the row; the token must hash the same one.
Confirm(h) ==
    /\ pc[h] = "confirming"
    /\ GenerationForItem(Target(h)) = body[h].gen
    /\ Goto(h, "beginning")
    /\ UNCHANGED <<dbVars, opKey, body, reply, readerVars, seerrVars, clock, denied>>

RefuseConfirmation(h) ==
    /\ pc[h] = "confirming"
    /\ GenerationForItem(Target(h)) # body[h].gen
    /\ Finish(h)
    /\ UNCHANGED <<dbVars, seerrVars, clock, denied>>

-------------------------------------------------------------------------------
(***************************************************************************)
(* beginRequestCreationOperation and the POST to Seerr.                    *)
(***************************************************************************)
StaleGeneration(h) == GenerationForItem(Target(h)) # body[h].gen

\* Failed operations older than ninety days are deleted, whichever they are.
Purged(old) == [k \in Keys |-> IF k \in old THEN NoOperation ELSE ops[k]]

FailedKeys == {k \in Keys : ops[k].status = "failed"}

\* Mutation: the transaction does not look for an unresolved operation.
BeginWithoutItemCheck(h) ==
    /\ pc[h] = "beginning"
    /\ ~StaleGeneration(h)
    /\ ops[opKey[h]].status \in {"none", "failed"}
    /\ ops' = [ops EXCEPT ![opKey[h]] = [status |-> "pending", fp |-> body[h], at |-> 0]]
    /\ wire' = wire \cup {[key |-> opKey[h], item |-> Target(h)]}
    /\ pc' = [pc EXCEPT ![h] = "posting"]
    /\ Release(h)
    /\ UNCHANGED <<rows, watermark, opKey, body, reply, readerVars, remote, foreign, served, clock, denied>>

\* The transaction acquires the operation and the POST leaves at once.
BeginAcquire(h) ==
    /\ pc[h] = "beginning"
    /\ ~StaleGeneration(h)
    /\ ~ItemUnresolved(Target(h))
    /\ ops[opKey[h]].status \in {"none", "failed"}
    /\ \E old \in SUBSET FailedKeys :
         ops' = [Purged(old) EXCEPT ![opKey[h]] =
                   [status |-> "pending", fp |-> body[h], at |-> 0]]
    /\ wire' = wire \cup {[key |-> opKey[h], item |-> Target(h)]}
    /\ pc' = [pc EXCEPT ![h] = "posting"]
    /\ Release(h)
    /\ UNCHANGED <<rows, watermark, opKey, body, reply, readerVars, remote, foreign, served, clock, denied>>

\* "stale-generation", "active-operation" or "existing-operation".
BeginRefuse(h) ==
    /\ pc[h] = "beginning"
    /\ \/ StaleGeneration(h) /\ UNCHANGED ops
       \/ /\ ~StaleGeneration(h)
          /\ ItemUnresolved(Target(h)) \/ ops[opKey[h]].status \notin {"none", "failed"}
          /\ \E old \in SUBSET FailedKeys : ops' = Purged(old)
    /\ Finish(h)
    /\ UNCHANGED <<rows, watermark, seerrVars, clock, denied>>

\* Seerr's own steps on a POST; the answer reaches a handler still waiting.
Answer(p, a) == reply' = [h \in Handlers |->
    IF pc[h] = "posting" /\ opKey[h] = p.key THEN a ELSE reply[h]]

SeerrAccepts ==
    \E p \in wire :
      /\ wire' = wire \ {p}
      /\ remote' = [remote EXCEPT ![p.item] = "active"]
      /\ served' = served \cup {p.key}
      /\ Answer(p, "accepted")
      /\ UNCHANGED <<dbVars, mainThread, pc, opKey, body, readerVars, foreign, clock, denied>>

\* HTTP 401 or 403.
SeerrRefuses ==
    \E p \in wire :
      /\ wire' = wire \ {p}
      /\ Answer(p, "refused")
      /\ UNCHANGED <<dbVars, mainThread, pc, opKey, body, readerVars, remote, foreign, served, clock, denied>>

\* Lost on the way, or answered by an error that proves nothing.
PostLost ==
    \E p \in wire :
      /\ wire' = wire \ {p}
      /\ UNCHANGED <<dbVars, handlerVars, readerVars, remote, foreign, served, clock, denied>>

\* saveRequest after a confirmed answer, then completeRequestCreationOperation:
\* two transactions.
SaveRequest(h) ==
    /\ pc[h] = "posting" /\ reply[h] = "accepted" /\ MainFree(h)
    /\ rows' = [rows EXCEPT ![Target(h)] = [st |-> "active", seen |-> clock]]
    /\ Goto(h, "saved")
    /\ UNCHANGED <<ops, watermark, opKey, body, reply, readerVars, seerrVars, clock, denied>>

CompleteOperation(h) ==
    /\ pc[h] \in {"saved", "recovered"}
    /\ ops' = [ops EXCEPT ![opKey[h]].status = "created", ![opKey[h]].at = clock]
    /\ Finish(h)
    /\ UNCHANGED <<rows, watermark, seerrVars, clock, denied>>

\* Mutation: a POST without an answer counts as not accepted.
FailWithoutAnswer(h) ==
    /\ pc[h] = "posting" /\ reply[h] \in {"none", "refused"} /\ MainFree(h)
    /\ SetStatus(opKey[h], "failed")
    /\ Finish(h)
    /\ UNCHANGED <<rows, watermark, seerrVars, clock, denied>>

FailOperation(h) ==
    /\ pc[h] = "posting" /\ reply[h] = "refused" /\ MainFree(h)
    /\ SetStatus(opKey[h], "failed")
    /\ Finish(h)
    /\ UNCHANGED <<rows, watermark, seerrVars, clock, denied>>

\* Timeout, connection error, other HTTP error or an unusable 2xx body.
PostUncertain(h) ==
    /\ pc[h] = "posting" /\ MainFree(h)
    /\ SetStatus(opKey[h], "uncertain")
    /\ Finish(h)
    /\ UNCHANGED <<rows, watermark, seerrVars, clock, denied>>

\* A write to SQLite throws: the handler ends, the operation stays as it is.
WriteFails(h) ==
    /\ pc[h] \in (Owning \ {"fetching"}) \cup {"beginning"}
    /\ Main(h) \in {h, Free}
    /\ Finish(h)
    /\ UNCHANGED <<dbVars, seerrVars, clock, denied>>

-------------------------------------------------------------------------------
(***************************************************************************)
(* Seerr snapshots, read by a reconciliation or by a sync.                 *)
(***************************************************************************)
\* Mutation: a snapshot is never superseded.
AlwaysCurrent(start) == TRUE

\* Mutation: a snapshot of the millisecond of a completed one is current.
CurrentAtEquality(start) == watermark <= start

\* assertCurrentSeerrSnapshot: a snapshot started later has not completed.
Current(start) == watermark < start

\* upsertSeerr of the snapshot's record of item i: skipped when the row is
\* newer, an operation is unresolved or one was created since the start.
Skipped(i, s) ==
    \/ rows[i].seen > s.start
    \/ \E k \in Keys : /\ OnItem(k, i)
                       /\ Unresolved(k) \/ (ops[k].status = "created" /\ ops[k].at >= s.start)

Ingested(I, s) == [i \in Items |->
    IF i \in I /\ s.seen[i] # "absent" /\ ~Skipped(i, s)
    THEN [st |-> s.seen[i], seen |-> s.start] ELSE rows[i]]

\* Mutation: a row written in the millisecond of the start is cleared too.
ClearedAtStart(s) == {i \in Items : /\ rows[i].st # "absent" /\ rows[i].seen <= s.start
                                    /\ ~ItemUnresolved(i) /\ s.seen[i] = "absent"}

\* reconcileSeerrSnapshotAbsence: rows the snapshot proves gone.
Cleared(s) == {i \in Items : /\ rows[i].st # "absent" /\ rows[i].seen < s.start
                             /\ ~ItemUnresolved(i) /\ s.seen[i] = "absent"}

WithoutCleared(s) == [i \in Items |->
    IF i \in Cleared(s) THEN [st |-> "absent", seen |-> 0] ELSE rows[i]]

\* History only: an applied snapshot showed no live request for these items.
NoteDenied(I, s) == denied' = [i \in Items |->
    IF i \in I /\ s.seen[i] # "active" /\ s.start > denied[i] THEN s.start ELSE denied[i]]

\* Mutation: the watermark is set one past the start of the snapshot.
CompleteSnapshotOffByOne(s) ==
    /\ rows' = WithoutCleared(s)
    /\ watermark' = s.start + 1
    /\ NoteDenied(Items, s)

\* The absence transaction: clear what is gone and move the watermark.
CompleteSnapshot(s) ==
    /\ rows' = WithoutCleared(s)
    /\ watermark' = s.start
    /\ NoteDenied(Items, s)

FetchSnapshot(h) ==
    /\ pc[h] = "fetching"
    /\ snap' = [snap EXCEPT ![h].seen = remote]
    /\ pc' = [pc EXCEPT ![h] = "fetched"]
    /\ UNCHANGED <<dbVars, mainThread, opKey, body, reply, sync, todo, seerrVars, clock, denied>>

ReconcileIngest(h) ==
    /\ pc[h] = "fetched" /\ MainFree(h) /\ Current(snap[h].start)
    /\ rows' = Ingested(Items, snap[h])
    /\ NoteDenied({i \in Items : rows'[i] # rows[i]}, snap[h])
    /\ Goto(h, "ingested")
    /\ UNCHANGED <<ops, watermark, opKey, body, reply, readerVars, seerrVars, clock>>

ReconcileAbsence(h) ==
    /\ pc[h] = "ingested" /\ Current(snap[h].start)
    /\ CompleteSnapshot(snap[h])
    /\ Goto(h, "reconciled")
    /\ UNCHANGED <<ops, opKey, body, reply, readerVars, seerrVars, clock>>

\* Mutation: a declined request counts as an accepted one.
RecoverAnyRequest(h) ==
    /\ pc[h] = "reconciled" /\ snap[h].seen[Target(h)] # "absent"
    /\ watermark <= snap[h].start
    /\ rows' = [rows EXCEPT ![Target(h)] = [st |-> "active", seen |-> clock]]
    /\ Goto(h, "recovered")
    /\ UNCHANGED <<ops, watermark, opKey, body, reply, readerVars, seerrVars, clock, denied>>

\* The snapshot holds a matching request and no newer one has completed.
RecoverRequest(h) ==
    /\ pc[h] = "reconciled" /\ snap[h].seen[Target(h)] = "active"
    /\ watermark <= snap[h].start
    /\ rows' = [rows EXCEPT ![Target(h)] = [st |-> "active", seen |-> clock]]
    /\ Goto(h, "recovered")
    /\ UNCHANGED <<ops, watermark, opKey, body, reply, readerVars, seerrVars, clock, denied>>

\* A newer snapshot has completed: saveRequest throws, the operation stays.
RecoverySuperseded(h) ==
    /\ pc[h] = "reconciled" /\ snap[h].seen[Target(h)] = "active"
    /\ watermark > snap[h].start
    /\ Finish(h)
    /\ UNCHANGED <<dbVars, seerrVars, clock, denied>>

\* Mutation: what a snapshot does not show may be sent again.
ReconcileFails(h) ==
    /\ pc[h] \in {"fetching", "fetched", "ingested", "reconciled"}
    /\ Main(h) \in {h, Free}
    /\ SetStatus(opKey[h], "failed")
    /\ Finish(h)
    /\ UNCHANGED <<rows, watermark, seerrVars, clock, denied>>

\* The fetch failed, the snapshot was superseded or conflicted with the target's
\* identity, or it holds no matching request: never sent again.
ReconcileUncertain(h) ==
    /\ pc[h] \in {"fetching", "fetched", "ingested", "reconciled"}
    /\ Main(h) \in {h, Free}
    /\ SetStatus(opKey[h], "uncertain")
    /\ Finish(h)
    /\ UNCHANGED <<rows, watermark, seerrVars, clock, denied>>

\* executeSyncRun, its Seerr half, in the worker thread.
SyncStart(n) ==
    /\ sync[n] = "idle"
    /\ sync' = [sync EXCEPT ![n] = "fetching"]
    /\ snap' = [snap EXCEPT ![n].start = clock]
    /\ UNCHANGED <<dbVars, handlerVars, todo, seerrVars, clock, denied>>

SyncFetch(n) ==
    /\ sync[n] = "fetching"
    /\ sync' = [sync EXCEPT ![n] = "ingesting"]
    /\ snap' = [snap EXCEPT ![n].seen = remote]
    /\ todo' = [todo EXCEPT ![n] = {i \in Items : remote[i] # "absent"}]
    /\ UNCHANGED <<dbVars, handlerVars, seerrVars, clock, denied>>

\* One batch: its records in one transaction.
SyncIngest(n) ==
    /\ sync[n] = "ingesting" /\ Current(snap[n].start)
    /\ \E i \in todo[n] :
         /\ rows' = Ingested({i}, snap[n])
         /\ todo' = [todo EXCEPT ![n] = @ \ {i}]
         /\ NoteDenied({j \in {i} : rows'[j] # rows[j]}, snap[n])
    /\ UNCHANGED <<ops, watermark, handlerVars, snap, sync, seerrVars, clock>>

EndSync(n) ==
    /\ sync' = [sync EXCEPT ![n] = "idle"]
    /\ snap' = [snap EXCEPT ![n] = NoSnapshot]
    /\ todo' = [todo EXCEPT ![n] = {}]

SyncFinish(n) ==
    /\ sync[n] = "ingesting" /\ todo[n] = {} /\ Current(snap[n].start)
    /\ CompleteSnapshot(snap[n])
    /\ EndSync(n)
    /\ UNCHANGED <<ops, handlerVars, seerrVars, clock>>

\* Superseded, failed or cancelled between two batches.
SyncAbort(n) ==
    /\ sync[n] # "idle"
    /\ EndSync(n)
    /\ UNCHANGED <<dbVars, handlerVars, seerrVars, clock, denied>>

-------------------------------------------------------------------------------
(***************************************************************************)
(* The rest of the world: Seerr's administrators and users, a crash of a   *)
(* server process (its database and the POSTs on the wire survive), time.  *)
(***************************************************************************)
SeerrDeclines == \E i \in Items :
    /\ remote[i] = "active"
    /\ remote' = [remote EXCEPT ![i] = "declined"]
    /\ UNCHANGED <<dbVars, handlerVars, readerVars, wire, foreign, served, clock, denied>>

SeerrDeletes == \E i \in Items :
    /\ remote[i] # "absent"
    /\ remote' = [remote EXCEPT ![i] = "absent"]
    /\ UNCHANGED <<dbVars, handlerVars, readerVars, wire, foreign, served, clock, denied>>

ForeignRequest == \E i \in Items :
    /\ foreign < MaxForeign /\ remote[i] # "active"
    /\ foreign' = foreign + 1
    /\ remote' = [remote EXCEPT ![i] = "active"]
    /\ UNCHANGED <<dbVars, handlerVars, readerVars, wire, served, clock, denied>>

Crash(n) ==
    LET mine == {h \in Handlers : InstanceOf[h] = n} IN
    /\ pc' = [h \in Handlers |-> IF h \in mine THEN "idle" ELSE pc[h]]
    /\ opKey' = [h \in Handlers |-> IF h \in mine THEN NoKey ELSE opKey[h]]
    /\ reply' = [h \in Handlers |-> IF h \in mine THEN "none" ELSE reply[h]]
    /\ snap' = [r \in Readers |-> IF r \in mine \cup {n} THEN NoSnapshot ELSE snap[r]]
    /\ mainThread' = [mainThread EXCEPT ![n] = Free]
    /\ sync' = [sync EXCEPT ![n] = "idle"]
    /\ todo' = [todo EXCEPT ![n] = {}]
    /\ UNCHANGED <<dbVars, body, seerrVars, clock, denied>>

Tick ==
    /\ clock < MaxClock
    /\ clock' = clock + 1
    /\ UNCHANGED <<dbVars, handlerVars, readerVars, seerrVars, denied>>

CreateStep(h) ==
    \/ Preview(h) \/ JoinInFlight(h) \/ Joined(h) \/ Reconcile(h)
    \/ Admit(h) \/ Confirm(h) \/ RefuseConfirmation(h)
    \/ BeginAcquire(h) \/ BeginRefuse(h)
    \/ SaveRequest(h) \/ CompleteOperation(h) \/ FailOperation(h)
    \/ PostUncertain(h) \/ WriteFails(h)

ReconcileStep(h) ==
    \/ FetchSnapshot(h) \/ ReconcileIngest(h) \/ ReconcileAbsence(h)
    \/ RecoverRequest(h) \/ RecoverySuperseded(h) \/ ReconcileUncertain(h)

SyncStep(n) ==
    SyncStart(n) \/ SyncFetch(n) \/ SyncIngest(n) \/ SyncFinish(n) \/ SyncAbort(n)

Environment ==
    \/ SeerrAccepts \/ SeerrRefuses \/ PostLost
    \/ SeerrDeclines \/ SeerrDeletes \/ ForeignRequest
    \/ \E n \in Instances : Crash(n)
    \/ Tick

Next ==
    \/ \E h \in Handlers : CreateStep(h) \/ ReconcileStep(h)
    \/ \E n \in Syncing : SyncStep(n)
    \/ Environment

Spec == Init /\ [][Next]_vars

-------------------------------------------------------------------------------
(***************************************************************************)
(* Properties.                                                             *)
(***************************************************************************)
DbTypeOK ==
    /\ ops \in [Keys -> {NoOperation} \cup Operation]
    /\ rows \in [Items -> [st : ItemState, seen : Time]]
    /\ watermark \in Time

HandlerTypeOK ==
    /\ mainThread \in [Instances -> Handlers \cup {Free}]
    /\ pc \in [Handlers -> Owning \cup {"idle", "joined", "confirming", "beginning"}]
    /\ opKey \in [Handlers -> Keys \cup {NoKey}]
    /\ body \in [Handlers -> Fingerprint]
    /\ reply \in [Handlers -> {"none", "accepted", "refused"}]

ReaderTypeOK ==
    /\ snap \in [Readers -> [start : Time, seen : [Items -> ItemState]]]
    /\ sync \in [Instances -> {"idle", "fetching", "ingesting"}]
    /\ todo \in [Instances -> SUBSET Items]

SeerrTypeOK ==
    /\ wire \subseteq [key : Keys, item : Items]
    /\ remote \in [Items -> ItemState]
    /\ foreign \in 0..MaxForeign
    /\ served \subseteq Keys

\* The type invariant.
TypeOK ==
    /\ DbTypeOK /\ HandlerTypeOK /\ ReaderTypeOK /\ SeerrTypeOK
    /\ clock \in Time
    /\ denied \in [Items -> Time]

\* README: "Pending or uncertain operations serialize the shared Seerr side
\* effect globally for that media item": across keys, users, retries, crashes
\* and concurrent reconciliations at most one operation of an item is open.
OneUnresolvedPerItem ==
    \A k, t \in Keys : \A i \in Items :
        (Unresolved(k) /\ Unresolved(t) /\ OnItem(k, i) /\ OnItem(t, i)) => k = t

\* The point of it all: unless somebody else files requests in Seerr, Moodarr
\* never has two POSTs for an item under way, and never one while Seerr holds a
\* live request for it - however a response was lost or a row was refreshed.
NoDuplicateWrite ==
    \A p \in wire : /\ remote[p.item] # "active"
                    /\ \A q \in wire : q.item = p.item => q = p

\* The outcome of a POST stays open until it is known: as long as one is under
\* way its operation is unresolved, so a retry can only reconcile.  (Seerr may
\* hold a request of somebody else that a reconciliation takes for this one.)
WireIsAccountedFor ==
    foreign = 0 => \A p \in wire : Unresolved(p.key) /\ OnItem(p.key, p.item)

\* A success is stored, and replayed to every retry, only if Seerr accepted
\* the POST of that very operation; only a request filed by somebody else can
\* be mistaken for it.
CreatedMeansAccepted ==
    \A k \in Keys : ops[k].status = "created" => (k \in served \/ foreign > 0)

\* A failed operation may be sent again under the same key, so it must never
\* have been accepted and never be still on its way.
FailedMeansNotAccepted ==
    \A k \in Keys : ops[k].status = "failed" =>
        (k \notin served /\ \A p \in wire : p.key # k)

\* README: a fresh preview "can create one new operation without replaying the
\* prior success".  One preview never yields two successes: after a success the
\* same token is refused, whatever snapshots did to the item's row meanwhile.
OneSuccessPerPreview ==
    \A k, t \in Keys :
        (ops[k].status = "created" /\ ops[t].status = "created" /\ ops[k].fp = ops[t].fp) => k = t

\* The step writes the row of item i from an answer or a recovery, not by ingestion.
StoresSuccess(i) ==
    \E h \in Handlers : Target(h) = i /\ pc'[h] # pc[h] /\ pc'[h] \in {"saved", "recovered"}

\* docs/UPGRADING.md: "older overlapping syncs cannot restore cleared request
\* state".  Once an applied snapshot showed that an item has no live request, no
\* snapshot started earlier marks it requested, neither by ingestion nor by the
\* recovery of an uncertain operation; and once snapshots of that millisecond
\* have completed, no other one of it does by ingestion.
ClearedStaysCleared ==
    [][\A i \in Items :
         /\ (rows[i].st # "active" /\ rows'[i].st = "active") =>
              /\ rows'[i].seen >= denied[i]
              /\ rows'[i].seen = denied[i] => denied[i] > watermark \/ StoresSuccess(i)
         /\ \A h \in Handlers : (pc[h] = "reconciled" /\ pc'[h] = "recovered" /\ Target(h) = i)
                                  => snap[h].start >= denied[i]]_vars

\* The end of a snapshot never erases a request that Seerr accepted after the
\* snapshot was read: a row is only removed when its item has no live request
\* or when the request was made by others after the read.
AcceptedIsNotErased ==
    [][\A i \in Items :
         (rows[i].st = "active" /\ rows'[i].st # "active" /\ foreign = 0)
             => remote[i] # "active"]_vars

\* tests/app.test.ts: "uses existing operational Seerr state to block a
\* duplicate local request attempt".  When an operation is acquired, the stored
\* row of its item does not say that it is already requested.
AcquiredOnlyWhenUnblocked ==
    [][\A h \in Handlers : (pc[h] = "beginning" /\ pc'[h] = "posting")
                               => rows[Target(h)].st # "active"]_vars

\* Operations of one server process behave as the ledger promises.
Life(k) == IF Unresolved(k) THEN "open" ELSE ops[k].status
Ledger == INSTANCE RequestLedger WITH
    life  <- [k \in Keys |-> Life(k)],
    about <- [k \in Keys |-> IF ops[k].status = "none" THEN "nothing" ELSE ops[k].fp.item]

\* Refinement: every step on the operation table is a step of the ledger.
ImplementsLedger == Ledger!Spec
===============================================================================
