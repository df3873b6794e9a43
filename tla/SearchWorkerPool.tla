---------------------------- MODULE SearchWorkerPool ----------------------------
(***************************************************************************)
(* The pool of the search and the diagnostics thread (server/search/       *)
(* searchWorkerPool.ts) and the runtime in both (searchWorkerRuntime.ts).  *)
(* What the class keeps twice, once per role, is a function of the role.   *)
(* A configuration is the latest one or outdated.  Names of threads and    *)
(* ids of tasks are used again when nothing refers to them any more.       *)
(***************************************************************************)
EXTENDS Naturals, SequencesExt

CONSTANTS
    Names,            \* bound: names of the threads of a role
    SearchIds, DiagnosticsIds,  \* bound: ids of tasks, positive numbers
    Crashing,         \* bound: roles whose threads may die of themselves
    MaxReadyAttempts, \* options.maxWorkerReadyAttempts
    MaxResets         \* bound: resets waiting when a search or diagnostics is called

ASSUME SearchBoundsAssumption ==
    /\ Crashing \subseteq {"search", "diagnostics"}
    /\ SearchIds \cup DiagnosticsIds \subseteq Nat \ {0} /\ SearchIds \cap DiagnosticsIds = {}
    /\ MaxReadyAttempts \in Nat \ {0} /\ MaxResets \in Nat

\* A thread may be spawned while a reset still expects the one before it.
ASSUME NamesAssumption == \E m, n \in Names : m # n

VARIABLES
    worker, ready, degraded, failures,  \* by role
    active, queue,                      \* by role; diagnosticsPending is a queue
    deadlineTimer, readyTimer,          \* by role: the task and worker, the worker
    closed, workers, resetting,
    cache,                              \* diagnosticsCache, by its configuration
    lifecycle, resetQueued,             \* the chain of resets, the current one first
    killing, phase,                     \* the threads it waits for; "idle", "terminating"
    outdated,                           \* workers of a former configuration
    thread, jobs, outbox,               \* by thread: posted tasks, unread messages
    blamed                              \* history: workers that failed or overran

roleVars   == <<worker, ready, degraded, failures, readyTimer>>
taskVars   == <<active, queue, deadlineTimer>>
poolVars   == <<closed, workers, resetting, outdated, blamed>>
resetVars  == <<lifecycle, resetQueued, killing, phase>>
threadVars == <<thread, jobs, outbox>>
vars == <<roleVars, taskVars, poolVars, cache, resetVars, threadVars>>

Roles    == {"search", "diagnostics"}
Tasks    == SearchIds \cup DiagnosticsIds
Workers  == Roles \X Names
Role(w)  == w[1]
NoWorker == <<>>
NoTimer  == <<>>
NoTask   == 0
Live(w)  == thread[w] \in {"booting", "up"}

\* The chain's links: resetAll, and resetSearch or resetDiagnostics.
Whole == [kind |-> "all"]
RoleResets == [kind : Roles, readiness : BOOLEAN, expected : Workers]
ToPool == {[type |-> t] : t \in {"ready", "failure", "exit"}}
              \cup [type : {"result", "error"}, id : Tasks]

-------------------------------------------------------------------------------
Busy(r) == IF active[r] = NoTask THEN 0 ELSE 1
Outstanding(r, t) == t = active[r] \/ t \in ToSet(queue[r])

Answering(m, t) == m.type \in {"result", "error"} /\ m.id = t
Mentioned(t) ==
    \/ \E r \in Roles : Outstanding(r, t) \/ (deadlineTimer[r] # NoTimer /\ deadlineTimer[r][1] = t)
    \/ \E w \in Workers : \/ \E j \in ToSet(jobs[w]) : j.id = t
                          \/ \E m \in ToSet(outbox[w]) : Answering(m, t)
FreeIds(r) == {t \in IF r = "search" THEN SearchIds ELSE DiagnosticsIds : ~Mentioned(t)}
NextId(r) == CHOOSE t \in FreeIds(r) : TRUE

Expected == {lifecycle[j].expected : j \in {i \in DOMAIN lifecycle : lifecycle[i] # Whole}}
Fresh(r) == {w \in {r} \X Names : w \notin workers \cup Expected /\ ~Live(w)}

\* Continuations of promises run before the next message or timer.
Quiet == IF phase = "idle" THEN lifecycle = <<>> ELSE killing # {}

Emit(w, ms) == outbox' = [outbox EXCEPT ![w] = @ \o ms]

\* A task is posted to w; what is posted to a dead thread is lost.
Post(w, t) ==
    jobs' = [jobs EXCEPT ![w] = IF Live(w) THEN Append(@, [id |-> t, late |-> FALSE]) ELSE @]

\* The spawn of the roles S: new threads of the latest configuration and
\* their startup deadlines.
Spawn(S) ==
    LET name == [r \in S |-> CHOOSE w \in Fresh(r) : TRUE]
        new  == {name[r] : r \in S}
    IN  /\ worker' = [r \in Roles |-> IF r \in S THEN name[r] ELSE worker[r]]
        /\ readyTimer' = [r \in Roles |-> IF r \in S THEN name[r] ELSE readyTimer[r]]
        /\ degraded' = [r \in Roles |-> degraded[r] /\ r \notin S]
        /\ workers' = workers \cup new
        /\ thread' = [w \in Workers |-> IF w \in new THEN "booting" ELSE thread[w]]
        /\ resetting' = resetting \ new /\ outdated' = outdated \ new /\ blamed' = blamed \ new

\* pump() of r when its queue is q and its active task is a.
Pump(r, q, a) ==
    IF ready[r] /\ worker[r] # NoWorker /\ a = NoTask /\ ~closed /\ q # <<>>
    THEN /\ active' = [active EXCEPT ![r] = Head(q)]
         /\ queue' = [queue EXCEPT ![r] = Tail(q)]
         /\ deadlineTimer' = [deadlineTimer EXCEPT ![r] = <<Head(q), worker[r]>>]
         /\ Post(worker[r], Head(q))
    ELSE /\ active' = [active EXCEPT ![r] = a]
         /\ queue' = [queue EXCEPT ![r] = q]
         /\ deadlineTimer' = [deadlineTimer EXCEPT ![r] = IF a = NoTask THEN NoTimer ELSE @]
         /\ UNCHANGED jobs

Init ==
    /\ worker = [r \in Roles |-> <<r, CHOOSE n \in Names : TRUE>>]
    /\ readyTimer = worker /\ workers = {worker[r] : r \in Roles}
    /\ ready = [r \in Roles |-> FALSE] /\ degraded = ready
    /\ failures = [r \in Roles |-> 0]
    /\ active = [r \in Roles |-> NoTask] /\ queue = [r \in Roles |-> <<>>]
    /\ deadlineTimer = [r \in Roles |-> NoTimer]
    /\ closed = FALSE /\ resetting = {} /\ outdated = {} /\ blamed = {}
    /\ cache = "none"
    /\ lifecycle = <<>> /\ resetQueued = FALSE /\ killing = {} /\ phase = "idle"
    /\ thread = [w \in Workers |-> IF w \in workers THEN "booting" ELSE "dead"]
    /\ jobs = [w \in Workers |-> <<>>] /\ outbox = [w \in Workers |-> <<>>]

-------------------------------------------------------------------------------
(***************************************************************************)
(* Calls.  A rejected call changes nothing.                                *)
(***************************************************************************)
Accepts(r) == ~closed /\ ~degraded[r] /\ FreeIds(r) # {} /\ Len(lifecycle) <= MaxResets

Search ==
    /\ Accepts("search") /\ Len(queue["search"]) + Busy("search") < 3
    /\ Pump("search", Append(queue["search"], NextId("search")), active["search"])
    /\ UNCHANGED <<roleVars, poolVars, cache, resetVars, thread, outbox>>

\* recommendationDiagnostics(): answered by the cache unless it is too old,
\* joined to the promise of a computation that has been asked for already.
Diagnostics(fresh) ==
    /\ Accepts("diagnostics")
    /\ cache' = IF fresh THEN "none" ELSE cache
    /\ IF Busy("diagnostics") = 0 /\ queue["diagnostics"] = <<>>
       THEN Pump("diagnostics", <<NextId("diagnostics")>>, NoTask)
       ELSE UNCHANGED <<taskVars, jobs>>
    /\ UNCHANGED <<roleVars, poolVars, resetVars, thread, outbox>>

\* Mutation: a reset is coalesced with whichever is under way.
EnqueueResetWithAny ==
    /\ resetQueued' = TRUE
    /\ lifecycle' = IF lifecycle # <<>> THEN lifecycle ELSE Append(lifecycle, Whole)

\* restart() and close() share one whole reset until it has ended.
EnqueueReset ==
    /\ resetQueued' = TRUE
    /\ lifecycle' = IF resetQueued THEN lifecycle ELSE Append(lifecycle, Whole)

Restart ==
    /\ ~closed
    /\ outdated' = workers
    /\ cache' = IF cache = "current" THEN "outdated" ELSE cache
    /\ EnqueueReset
    /\ UNCHANGED <<roleVars, taskVars, closed, workers, resetting, blamed, killing, phase, threadVars>>

Close ==
    /\ ~closed
    /\ closed' = TRUE
    /\ EnqueueReset
    /\ UNCHANGED <<roleVars, taskVars, workers, resetting, outdated, blamed, cache,
                   killing, phase, threadVars>>

-------------------------------------------------------------------------------
(***************************************************************************)
(* The resets: before, during and after the wait for the threads.          *)
(***************************************************************************)
\* What a reset of the roles S does before it waits for the threads K.
ResetRoles(S, K) ==
    /\ ready' = [r \in Roles |-> ready[r] /\ r \notin S]
    /\ worker' = [r \in Roles |-> IF r \in S THEN NoWorker ELSE worker[r]]
    /\ readyTimer' = [r \in Roles |-> IF r \in S THEN NoWorker ELSE readyTimer[r]]
    /\ active' = [r \in Roles |-> IF r \in S THEN NoTask ELSE active[r]]
    /\ queue' = [r \in Roles |-> IF r \in S THEN <<>> ELSE queue[r]]
    /\ deadlineTimer' = [r \in Roles |-> IF r \in S THEN NoTimer ELSE deadlineTimer[r]]
    /\ cache' = IF "diagnostics" \in S THEN "none" ELSE cache
    /\ resetting' = resetting \cup K
    /\ killing' = K /\ phase' = "terminating"
    /\ UNCHANGED <<closed, workers, outdated, blamed, lifecycle, resetQueued, threadVars>>

BeginAll ==
    /\ phase = "idle" /\ lifecycle # <<>> /\ Head(lifecycle) = Whole
    /\ failures' = [r \in Roles |-> 0] /\ degraded' = [r \in Roles |-> FALSE]
    /\ ResetRoles(Roles, workers)

\* The head of the chain is a reset of r.
RoleReset(r) == phase = "idle" /\ lifecycle # <<>> /\ Head(lifecycle).kind = r

\* Mutation: whichever worker has the role is terminated.
BeginRoleAnyWorker(r) ==
    /\ RoleReset(r) /\ worker[r] # NoWorker
    /\ failures' = [failures EXCEPT ![r] = @ + (IF Head(lifecycle).readiness THEN 1 ELSE 0)]
    /\ ResetRoles({r}, {worker[r]})
    /\ UNCHANGED degraded

BeginRole(r) ==
    /\ RoleReset(r) /\ worker[r] = Head(lifecycle).expected
    /\ failures' = [failures EXCEPT ![r] = @ + (IF Head(lifecycle).readiness THEN 1 ELSE 0)]
    /\ ResetRoles({r}, {worker[r]})
    /\ UNCHANGED degraded

\* The worker that the reset was for has been replaced meanwhile.
SkipRole(r) ==
    /\ RoleReset(r) /\ worker[r] # Head(lifecycle).expected
    /\ lifecycle' = Tail(lifecycle)
    /\ UNCHANGED <<roleVars, taskVars, poolVars, cache, resetQueued, killing, phase, threadVars>>

\* A thread is gone.  What it had sent would meet the check on the current worker.
Terminated(w) ==
    /\ w \in killing
    /\ killing' = killing \ {w} /\ workers' = workers \ {w}
    /\ thread' = [thread EXCEPT ![w] = "dead"]
    /\ jobs' = [jobs EXCEPT ![w] = <<>>] /\ outbox' = [outbox EXCEPT ![w] = <<>>]
    /\ resetting' = resetting \ {w} /\ outdated' = outdated \ {w} /\ blamed' = blamed \ {w}
    /\ UNCHANGED <<roleVars, taskVars, closed, cache, lifecycle, resetQueued, phase>>

GivesUp(h) == h.readiness /\ failures[h.kind] >= MaxReadyAttempts

NothingSpawned == UNCHANGED <<worker, readyTimer, workers, resetting, outdated, blamed, thread>>

\* Mutation: the reset does not wait for the threads.
EndResetUnawaited ==
    /\ phase = "terminating"
    /\ phase' = "idle" /\ lifecycle' = Tail(lifecycle) /\ killing' = {}
    /\ LET h == Head(lifecycle) IN
       /\ resetQueued' = (resetQueued /\ h # Whole)
       /\ CASE closed \/ (h # Whole /\ resetQueued) -> NothingSpawned /\ UNCHANGED degraded
            [] ~closed /\ h = Whole -> Spawn(Roles)
            [] OTHER -> Spawn({h.kind})
    /\ UNCHANGED <<ready, failures, taskVars, closed, cache, jobs, outbox>>

\* Mutation: the reset of a role takes the note of the queued reset with it.
EndResetForgetsQueued ==
    /\ phase = "terminating" /\ killing = {}
    /\ phase' = "idle" /\ lifecycle' = Tail(lifecycle) /\ resetQueued' = FALSE
    /\ LET h == Head(lifecycle) IN
       CASE closed \/ (h # Whole /\ resetQueued) -> NothingSpawned /\ UNCHANGED degraded
         [] ~closed /\ h = Whole -> Spawn(Roles)
         [] OTHER -> Spawn({h.kind})
    /\ UNCHANGED <<ready, failures, killing, taskVars, closed, cache, jobs, outbox>>

\* The end of a reset: a role leaves its thread to a whole reset that is queued.
EndReset ==
    /\ phase = "terminating" /\ killing = {}
    /\ phase' = "idle" /\ lifecycle' = Tail(lifecycle)
    /\ LET h == Head(lifecycle) IN
       /\ resetQueued' = (resetQueued /\ h # Whole)
       /\ CASE closed \/ (h # Whole /\ resetQueued) -> NothingSpawned /\ UNCHANGED degraded
            [] ~closed /\ h = Whole -> Spawn(Roles)
            [] ~closed /\ h # Whole /\ ~resetQueued /\ GivesUp(h) ->
                  degraded' = [degraded EXCEPT ![h.kind] = TRUE] /\ NothingSpawned
            [] OTHER -> Spawn({h.kind})
    /\ UNCHANGED <<ready, failures, killing, taskVars, closed, cache, jobs, outbox>>

-------------------------------------------------------------------------------
(***************************************************************************)
(* Timers and messages.                                                    *)
(***************************************************************************)
\* onWorkerFailure(): the first report about a current worker resets its role.
Failure(w) ==
    IF closed \/ w \in resetting \/ worker[Role(w)] # w
    THEN UNCHANGED <<resetting, blamed, lifecycle>>
    ELSE /\ resetting' = resetting \cup {w} /\ blamed' = blamed \cup {w}
         /\ lifecycle' = Append(lifecycle, [kind |-> Role(w), readiness |-> ~ready[Role(w)],
                                            expected |-> w])

ReadyDeadline(r) ==
    /\ Quiet /\ readyTimer[r] # NoWorker
    /\ readyTimer' = [readyTimer EXCEPT ![r] = NoWorker]
    /\ Failure(readyTimer[r])
    /\ UNCHANGED <<worker, ready, degraded, failures, taskVars, closed, workers, outdated,
                   cache, resetQueued, killing, phase, threadVars>>

\* Mutation: the deadline rejects the search and leaves the worker alone.
DeadlineWithoutReset(r) ==
    /\ Quiet /\ deadlineTimer[r] # NoTimer
    /\ deadlineTimer' = [deadlineTimer EXCEPT ![r] = NoTimer]
    /\ active' = [active EXCEPT ![r] = NoTask]
    /\ UNCHANGED <<roleVars, queue, poolVars, cache, resetVars, threadVars>>

\* The task is rejected at once, the worker is reset when its turn comes.
Deadline(r) ==
    /\ Quiet /\ deadlineTimer[r] # NoTimer
    /\ LET t == deadlineTimer[r][1]  w == deadlineTimer[r][2] IN
       /\ active' = [active EXCEPT ![r] = IF @ = t THEN NoTask ELSE @]
       /\ jobs' = [jobs EXCEPT ![w] = [i \in DOMAIN @ |->
                       IF @[i].id = t THEN [id |-> t, late |-> TRUE] ELSE @[i]]]
       /\ lifecycle' = Append(lifecycle, [kind |-> r, readiness |-> FALSE, expected |-> w])
       /\ blamed' = blamed \cup {w}
    /\ deadlineTimer' = [deadlineTimer EXCEPT ![r] = NoTimer]
    /\ UNCHANGED <<roleVars, queue, closed, workers, resetting, outdated, cache,
                   resetQueued, killing, phase, thread, outbox>>

Heard(w) == worker[Role(w)] = w /\ w \notin resetting

\* The next message of w is taken from its port.
Take(w, types) ==
    /\ Quiet /\ outbox[w] # <<>> /\ Head(outbox[w]).type \in types
    /\ outbox' = [outbox EXCEPT ![w] = Tail(@)]

OnReady(w) ==
    /\ Take(w, {"ready"}) /\ Heard(w)
    /\ LET r == Role(w) IN
       /\ readyTimer' = [readyTimer EXCEPT ![r] = NoWorker]
       /\ ready' = [ready EXCEPT ![r] = TRUE]
       /\ degraded' = [degraded EXCEPT ![r] = FALSE]
       /\ failures' = [failures EXCEPT ![r] = 0]
       /\ IF active[r] = NoTask /\ queue[r] # <<>>
          THEN /\ active' = [active EXCEPT ![r] = Head(queue[r])]
               /\ queue' = [queue EXCEPT ![r] = Tail(@)]
               /\ deadlineTimer' = [deadlineTimer EXCEPT ![r] = <<Head(queue[r]), w>>]
               /\ Post(w, Head(queue[r]))
          ELSE UNCHANGED <<taskVars, jobs>>
    /\ UNCHANGED <<worker, poolVars, cache, resetVars, thread>>

\* Mutation: any answer of the worker is the answer to the active task.
OnAnswerAny(w) ==
    /\ Take(w, {"result", "error"}) /\ Heard(w) /\ active[Role(w)] # NoTask
    /\ cache' = IF Head(outbox[w]).type = "result" THEN "none" ELSE cache
    /\ Pump(Role(w), queue[Role(w)], NoTask)
    /\ UNCHANGED <<roleVars, poolVars, resetVars, thread>>

\* The diagnostics are cached; a search that has ended drops them.
OnAnswer(w) ==
    /\ Take(w, {"result", "error"}) /\ Heard(w) /\ Head(outbox[w]).id = active[Role(w)]
    /\ cache' = CASE Head(outbox[w]).type = "error" -> cache
                  [] Head(outbox[w]).type = "result" /\ Role(w) = "search" -> "none"
                  [] OTHER -> IF w \in outdated THEN "outdated" ELSE "current"
    /\ Pump(Role(w), queue[Role(w)], NoTask)
    /\ UNCHANGED <<roleVars, poolVars, resetVars, thread>>

\* The message of a worker that is replaced, or about a task given up.
OnStale(w) ==
    /\ Take(w, {"ready", "result", "error"})
    /\ ~Heard(w) \/ (Head(outbox[w]).type # "ready" /\ Head(outbox[w]).id # active[Role(w)])
    /\ UNCHANGED <<roleVars, taskVars, poolVars, cache, resetVars, thread, jobs>>

OnFailure(w) ==
    /\ Take(w, {"failure", "exit"})
    /\ workers' = IF Head(outbox[w]).type = "exit" THEN workers \ {w} ELSE workers
    /\ Failure(w)
    /\ UNCHANGED <<roleVars, taskVars, closed, outdated, cache, resetQueued, killing, phase,
                   thread, jobs>>

-------------------------------------------------------------------------------
(***************************************************************************)
(* The threads.  Searches run side by side, diagnostics one by one.        *)
(***************************************************************************)
WorkerBoots(w) ==
    /\ thread[w] = "booting"
    /\ thread' = [thread EXCEPT ![w] = "up"]
    /\ Emit(w, <<[type |-> "ready"]>>)
    /\ UNCHANGED <<roleVars, taskVars, poolVars, cache, resetVars, jobs>>

WorkerAnswers(w) ==
    /\ thread[w] = "up"
    /\ \E i \in DOMAIN jobs[w], t \in {"result", "error"} :
         /\ Role(w) = "diagnostics" => i = 1
         /\ jobs' = [jobs EXCEPT ![w] = RemoveAt(@, i)]
         /\ Emit(w, <<[type |-> t, id |-> jobs[w][i].id]>>)
    /\ UNCHANGED <<roleVars, taskVars, poolVars, cache, resetVars, thread>>

\* An exit, after an uncaught error or without one.
WorkerDies(w) ==
    /\ Live(w) /\ Role(w) \in Crashing
    /\ thread' = [thread EXCEPT ![w] = "dead"] /\ jobs' = [jobs EXCEPT ![w] = <<>>]
    /\ \E error \in {<<>>, <<[type |-> "failure"]>>} : Emit(w, error \o <<[type |-> "exit"]>>)
    /\ UNCHANGED <<roleVars, taskVars, poolVars, cache, resetVars>>

\* What goes on with the chain of resets.
ResetStep ==
    \/ BeginAll \/ EndReset
    \/ \E r \in Roles : BeginRole(r) \/ SkipRole(r)
    \/ \E w \in Workers : Terminated(w)

\* Timers and messages of a role.
Event(r) ==
    \/ ReadyDeadline(r) \/ Deadline(r)
    \/ \E w \in {r} \X Names : OnReady(w) \/ OnAnswer(w) \/ OnStale(w) \/ OnFailure(w)

Next ==
    \/ Search \/ (\E fresh \in BOOLEAN : Diagnostics(fresh)) \/ Restart \/ Close
    \/ ResetStep \/ (\E r \in Roles : Event(r))
    \/ \E w \in Workers : WorkerBoots(w) \/ WorkerAnswers(w) \/ WorkerDies(w)

Spec == Init /\ [][Next]_vars

-------------------------------------------------------------------------------
(***************************************************************************)
(* Properties.                                                             *)
(***************************************************************************)
\* The type invariant.
SearchTypeOK ==
    /\ worker \in [Roles -> Workers \cup {NoWorker}]
    /\ {ready, degraded} \subseteq [Roles -> BOOLEAN]
    /\ failures \in [Roles -> 0..MaxReadyAttempts]
    /\ active \in [Roles -> Tasks \cup {NoTask}] /\ queue \in [Roles -> Seq(Tasks)]
    /\ deadlineTimer \in [Roles -> (Tasks \X Workers) \cup {NoTimer}]
    /\ readyTimer \in [Roles -> Workers \cup {NoWorker}]
    /\ {closed, resetQueued} \subseteq BOOLEAN
    /\ {workers, resetting, killing, outdated, blamed} \subseteq SUBSET Workers
    /\ cache \in {"none", "current", "outdated"}
    /\ lifecycle \in Seq({Whole} \cup RoleResets)
    /\ phase \in {"idle", "terminating"}
    /\ thread \in [Workers -> {"booting", "up", "dead"}]
    /\ jobs \in [Workers -> Seq([id : Tasks, late : BOOLEAN])]
    /\ outbox \in [Workers -> Seq(ToPool)]

\* Two threads of a role never run side by side on the database, however
\* deadlines, failures, restarts and terminations overlap.
OneWorkerPerRole ==
    \A v, w \in Workers : (Live(v) /\ Live(w) /\ Role(v) = Role(w)) => v = w

\* Whatever was coalesced or skipped, with no reset left every role has a thread
\* or is degraded, and a closed pool has none.
AtRestStaffed ==
    (lifecycle = <<>>) =>
        IF closed THEN workers = {}
        ELSE \A r \in Roles : worker[r] # NoWorker \/ degraded[r]

\* After restart() neither a thread nor cached diagnostics of a former
\* configuration outlive the reset that is queued, also when restart() is called
\* during a reset and coalesced with it.
OldConfigurationIsGone ==
    ~resetQueued => (cache # "outdated" /\ \A r \in Roles : worker[r] \notin outdated)

\* A search that its worker still executes is the active one, or was rejected at
\* its deadline: no answer is taken for the answer to another search.
NothingRunsForgotten ==
    \A w \in Workers : Heard(w) =>
        \A j \in ToSet(jobs[w]) : j.late \/ j.id = active[Role(w)]

\* The reset of a role terminates a worker that failed or overran a deadline,
\* never the one that has replaced it.
ResetHitsTheCulprit ==
    [][\A r \in Roles : (RoleReset(r) /\ phase' = "terminating") => killing' \subseteq blamed]_vars

\* An accepted search is never left with nothing that will settle it: it runs
\* against its deadline, or its worker is starting against its own, or a reset is
\* to come that rejects it or spawns a worker for it.  A degraded role and a closed
\* pool are excepted (ClosedHasNoTask).
NoSearchIsStranded ==
    \A r \in Roles : (active[r] # NoTask \/ queue[r] # <<>>) =>
        \/ degraded[r] \/ closed
        \/ deadlineTimer[r] # NoTimer
        \/ readyTimer[r] # NoWorker
        \/ \E j \in DOMAIN lifecycle : lifecycle[j] = Whole \/ lifecycle[j].expected = worker[r]
        \/ phase = "terminating" /\ Head(lifecycle).kind = r

\* tests/searchWorkerPool.test.ts, after restart() and close(): "closed: true,
\* ready: false, running: false, queued: 0, workerCount: 0".
ClosedHasNoTask ==
    (closed /\ lifecycle = <<>>) => \A r \in Roles : active[r] = NoTask /\ queue[r] = <<>>
===============================================================================
