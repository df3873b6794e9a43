----------------------------- MODULE SyncScheduler -----------------------------
(***************************************************************************)
(* The scheduler of the main thread (server/jobs/syncScheduler.ts) over    *)
(* the pool of the sync worker, as app.ts uses it: start() at boot,        *)
(* restart() after a change of settings, requestRun() by the sync routes,  *)
(* close() when the server stops.  The interval is positive or not.  A run *)
(* settles when it is no longer the pool's active one; what awaits it goes *)
(* on before the next event.                                               *)
(***************************************************************************)
EXTENDS SyncWorkerPool

CONSTANT MaxGeneration   \* bound: of generation, hence of the restarts

ASSUME GenerationAssumption == MaxGeneration \in Nat

VARIABLES
    interval,     \* config.sync.intervalMinutes > 0
    settings,     \* PUTs of settings that have not yet reached restart()
    started, generation,
    timer,        \* the generation that scheduleNextRun() captured, or NoTimer
    callback,     \* the same of the timer's callback that awaits runOnce()
    syncing,      \* running of the scheduler
    awaited,      \* its active run; NoRun if the pool refused it
    closing       \* "no", "stopping" in stopAndWait(), "closed" when the pool is told

schedulerVars == <<interval, settings, started, generation, timer, callback,
                   syncing, awaited, closing>>
allVars == <<vars, schedulerVars>>

NoTimer == 0

SchedulerInit ==
    /\ Init
    /\ interval \in BOOLEAN /\ settings = 0
    /\ started = FALSE /\ generation = 0
    /\ timer = NoTimer /\ callback = NoTimer
    /\ syncing = FALSE /\ awaited = NoRun
    /\ closing = "no"

-------------------------------------------------------------------------------
\* The promise of the run is settled and nothing has gone on yet.
Settled == syncing /\ (awaited = NoRun \/ active # awaited)

\* stop() cancels the active run of the pool.
StopRun ==
    /\ IF active # NoRun THEN CancelActive
       ELSE UNCHANGED <<active, dispatched, cancelled, cancelTimer>>
    /\ UNCHANGED <<poolVars, nextId, readyTimer>>

\* start() stops first; either advances the generation.
StartTimer ==
    /\ started' = interval
    /\ generation' = generation + (IF interval THEN 2 ELSE 1)
    /\ timer' = IF interval THEN generation' ELSE NoTimer

Boot ==
    /\ generation = 0 /\ closing = "no"
    /\ StartTimer
    /\ UNCHANGED <<vars, interval, settings, callback, syncing, awaited, closing>>

\* runOnce() of a scheduler that is not running; the pool may refuse the run.
RunOnce ==
    /\ ~syncing /\ nextId <= MaxRuns
    /\ syncing' = TRUE
    /\ IF closed \/ degraded \/ active # NoRun
       THEN awaited' = NoRun /\ UNCHANGED vars
       ELSE awaited' = nextId /\ Run

RequestRun ==
    /\ closing = "no" /\ generation > 0
    /\ RunOnce
    /\ UNCHANGED <<interval, settings, started, generation, timer, callback, closing>>

\* Mutation: the callback of a stopped start() schedules the next run too.
RearmAlways(g) == timer' = IF started /\ interval THEN g ELSE timer

\* scheduleNextRun() at the end of the callback of g.
Rearm(g) == timer' = IF started /\ generation = g /\ interval THEN g ELSE timer

TimerFires ==
    /\ timer # NoTimer
    /\ \/ /\ RunOnce
          /\ timer' = NoTimer /\ callback' = timer
       \/ \* Sync is already running.
          /\ syncing
          /\ timer' = IF started /\ generation = timer /\ interval THEN timer ELSE NoTimer
          /\ UNCHANGED <<vars, callback, syncing, awaited>>
    /\ UNCHANGED <<interval, settings, started, generation, closing>>

\* The finally of runOnce(), then the callback that awaits it.
RunSettles ==
    /\ Settled
    /\ syncing' = FALSE /\ awaited' = NoRun
    /\ callback' = NoTimer
    /\ IF callback # NoTimer THEN Rearm(callback) ELSE UNCHANGED timer
    /\ UNCHANGED <<vars, interval, settings, started, generation, closing>>

\* PUT /api/admin/settings: the configuration is new at once, restart() comes
\* after the search workers have been replaced.
ChangeSettings ==
    /\ closing = "no" /\ generation > 0
    /\ generation + 2 * (settings + 1) <= MaxGeneration
    /\ interval' \in BOOLEAN
    /\ settings' = settings + 1
    /\ UNCHANGED <<vars, started, generation, timer, callback, syncing, awaited, closing>>

\* restart(): stop(), start() and the restart() of the pool.
RestartSync ==
    /\ settings > 0
    /\ settings' = settings - 1
    /\ StartTimer
    /\ StopRun
    /\ Enqueue("restart", FALSE, NoWorker)
    /\ UNCHANGED <<killing, phase, threadVars>>
    /\ UNCHANGED <<interval, callback, syncing, awaited, closing>>

\* Mutation: a stopped scheduler takes its run for over.
StopSyncForgets ==
    /\ closing = "no" /\ generation > 0 /\ settings = 0
    /\ closing' = "stopping"
    /\ started' = FALSE /\ generation' = generation + 1 /\ timer' = NoTimer
    /\ syncing' = FALSE /\ awaited' = NoRun
    /\ StopRun
    /\ UNCHANGED <<resetVars, threadVars, interval, settings, callback>>

\* close(), up to the wait for the active run.  The server calls it when its
\* requests have been answered.
StopSync ==
    /\ closing = "no" /\ generation > 0 /\ settings = 0
    /\ closing' = "stopping"
    /\ started' = FALSE /\ generation' = generation + 1 /\ timer' = NoTimer
    /\ StopRun
    /\ UNCHANGED <<resetVars, threadVars, interval, settings, callback, syncing, awaited>>

CloseSync ==
    /\ closing = "stopping" /\ ~syncing
    /\ closing' = "closed"
    /\ Close
    /\ UNCHANGED <<interval, settings, started, generation, timer, callback, syncing, awaited>>

-------------------------------------------------------------------------------
\* Events of the main thread, which meet no continuation left to run.
SchedulerCall == Boot \/ RequestRun \/ TimerFires \/ ChangeSettings \/ RestartSync \/ StopSync \/ CloseSync

Between(A) == ~Settled /\ A /\ UNCHANGED schedulerVars

SchedulerNext ==
    \/ RunSettles
    \/ ~Settled /\ SchedulerCall
    \/ Between(PoolStep)
    \/ ThreadStep /\ UNCHANGED schedulerVars

SchedulerSpec == SchedulerInit /\ [][SchedulerNext]_allVars

\* The fairness of the pool, and of the continuations of the scheduler.
SchedulerFairSpec ==
    /\ SchedulerSpec
    /\ WF_allVars(RunSettles) /\ WF_allVars(~Settled /\ CloseSync)
    /\ WF_allVars(Between(ResetBegin)) /\ WF_allVars(Between(ResetEnd))
    /\ \A w \in Workers :
         /\ WF_allVars(Between(Terminated(w)))
         /\ WF_allVars(Between(ReadyDeadline(w))) /\ WF_allVars(Between(CancelDeadline(w)))
         /\ WF_allVars(Between(OnReady(w))) /\ WF_allVars(Between(OnAnswer(w)))
         /\ WF_allVars(Between(OnStale(w))) /\ WF_allVars(Between(OnExit(w)))

-------------------------------------------------------------------------------
\* The type invariant.
SchedulerTypeOK ==
    /\ TypeOK
    /\ interval \in BOOLEAN /\ started \in BOOLEAN /\ syncing \in BOOLEAN
    /\ generation \in Nat /\ timer \in Nat /\ callback \in Nat /\ settings \in Nat
    /\ awaited \in Runs \cup {NoRun}
    /\ closing \in {"no", "stopping", "closed"}

\* The chain of scheduled runs neither breaks nor doubles, whatever the order of
\* stops, restarts and runs that end late: exactly one of a timer and a callback
\* will schedule the next run.  It may pause while new settings wait for restart().
OneChain ==
    /\ (timer # NoTimer) => (started /\ timer = generation /\ callback # generation)
    /\ (started /\ settings = 0) => (timer # NoTimer \/ callback = generation)

\* The scheduler and the pool agree: the pool never has a run that the scheduler
\* does not wait for, so a run it starts is never refused as already running.
NoHiddenRun ==
    /\ active # NoRun => (syncing /\ awaited = active)
    /\ closing = "closed" => ~syncing

\* close() waits for the run and then for the pool, and ends although the worker
\* may never start, answer or stop.
ShutdownCompletes == (closing = "stopping") ~> (closing = "closed" /\ workers = {})
================================================================================
