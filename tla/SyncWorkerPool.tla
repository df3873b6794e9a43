----------------------------- MODULE SyncWorkerPool -----------------------------
(***************************************************************************)
(* The pool that keeps one sync worker thread (server/jobs/                *)
(* syncWorkerPool.ts) and the runtime inside the thread                    *)
(* (syncWorkerRuntime.ts).  The pool runs on the main thread: one event    *)
(* (a call, a message, a timer) is one step, and the chain of resets,      *)
(* lifecycle, goes on between events.  Progress messages are left out; a   *)
(* worker name is free again once its thread is gone and no reset expects  *)
(* it, so the pool may respawn for ever.                                   *)
(***************************************************************************)
EXTENDS Naturals, Sequences, FiniteSets

CONSTANTS
    Workers,           \* names for worker threads
    MaxReadyAttempts,  \* options.maxWorkerReadyAttempts
    MaxRuns,           \* bound: calls of run() that are accepted
    MaxResets,         \* bound: resets waiting when restart() is called
    NoWorker

ASSUME AttemptsAssumption == MaxReadyAttempts \in Nat \ {0}
ASSUME PoolBoundsAssumption == MaxRuns \in Nat /\ MaxResets \in Nat
ASSUME NoWorkerAssumption == NoWorker \notin Workers

VARIABLES
    worker, ready, closed, degraded, readinessFailures, workers, resetting,
    active, dispatched, nextId,
    cancelTimer, readyTimer,  \* the worker a running timer is about
    lifecycle,                \* the chain of resets, the current one first
    killing,                  \* the threads the current reset waits for
    phase,                    \* "idle", or "terminating" during a reset
    thread, running, inbox, outbox,  \* of each thread; runs sent to it, its messages
    cancelled                 \* history: cancel() was called for the active run

poolVars   == <<worker, ready, closed, degraded, readinessFailures, workers, resetting>>
runVars    == <<active, dispatched, cancelled, nextId>>
timerVars  == <<cancelTimer, readyTimer>>
resetVars  == <<lifecycle, killing, phase>>
threadVars == <<thread, running, inbox, outbox>>
vars       == <<poolVars, runVars, timerVars, resetVars, threadVars>>

Runs     == 1..MaxRuns
NoRun    == 0
Live(w)  == thread[w] \in {"booting", "up"}
Reset    == [why : {"failure", "cancel", "restart", "close"}, readiness : BOOLEAN,
             expected : Workers \cup {NoWorker}]
ToPool   == {[type |-> t] : t \in {"ready", "exit"}} \cup [type : {"result", "error"}, id : Runs]

-------------------------------------------------------------------------------
(***************************************************************************)
(* Building blocks.                                                        *)
(***************************************************************************)
Enqueue(why, readiness, expected) ==
    lifecycle' = Append(lifecycle, [why |-> why, readiness |-> readiness, expected |-> expected])

\* Continuations of promises run before the next message or timer.
Quiet == IF phase = "idle" THEN lifecycle = <<>> ELSE killing # {}

Post(w, m) == inbox' = [inbox EXCEPT ![w] = Append(@, m)]
Emit(w, m) == outbox' = [outbox EXCEPT ![w] = Append(@, m)]

\* The promise of the active run is resolved or rejected.
Settle == active' = NoRun /\ dispatched' = FALSE /\ cancelled' = FALSE

Fresh == Workers \ (workers \cup {lifecycle[j].expected : j \in DOMAIN lifecycle})

\* spawn(): a new thread and its startup deadline.
Spawn == \E w \in Fresh :
    /\ worker' = w
    /\ workers' = workers \cup {w}
    /\ resetting' = resetting \ {w}
    /\ degraded' = FALSE
    /\ readyTimer' = w
    /\ thread' = [thread EXCEPT ![w] = "booting"]

Init ==
    /\ worker \in Workers
    /\ workers = {worker} /\ readyTimer = worker
    /\ thread = [w \in Workers |-> IF w = worker THEN "booting" ELSE "dead"]
    /\ ready = FALSE /\ closed = FALSE /\ degraded = FALSE
    /\ readinessFailures = 0 /\ resetting = {}
    /\ active = NoRun /\ dispatched = FALSE /\ nextId = 1
    /\ cancelTimer = NoWorker
    /\ lifecycle = <<>> /\ killing = {} /\ phase = "idle"
    /\ running = [w \in Workers |-> NoRun]
    /\ inbox = [w \in Workers |-> <<>>] /\ outbox = [w \in Workers |-> <<>>]
    /\ cancelled = FALSE

-------------------------------------------------------------------------------
(***************************************************************************)
(* Calls.  A rejected run() changes nothing.                               *)
(***************************************************************************)
\* run(), with pump(): to a ready worker the run is sent at once.
Run ==
    /\ ~closed /\ ~degraded /\ active = NoRun /\ nextId <= MaxRuns
    /\ active' = nextId /\ nextId' = nextId + 1
    /\ dispatched' = (ready /\ worker # NoWorker)
    /\ IF dispatched' THEN Post(worker, nextId) ELSE UNCHANGED inbox
    /\ UNCHANGED <<poolVars, cancelled, timerVars, resetVars, thread, running, outbox>>

\* Mutation: a run that the worker has started is forgotten at once.
CancelForgets ==
    /\ active # NoRun
    /\ Settle
    /\ UNCHANGED <<poolVars, nextId, timerVars, resetVars, threadVars>>

\* Mutation: the worker is asked to stop, and trusted to.
CancelWithoutGrace ==
    /\ active # NoRun
    /\ IF ~dispatched \/ worker = NoWorker THEN Settle
       ELSE cancelled' = TRUE /\ UNCHANGED <<active, dispatched>>
    /\ UNCHANGED <<poolVars, nextId, timerVars, resetVars, threadVars>>

\* Mutation: the same, of the part that a stopped scheduler shares.
CancelActiveWithoutGrace ==
    IF ~dispatched \/ worker = NoWorker
    THEN Settle /\ UNCHANGED cancelTimer
    ELSE cancelled' = TRUE /\ UNCHANGED <<active, dispatched, cancelTimer>>

\* cancel(): a run that no worker has is over; the worker that has it gets two
\* seconds.  The cancel message only makes the run end early, which it may do
\* at any time: it is left out.
CancelActive ==
    IF ~dispatched \/ worker = NoWorker
    THEN Settle /\ UNCHANGED cancelTimer
    ELSE cancelTimer' = worker /\ cancelled' = TRUE /\ UNCHANGED <<active, dispatched>>

Cancel ==
    /\ active # NoRun
    /\ CancelActive
    /\ UNCHANGED <<poolVars, nextId, readyTimer, resetVars, threadVars>>

Restart ==
    /\ Len(lifecycle) < MaxResets
    /\ Enqueue("restart", FALSE, NoWorker)
    /\ UNCHANGED <<poolVars, runVars, timerVars, killing, phase, threadVars>>

Close ==
    /\ ~closed
    /\ closed' = TRUE
    /\ Enqueue("close", FALSE, NoWorker)
    /\ UNCHANGED <<worker, ready, degraded, readinessFailures, workers, resetting,
                   runVars, timerVars, killing, phase, threadVars>>

-------------------------------------------------------------------------------
(***************************************************************************)
(* reset(): before, during and after the wait for the threads.             *)
(***************************************************************************)
\* A reset of a replaced worker would do nothing.  It never comes to that
\* (ResetsMeetTheirWorker), so no step skips one.
Expected(r) == r.expected = NoWorker \/ r.expected = worker

\* Mutation: the grace timer outlives the worker it is about.
ResetBeginKeepsTimer ==
    /\ phase = "idle" /\ lifecycle # <<>> /\ Expected(Head(lifecycle))
    /\ LET r == Head(lifecycle) IN
       /\ killing' = IF r.expected = NoWorker THEN workers ELSE {r.expected}
       /\ readinessFailures' = IF r.why = "restart" THEN 0
                               ELSE IF r.readiness THEN readinessFailures + 1
                               ELSE readinessFailures
       /\ degraded' = (degraded /\ r.why # "restart")
    /\ readyTimer' = NoWorker /\ ready' = FALSE /\ worker' = NoWorker
    /\ Settle
    /\ resetting' = resetting \cup killing'
    /\ phase' = "terminating"
    /\ UNCHANGED <<closed, workers, nextId, lifecycle, threadVars, cancelTimer>>

ResetBegin ==
    /\ phase = "idle" /\ lifecycle # <<>> /\ Expected(Head(lifecycle))
    /\ LET r == Head(lifecycle) IN
       /\ killing' = IF r.expected = NoWorker THEN workers ELSE {r.expected}
       /\ readinessFailures' = IF r.why = "restart" THEN 0
                               ELSE IF r.readiness THEN readinessFailures + 1
                               ELSE readinessFailures
       /\ degraded' = (degraded /\ r.why # "restart")
    /\ cancelTimer' = NoWorker /\ readyTimer' = NoWorker
    /\ ready' = FALSE /\ worker' = NoWorker
    /\ Settle
    /\ resetting' = resetting \cup killing'
    /\ phase' = "terminating"
    /\ UNCHANGED <<closed, workers, nextId, lifecycle, threadVars>>

\* A thread is gone.  What it had sent would meet the check on the current
\* worker, so its name may leave resettingWorkers.
Terminated(w) ==
    /\ w \in killing
    /\ killing' = killing \ {w}
    /\ workers' = workers \ {w}
    /\ thread' = [thread EXCEPT ![w] = "dead"]
    /\ running' = [running EXCEPT ![w] = NoRun]
    /\ inbox' = [inbox EXCEPT ![w] = <<>>]
    /\ outbox' = [outbox EXCEPT ![w] = <<>>]
    /\ resetting' = resetting \ {w}
    /\ UNCHANGED <<worker, ready, closed, degraded, readinessFailures,
                   runVars, timerVars, lifecycle, phase>>

\* Mutation: the reset does not wait for the threads.
ResetEndUnawaited ==
    /\ phase = "terminating"
    /\ phase' = "idle" /\ lifecycle' = Tail(lifecycle) /\ killing' = {}
    /\ IF closed THEN UNCHANGED <<worker, workers, resetting, degraded, readyTimer, thread>> ELSE Spawn
    /\ UNCHANGED <<ready, closed, readinessFailures, runVars, cancelTimer, running, inbox, outbox>>

\* Mutation: a reset spawns although the pool was closed meanwhile.
ResetEndSpawnsAlways ==
    /\ phase = "terminating" /\ killing = {}
    /\ phase' = "idle" /\ lifecycle' = Tail(lifecycle)
    /\ Spawn
    /\ UNCHANGED <<ready, closed, readinessFailures, killing, runVars, cancelTimer, running, inbox, outbox>>

\* Mutation: one attempt too many.
ResetEndOffByOne ==
    /\ phase = "terminating" /\ killing = {}
    /\ phase' = "idle" /\ lifecycle' = Tail(lifecycle)
    /\ IF closed THEN UNCHANGED <<worker, workers, resetting, degraded, readyTimer, thread>>
       ELSE IF Head(lifecycle).readiness /\ readinessFailures > MaxReadyAttempts
       THEN degraded' = TRUE /\ UNCHANGED <<worker, workers, resetting, readyTimer, thread>>
       ELSE Spawn
    /\ UNCHANGED <<ready, closed, readinessFailures, killing, runVars, cancelTimer, running, inbox, outbox>>

ResetEnd ==
    /\ phase = "terminating" /\ killing = {}
    /\ phase' = "idle" /\ lifecycle' = Tail(lifecycle)
    /\ IF closed THEN UNCHANGED <<worker, workers, resetting, degraded, readyTimer, thread>>
       ELSE IF Head(lifecycle).readiness /\ readinessFailures >= MaxReadyAttempts
       THEN degraded' = TRUE /\ UNCHANGED <<worker, workers, resetting, readyTimer, thread>>
       ELSE Spawn
    /\ UNCHANGED <<ready, closed, readinessFailures, killing, runVars, cancelTimer, running, inbox, outbox>>

-------------------------------------------------------------------------------
(***************************************************************************)
(* Timers and messages.                                                    *)
(***************************************************************************)
\* onFailure(): the first report about the current worker resets it.
Failure(w) ==
    IF closed \/ worker # w \/ w \in resetting THEN UNCHANGED <<resetting, lifecycle>>
    ELSE resetting' = resetting \cup {w} /\ Enqueue("failure", ~ready, w)

ReadyDeadline(w) ==
    /\ Quiet /\ readyTimer = w
    /\ readyTimer' = NoWorker
    /\ Failure(w)
    /\ UNCHANGED <<worker, ready, closed, degraded, readinessFailures, workers,
                   runVars, cancelTimer, killing, phase, threadVars>>

CancelDeadline(w) ==
    /\ Quiet /\ cancelTimer = w
    /\ cancelTimer' = NoWorker
    /\ Enqueue("cancel", FALSE, w)
    /\ UNCHANGED <<poolVars, runVars, readyTimer, killing, phase, threadVars>>

Heard(w) == worker = w /\ w \notin resetting

\* The next message of w is taken from its port.
Take(w, types) ==
    /\ Quiet /\ outbox[w] # <<>> /\ Head(outbox[w]).type \in types
    /\ outbox' = [outbox EXCEPT ![w] = Tail(@)]

\* Mutation: a run that waited for the worker is not sent to it.
ReadyWithoutPump(w) ==
    /\ Take(w, {"ready"}) /\ Heard(w)
    /\ readyTimer' = NoWorker /\ ready' = TRUE /\ degraded' = FALSE /\ readinessFailures' = 0
    /\ UNCHANGED <<worker, closed, workers, resetting, runVars, cancelTimer,
                   resetVars, thread, running, inbox>>

OnReady(w) ==
    /\ Take(w, {"ready"}) /\ Heard(w)
    /\ readyTimer' = NoWorker /\ ready' = TRUE /\ degraded' = FALSE /\ readinessFailures' = 0
    /\ dispatched' = (active # NoRun)
    /\ IF active # NoRun THEN Post(w, active) ELSE UNCHANGED inbox
    /\ UNCHANGED <<worker, closed, workers, resetting, active, nextId, cancelled,
                   cancelTimer, resetVars, thread, running>>

\* Mutation: the grace period goes on after the run has ended.
OnAnswerKeepsTimer(w) ==
    /\ Take(w, {"result", "error"}) /\ Heard(w) /\ Head(outbox[w]).id = active
    /\ Settle
    /\ UNCHANGED <<poolVars, nextId, timerVars, resetVars, thread, running, inbox>>

OnAnswer(w) ==
    /\ Take(w, {"result", "error"}) /\ Heard(w) /\ Head(outbox[w]).id = active
    /\ cancelTimer' = NoWorker
    /\ Settle
    /\ UNCHANGED <<poolVars, nextId, readyTimer, resetVars, thread, running, inbox>>

\* The message of a worker that is replaced, or about another run.
OnStale(w) ==
    /\ Take(w, {"ready", "result", "error"})
    /\ ~Heard(w) \/ (Head(outbox[w]).type # "ready" /\ Head(outbox[w]).id # active)
    /\ UNCHANGED <<poolVars, runVars, timerVars, resetVars, thread, running, inbox>>

OnExit(w) ==
    /\ Take(w, {"exit"})
    /\ workers' = workers \ {w}
    /\ Failure(w)
    /\ UNCHANGED <<worker, ready, closed, degraded, readinessFailures, runVars, timerVars,
                   killing, phase, thread, running, inbox>>

-------------------------------------------------------------------------------
(***************************************************************************)
(* The worker thread.  A run may end at any time, cancelled or not.        *)
(***************************************************************************)
WorkerBoots(w) ==
    /\ thread[w] = "booting"
    /\ thread' = [thread EXCEPT ![w] = "up"]
    /\ Emit(w, [type |-> "ready"])
    /\ UNCHANGED <<poolVars, runVars, timerVars, resetVars, running, inbox>>

WorkerReceives(w) ==
    /\ thread[w] = "up" /\ inbox[w] # <<>>
    /\ inbox' = [inbox EXCEPT ![w] = Tail(@)]
    /\ IF running[w] # NoRun
       THEN Emit(w, [type |-> "error", id |-> Head(inbox[w])]) /\ UNCHANGED running
       ELSE running' = [running EXCEPT ![w] = Head(inbox[w])] /\ UNCHANGED outbox
    /\ UNCHANGED <<poolVars, runVars, timerVars, resetVars, thread>>

WorkerAnswers(w) ==
    /\ thread[w] = "up" /\ running[w] # NoRun
    /\ running' = [running EXCEPT ![w] = NoRun]
    /\ \E t \in {"result", "error"} : Emit(w, [type |-> t, id |-> running[w]])
    /\ UNCHANGED <<poolVars, runVars, timerVars, resetVars, thread, inbox>>

WorkerDies(w) ==
    /\ Live(w)
    /\ thread' = [thread EXCEPT ![w] = "dead"]
    /\ running' = [running EXCEPT ![w] = NoRun]
    /\ inbox' = [inbox EXCEPT ![w] = <<>>]
    /\ Emit(w, [type |-> "exit"])
    /\ UNCHANGED <<poolVars, runVars, timerVars, resetVars>>

Call == Run \/ Cancel \/ Restart \/ Close

\* What the pool itself goes on with.
PoolStep ==
    \/ ResetBegin \/ ResetEnd
    \/ \E w \in Workers : \/ Terminated(w) \/ ReadyDeadline(w) \/ CancelDeadline(w)
                          \/ OnReady(w) \/ OnAnswer(w) \/ OnStale(w) \/ OnExit(w)

ThreadStep ==
    \E w \in Workers : WorkerBoots(w) \/ WorkerReceives(w) \/ WorkerAnswers(w) \/ WorkerDies(w)

Next == Call \/ PoolStep \/ ThreadStep

Spec == Init /\ [][Next]_vars

(***************************************************************************)
(* Fairness: the event loop of the main thread goes on, timers fire,       *)
(* messages arrive and terminate() ends.  Nothing is assumed of the        *)
(* workers: they may never become ready, never answer and ignore cancel.   *)
(***************************************************************************)
FairSpec ==
    /\ Spec
    /\ WF_vars(ResetBegin) /\ WF_vars(ResetEnd)
    /\ \A w \in Workers :
         /\ WF_vars(Terminated(w)) /\ WF_vars(ReadyDeadline(w)) /\ WF_vars(CancelDeadline(w))
         /\ WF_vars(OnReady(w)) /\ WF_vars(OnAnswer(w)) /\ WF_vars(OnStale(w)) /\ WF_vars(OnExit(w))

-------------------------------------------------------------------------------
(***************************************************************************)
(* Properties.                                                             *)
(***************************************************************************)
\* The type invariant; consecutive failures to start stay within the attempts.
TypeOK ==
    /\ worker \in Workers \cup {NoWorker}
    /\ {ready, closed, degraded, dispatched, cancelled} \subseteq BOOLEAN
    /\ readinessFailures \in 0..MaxReadyAttempts
    /\ {workers, resetting, killing} \subseteq SUBSET Workers
    /\ active \in Runs \cup {NoRun} /\ nextId \in 1..(MaxRuns + 1)
    /\ {cancelTimer, readyTimer} \subseteq Workers \cup {NoWorker}
    /\ lifecycle \in Seq(Reset)
    /\ phase \in {"idle", "terminating"}
    /\ thread \in [Workers -> {"booting", "up", "dead"}]
    /\ running \in [Workers -> Runs \cup {NoRun}]
    /\ inbox \in [Workers -> Seq(Runs)] /\ outbox \in [Workers -> Seq(ToPool)]

\* Two sync workers never run side by side on the database, however failures,
\* deadlines, restarts and terminations overlap.
OneWorkerAtATime == \A v, w \in Workers : (Live(v) /\ Live(w)) => v = w

\* The pool and its thread agree: what the current worker runs is the active
\* run, so the runtime's "already running" is never the answer to a run.
RuntimeAgrees ==
    \A w \in Workers : (worker = w /\ w \notin resetting /\ running[w] # NoRun)
                          => (active = running[w] /\ dispatched)

\* A closed pool with nothing left to reset has no thread, no run and no timer.
ClosedIsQuiet ==
    (closed /\ lifecycle = <<>>) =>
        /\ workers = {} /\ \A w \in Workers : ~Live(w)
        /\ active = NoRun /\ cancelTimer = NoWorker /\ readyTimer = NoWorker

\* A deadline, a failure or an expired grace period never reaches the chain of
\* resets after its worker has been replaced, so it cannot hit the successor.
ResetsMeetTheirWorker ==
    (phase = "idle" /\ lifecycle # <<>>) => Expected(Head(lifecycle))

\* The grace period of cancel() never kills a run that nobody cancelled, in
\* particular not the next one on the same worker.
GraceKillsOnlyCancelled ==
    [][(ResetBegin /\ Head(lifecycle).why = "cancel" /\ active # NoRun) => cancelled]_vars

\* A cancelled run is settled although its worker may ignore the message.
CancelSettles == \A id \in Runs : (active = id /\ cancelled) ~> (active # id)

\* A run that waits for a worker reaches one, is settled, or the pool gives up
\* on workers.
QueuedRunMovesOn ==
    \A id \in Runs : (active = id /\ ~dispatched) ~> (dispatched \/ active # id \/ degraded)

\* close() ends with every thread gone for good, whatever is called later.
CloseCompletes == closed ~> [](workers = {} /\ \A w \in Workers : ~Live(w))

\* tests/syncWorkerPool.test.ts: "rejects queued work and becomes degraded after
\* bounded worker readiness attempts".  A degraded pool has no run.
DegradedHasNoRun == degraded => active = NoRun
===============================================================================
