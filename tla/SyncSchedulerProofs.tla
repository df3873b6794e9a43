--------------------------- MODULE SyncSchedulerProofs ---------------------------
(***************************************************************************)
(* Theorems about SyncScheduler, for any number of restarts and runs.  For *)
(* the chain of runs it is enough that the pool never begins one; that the *)
(* pool keeps its own invariant when the scheduler calls it comes last.    *)
(***************************************************************************)
EXTENDS SyncScheduler, SyncWorkerPoolSafetyProofs, TLAPS

Numbers ==
    /\ generation \in Nat /\ timer \in Nat /\ callback \in Nat /\ settings \in Nat
    /\ interval \in BOOLEAN /\ started \in BOOLEAN /\ syncing \in BOOLEAN

\* What a stop leaves behind: a callback of an older generation.
Generations ==
    /\ callback <= generation
    /\ callback # NoTimer => syncing
    /\ started => generation > 0
    /\ (started /\ settings = 0) => interval
    /\ closing # "no" => ~started /\ settings = 0

SInv == Numbers /\ Generations /\ OneChain /\ NoHiddenRun

-------------------------------------------------------------------------------
LEMMA SchedulerInitInvariant == SchedulerInit => SInv
<1> SUFFICES ASSUME SchedulerInit PROVE SInv
    OBVIOUS
<1>1. /\ interval \in BOOLEAN /\ settings = 0 /\ started \in BOOLEAN /\ ~started
      /\ generation = 0 /\ timer = NoTimer /\ callback = NoTimer
      /\ syncing \in BOOLEAN /\ ~syncing /\ closing = "no"
    BY DEF SchedulerInit
<1>2. active = NoRun
    BY DEF SchedulerInit, Init
<1> QED
    BY <1>1, <1>2 DEF SInv, Numbers, Generations, OneChain, NoHiddenRun, NoTimer

\* The pool settles runs; only run() begins one.
LEMMA PoolNeverBeginsARun == PoolStep \/ ThreadStep => active' \in {active, NoRun}
<1> SUFFICES ASSUME PoolStep \/ ThreadStep PROVE active' \in {active, NoRun}
    OBVIOUS
<1>1. ASSUME ResetBegin PROVE active' \in {active, NoRun}
    BY <1>1 DEF ResetBegin, Settle
<1>2. ASSUME ResetEnd PROVE active' \in {active, NoRun}
    BY <1>2 DEF ResetEnd, runVars
<1>3. ASSUME NEW w \in Workers, Terminated(w) PROVE active' \in {active, NoRun}
    BY <1>3 DEF Terminated, runVars
<1>4. ASSUME NEW w \in Workers, ReadyDeadline(w) \/ CancelDeadline(w)
      PROVE  active' \in {active, NoRun}
    BY <1>4 DEF ReadyDeadline, CancelDeadline, runVars
<1>5. ASSUME NEW w \in Workers, OnReady(w) \/ OnAnswer(w) \/ OnStale(w) \/ OnExit(w)
      PROVE  active' \in {active, NoRun}
    BY <1>5 DEF OnReady, OnAnswer, OnStale, OnExit, Settle, runVars
<1>6. ASSUME ThreadStep PROVE active' \in {active, NoRun}
    BY <1>6 DEF ThreadStep, WorkerBoots, WorkerReceives, WorkerAnswers, WorkerDies, runVars
<1> QED
    BY <1>1, <1>2, <1>3, <1>4, <1>5, <1>6 DEF PoolStep

\* A step of the pool alone keeps the invariant.
LEMMA PoolKeeps ==
    ASSUME SInv, UNCHANGED schedulerVars, active' \in {active, NoRun}
    PROVE  SInv'
BY DEF SInv, Numbers, Generations, OneChain, NoHiddenRun, schedulerVars

\* stop() ends a run or leaves it as it is.
LEMMA StopRunBeginsNone == StopRun => active' \in {active, NoRun}
BY DEF StopRun, CancelActive, Settle

\* start() and restart() leave one timer or none, of a new generation.
LEMMA StartTimerOpensAChain ==
    ASSUME Numbers, Generations, StartTimer
    PROVE  /\ generation' \in Nat /\ timer' \in Nat /\ generation' > generation
           /\ started' = interval
           /\ timer' = IF started' THEN generation' ELSE NoTimer
           /\ callback # generation'
BY DEF Numbers, Generations, StartTimer, NoTimer

LEMMA BootKeeps == SInv /\ Boot => SInv'
<1> SUFFICES ASSUME SInv, Boot PROVE SInv'
    OBVIOUS
<1>1. UNCHANGED <<active, interval, settings, callback, syncing, awaited, closing>>
    BY DEF Boot, vars, runVars
<1>2. closing = "no"
    BY DEF Boot
<1>3. /\ generation' \in Nat /\ timer' \in Nat /\ generation' > generation
      /\ started' = interval
      /\ timer' = IF started' THEN generation' ELSE NoTimer
      /\ callback # generation'
    BY StartTimerOpensAChain DEF Boot, SInv
<1> QED
    BY <1>1, <1>2, <1>3 DEF SInv, Numbers, Generations, OneChain, NoHiddenRun, NoTimer

\* runOnce() registers the run that it begins.
LEMMA RunOnceRegisters ==
    ASSUME SInv, RunOnce
    PROVE  /\ ~syncing /\ syncing' = TRUE
           /\ active' # NoRun => awaited' = active'
<1>1. CASE closed \/ degraded \/ active # NoRun
    BY <1>1 DEF RunOnce, SInv, NoHiddenRun, vars, runVars
<1>2. CASE ~(closed \/ degraded \/ active # NoRun)
    BY <1>2 DEF RunOnce, Run
<1> QED
    BY <1>1, <1>2

LEMMA RequestRunKeeps == SInv /\ RequestRun => SInv'
<1> SUFFICES ASSUME SInv, RequestRun PROVE SInv'
    OBVIOUS
<1>1. /\ closing = "no"
      /\ UNCHANGED <<interval, settings, started, generation, timer, callback, closing>>
    BY DEF RequestRun
<1>2. syncing' = TRUE /\ (active' # NoRun => awaited' = active')
    BY RunOnceRegisters DEF RequestRun
<1> QED
    BY <1>1, <1>2 DEF SInv, Numbers, Generations, OneChain, NoHiddenRun

LEMMA TimerFiresKeeps == SInv /\ TimerFires => SInv'
<1> SUFFICES ASSUME SInv, TimerFires PROVE SInv'
    OBVIOUS
<1>1. /\ timer # NoTimer /\ started /\ timer = generation
      /\ closing = "no"
      /\ UNCHANGED <<interval, settings, started, generation, closing>>
    BY DEF TimerFires, SInv, OneChain, Generations
<1>2. CASE RunOnce /\ timer' = NoTimer /\ callback' = timer
  <2>1. syncing' = TRUE /\ (active' # NoRun => awaited' = active')
      BY <1>2, RunOnceRegisters
  <2> QED
      BY <1>1, <1>2, <2>1 DEF SInv, Numbers, Generations, OneChain, NoHiddenRun, NoTimer
<1>3. CASE /\ syncing
           /\ timer' = IF started /\ generation = timer /\ interval THEN timer ELSE NoTimer
           /\ UNCHANGED <<vars, callback, syncing, awaited>>
  <2>1. UNCHANGED <<active, callback, syncing, awaited>>
      BY <1>3 DEF vars, runVars
  <2> QED
      BY <1>1, <1>3, <2>1 DEF SInv, Numbers, Generations, OneChain, NoHiddenRun, NoTimer
<1> QED
    BY <1>2, <1>3 DEF TimerFires

LEMMA RunSettlesKeeps == SInv /\ RunSettles => SInv'
<1> SUFFICES ASSUME SInv, RunSettles PROVE SInv'
    OBVIOUS
<1>1. /\ active = NoRun /\ active' = active
      /\ syncing' \in BOOLEAN /\ ~syncing' /\ callback' = NoTimer
      /\ UNCHANGED <<interval, settings, started, generation, closing>>
    BY DEF RunSettles, Settled, SInv, NoHiddenRun, vars, runVars
<1>2. CASE callback = NoTimer
    BY <1>1, <1>2 DEF RunSettles, SInv, Numbers, Generations, OneChain, NoHiddenRun, NoTimer
<1>3. CASE callback # NoTimer
  <2>1. timer' = IF started /\ generation = callback /\ interval THEN callback ELSE timer
      BY <1>3 DEF RunSettles, Rearm
  <2> QED
      BY <1>1, <1>3, <2>1 DEF SInv, Numbers, Generations, OneChain, NoHiddenRun, NoTimer
<1> QED
    BY <1>2, <1>3

LEMMA ChangeSettingsKeeps == SInv /\ ChangeSettings => SInv'
<1> SUFFICES ASSUME SInv, ChangeSettings PROVE SInv'
    OBVIOUS
<1>1. /\ closing = "no" /\ settings' = settings + 1 /\ interval' \in BOOLEAN
      /\ UNCHANGED <<active, started, generation, timer, callback, syncing, awaited, closing>>
    BY DEF ChangeSettings, vars, runVars
<1> QED
    BY <1>1 DEF SInv, Numbers, Generations, OneChain, NoHiddenRun

LEMMA RestartSyncKeeps == SInv /\ RestartSync => SInv'
<1> SUFFICES ASSUME SInv, RestartSync PROVE SInv'
    OBVIOUS
<1>1. /\ settings > 0 /\ settings' = settings - 1
      /\ UNCHANGED <<interval, callback, syncing, awaited, closing>>
    BY DEF RestartSync
<1>2. active' \in {active, NoRun}
    BY StopRunBeginsNone DEF RestartSync
<1>3. /\ generation' \in Nat /\ timer' \in Nat /\ generation' > generation
      /\ started' = interval
      /\ timer' = IF started' THEN generation' ELSE NoTimer
      /\ callback # generation'
    BY StartTimerOpensAChain DEF RestartSync, SInv
<1>4. closing = "no"
    BY <1>1 DEF SInv, Generations
<1> QED
    BY <1>1, <1>2, <1>3, <1>4 DEF SInv, Numbers, Generations, OneChain, NoHiddenRun, NoTimer

LEMMA StopSyncKeeps == SInv /\ StopSync => SInv'
<1> SUFFICES ASSUME SInv, StopSync PROVE SInv'
    OBVIOUS
<1>1. /\ closing' = "stopping" /\ settings = 0
      /\ started' \in BOOLEAN /\ ~started' /\ generation' = generation + 1 /\ timer' = NoTimer
      /\ UNCHANGED <<interval, settings, callback, syncing, awaited>>
    BY DEF StopSync
<1>2. active' \in {active, NoRun}
    BY StopRunBeginsNone DEF StopSync
<1> QED
    BY <1>1, <1>2 DEF SInv, Numbers, Generations, OneChain, NoHiddenRun, NoTimer

LEMMA CloseSyncKeeps == SInv /\ CloseSync => SInv'
<1> SUFFICES ASSUME SInv, CloseSync PROVE SInv'
    OBVIOUS
<1>1. /\ closing = "stopping" /\ ~syncing
      /\ UNCHANGED <<active, interval, settings, started, generation, timer, callback, syncing, awaited>>
    BY DEF CloseSync, Close, runVars
<1> QED
    BY <1>1 DEF SInv, Numbers, Generations, OneChain, NoHiddenRun

-------------------------------------------------------------------------------
LEMMA SchedulerStepInvariant == SInv /\ [SchedulerNext]_allVars => SInv'
<1> SUFFICES ASSUME SInv, [SchedulerNext]_allVars PROVE SInv'
    OBVIOUS
<1>1. CASE RunSettles
    BY <1>1, RunSettlesKeeps
<1>2. CASE SchedulerCall
    BY <1>2, BootKeeps, RequestRunKeeps, TimerFiresKeeps, ChangeSettingsKeeps,
       RestartSyncKeeps, StopSyncKeeps, CloseSyncKeeps DEF SchedulerCall
<1>3. CASE (PoolStep \/ ThreadStep) /\ UNCHANGED schedulerVars
    BY <1>3, PoolNeverBeginsARun, PoolKeeps
<1>4. CASE UNCHANGED allVars
  <2>1. UNCHANGED schedulerVars /\ active' \in {active, NoRun}
      BY <1>4 DEF allVars, vars, runVars
  <2> QED
      BY <2>1, PoolKeeps
<1> QED
    BY <1>1, <1>2, <1>3, <1>4 DEF SchedulerNext, Between

\* The invariant that the two theorems rest on.
THEOREM SchedulerInductive == SchedulerSpec => []SInv
<1>1. SchedulerInit => SInv
    BY SchedulerInitInvariant
<1>2. SInv /\ [SchedulerNext]_allVars => SInv'
    BY SchedulerStepInvariant
<1> QED
    BY <1>1, <1>2, PTL DEF SchedulerSpec

\* However often the scheduler is restarted, and however late runs end, there is
\* one chain of scheduled runs (scheduleNextRun, syncScheduler.ts).
THEOREM ChainNeverForks == SchedulerSpec => []OneChain
<1>1. SInv => OneChain
    BY DEF SInv
<1> QED
    BY <1>1, SchedulerInductive, PTL

\* The pool runs nothing that the scheduler does not wait for, so that close()
\* finds it idle (runOnce and stopAndWait, syncScheduler.ts).
THEOREM NoRunIsHidden == SchedulerSpec => []NoHiddenRun
<1>1. SInv => NoHiddenRun
    BY DEF SInv
<1> QED
    BY <1>1, SchedulerInductive, PTL

-------------------------------------------------------------------------------
(***************************************************************************)
(* The pool under the scheduler.  All calls are its own but restart(),     *)
(* which cancels the run and queues a reset in one step.                   *)
(***************************************************************************)
Awaits ==
    /\ awaited \in Runs \cup {NoRun}
    /\ closing \in {"no", "stopping", "closed"}

LEMMA RestartSyncKeepsPool == IInv /\ RestartSync => IInv'
<1> SUFFICES ASSUME IInv, RestartSync PROVE IInv'
    OBVIOUS
<1>1. /\ Enqueue("restart", FALSE, NoWorker)
      /\ UNCHANGED <<worker, ready, closed, degraded, readinessFailures, workers, resetting>>
      /\ UNCHANGED <<nextId, readyTimer, killing, phase, thread, running, inbox, outbox>>
    BY DEF RestartSync, StopRun, poolVars, threadVars
<1>2. lifecycle' \in Seq(Reset) /\ Attempts'
    BY <1>1, WholeResetKeepsAttempts DEF IInv
<1>3. Staffing' /\ Mail'
    BY <1>1 DEF IInv, Staffing, Mail, Live
<1>4. /\ active' \in Runs \cup {NoRun} /\ dispatched' \in BOOLEAN /\ cancelled' \in BOOLEAN
      /\ cancelTimer' \in Workers \cup {NoWorker}
    BY DEF RestartSync, StopRun, CancelActive, Settle, IInv, TypeOK
<1>5. TypeOK'
    BY <1>1, <1>2, <1>4 DEF IInv, TypeOK
<1> QED
    BY <1>2, <1>3, <1>5 DEF IInv

LEMMA SchedulerUsesPool == SchedulerNext => [Next]_vars \/ RestartSync
<1> SUFFICES ASSUME SchedulerNext PROVE [Next]_vars \/ RestartSync
    OBVIOUS
<1>1. CASE RunSettles \/ Boot \/ ChangeSettings
    BY <1>1 DEF RunSettles, Boot, ChangeSettings
<1>2. RunOnce => [Next]_vars
    BY DEF RunOnce, Next, Call
<1>3. CASE RequestRun \/ TimerFires
    BY <1>2, <1>3 DEF RequestRun, TimerFires
<1>4. CASE StopSync
  <2>1. CASE active # NoRun
      BY <1>4, <2>1 DEF StopSync, StopRun, Cancel, Next, Call
  <2>2. CASE active = NoRun
      BY <1>4, <2>2 DEF StopSync, StopRun, vars, runVars, timerVars
  <2> QED
      BY <2>1, <2>2
<1>5. CASE CloseSync
    BY <1>5 DEF CloseSync, Next, Call
<1>6. CASE PoolStep \/ ThreadStep
    BY <1>6 DEF Next
<1> QED
    BY <1>1, <1>3, <1>4, <1>5, <1>6 DEF SchedulerNext, SchedulerCall, Between

LEMMA SchedulerKeepsPool == IInv /\ [SchedulerNext]_allVars => IInv'
<1>1. UNCHANGED allVars => [Next]_vars
    BY DEF allVars
<1> QED
    BY <1>1, SchedulerUsesPool, StepInvariant, RestartSyncKeepsPool

LEMMA SchedulerKeepsAwaits == TypeOK /\ Awaits /\ [SchedulerNext]_allVars => Awaits'
<1> SUFFICES ASSUME TypeOK, Awaits, [SchedulerNext]_allVars PROVE Awaits'
    OBVIOUS
<1>1. CASE RunSettles \/ Boot \/ ChangeSettings \/ RestartSync
    BY <1>1 DEF Awaits, RunSettles, Boot, ChangeSettings, RestartSync
<1>2. RunOnce => awaited' \in Runs \cup {NoRun}
    BY PoolBoundsAssumption DEF RunOnce, TypeOK, Runs
<1>3. CASE RequestRun \/ TimerFires
    BY <1>2, <1>3 DEF Awaits, RequestRun, TimerFires
<1>4. CASE StopSync \/ CloseSync
    BY <1>4 DEF Awaits, StopSync, CloseSync
<1>5. CASE UNCHANGED schedulerVars
    BY <1>5 DEF Awaits, schedulerVars
<1> QED
    BY <1>1, <1>3, <1>4, <1>5 DEF SchedulerNext, SchedulerCall, Between, allVars

\* The invariant of the pool holds as well when it is the scheduler that calls it.
THEOREM ComposedInductive == SchedulerSpec => [](IInv /\ Awaits)
<1>1. SchedulerInit => IInv /\ Awaits
    BY InitInvariant DEF SchedulerInit, Awaits
<1>2. IInv => TypeOK
    BY DEF IInv
<1>3. IInv /\ Awaits /\ [SchedulerNext]_allVars => IInv' /\ Awaits'
    BY <1>2, SchedulerKeepsPool, SchedulerKeepsAwaits
<1> QED
    BY <1>1, <1>3, PTL DEF SchedulerSpec

\* The type invariant of the scheduler over its pool (SyncScheduler,
\* syncScheduler.ts).
THEOREM SchedulerTypeCorrect == SchedulerSpec => []SchedulerTypeOK
<1>1. IInv /\ Awaits /\ SInv => SchedulerTypeOK
    BY DEF IInv, Awaits, SInv, Numbers, SchedulerTypeOK
<1> QED
    BY <1>1, ComposedInductive, SchedulerInductive, PTL

\* With the scheduler, whose restart() cancels and resets at once, there are still
\* never two sync workers (restart, syncScheduler.ts).
THEOREM WorkersAreExclusiveUnderScheduler == SchedulerSpec => []OneWorkerAtATime
<1>1. IInv => OneWorkerAtATime
    BY DEF IInv, TypeOK, Staffing, OneWorkerAtATime
<1> QED
    BY <1>1, ComposedInductive, PTL

-------------------------------------------------------------------------------
(***************************************************************************)
(* The other promises of the pool, when the scheduler calls it.            *)
(***************************************************************************)
\* restart() cancels and resets in one step; a run that the worker has is left to
\* the reset, with its grace period.
LEMMA RestartSyncKeepsSafety == SafetyInv /\ RestartSync => SafetyInv'
<1> SUFFICES ASSUME SafetyInv, RestartSync PROVE SafetyInv'
    OBVIOUS
<1> USE NoWorkerAssumption
<1>1. IInv'
    BY RestartSyncKeepsPool DEF SafetyInv
<1>2. /\ Enqueue("restart", FALSE, NoWorker)
      /\ UNCHANGED <<worker, ready, closed, degraded, readinessFailures, workers, resetting>>
      /\ UNCHANGED <<nextId, readyTimer, killing, phase, thread, running, inbox, outbox>>
    BY DEF RestartSync, StopRun, poolVars, threadVars
<1>3. \/ UNCHANGED <<active, dispatched, cancelled, cancelTimer>>
      \/ ~dispatched /\ ~cancelled /\ Settle /\ UNCHANGED cancelTimer
      \/ /\ dispatched /\ cancelTimer' = worker /\ cancelled' = TRUE
         /\ UNCHANGED <<active, dispatched>>
    BY DEF RestartSync, StopRun, CancelActive, SafetyInv, Grace
<1>4. /\ cancelled => cancelled'
      /\ dispatched => dispatched' /\ active' = active
      /\ active' \in {active, NoRun}
    BY <1>3 DEF Settle
<1>5. /\ Chain'
      /\ (phase = "idle" /\ lifecycle # <<>> /\ Head(lifecycle).why = "cancel")' => cancelled'
      /\ ClosePending => ClosePending'
    BY <1>2, <1>4, WholeResetQueued
<1>6. Grace'
    BY <1>2, <1>3, <1>5 DEF SafetyInv, Grace, Settle
<1>7. Closing'
    BY <1>2, <1>4, <1>5 DEF SafetyInv, Closing
<1>8. Traffic'
    BY <1>2, <1>4, SameTraffic DEF SafetyInv
<1> QED
    BY <1>1, <1>5, <1>6, <1>7, <1>8 DEF SafetyInv

\* With a scheduler that cancels and resets at once, too, resets find the worker
\* they expect, the worker has the active run, a closed pool is quiet and the
\* grace period ends cancelled runs only (stop, restart and stopAndWait,
\* syncScheduler.ts).
THEOREM PoolIsSafeUnderScheduler ==
    SchedulerSpec => /\ [](ResetsMeetTheirWorker /\ RuntimeAgrees /\ ClosedIsQuiet)
                     /\ GraceKillsOnlyCancelled
<1> DEFINE A == (ResetBegin /\ Head(lifecycle).why = "cancel" /\ active # NoRun) => cancelled
<1>1. SchedulerInit => SafetyInv
    BY InitSafety DEF SchedulerInit
<1>2. SafetyInv /\ [SchedulerNext]_allVars => SafetyInv'
  <2>1. UNCHANGED allVars => [Next]_vars
      BY DEF allVars
  <2> QED
      BY <2>1, SchedulerUsesPool, SafetyStep, RestartSyncKeepsSafety
<1>3. SafetyInv => ResetsMeetTheirWorker /\ RuntimeAgrees /\ ClosedIsQuiet
    BY SafetyIsEnough
<1>4. SafetyInv /\ [SchedulerNext]_allVars => [A]_vars
    BY DEF SafetyInv, Grace, ResetBegin
<1> HIDE DEF A
<1>5. SchedulerSpec => [][A]_vars
    BY <1>1, <1>2, <1>4, PTL DEF SchedulerSpec
<1> QED
    BY <1>1, <1>2, <1>3, <1>5, PTL DEF SchedulerSpec, A, GraceKillsOnlyCancelled
================================================================================
