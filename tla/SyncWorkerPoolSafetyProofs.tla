----------------------- MODULE SyncWorkerPoolSafetyProofs -----------------------
(***************************************************************************)
(* The other safety properties of SyncWorkerPool, on top of the invariant  *)
(* of SyncWorkerPoolProofs: which worker a queued reset finds, whom the    *)
(* grace period of cancel() hits, where the active run is, and what close  *)
(* leaves behind.                                                          *)
(***************************************************************************)
EXTENDS SyncWorkerPoolProofs

\* Only the first reset of the chain expects a worker, and until it begins the
\* pool has that worker; a worker that failed or has left has such a reset.
Chain ==
    /\ phase = "idle" => killing = {}
    /\ \A j \in DOMAIN lifecycle : j > 1 => lifecycle[j].expected = NoWorker
    /\ (phase = "idle" /\ lifecycle # <<>>) => Expected(Head(lifecycle))
    /\ (phase = "idle" /\ worker # NoWorker /\ (worker \in resetting \/ worker \notin workers))
         => (lifecycle # <<>> /\ Head(lifecycle).expected = worker)

\* What runs is known to the pool, and a timer is about the worker it has.
Grace ==
    /\ ready => worker # NoWorker
    /\ dispatched => (ready /\ active # NoRun)
    /\ cancelled => dispatched
    /\ cancelTimer # NoWorker => (cancelTimer = worker /\ cancelled)
    /\ readyTimer # NoWorker => readyTimer = worker
    /\ (phase = "idle" /\ lifecycle # <<>> /\ Head(lifecycle).why = "cancel") => cancelled

\* The reset of close() is still to come, or it has taken the worker and the run.
ClosePending ==
    \E j \in DOMAIN lifecycle : lifecycle[j].why = "close" /\ (phase = "terminating" => j > 1)

Closing == closed => (ClosePending \/ (worker = NoWorker /\ active = NoRun))

\* The active run is in one place: on its way to the worker, with it, or on its
\* way back.
Answer(m) == m.type \in {"result", "error"}
NoAnswer(w) == \A j \in DOMAIN outbox[w] : ~Answer(outbox[w][j])
NoReady(w)  == \A j \in DOMAIN outbox[w] : outbox[w][j].type # "ready"

Carried(w) ==
    /\ inbox[w] # <<>> => /\ dispatched /\ Len(inbox[w]) = 1 /\ Head(inbox[w]) = active
                          /\ running[w] = NoRun /\ NoAnswer(w)
    /\ running[w] # NoRun => dispatched /\ running[w] = active /\ NoAnswer(w)
    /\ \A j \in DOMAIN outbox[w] : Answer(outbox[w][j]) => dispatched /\ outbox[w][j].id = active
    /\ \A i, j \in DOMAIN outbox[w] : (Answer(outbox[w][i]) /\ Answer(outbox[w][j])) => i = j

\* A thread says once that it is ready, before it is believed to be.
Started(w) ==
    /\ thread[w] = "booting" => (~ready /\ NoReady(w))
    /\ ~NoReady(w) => ~ready
    /\ \A i, j \in DOMAIN outbox[w] :
         (outbox[w][i].type = "ready" /\ outbox[w][j].type = "ready") => i = j

Traffic ==
    \A w \in Workers :
      /\ worker = w => Carried(w) /\ Started(w)
      /\ (worker # w /\ w \notin killing) => inbox[w] = <<>> /\ running[w] = NoRun

SafetyInv == IInv /\ Chain /\ Grace /\ Closing /\ Traffic

-------------------------------------------------------------------------------
LEMMA InitSafety == Init => SafetyInv
<1> SUFFICES ASSUME Init PROVE SafetyInv
    OBVIOUS
<1> USE NoWorkerAssumption
<1>1. IInv
    BY InitInvariant
<1>2. Chain /\ Grace /\ Closing
    BY DEF Init, Chain, Grace, Closing
<1>3. Traffic
    BY DEF Init, Traffic, Carried, Started, NoReady, NoAnswer
<1> QED
    BY <1>1, <1>2, <1>3 DEF SafetyInv

(***************************************************************************)
(* The chain of resets.                                                    *)
(***************************************************************************)
\* A reset of all threads joins a chain, behind the one that is first.
LEMMA WholeResetQueued ==
    ASSUME SafetyInv, NEW why \in {"restart", "close"}, Enqueue(why, FALSE, NoWorker),
           UNCHANGED <<worker, workers, resetting, killing, phase>>, cancelled => cancelled'
    PROVE  /\ Chain'
           /\ (phase = "idle" /\ lifecycle # <<>> /\ Head(lifecycle).why = "cancel")'
                => cancelled'
           /\ ClosePending => ClosePending'
           /\ why = "close" => ClosePending'
<1> USE NoWorkerAssumption DEF SafetyInv, IInv
<1> DEFINE r == [why |-> why, readiness |-> FALSE, expected |-> NoWorker]
<1>1. lifecycle \in Seq(Reset) /\ lifecycle' = Append(lifecycle, r) /\ r \in Reset
    BY DEF Enqueue, TypeOK, Reset
<1>2. /\ r.expected = NoWorker /\ r.why = why /\ r.why # "cancel"
      /\ lifecycle' \in Seq(Reset) /\ Len(lifecycle') = Len(lifecycle) + 1
      /\ lifecycle'[Len(lifecycle')] = r
      /\ \A j \in DOMAIN lifecycle : j \in DOMAIN lifecycle' /\ lifecycle'[j] = lifecycle[j]
      /\ lifecycle' # <<>>
      /\ lifecycle # <<>> => Head(lifecycle') = Head(lifecycle)
      /\ lifecycle = <<>> => Head(lifecycle') = r
    BY <1>1
<1> HIDE DEF r
<1>3. Chain'
  <2>1. \A j \in DOMAIN lifecycle' : j > 1 => lifecycle'[j].expected = NoWorker
      BY <1>1, <1>2 DEF Chain
  <2> QED
      BY <1>2, <2>1 DEF Chain, Expected
<1>4. (phase = "idle" /\ lifecycle # <<>> /\ Head(lifecycle).why = "cancel")' => cancelled'
    BY <1>2 DEF Grace
<1>5. ClosePending => ClosePending'
    BY <1>2 DEF ClosePending
<1>6. phase = "terminating" => lifecycle # <<>>
    BY DEF Attempts
<1>7. why = "close" => ClosePending'
    BY <1>1, <1>2, <1>6 DEF ClosePending
<1> QED
    BY <1>3, <1>4, <1>5, <1>7

\* A reset that expects a worker is queued when no other waits.
LEMMA WorkerResetQueued ==
    ASSUME SafetyInv, NEW w \in Workers, worker = w, NEW why \in {"failure", "cancel"}, NEW f \in BOOLEAN,
           Quiet, Enqueue(why, f, w), UNCHANGED <<worker, killing, phase, cancelled>>,
           why = "cancel" => cancelled
    PROVE  /\ Chain'
           /\ (phase = "idle" /\ lifecycle # <<>> /\ Head(lifecycle).why = "cancel")'
                => cancelled'
<1> USE NoWorkerAssumption DEF SafetyInv, IInv
<1> DEFINE r == [why |-> why, readiness |-> f, expected |-> w]
<1>1. phase = "idle" /\ lifecycle = <<>>
    BY DEF Quiet, Staffing, TypeOK
<1>2. lifecycle' = <<r>> /\ r.expected = w /\ r.why = why
    BY <1>1 DEF Enqueue
<1> HIDE DEF r
<1>3. lifecycle' # <<>> /\ Head(lifecycle') = r /\ \A j \in DOMAIN lifecycle' : ~(j > 1)
    BY <1>2
<1> QED
    BY <1>1, <1>2, <1>3 DEF Chain, Expected

\* A report of a failure: it is the first about the worker, or not needed.
LEMMA FailureQueued ==
    ASSUME SafetyInv, NEW w \in Workers, Quiet, Failure(w),
           workers' \in {workers, workers \ {w}},
           UNCHANGED <<worker, killing, phase, cancelled, closed, active>>
    PROVE  /\ Chain' /\ Closing'
           /\ (phase = "idle" /\ lifecycle # <<>> /\ Head(lifecycle).why = "cancel")'
                => cancelled'
<1> USE NoWorkerAssumption DEF SafetyInv, IInv
<1>1. worker = w => phase = "idle" /\ lifecycle = <<>>
    BY DEF Quiet, Staffing, TypeOK
<1>2. worker = w => ~closed
    BY <1>1 DEF Closing, ClosePending
<1>3. CASE UNCHANGED <<resetting, lifecycle>> /\ (worker # w \/ w \in resetting)
  <2>1. Chain'
      BY <1>1, <1>3 DEF Chain, Expected
  <2>2. Closing'
      BY <1>3 DEF Closing, ClosePending
  <2> QED
      BY <1>3, <2>1, <2>2 DEF Grace
<1>4. CASE ~closed /\ worker = w /\ Enqueue("failure", ~ready, w)
  <2>1. (~ready) \in BOOLEAN
      OBVIOUS
  <2>2. /\ Chain'
        /\ (phase = "idle" /\ lifecycle # <<>> /\ Head(lifecycle).why = "cancel")'
             => cancelled'
      BY <1>4, <2>1, WorkerResetQueued
  <2>3. Closing'
      BY <1>4 DEF Closing
  <2> QED
      BY <2>2, <2>3
<1> QED
    BY <1>2, <1>3, <1>4 DEF Failure

-------------------------------------------------------------------------------
(***************************************************************************)
(* The messages.                                                           *)
(***************************************************************************)
LEMMA OneElement == ASSUME NEW x PROVE Len(<<x>>) = 1 /\ Head(<<x>>) = x
    OBVIOUS

LEMMA TakeFacts ==
    ASSUME TypeOK, NEW w \in Workers, NEW types, Take(w, types)
    PROVE  /\ Quiet /\ outbox[w] \in Seq(ToPool)
           /\ 1 \in DOMAIN outbox[w] /\ outbox[w][1] = Head(outbox[w]) /\ outbox[w][1].type \in types
           /\ \A v \in Workers \ {w} : outbox'[v] = outbox[v]
           /\ \A j \in DOMAIN outbox'[w] :
                /\ j \in Nat \ {0} /\ j + 1 \in DOMAIN outbox[w]
                /\ outbox'[w][j] = outbox[w][j + 1]
<1>1. /\ Quiet /\ outbox[w] \in Seq(ToPool) /\ outbox[w] # <<>> /\ Head(outbox[w]).type \in types
      /\ outbox'[w] = Tail(outbox[w]) /\ \A v \in Workers \ {w} : outbox'[v] = outbox[v]
    BY DEF Take, TypeOK
<1> QED
    BY <1>1

LEMMA EmitFacts ==
    ASSUME TypeOK, NEW w \in Workers, NEW m \in ToPool, Emit(w, m)
    PROVE  /\ \A v \in Workers \ {w} : outbox'[v] = outbox[v]
           /\ \A j \in DOMAIN outbox[w] : j \in 1..Len(outbox[w])
           /\ Len(outbox[w]) \in Nat
           /\ \A j \in DOMAIN outbox'[w] :
                \/ j \in DOMAIN outbox[w] /\ outbox'[w][j] = outbox[w][j]
                \/ j = Len(outbox[w]) + 1 /\ outbox'[w][j] = m
<1>1. /\ outbox[w] \in Seq(ToPool) /\ outbox'[w] = Append(outbox[w], m)
      /\ \A v \in Workers \ {w} : outbox'[v] = outbox[v]
    BY DEF Emit, TypeOK
<1> QED
    BY <1>1

\* The queues of another thread, and of every thread when none changes.
LEMMA SameQueues ==
    ASSUME NEW w, UNCHANGED <<active, dispatched, ready>>,
           inbox'[w] = inbox[w], running'[w] = running[w],
           outbox'[w] = outbox[w], thread'[w] = thread[w],
           Carried(w), Started(w)
    PROVE  Carried(w)' /\ Started(w)'
    BY DEF Carried, Started, NoAnswer, NoReady

-------------------------------------------------------------------------------
(***************************************************************************)
(* One step of each kind.                                                  *)
(***************************************************************************)
LEMMA RunSafe == SafetyInv /\ Run => Chain' /\ Grace' /\ Closing' /\ Traffic'
<1> SUFFICES ASSUME SafetyInv, Run PROVE Chain' /\ Grace' /\ Closing' /\ Traffic'
    OBVIOUS
<1> USE NoWorkerAssumption, PoolBoundsAssumption DEF SafetyInv, IInv
<1>1. /\ ~closed /\ active = NoRun /\ active' = nextId /\ nextId \in Runs
      /\ dispatched' = (ready /\ worker # NoWorker)
      /\ UNCHANGED <<worker, ready, closed, workers, resetting, cancelled, cancelTimer, readyTimer>>
      /\ UNCHANGED <<lifecycle, killing, phase, thread, running, outbox>>
    BY DEF Run, Runs, TypeOK, poolVars, timerVars, resetVars
<1>2. nextId # NoRun /\ ~dispatched /\ ~cancelled
    BY <1>1 DEF Runs, NoRun, Grace
<1>3. Chain' /\ Closing'
    BY <1>1 DEF Chain, Expected, Closing
<1>4. Grace'
    BY <1>1, <1>2 DEF Grace
<1>5. /\ dispatched' => worker \in Workers /\ inbox' = [inbox EXCEPT ![worker] = Append(@, nextId)]
      /\ ~dispatched' => inbox' = inbox
    BY <1>1 DEF Run, Post, TypeOK
<1>6. ASSUME NEW w \in Workers, worker = w PROVE Carried(w)' /\ Started(w)'
  <2>1. Carried(w) /\ Started(w)
      BY <1>6 DEF Traffic
  <2>2. inbox[w] = <<>> /\ running[w] = NoRun /\ NoAnswer(w)
      BY <1>2, <2>1 DEF Carried, NoAnswer
  <2>3. running'[w] = NoRun /\ NoAnswer(w)'
      BY <1>1, <2>2 DEF NoAnswer
  <2>4. inbox'[w] = <<>> \/ (dispatched' /\ inbox'[w] = <<nextId>>)
      BY <1>5, <1>6, <2>2 DEF TypeOK
  <2>5. Carried(w)'
    <3>1. inbox'[w] # <<>> => dispatched' /\ Len(inbox'[w]) = 1 /\ Head(inbox'[w]) = active'
        BY <1>1, <2>4, OneElement
    <3> QED
        BY <2>3, <3>1 DEF Carried, NoAnswer
  <2>6. Started(w)'
      BY <1>1, <2>1 DEF Started, NoReady
  <2> QED
      BY <2>5, <2>6
<1>7. ASSUME NEW w \in Workers, worker # w, w \notin killing
      PROVE  inbox'[w] = <<>> /\ running'[w] = NoRun
    BY <1>1, <1>5, <1>7 DEF Traffic, TypeOK
<1>8. Traffic'
    BY <1>1, <1>6, <1>7 DEF Traffic
<1> QED
    BY <1>3, <1>4, <1>8

\* A step that leaves a dispatched run, the threads and their queues alone.
LEMMA SameTraffic ==
    ASSUME Traffic, dispatched => dispatched' /\ active' = active,
           UNCHANGED <<worker, ready, killing, thread, running, inbox, outbox>>
    PROVE  Traffic'
<1>1. ASSUME NEW w \in Workers, worker = w PROVE Carried(w)' /\ Started(w)'
  <2>1. Carried(w) /\ Started(w)
      BY <1>1 DEF Traffic
  <2> QED
      BY <2>1 DEF Carried, Started, NoAnswer, NoReady
<1> QED
    BY <1>1 DEF Traffic

LEMMA CancelSafe == SafetyInv /\ Cancel => Chain' /\ Grace' /\ Closing' /\ Traffic'
<1> SUFFICES ASSUME SafetyInv, Cancel PROVE Chain' /\ Grace' /\ Closing' /\ Traffic'
    OBVIOUS
<1> USE NoWorkerAssumption DEF SafetyInv, IInv
<1>1. /\ UNCHANGED <<worker, ready, closed, workers, resetting, readyTimer>>
      /\ UNCHANGED <<lifecycle, killing, phase, thread, running, inbox, outbox>>
      /\ active # NoRun /\ CancelActive
    BY DEF Cancel, poolVars, resetVars, threadVars
<1>2. \/ ~dispatched /\ ~cancelled /\ Settle /\ UNCHANGED cancelTimer
      \/ /\ dispatched /\ cancelTimer' = worker /\ cancelled' = TRUE
         /\ UNCHANGED <<active, dispatched>>
    BY <1>1 DEF CancelActive, Grace
<1>3. Chain'
    BY <1>1 DEF Chain, Expected
<1>4. Grace' /\ (dispatched' => dispatched /\ active' = active)
    BY <1>1, <1>2 DEF Grace, Settle
<1>5. Closing'
    BY <1>1, <1>2 DEF Closing, ClosePending, Settle
<1>6. Traffic'
    BY <1>1, <1>2, SameTraffic
<1> QED
    BY <1>3, <1>4, <1>5, <1>6

LEMMA RestartCloseSafe ==
    SafetyInv /\ (Restart \/ Close) => Chain' /\ Grace' /\ Closing' /\ Traffic'
<1> SUFFICES ASSUME SafetyInv, Restart \/ Close PROVE Chain' /\ Grace' /\ Closing' /\ Traffic'
    OBVIOUS
<1>1. /\ UNCHANGED <<worker, ready, workers, resetting, active, dispatched, cancelled>>
      /\ UNCHANGED <<cancelTimer, readyTimer, killing, phase, thread, running, inbox, outbox>>
    BY DEF Restart, Close, poolVars, runVars, timerVars, threadVars
<1>2. PICK why \in {"restart", "close"} :
         Enqueue(why, FALSE, NoWorker) /\ (closed' => closed \/ why = "close")
  <2>1. CASE Restart
      BY <2>1 DEF Restart, poolVars
  <2>2. CASE Close
      BY <2>2 DEF Close
  <2> QED
      BY <2>1, <2>2
<1>3. /\ Chain'
      /\ (phase = "idle" /\ lifecycle # <<>> /\ Head(lifecycle).why = "cancel")' => cancelled'
      /\ ClosePending => ClosePending'
      /\ why = "close" => ClosePending'
    BY <1>1, <1>2, WholeResetQueued
<1>4. Grace'
    BY <1>1, <1>3 DEF Grace, SafetyInv
<1>5. Closing'
    BY <1>1, <1>2, <1>3 DEF Closing, SafetyInv
<1>6. Traffic'
    BY <1>1, SameTraffic DEF SafetyInv
<1> QED
    BY <1>3, <1>4, <1>5, <1>6

LEMMA ResetBeginSafe == SafetyInv /\ ResetBegin => Chain' /\ Grace' /\ Closing' /\ Traffic'
<1> SUFFICES ASSUME SafetyInv, ResetBegin PROVE Chain' /\ Grace' /\ Closing' /\ Traffic'
    OBVIOUS
<1> USE NoWorkerAssumption DEF SafetyInv, IInv
<1> DEFINE r == Head(lifecycle)
<1>1. /\ phase = "idle" /\ lifecycle # <<>> /\ Expected(r) /\ lifecycle \in Seq(Reset)
      /\ killing' = IF r.expected = NoWorker THEN workers ELSE {r.expected}
      /\ r = lifecycle[1]
    BY DEF ResetBegin, TypeOK
<1>2. /\ cancelTimer' = NoWorker /\ readyTimer' = NoWorker
      /\ ready' = FALSE /\ worker' = NoWorker
      /\ active' = NoRun /\ dispatched' = FALSE /\ cancelled' = FALSE
      /\ phase' = "terminating"
      /\ UNCHANGED <<closed, workers, lifecycle, thread, running, inbox, outbox>>
    BY DEF ResetBegin, Settle, threadVars
<1>3. Chain'
    BY <1>1, <1>2 DEF Chain
<1>4. Grace'
    BY <1>2 DEF Grace
<1>5. Closing'
    BY <1>2 DEF Closing
<1>6. worker # NoWorker => worker \in killing'
    BY <1>1 DEF Chain, Expected
<1>7. killing = {}
    BY <1>1 DEF Chain
<1>8. Traffic'
    BY <1>2, <1>6, <1>7 DEF Traffic
<1> QED
    BY <1>3, <1>4, <1>5, <1>8

LEMMA ResetEndSafe == SafetyInv /\ ResetEnd => Chain' /\ Grace' /\ Closing' /\ Traffic'
<1> SUFFICES ASSUME SafetyInv, ResetEnd PROVE Chain' /\ Grace' /\ Closing' /\ Traffic'
    OBVIOUS
<1> USE NoWorkerAssumption DEF SafetyInv, IInv
<1>1. /\ phase = "terminating" /\ killing = {} /\ worker = NoWorker /\ workers = {}
      /\ lifecycle \in Seq(Reset) /\ lifecycle # <<>> /\ lifecycle' = Tail(lifecycle)
      /\ phase' = "idle"
      /\ UNCHANGED <<ready, closed, killing, active, dispatched, cancelled, cancelTimer>>
      /\ UNCHANGED <<running, inbox, outbox>>
    BY DEF ResetEnd, Staffing, Attempts, TypeOK, runVars
<1>2. ~ready /\ ~dispatched /\ ~cancelled /\ cancelTimer = NoWorker /\ readyTimer = NoWorker
    BY <1>1 DEF Grace, TypeOK
<1>3. /\ \A j \in DOMAIN lifecycle' :
           j \in Nat \ {0} /\ j + 1 \in DOMAIN lifecycle /\ lifecycle'[j] = lifecycle[j + 1]
      /\ \A j \in DOMAIN lifecycle : j > 1 => j - 1 \in DOMAIN lifecycle'
      /\ lifecycle' # <<>> => 1 \in DOMAIN lifecycle' /\ Head(lifecycle') = lifecycle'[1]
    BY <1>1
<1>4. \A j \in DOMAIN lifecycle' : lifecycle'[j].expected = NoWorker
    BY <1>3 DEF Chain
<1>5. lifecycle' # <<>> => Head(lifecycle').expected = NoWorker /\ Head(lifecycle').why # "cancel"
  <2>1. \A j \in DOMAIN lifecycle : lifecycle[j].expected = NoWorker => lifecycle[j].why # "cancel"
      BY DEF Attempts, Purposes, Purpose
  <2> QED
      BY <1>3, <1>4, <2>1
<1>6. ASSUME ClosePending PROVE ClosePending'
  <2>1. PICK j \in DOMAIN lifecycle : lifecycle[j].why = "close" /\ j > 1
      BY <1>1, <1>6 DEF ClosePending
  <2>2. j - 1 \in DOMAIN lifecycle' /\ lifecycle'[j - 1] = lifecycle[j]
      BY <1>1, <1>3, <2>1
  <2> QED
      BY <1>1, <2>1, <2>2 DEF ClosePending
<1>7. \A w \in Workers : inbox[w] = <<>> /\ running[w] = NoRun /\ outbox[w] = <<>>
    BY <1>1 DEF Traffic, Mail
<1>8. CASE UNCHANGED <<worker, workers, resetting, readyTimer, thread>>
  <2>1. Chain'
      BY <1>1, <1>3, <1>4, <1>5, <1>8 DEF Chain, Expected
  <2>2. Grace'
      BY <1>1, <1>2, <1>5, <1>8 DEF Grace
  <2>3. Closing'
      BY <1>1, <1>6, <1>8 DEF Closing
  <2>4. Traffic'
      BY <1>1, <1>7, <1>8 DEF Traffic
  <2> QED
      BY <2>1, <2>2, <2>3, <2>4
<1>9. CASE Spawn /\ ~closed
  <2>1. PICK w \in Workers : /\ worker' = w /\ workers' = workers \cup {w}
                             /\ resetting' = resetting \ {w} /\ readyTimer' = w
      BY <1>9 DEF Spawn, Fresh
  <2>2. Chain'
      BY <1>1, <1>3, <1>4, <1>5, <2>1 DEF Chain, Expected
  <2>3. Grace'
      BY <1>1, <1>2, <1>5, <2>1 DEF Grace
  <2>4. Closing'
      BY <1>1, <1>9 DEF Closing
  <2>5. Traffic'
      BY <1>1, <1>2, <1>7 DEF Traffic, Carried, Started, NoAnswer, NoReady
  <2> QED
      BY <2>2, <2>3, <2>4, <2>5
<1> QED
    BY <1>8, <1>9 DEF ResetEnd

LEMMA TerminatedSafe ==
    ASSUME SafetyInv, NEW w \in Workers, Terminated(w)
    PROVE  Chain' /\ Grace' /\ Closing' /\ Traffic'
<1> USE NoWorkerAssumption DEF SafetyInv, IInv
<1>1. /\ w \in killing /\ killing' = killing \ {w}
      /\ workers' = workers \ {w} /\ resetting' = resetting \ {w}
      /\ UNCHANGED <<worker, ready, closed, active, dispatched, cancelled>>
      /\ UNCHANGED <<cancelTimer, readyTimer, lifecycle, phase>>
    BY DEF Terminated, runVars, timerVars
<1>2. phase = "terminating" /\ worker = NoWorker
    BY <1>1 DEF Chain, Staffing, TypeOK
<1>3. Chain' /\ Grace' /\ Closing'
    BY <1>1, <1>2 DEF Chain, Grace, Closing, ClosePending
<1>4. /\ inbox'[w] = <<>> /\ running'[w] = NoRun
      /\ \A v \in Workers \ {w} : inbox'[v] = inbox[v] /\ running'[v] = running[v]
    BY DEF Terminated, TypeOK
<1>5. Traffic'
    BY <1>1, <1>2, <1>4 DEF Traffic
<1> QED
    BY <1>3, <1>5

LEMMA DeadlineSafe ==
    ASSUME SafetyInv, NEW w \in Workers, ReadyDeadline(w) \/ CancelDeadline(w)
    PROVE  Chain' /\ Grace' /\ Closing' /\ Traffic'
<1> USE NoWorkerAssumption DEF SafetyInv, IInv
<1>1. /\ Quiet
      /\ UNCHANGED <<worker, ready, closed, workers, active, dispatched, cancelled>>
      /\ UNCHANGED <<killing, phase, thread, running, inbox, outbox>>
    BY DEF ReadyDeadline, CancelDeadline, poolVars, runVars, threadVars
<1>2. Traffic'
    BY <1>1, SameTraffic
<1>3. CASE ReadyDeadline(w)
  <2>1. readyTimer' = NoWorker /\ Failure(w) /\ cancelTimer' = cancelTimer
      BY <1>3 DEF ReadyDeadline
  <2>2. /\ Chain' /\ Closing'
        /\ (phase = "idle" /\ lifecycle # <<>> /\ Head(lifecycle).why = "cancel")' => cancelled'
      BY <1>1, <2>1, FailureQueued
  <2>3. Grace'
      BY <1>1, <2>1, <2>2 DEF Grace
  <2> QED
      BY <1>2, <2>2, <2>3
<1>4. CASE CancelDeadline(w)
  <2>1. /\ cancelTimer = w /\ cancelTimer' = NoWorker /\ Enqueue("cancel", FALSE, w)
        /\ UNCHANGED <<resetting, readyTimer>>
      BY <1>4 DEF CancelDeadline, poolVars
  <2>2. worker = w /\ cancelled
      BY <2>1 DEF Grace
  <2>3. FALSE \in BOOLEAN
      OBVIOUS
  <2>4. /\ Chain'
        /\ (phase = "idle" /\ lifecycle # <<>> /\ Head(lifecycle).why = "cancel")' => cancelled'
      BY <1>1, <2>1, <2>2, <2>3, WorkerResetQueued
  <2>5. Grace'
      BY <1>1, <2>1, <2>4 DEF Grace
  <2>6. lifecycle = <<>> /\ ~closed
      BY <1>1, <2>2 DEF Quiet, Staffing, TypeOK, Closing, ClosePending
  <2>7. Closing'
      BY <1>1, <2>6 DEF Closing
  <2> QED
      BY <1>2, <2>4, <2>5, <2>7
<1> QED
    BY <1>3, <1>4

\* The message of w is taken and changes no more than the queue of w.
LEMMA TakenSafe ==
    ASSUME SafetyInv, NEW w \in Workers, NEW types, Take(w, types),
           UNCHANGED <<worker, ready, active, dispatched, killing, thread, running, inbox>>
    PROVE  Traffic'
<1> USE DEF SafetyInv, IInv
<1>1. /\ \A v \in Workers \ {w} : outbox'[v] = outbox[v]
      /\ \A j \in DOMAIN outbox'[w] :
           /\ j \in Nat \ {0} /\ j + 1 \in DOMAIN outbox[w]
           /\ outbox'[w][j] = outbox[w][j + 1]
    BY TakeFacts
<1>2. ASSUME worker = w PROVE Carried(w)' /\ Started(w)'
  <2>1. Carried(w) /\ Started(w)
      BY <1>2 DEF Traffic
  <2>2. (NoAnswer(w) => NoAnswer(w)') /\ (NoReady(w) => NoReady(w)')
      BY <1>1 DEF NoAnswer, NoReady
  <2>3. Carried(w)'
      BY <1>1, <2>1, <2>2 DEF Carried
  <2>4. Started(w)'
      BY <1>1, <2>1, <2>2 DEF Started
  <2> QED
      BY <2>3, <2>4
<1>3. ASSUME NEW v \in Workers \ {w}, worker = v PROVE Carried(v)' /\ Started(v)'
  <2>1. Carried(v) /\ Started(v) /\ outbox'[v] = outbox[v]
      BY <1>1, <1>3 DEF Traffic
  <2>2. /\ UNCHANGED <<active, dispatched, ready>>
        /\ inbox'[v] = inbox[v] /\ running'[v] = running[v] /\ thread'[v] = thread[v]
      OBVIOUS
  <2> QED
      BY <2>1, <2>2, SameQueues
<1> QED
    BY <1>2, <1>3 DEF Traffic

LEMMA OnReadySafe ==
    ASSUME SafetyInv, NEW w \in Workers, OnReady(w)
    PROVE  Chain' /\ Grace' /\ Closing' /\ Traffic'
<1> USE NoWorkerAssumption DEF SafetyInv, IInv
<1>1. /\ worker = w /\ readyTimer' = NoWorker /\ ready' = TRUE /\ dispatched' = (active # NoRun)
      /\ UNCHANGED <<worker, closed, workers, resetting, active, cancelled, cancelTimer>>
      /\ UNCHANGED <<lifecycle, killing, phase, thread, running>>
    BY DEF OnReady, Heard, resetVars
<1>2. /\ 1 \in DOMAIN outbox[w] /\ outbox[w][1].type = "ready"
      /\ \A j \in DOMAIN outbox'[w] :
           /\ j \in Nat \ {0} /\ j + 1 \in DOMAIN outbox[w]
           /\ outbox'[w][j] = outbox[w][j + 1]
  <2>1. Take(w, {"ready"})
      BY DEF OnReady
  <2>2. /\ 1 \in DOMAIN outbox[w] /\ outbox[w][1].type \in {"ready"}
        /\ \A j \in DOMAIN outbox'[w] :
             /\ j \in Nat \ {0} /\ j + 1 \in DOMAIN outbox[w]
             /\ outbox'[w][j] = outbox[w][j + 1]
      BY <2>1, TakeFacts
  <2> QED
      BY <2>2
<1>3. Chain' /\ Closing'
    BY <1>1 DEF Chain, Expected, Closing, ClosePending
<1>4. Grace'
    BY <1>1 DEF Grace
<1>5. Carried(w) /\ Started(w)
    BY <1>1 DEF Traffic
<1>6. ~ready /\ ~dispatched
    BY <1>2, <1>5 DEF Started, NoReady, Grace
<1>7. inbox[w] = <<>> /\ running[w] = NoRun /\ NoAnswer(w) /\ thread[w] # "booting"
    BY <1>2, <1>5, <1>6 DEF Carried, NoAnswer, Started, NoReady
<1>8. NoAnswer(w)' /\ NoReady(w)'
  <2>1. NoAnswer(w)'
      BY <1>2, <1>7 DEF NoAnswer
  <2>2. NoReady(w)'
      BY <1>2, <1>5 DEF NoReady, Started
  <2> QED
      BY <2>1, <2>2
<1>9. /\ inbox'[w] = <<>> \/ (dispatched' /\ inbox'[w] = <<active'>>)
      /\ \A v \in Workers \ {w} : inbox'[v] = inbox[v]
  <2>1. CASE active = NoRun
      BY <1>7, <2>1 DEF OnReady
  <2>2. CASE active # NoRun
    <3>1. inbox' = [inbox EXCEPT ![w] = Append(@, active)] /\ active' = active /\ dispatched'
        BY <1>1, <2>2 DEF OnReady, Post
    <3>2. inbox'[w] = Append(<<>>, active)
        BY <1>7, <3>1 DEF TypeOK
    <3> QED
        BY <3>1, <3>2 DEF TypeOK
  <2> QED
      BY <2>1, <2>2
<1>10. Carried(w)'
  <2>1. inbox'[w] # <<>> => dispatched' /\ Len(inbox'[w]) = 1 /\ Head(inbox'[w]) = active'
      BY <1>9, OneElement
  <2> QED
      BY <1>1, <1>7, <1>8, <2>1 DEF Carried, NoAnswer
<1>11. Started(w)'
    BY <1>1, <1>7, <1>8 DEF Started, NoReady
<1>12. Traffic'
    BY <1>1, <1>9, <1>10, <1>11 DEF Traffic
<1> QED
    BY <1>3, <1>4, <1>12

LEMMA OnAnswerSafe ==
    ASSUME SafetyInv, NEW w \in Workers, OnAnswer(w)
    PROVE  Chain' /\ Grace' /\ Closing' /\ Traffic'
<1> USE NoWorkerAssumption DEF SafetyInv, IInv
<1>1. /\ worker = w /\ cancelTimer' = NoWorker
      /\ active' = NoRun /\ ~dispatched' /\ ~cancelled'
      /\ UNCHANGED <<worker, ready, closed, workers, resetting, readyTimer>>
      /\ UNCHANGED <<lifecycle, killing, phase, thread, running, inbox>>
    BY DEF OnAnswer, Heard, Settle, poolVars, resetVars
<1>2. /\ Quiet /\ 1 \in DOMAIN outbox[w] /\ outbox[w][1].type \in {"result", "error"}
      /\ \A j \in DOMAIN outbox'[w] :
           /\ j \in Nat \ {0} /\ j + 1 \in DOMAIN outbox[w]
           /\ outbox'[w][j] = outbox[w][j + 1]
  <2>1. Take(w, {"result", "error"})
      BY DEF OnAnswer
  <2> QED
      BY <2>1, TakeFacts
<1>3. Chain'
    BY <1>1 DEF Chain, Expected
<1>4. Grace'
    BY <1>1, <1>2 DEF Grace, Quiet
<1>5. Closing'
    BY <1>1 DEF Closing, ClosePending
<1>6. Carried(w) /\ Started(w)
    BY <1>1 DEF Traffic
<1>7. inbox[w] = <<>> /\ running[w] = NoRun
    BY <1>2, <1>6 DEF Carried, NoAnswer, Answer
<1>8. NoAnswer(w)'
  <2>1. \A j \in DOMAIN outbox[w] : j # 1 => ~Answer(outbox[w][j])
      BY <1>2, <1>6 DEF Carried, Answer
  <2> QED
      BY <1>2, <2>1 DEF NoAnswer
<1>9. Carried(w)'
    BY <1>1, <1>7, <1>8 DEF Carried, NoAnswer
<1>10. Started(w)'
  <2>1. NoReady(w) => NoReady(w)'
      BY <1>2 DEF NoReady
  <2> QED
      BY <1>1, <1>2, <1>6, <2>1 DEF Started
<1>11. Traffic'
    BY <1>1, <1>9, <1>10 DEF Traffic
<1> QED
    BY <1>3, <1>4, <1>5, <1>11

LEMMA OnStaleSafe ==
    ASSUME SafetyInv, NEW w \in Workers, OnStale(w)
    PROVE  Chain' /\ Grace' /\ Closing' /\ Traffic'
<1> USE DEF SafetyInv
<1>1. /\ UNCHANGED <<worker, ready, closed, workers, resetting, active, dispatched, cancelled>>
      /\ UNCHANGED <<cancelTimer, readyTimer, lifecycle, killing, phase, thread, running, inbox>>
    BY DEF OnStale, poolVars, runVars, timerVars, resetVars
<1>2. Chain' /\ Grace' /\ Closing'
    BY <1>1 DEF Chain, Expected, Grace, Closing, ClosePending
<1>3. Traffic'
  <2>1. Take(w, {"ready", "result", "error"})
      BY DEF OnStale
  <2> QED
      BY <1>1, <2>1, TakenSafe
<1> QED
    BY <1>2, <1>3

LEMMA OnExitSafe ==
    ASSUME SafetyInv, NEW w \in Workers, OnExit(w)
    PROVE  Chain' /\ Grace' /\ Closing' /\ Traffic'
<1> USE DEF SafetyInv
<1>1. /\ workers' = workers \ {w} /\ Failure(w) /\ Take(w, {"exit"})
      /\ UNCHANGED <<worker, ready, closed, active, dispatched, cancelled>>
      /\ UNCHANGED <<cancelTimer, readyTimer, killing, phase, thread, running, inbox>>
    BY DEF OnExit, runVars, timerVars
<1>2. Quiet
    BY <1>1 DEF Take
<1>3. /\ Chain' /\ Closing'
      /\ (phase = "idle" /\ lifecycle # <<>> /\ Head(lifecycle).why = "cancel")' => cancelled'
    BY <1>1, <1>2, FailureQueued
<1>4. Grace'
    BY <1>1, <1>3 DEF Grace
<1>5. Traffic'
    BY <1>1, TakenSafe
<1> QED
    BY <1>3, <1>4, <1>5

\* A living thread is the current one, or one that a reset waits for.
LEMMA LivingThread ==
    ASSUME SafetyInv, NEW w \in Workers, Live(w)
    PROVE  worker = w \/ w \in killing
    BY NoWorkerAssumption DEF SafetyInv, IInv, TypeOK, Staffing

\* What a thread does with its own run and its own queues.
LEMMA ThreadTraffic ==
    ASSUME SafetyInv, NEW w \in Workers, Live(w),
           UNCHANGED <<worker, ready, active, dispatched, killing>>,
           \A v \in Workers \ {w} :
              /\ inbox'[v] = inbox[v] /\ running'[v] = running[v]
              /\ outbox'[v] = outbox[v] /\ thread'[v] = thread[v],
           worker = w => Carried(w)' /\ Started(w)'
    PROVE  Traffic'
<1>1. worker = w \/ w \in killing
    BY LivingThread
<1>2. ASSUME NEW v \in Workers, worker = v, v # w PROVE Carried(v)' /\ Started(v)'
  <2>1. Carried(v) /\ Started(v)
      BY <1>2 DEF SafetyInv, Traffic
  <2> QED
      BY <1>2, <2>1, SameQueues
<1> QED
    BY <1>1, <1>2 DEF SafetyInv, Traffic

LEMMA ThreadSafe == SafetyInv /\ ThreadStep => Chain' /\ Grace' /\ Closing' /\ Traffic'
<1> SUFFICES ASSUME SafetyInv, NEW w \in Workers,
                    WorkerBoots(w) \/ WorkerReceives(w) \/ WorkerAnswers(w) \/ WorkerDies(w)
             PROVE  Chain' /\ Grace' /\ Closing' /\ Traffic'
    BY DEF ThreadStep
<1> USE DEF SafetyInv, IInv
<1>1. /\ UNCHANGED <<worker, ready, closed, workers, resetting, active, dispatched, cancelled>>
      /\ UNCHANGED <<cancelTimer, readyTimer, lifecycle, killing, phase>>
      /\ Live(w)
    BY DEF WorkerBoots, WorkerReceives, WorkerAnswers, WorkerDies, Live,
           poolVars, runVars, timerVars, resetVars
<1>2. Chain' /\ Grace' /\ Closing'
    BY <1>1 DEF Chain, Expected, Grace, Closing, ClosePending
<1>3. \A v \in Workers \ {w} :
         /\ inbox'[v] = inbox[v] /\ running'[v] = running[v]
         /\ outbox'[v] = outbox[v] /\ thread'[v] = thread[v]
    BY DEF WorkerBoots, WorkerReceives, WorkerAnswers, WorkerDies, Emit, TypeOK
<1>4. worker = w => Carried(w) /\ Started(w)
    BY DEF Traffic
<1>5. CASE WorkerBoots(w)
  <2> DEFINE m == [type |-> "ready"]
  <2>1. /\ m \in ToPool /\ m.type = "ready"
        /\ thread[w] = "booting" /\ thread'[w] = "up" /\ Emit(w, m)
        /\ inbox'[w] = inbox[w] /\ running'[w] = running[w]
      BY <1>5 DEF WorkerBoots, ToPool, TypeOK
  <2> HIDE DEF m
  <2>2. /\ Len(outbox[w]) \in Nat /\ \A j \in DOMAIN outbox[w] : j \in 1..Len(outbox[w])
        /\ \A j \in DOMAIN outbox'[w] :
             \/ j \in DOMAIN outbox[w] /\ outbox'[w][j] = outbox[w][j]
             \/ j = Len(outbox[w]) + 1 /\ outbox'[w][j] = m
      BY <2>1, EmitFacts
  <2>3. ASSUME worker = w PROVE Carried(w)' /\ Started(w)'
    <3>1. Carried(w) /\ Started(w) /\ ~ready /\ NoReady(w)
        BY <1>4, <2>1, <2>3 DEF Started
    <3>2. ~Answer(m) /\ (NoAnswer(w) => NoAnswer(w)')
        BY <2>1, <2>2 DEF Answer, NoAnswer
    <3>3. Carried(w)'
        BY <1>1, <2>1, <2>2, <3>1, <3>2 DEF Carried
    <3>4. Started(w)'
        BY <1>1, <2>1, <2>2, <3>1 DEF Started, NoReady
    <3> QED
        BY <3>3, <3>4
  <2>4. Traffic'
      BY <1>1, <1>3, <2>3, ThreadTraffic
  <2> QED
      BY <1>2, <2>4
<1>6. CASE WorkerReceives(w)
  <2>1. /\ inbox[w] \in Seq(Runs) /\ inbox[w] # <<>> /\ inbox'[w] = Tail(inbox[w])
        /\ thread' = thread
        /\ running[w] = NoRun => running'[w] = Head(inbox[w]) /\ outbox' = outbox
      BY <1>6 DEF WorkerReceives, TypeOK
  <2>2. ASSUME worker = w PROVE Carried(w)' /\ Started(w)'
    <3>1. /\ dispatched /\ Len(inbox[w]) = 1 /\ Head(inbox[w]) = active
          /\ running[w] = NoRun /\ NoAnswer(w) /\ Started(w)
        BY <1>4, <2>1, <2>2 DEF Carried
    <3>2. Tail(inbox[w]) \in Seq(Runs) /\ Len(Tail(inbox[w])) = 0
        BY <2>1, <3>1
    <3>3. inbox'[w] = <<>>
        BY <2>1, <3>2, EmptySeq
    <3>4. running'[w] = active /\ outbox' = outbox
        BY <2>1, <3>1
    <3>5. Carried(w)'
        BY <1>1, <3>1, <3>3, <3>4 DEF Carried, NoAnswer
    <3>6. Started(w)'
        BY <1>1, <2>1, <3>1, <3>4 DEF Started, NoReady
    <3> QED
        BY <3>5, <3>6
  <2>3. Traffic'
      BY <1>1, <1>3, <2>2, ThreadTraffic
  <2> QED
      BY <1>2, <2>3
<1>7. CASE WorkerAnswers(w)
  <2>1. PICK t \in {"result", "error"} : Emit(w, [type |-> t, id |-> running[w]])
      BY <1>7 DEF WorkerAnswers
  <2> DEFINE m == [type |-> t, id |-> running[w]]
  <2>2. /\ m \in ToPool /\ m.type = t /\ m.id = running[w] /\ Emit(w, m)
        /\ running[w] # NoRun /\ running'[w] = NoRun
        /\ inbox' = inbox /\ thread' = thread
      BY <1>7, <2>1 DEF WorkerAnswers, ToPool, TypeOK
  <2> HIDE DEF m
  <2>3. /\ Len(outbox[w]) \in Nat /\ \A j \in DOMAIN outbox[w] : j \in 1..Len(outbox[w])
        /\ \A j \in DOMAIN outbox'[w] :
             \/ j \in DOMAIN outbox[w] /\ outbox'[w][j] = outbox[w][j]
             \/ j = Len(outbox[w]) + 1 /\ outbox'[w][j] = m
      BY <2>2, EmitFacts
  <2>4. ASSUME worker = w PROVE Carried(w)' /\ Started(w)'
    <3>1. /\ dispatched /\ running[w] = active /\ NoAnswer(w) /\ inbox[w] = <<>> /\ Started(w)
        BY <1>4, <2>2, <2>4 DEF Carried
    <3>2. Carried(w)'
        BY <1>1, <2>2, <2>3, <3>1 DEF Carried, NoAnswer
    <3>3. NoReady(w) => NoReady(w)'
        BY <2>2, <2>3 DEF NoReady
    <3>4. Started(w)'
        BY <1>1, <2>2, <2>3, <3>1, <3>3 DEF Started
    <3> QED
        BY <3>2, <3>4
  <2>5. Traffic'
      BY <1>1, <1>3, <2>4, ThreadTraffic
  <2> QED
      BY <1>2, <2>5
<1>8. CASE WorkerDies(w)
  <2> DEFINE m == [type |-> "exit"]
  <2>1. /\ m \in ToPool /\ m.type = "exit" /\ Emit(w, m)
        /\ thread'[w] = "dead" /\ inbox'[w] = <<>> /\ running'[w] = NoRun
      BY <1>8 DEF WorkerDies, ToPool, TypeOK
  <2> HIDE DEF m
  <2>2. /\ Len(outbox[w]) \in Nat /\ \A j \in DOMAIN outbox[w] : j \in 1..Len(outbox[w])
        /\ \A j \in DOMAIN outbox'[w] :
             \/ j \in DOMAIN outbox[w] /\ outbox'[w][j] = outbox[w][j]
             \/ j = Len(outbox[w]) + 1 /\ outbox'[w][j] = m
      BY <2>1, EmitFacts
  <2>3. ASSUME worker = w PROVE Carried(w)' /\ Started(w)'
    <3>1. Carried(w) /\ Started(w)
        BY <1>4, <2>3
    <3>2. Carried(w)'
        BY <1>1, <2>1, <2>2, <3>1 DEF Carried, Answer
    <3>3. NoReady(w) => NoReady(w)'
        BY <2>1, <2>2 DEF NoReady
    <3>4. Started(w)'
        BY <1>1, <2>1, <2>2, <3>1, <3>3 DEF Started
    <3> QED
        BY <3>2, <3>4
  <2>4. Traffic'
      BY <1>1, <1>3, <2>3, ThreadTraffic
  <2> QED
      BY <1>2, <2>4
<1> QED
    BY <1>5, <1>6, <1>7, <1>8

-------------------------------------------------------------------------------
LEMMA SafetyStep == SafetyInv /\ [Next]_vars => SafetyInv'
<1> SUFFICES ASSUME SafetyInv, [Next]_vars PROVE SafetyInv'
    OBVIOUS
<1>1. IInv'
    BY StepInvariant DEF SafetyInv
<1>2. CASE Call
    BY <1>1, <1>2, RunSafe, CancelSafe, RestartCloseSafe DEF Call, SafetyInv
<1>3. CASE PoolStep
    BY <1>1, <1>3, ResetBeginSafe, ResetEndSafe, TerminatedSafe, DeadlineSafe, OnReadySafe,
       OnAnswerSafe, OnStaleSafe, OnExitSafe DEF PoolStep, SafetyInv
<1>4. CASE ThreadStep
    BY <1>1, <1>4, ThreadSafe DEF SafetyInv
<1>5. CASE UNCHANGED vars
  <2>1. /\ UNCHANGED <<worker, ready, closed, degraded, readinessFailures, workers, resetting>>
        /\ UNCHANGED <<active, dispatched, cancelled, nextId, cancelTimer, readyTimer>>
        /\ UNCHANGED <<lifecycle, killing, phase, thread, running, inbox, outbox>>
      BY <1>5 DEF vars, poolVars, runVars, timerVars, resetVars, threadVars
  <2>2. Chain' /\ Grace' /\ Closing'
      BY <2>1 DEF SafetyInv, Chain, Expected, Grace, Closing, ClosePending
  <2>3. Traffic'
      BY <2>1, SameTraffic DEF SafetyInv
  <2> QED
      BY <1>1, <2>2, <2>3 DEF SafetyInv
<1> QED
    BY <1>2, <1>3, <1>4, <1>5 DEF Next

\* The invariant implies what the pool promises.
LEMMA SafetyIsEnough == SafetyInv => ResetsMeetTheirWorker /\ RuntimeAgrees /\ ClosedIsQuiet
<1>1. SafetyInv => ResetsMeetTheirWorker
    BY DEF SafetyInv, Chain, ResetsMeetTheirWorker
<1>2. SafetyInv => RuntimeAgrees
    BY DEF SafetyInv, Traffic, Carried, RuntimeAgrees
<1>3. SafetyInv => ClosedIsQuiet
  <2> SUFFICES ASSUME SafetyInv, closed, lifecycle = <<>>
               PROVE  /\ workers = {} /\ \A w \in Workers : ~Live(w)
                      /\ active = NoRun /\ cancelTimer = NoWorker /\ readyTimer = NoWorker
      BY DEF ClosedIsQuiet
  <2> USE NoWorkerAssumption DEF SafetyInv, IInv
  <2>1. worker = NoWorker /\ active = NoRun
      BY DEF Closing, ClosePending
  <2>2. phase = "idle"
      BY DEF Attempts, TypeOK
  <2>3. workers = {}
      BY <2>1, <2>2 DEF Staffing, TypeOK
  <2> QED
      BY <2>1, <2>3 DEF Staffing, Grace
<1> QED
    BY <1>1, <1>2, <1>3

\* The invariant that the theorems below rest on.
THEOREM PoolSafetyInductive == Spec => []SafetyInv
<1>1. Init => SafetyInv
    BY InitSafety
<1>2. SafetyInv /\ [Next]_vars => SafetyInv'
    BY SafetyStep
<1> QED
    BY <1>1, <1>2, PTL DEF Spec

\* A deadline, a failure and an expired grace period are performed on the
\* worker they were queued for, however many restarts and terminations come in
\* between (reset with an expected worker, syncWorkerPool.ts).
THEOREM ResetsHitTheirWorker == Spec => []ResetsMeetTheirWorker
    BY SafetyIsEnough, PoolSafetyInductive, PTL

\* The run inside the current worker is the one the pool waits for, so the
\* runtime never answers a run with "already running" (pump and
\* onMessage, syncWorkerPool.ts; the message handler of syncWorkerRuntime.ts).
THEOREM ActiveRunIsTheWorkers == Spec => []RuntimeAgrees
    BY SafetyIsEnough, PoolSafetyInductive, PTL

\* When the resets of a closed pool are over, no thread, run or timer is left,
\* whatever was under way when close() was called (close, syncWorkerPool.ts).
THEOREM CloseLeavesNothing == Spec => []ClosedIsQuiet
    BY SafetyIsEnough, PoolSafetyInductive, PTL

\* The grace period of cancel() ends a run only when that run was cancelled,
\* never the next one on the same worker (cancel and onMessage,
\* syncWorkerPool.ts).
THEOREM GraceHitsTheCancelled == Spec => GraceKillsOnlyCancelled
<1> DEFINE A == (ResetBegin /\ Head(lifecycle).why = "cancel" /\ active # NoRun) => cancelled
<1>1. SafetyInv /\ [Next]_vars => [A]_vars
    BY DEF SafetyInv, Grace, ResetBegin
<1> HIDE DEF A
<1>2. Spec => [][A]_vars
    BY <1>1, PoolSafetyInductive, PTL DEF Spec
<1> QED
    BY <1>2 DEF A, GraceKillsOnlyCancelled
===============================================================================
