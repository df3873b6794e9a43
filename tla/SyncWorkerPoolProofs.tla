-------------------------- MODULE SyncWorkerPoolProofs --------------------------
(***************************************************************************)
(* Theorems about SyncWorkerPool, for any number of runs, resets and       *)
(* attempts.  Staffing says which threads may be alive in which phase of a *)
(* reset; Attempts says why the failures to start are counted no further   *)
(* than the attempts, although resets for other reasons come in between.   *)
(***************************************************************************)
EXTENDS SyncWorkerPool, SequenceTheorems, TLAPS

\* A living thread is in the set, which holds the current worker, or the one
\* that the reset under way waits for.
Staffing ==
    /\ \A w \in Workers : Live(w) => w \in workers
    /\ phase = "idle" => workers \subseteq {worker}
    /\ phase = "terminating" =>
         /\ worker = NoWorker
         /\ workers \subseteq killing
         /\ \A v, w \in killing : v = w

\* What the resets that wait were queued for.
Purpose(r) ==
    /\ r.why = "close" => closed
    /\ (r.why \in {"failure", "cancel"} \/ r.readiness) => r.expected # NoWorker

Purposes == \A j \in DOMAIN lifecycle : Purpose(lifecycle[j])

\* A worker is never spawned after the last attempt.
Attempts ==
    /\ Purposes
    /\ worker # NoWorker => readinessFailures < MaxReadyAttempts
    /\ phase = "terminating" =>
         /\ lifecycle # <<>>
         /\ closed \/ Head(lifecycle).readiness \/ readinessFailures < MaxReadyAttempts

\* The exit of a thread is its last message, and is heard before its name is
\* used again.
Mail ==
    \A w \in Workers :
      /\ w \notin workers => outbox[w] = <<>>
      /\ \A j \in DOMAIN outbox[w] :
           outbox[w][j].type = "exit" => (j = Len(outbox[w]) /\ ~Live(w))

IInv == TypeOK /\ Staffing /\ Attempts /\ Mail

-------------------------------------------------------------------------------
LEMMA InitInvariant == Init => IInv
<1> SUFFICES ASSUME Init PROVE IInv
    OBVIOUS
<1> USE AttemptsAssumption, PoolBoundsAssumption, NoWorkerAssumption
<1>1. TypeOK
  <2>1. 0 \in 0..MaxReadyAttempts /\ 1 \in 1..(MaxRuns + 1)
      BY DEF Init
  <2>2. thread \in [Workers -> {"booting", "up", "dead"}]
      BY DEF Init
  <2>3. /\ running \in [Workers -> Runs \cup {NoRun}]
        /\ inbox \in [Workers -> Seq(Runs)] /\ outbox \in [Workers -> Seq(ToPool)]
      BY DEF Init
  <2>4. lifecycle \in Seq(Reset)
      BY DEF Init
  <2>5. {workers, resetting, killing} \subseteq SUBSET Workers
      BY DEF Init
  <2>6. {ready, closed, degraded, dispatched, cancelled} \subseteq BOOLEAN
      BY DEF Init
  <2> QED
      BY <2>1, <2>2, <2>3, <2>4, <2>5, <2>6 DEF Init, TypeOK
<1>2. Staffing
    BY DEF Init, Staffing, Live
<1>3. Attempts
    BY DEF Init, Attempts, Purposes
<1>4. Mail
    BY DEF Init, Mail
<1> QED
    BY <1>1, <1>2, <1>3, <1>4 DEF IInv

\* A reset that is queued keeps its purpose, and so does the chain without it.
LEMMA ChainGrows ==
    ASSUME lifecycle \in Seq(Reset), Purposes,
           NEW r \in Reset, Purpose(r)',
           lifecycle' = Append(lifecycle, r), closed => closed'
    PROVE  /\ lifecycle' \in Seq(Reset) /\ Purposes'
           /\ lifecycle # <<>> => Head(lifecycle') = Head(lifecycle)
           /\ lifecycle' # <<>>
<1>1. \A j \in DOMAIN lifecycle' :
         \/ j \in DOMAIN lifecycle /\ lifecycle'[j] = lifecycle[j]
         \/ lifecycle'[j] = r
    OBVIOUS
<1>2. ASSUME NEW j \in DOMAIN lifecycle PROVE Purpose(lifecycle[j])'
    BY lifecycle' = Append(lifecycle, r) DEF Purposes, Purpose
<1>3. Purposes'
    BY <1>1, <1>2 DEF Purposes, Purpose
<1> QED
    BY <1>3

LEMMA ChainShrinks ==
    ASSUME lifecycle \in Seq(Reset), Purposes, lifecycle # <<>>,
           lifecycle' = Tail(lifecycle), closed' = closed
    PROVE  lifecycle' \in Seq(Reset) /\ Purposes'
<1>1. \A j \in DOMAIN lifecycle' : j + 1 \in DOMAIN lifecycle /\ lifecycle'[j] = lifecycle[j + 1]
    OBVIOUS
<1> QED
    BY <1>1 DEF Purposes, Purpose
-------------------------------------------------------------------------------
(***************************************************************************)
(* Types.                                                                  *)
(***************************************************************************)
\* A message more in the queue of one thread.
LEMMA QueueGrows ==
    ASSUME NEW S, NEW f \in [Workers -> Seq(S)], NEW w \in Workers, NEW m \in S
    PROVE  [f EXCEPT ![w] = Append(@, m)] \in [Workers -> Seq(S)]
<1>1. f[w] \in Seq(S)
    OBVIOUS
<1>2. Append(f[w], m) \in Seq(S)
    BY <1>1
<1> QED
    BY <1>2

LEMMA CallTypes == TypeOK /\ Call => TypeOK'
<1> SUFFICES ASSUME TypeOK, Call PROVE TypeOK'
    OBVIOUS
<1> USE NoWorkerAssumption, PoolBoundsAssumption
<1>1. CASE Run
  <2>1. active' \in Runs \cup {NoRun} /\ nextId' \in 1..(MaxRuns + 1)
      BY <1>1 DEF Run, Runs, TypeOK
  <2>2. dispatched' \in BOOLEAN
      BY <1>1 DEF Run
  <2>3. inbox' \in [Workers -> Seq(Runs)]
    <3>1. CASE dispatched'
      <4>1. nextId \in Runs
          BY <1>1 DEF Run, Runs, TypeOK
      <4>2. worker \in Workers /\ inbox \in [Workers -> Seq(Runs)]
          BY <1>1, <3>1 DEF Run, TypeOK
      <4>3. inbox' = [inbox EXCEPT ![worker] = Append(@, nextId)]
          BY <1>1, <3>1 DEF Run, Post
      <4> QED
          BY <1>1, <3>1, <4>1, <4>2, <4>3, QueueGrows
    <3>2. CASE ~dispatched'
        BY <1>1, <3>2 DEF Run, TypeOK
    <3> QED
        BY <3>1, <3>2
  <2> QED
      BY <1>1, <2>1, <2>2, <2>3 DEF Run, TypeOK, poolVars, timerVars, resetVars
<1>2. CASE Cancel
    BY <1>2 DEF Cancel, CancelActive, Settle, NoRun, TypeOK, poolVars, resetVars, threadVars
<1>3. CASE Restart
    BY <1>3 DEF Restart, Enqueue, Reset, TypeOK, poolVars, runVars, timerVars, threadVars
<1>4. CASE Close
    BY <1>4 DEF Close, Enqueue, Reset, TypeOK, runVars, timerVars, threadVars
<1> QED
    BY <1>1, <1>2, <1>3, <1>4 DEF Call

LEMMA ResetTypes == IInv /\ (ResetBegin \/ ResetEnd) => TypeOK'
<1> SUFFICES ASSUME IInv, ResetBegin \/ ResetEnd PROVE TypeOK'
    OBVIOUS
<1> USE NoWorkerAssumption, AttemptsAssumption DEF IInv
<1>1. CASE ResetBegin
  <2> DEFINE r == Head(lifecycle)
  <2>1. r \in Reset /\ Purpose(r) /\ Expected(r)
      BY <1>1 DEF ResetBegin, TypeOK, Attempts, Purposes
  <2>2. killing' = IF r.expected = NoWorker THEN workers ELSE {r.expected}
      BY <1>1 DEF ResetBegin
  <2>3. killing' \subseteq Workers
      BY <2>1, <2>2 DEF Reset, TypeOK
  <2>4. r.readiness => readinessFailures < MaxReadyAttempts
      BY <2>1 DEF Purpose, Expected, Attempts, Reset
  <2>5. readinessFailures' \in 0..MaxReadyAttempts
      BY <1>1, <2>1, <2>4 DEF ResetBegin, TypeOK, Reset
  <2>6. {ready', closed', degraded', dispatched', cancelled'} \subseteq BOOLEAN
      BY <1>1 DEF ResetBegin, Settle, TypeOK
  <2>7. {workers', resetting', killing'} \subseteq SUBSET Workers
      BY <1>1, <2>3 DEF ResetBegin, TypeOK
  <2> QED
      BY <1>1, <2>5, <2>6, <2>7 DEF ResetBegin, Settle, TypeOK, threadVars
<1>2. CASE ResetEnd
  <2>1. lifecycle \in Seq(Reset) /\ lifecycle # <<>> /\ lifecycle' = Tail(lifecycle)
      BY <1>2 DEF ResetEnd, TypeOK, Attempts
  <2>2. lifecycle' \in Seq(Reset)
      BY <2>1
  <2>3. CASE UNCHANGED <<worker, workers, resetting, readyTimer, thread>> /\ degraded' \in BOOLEAN
      BY <1>2, <2>2, <2>3 DEF ResetEnd, TypeOK, runVars
  <2>4. CASE Spawn
    <3>1. PICK w \in Workers : /\ worker' = w /\ workers' = workers \cup {w}
                               /\ resetting' = resetting \ {w} /\ degraded' = FALSE
                               /\ readyTimer' = w
                               /\ thread' = [thread EXCEPT ![w] = "booting"]
        BY <2>4 DEF Spawn, Fresh
    <3>2. {workers', resetting', killing'} \subseteq SUBSET Workers
        BY <1>2, <3>1 DEF ResetEnd, TypeOK
    <3>3. thread' \in [Workers -> {"booting", "up", "dead"}]
        BY <3>1 DEF TypeOK
    <3> QED
        BY <1>2, <2>2, <3>1, <3>2, <3>3 DEF ResetEnd, TypeOK, runVars
  <2>5. degraded \in BOOLEAN
      BY DEF TypeOK
  <2> QED
      BY <1>2, <2>3, <2>4, <2>5 DEF ResetEnd
<1> QED
    BY <1>1, <1>2

\* A report about a worker adds at most one reset to the chain.
LEMMA FailureTypes ==
    ASSUME TypeOK, NEW w \in Workers, Failure(w)
    PROVE  resetting' \in SUBSET Workers /\ lifecycle' \in Seq(Reset)
<1>1. CASE UNCHANGED <<resetting, lifecycle>>
    BY <1>1 DEF TypeOK
<1>2. CASE resetting' = resetting \cup {w} /\ Enqueue("failure", ~ready, w)
  <2>1. [why |-> "failure", readiness |-> ~ready, expected |-> w] \in Reset
      BY DEF Reset
  <2> QED
      BY <1>2, <2>1 DEF Enqueue, TypeOK
<1> QED
    BY <1>1, <1>2 DEF Failure

LEMMA EventTypes ==
    ASSUME TypeOK, NEW w \in Workers,
           \/ Terminated(w) \/ ReadyDeadline(w) \/ CancelDeadline(w)
           \/ OnReady(w) \/ OnAnswer(w) \/ OnStale(w) \/ OnExit(w)
    PROVE  TypeOK'
<1> USE NoWorkerAssumption, AttemptsAssumption
<1>1. CASE Terminated(w)
    BY <1>1 DEF Terminated, NoRun, TypeOK, runVars, timerVars
<1>2. CASE ReadyDeadline(w)
    BY <1>2, FailureTypes DEF ReadyDeadline, TypeOK, runVars, threadVars
<1>3. CASE CancelDeadline(w)
    BY <1>3 DEF CancelDeadline, Enqueue, Reset, TypeOK, poolVars, runVars, threadVars
<1>4. CASE OnReady(w)
  <2>1. outbox' \in [Workers -> Seq(ToPool)]
      BY <1>4 DEF OnReady, Take, TypeOK
  <2>2. inbox' \in [Workers -> Seq(Runs)]
    <3>1. CASE active = NoRun
        BY <1>4, <3>1 DEF OnReady, TypeOK
    <3>2. CASE active # NoRun
      <4>1. active \in Runs /\ inbox \in [Workers -> Seq(Runs)]
          BY <3>2 DEF TypeOK
      <4>2. inbox' = [inbox EXCEPT ![w] = Append(@, active)]
          BY <1>4, <3>2 DEF OnReady, Post
      <4> QED
          BY <4>1, <4>2
    <3> QED
        BY <3>1, <3>2
  <2>3. {ready', closed', degraded', dispatched', cancelled'} \subseteq BOOLEAN
      BY <1>4 DEF OnReady, TypeOK
  <2>4. readinessFailures' \in 0..MaxReadyAttempts
      BY <1>4 DEF OnReady
  <2> QED
      BY <1>4, <2>1, <2>2, <2>3, <2>4 DEF OnReady, TypeOK, resetVars
<1>5. CASE OnAnswer(w)
  <2>1. outbox' \in [Workers -> Seq(ToPool)]
      BY <1>5 DEF OnAnswer, Take, TypeOK
  <2> QED
      BY <1>5, <2>1 DEF OnAnswer, Settle, TypeOK, poolVars, resetVars
<1>6. CASE OnStale(w)
    BY <1>6 DEF OnStale, Take, TypeOK, poolVars, runVars, timerVars, resetVars
<1>7. CASE OnExit(w)
  <2>1. outbox' \in [Workers -> Seq(ToPool)]
      BY <1>7 DEF OnExit, Take, TypeOK
  <2>2. {workers', resetting', killing'} \subseteq SUBSET Workers
      BY <1>7, FailureTypes DEF OnExit, TypeOK
  <2>3. lifecycle' \in Seq(Reset)
      BY <1>7, FailureTypes DEF OnExit
  <2> QED
      BY <1>7, <2>1, <2>2, <2>3 DEF OnExit, TypeOK, runVars, timerVars
<1> QED
    BY <1>1, <1>2, <1>3, <1>4, <1>5, <1>6, <1>7

LEMMA ThreadTypes == TypeOK /\ ThreadStep => TypeOK'
<1> SUFFICES ASSUME TypeOK, NEW w \in Workers,
                    WorkerBoots(w) \/ WorkerReceives(w) \/ WorkerAnswers(w) \/ WorkerDies(w)
             PROVE  TypeOK'
    BY DEF ThreadStep
<1>1. CASE WorkerBoots(w)
    BY <1>1 DEF WorkerBoots, Emit, ToPool, TypeOK, poolVars, runVars, timerVars, resetVars
<1>2. CASE WorkerReceives(w)
  <2>1. inbox' \in [Workers -> Seq(Runs)] /\ Head(inbox[w]) \in Runs
      BY <1>2 DEF WorkerReceives, TypeOK
  <2>2. running' \in [Workers -> Runs \cup {NoRun}]
      BY <1>2, <2>1, running \in [Workers -> Runs \cup {NoRun}] DEF WorkerReceives, TypeOK
  <2>3. [type |-> "error", id |-> Head(inbox[w])] \in ToPool
      BY <2>1 DEF ToPool
  <2>4. outbox' \in [Workers -> Seq(ToPool)]
    <3>1. outbox \in [Workers -> Seq(ToPool)]
        BY DEF TypeOK
    <3> DEFINE m == [type |-> "error", id |-> Head(inbox[w])]
    <3>2. outbox' = outbox \/ outbox' = [outbox EXCEPT ![w] = Append(@, m)]
        BY <1>2 DEF WorkerReceives, Emit
    <3>3. m \in ToPool
        BY <2>3
    <3> HIDE DEF m
    <3>4. [outbox EXCEPT ![w] = Append(@, m)] \in [Workers -> Seq(ToPool)]
        BY <3>1, <3>3, QueueGrows
    <3> QED
        BY <3>1, <3>2, <3>4
  <2> QED
      BY <1>2, <2>1, <2>2, <2>4 DEF WorkerReceives, TypeOK, poolVars, runVars, timerVars, resetVars
<1>3. CASE WorkerAnswers(w)
  <2>1. PICK t \in {"result", "error"} : outbox' = [outbox EXCEPT ![w] = Append(@, [type |-> t, id |-> running[w]])]
      BY <1>3 DEF WorkerAnswers, Emit
  <2>2. outbox \in [Workers -> Seq(ToPool)] /\ running \in [Workers -> Runs \cup {NoRun}]
      BY DEF TypeOK
  <2> DEFINE m == [type |-> t, id |-> running[w]]
  <2>3. m \in ToPool
      BY <1>3, <2>2 DEF WorkerAnswers, ToPool
  <2> HIDE DEF m
  <2>4. outbox' = [outbox EXCEPT ![w] = Append(@, m)]
      BY <2>1 DEF m
  <2>5. outbox' \in [Workers -> Seq(ToPool)]
      BY <2>2, <2>3, <2>4, QueueGrows
  <2>6. running' \in [Workers -> Runs \cup {NoRun}]
      BY <1>3, <2>2 DEF WorkerAnswers
  <2> QED
      BY <1>3, <2>5, <2>6 DEF WorkerAnswers, TypeOK, poolVars, runVars, timerVars, resetVars
<1>4. CASE WorkerDies(w)
    BY <1>4 DEF WorkerDies, Emit, ToPool, NoRun, TypeOK, poolVars, runVars, timerVars, resetVars
<1> QED
    BY <1>1, <1>2, <1>3, <1>4
-------------------------------------------------------------------------------
(***************************************************************************)
(* The calls and the resets.                                               *)
(***************************************************************************)
\* A step that leaves the chain of resets alone.
LEMMA SameChainKeepsAttempts ==
    ASSUME Attempts, UNCHANGED <<worker, closed, phase, lifecycle>>,
           UNCHANGED readinessFailures \/ readinessFailures' < MaxReadyAttempts
    PROVE  Attempts'
<1>1. Purposes' /\ (closed => closed') /\ Head(lifecycle') = Head(lifecycle)
    BY DEF Attempts, Purposes, Purpose
<1> QED
    BY <1>1 DEF Attempts

\* A reset of all threads, which expects none, joins the chain.
LEMMA WholeResetKeepsAttempts ==
    ASSUME TypeOK, Attempts, NEW why \in {"restart", "close"},
           Enqueue(why, FALSE, NoWorker), why = "close" => closed', closed => closed',
           UNCHANGED <<worker, readinessFailures, phase>>
    PROVE  lifecycle' \in Seq(Reset) /\ Attempts'
<1> DEFINE r == [why |-> why, readiness |-> FALSE, expected |-> NoWorker]
<1>1. r \in Reset /\ Purpose(r)'
    BY DEF Reset, Purpose
<1>2. lifecycle' = Append(lifecycle, r) /\ lifecycle \in Seq(Reset) /\ Purposes
    BY DEF Enqueue, TypeOK, Attempts
<1> HIDE DEF r
<1>3. /\ lifecycle' \in Seq(Reset) /\ Purposes' /\ lifecycle' # <<>>
      /\ lifecycle # <<>> => Head(lifecycle') = Head(lifecycle)
    BY <1>1, <1>2, ChainGrows
<1> QED
    BY <1>3 DEF Attempts

LEMMA CallStep == IInv /\ Call => Staffing' /\ Attempts' /\ Mail'
<1> SUFFICES ASSUME IInv, Call PROVE Staffing' /\ Attempts' /\ Mail'
    OBVIOUS
<1> USE DEF IInv
<1>1. UNCHANGED <<worker, workers, readinessFailures, killing, phase, thread, outbox>>
    BY DEF Call, Run, Cancel, Restart, Close, poolVars, resetVars, threadVars
<1>2. Staffing' /\ Mail'
    BY <1>1 DEF Staffing, Mail, Live
<1>3. CASE UNCHANGED <<lifecycle, closed>>
    BY <1>1, <1>2, <1>3, SameChainKeepsAttempts
<1>4. CASE Run \/ Cancel
    BY <1>3, <1>4 DEF Run, Cancel, poolVars, resetVars
<1>5. CASE Restart
  <2>1. Enqueue("restart", FALSE, NoWorker) /\ closed' = closed
      BY <1>5 DEF Restart, poolVars
  <2>2. Attempts'
      BY <1>1, <2>1, WholeResetKeepsAttempts
  <2> QED
      BY <1>2, <2>2
<1>6. CASE Close
  <2>1. Enqueue("close", FALSE, NoWorker) /\ closed' = TRUE
      BY <1>6 DEF Close
  <2>2. Attempts'
      BY <1>1, <2>1, WholeResetKeepsAttempts
  <2> QED
      BY <1>2, <2>2
<1> QED
    BY <1>2, <1>4, <1>5, <1>6 DEF Call

LEMMA ResetBeginStep == IInv /\ ResetBegin => Staffing' /\ Attempts' /\ Mail'
<1> SUFFICES ASSUME IInv, ResetBegin PROVE Staffing' /\ Attempts' /\ Mail'
    OBVIOUS
<1> USE NoWorkerAssumption, AttemptsAssumption DEF IInv
<1> DEFINE r == Head(lifecycle)
<1>1. /\ r \in Reset /\ Purpose(r) /\ Expected(r)
      /\ phase = "idle" /\ lifecycle # <<>>
    BY DEF ResetBegin, TypeOK, Attempts, Purposes
<1>2. /\ killing' = IF r.expected = NoWorker THEN workers ELSE {r.expected}
      /\ readinessFailures' = IF r.why = "restart" THEN 0
                              ELSE IF r.readiness THEN readinessFailures + 1
                              ELSE readinessFailures
      /\ worker' = NoWorker /\ phase' = "terminating"
      /\ UNCHANGED <<closed, workers, lifecycle, thread, outbox>>
    BY DEF ResetBegin, threadVars
<1> HIDE DEF r
<1>3. workers \subseteq {worker}
    BY <1>1 DEF Staffing
<1>4. Staffing'
    BY <1>1, <1>2, <1>3 DEF Staffing, Expected, Live
<1>5. closed \/ r.readiness \/ readinessFailures' < MaxReadyAttempts
    BY <1>1, <1>2 DEF Purpose, Expected, Attempts, Reset
<1>6. Attempts'
    BY <1>1, <1>2, <1>5 DEF Attempts, Purposes, Purpose, r
<1>7. Mail'
    BY <1>2 DEF Mail, Live
<1> QED
    BY <1>4, <1>6, <1>7

LEMMA ResetEndStep == IInv /\ ResetEnd => Staffing' /\ Attempts' /\ Mail'
<1> SUFFICES ASSUME IInv, ResetEnd PROVE Staffing' /\ Attempts' /\ Mail'
    OBVIOUS
<1> USE NoWorkerAssumption, AttemptsAssumption DEF IInv
<1>1. /\ worker = NoWorker /\ workers = {} /\ \A w \in Workers : ~Live(w)
      /\ lifecycle \in Seq(Reset) /\ lifecycle # <<>> /\ Purposes
      /\ closed \/ Head(lifecycle).readiness \/ readinessFailures < MaxReadyAttempts
    BY DEF ResetEnd, Staffing, Attempts, TypeOK
<1>2. /\ phase' = "idle" /\ lifecycle' = Tail(lifecycle)
      /\ UNCHANGED <<closed, readinessFailures, outbox>>
    BY DEF ResetEnd
<1>3. Purposes'
    BY <1>1, <1>2, ChainShrinks
<1>4. CASE UNCHANGED <<worker, workers, thread>>
    BY <1>1, <1>2, <1>3, <1>4 DEF Staffing, Attempts, Mail, Live
<1>5. CASE Spawn /\ ~closed
           /\ ~(Head(lifecycle).readiness /\ readinessFailures >= MaxReadyAttempts)
  <2>1. PICK w \in Workers : /\ worker' = w /\ workers' = workers \cup {w}
                             /\ thread' = [thread EXCEPT ![w] = "booting"]
      BY <1>5 DEF Spawn, Fresh
  <2>2. \A v \in Workers : Live(v)' => v = w
      BY <1>1, <2>1 DEF Live, TypeOK
  <2>3. Staffing'
      BY <1>1, <1>2, <2>1, <2>2 DEF Staffing
  <2>4. readinessFailures < MaxReadyAttempts
      BY <1>1, <1>5 DEF TypeOK
  <2>5. Attempts'
      BY <1>2, <1>3, <2>1, <2>4 DEF Attempts
  <2>6. \A v \in Workers : outbox[v] = <<>>
      BY <1>1 DEF Mail
  <2>7. Mail'
      BY <1>2, <2>6 DEF Mail
  <2> QED
      BY <2>3, <2>5, <2>7
<1> QED
    BY <1>4, <1>5 DEF ResetEnd

-------------------------------------------------------------------------------
(***************************************************************************)
(* The events of the pool and the steps of a thread.                       *)
(***************************************************************************)
LEMMA TerminatedStep ==
    ASSUME IInv, NEW w \in Workers, Terminated(w)
    PROVE  Staffing' /\ Attempts' /\ Mail'
<1> USE DEF IInv
<1>1. /\ killing' = killing \ {w} /\ workers' = workers \ {w}
      /\ thread' = [thread EXCEPT ![w] = "dead"]
      /\ outbox' = [outbox EXCEPT ![w] = <<>>]
      /\ UNCHANGED <<worker, closed, readinessFailures, lifecycle, phase>>
    BY DEF Terminated
<1>2. \A v \in Workers : Live(v)' => v # w /\ Live(v)
    BY <1>1 DEF Live, TypeOK
<1>3. Staffing'
    BY <1>1, <1>2 DEF Staffing
<1>4. Attempts'
  <2>1. Purposes' /\ (closed => closed') /\ Head(lifecycle') = Head(lifecycle)
      BY <1>1 DEF Attempts, Purposes, Purpose
  <2> QED
      BY <1>1, <2>1 DEF Attempts
<1>5. \A v \in Workers : outbox'[v] = IF v = w THEN <<>> ELSE outbox[v]
    BY <1>1 DEF TypeOK
<1>6. Mail'
    BY <1>1, <1>2, <1>5 DEF Mail
<1> QED
    BY <1>3, <1>4, <1>6

\* A reset for the failure of the current worker, or for a cancelled run that
\* does not end.
LEMMA EnqueueKeepsAttempts ==
    ASSUME IInv, NEW w \in Workers, NEW why, NEW f,
           [why |-> why, readiness |-> f, expected |-> w] \in Reset,
           why # "close", Enqueue(why, f, w),
           UNCHANGED <<worker, closed, readinessFailures, phase>>
    PROVE  Attempts'
<1> USE NoWorkerAssumption DEF IInv
<1> DEFINE r == [why |-> why, readiness |-> f, expected |-> w]
<1>1. r \in Reset /\ Purpose(r)'
    BY DEF Purpose
<1>2. lifecycle' = Append(lifecycle, r) /\ lifecycle \in Seq(Reset) /\ Purposes
    BY DEF Enqueue, TypeOK, Attempts
<1> HIDE DEF r
<1>3. closed => closed'
    OBVIOUS
<1>4. /\ Purposes' /\ lifecycle' # <<>>
      /\ lifecycle # <<>> => Head(lifecycle') = Head(lifecycle)
    BY <1>1, <1>2, <1>3, ChainGrows
<1> QED
    BY <1>3, <1>4 DEF Attempts

LEMMA FailureKeepsAttempts ==
    ASSUME IInv, NEW w \in Workers, Failure(w),
           UNCHANGED <<worker, closed, readinessFailures, phase>>
    PROVE  Attempts'
<1>1. CASE UNCHANGED lifecycle
    BY <1>1, SameChainKeepsAttempts DEF IInv
<1>2. CASE Enqueue("failure", ~ready, w)
  <2>1. [why |-> "failure", readiness |-> ~ready, expected |-> w] \in Reset
      BY DEF IInv, TypeOK, Reset
  <2> QED
      BY <1>2, <2>1, EnqueueKeepsAttempts
<1> QED
    BY <1>1, <1>2 DEF Failure

\* A deadline touches neither threads nor messages.
LEMMA DeadlineStep ==
    ASSUME IInv, NEW w \in Workers, ReadyDeadline(w) \/ CancelDeadline(w)
    PROVE  Staffing' /\ Attempts' /\ Mail'
<1>1. UNCHANGED <<worker, closed, readinessFailures, workers, killing, phase, thread, outbox>>
    BY DEF ReadyDeadline, CancelDeadline, poolVars, threadVars
<1>2. Staffing' /\ Mail'
    BY <1>1 DEF IInv, Staffing, Mail, Live
<1>3. CASE ReadyDeadline(w)
    BY <1>1, <1>2, <1>3, FailureKeepsAttempts DEF ReadyDeadline
<1>4. CASE CancelDeadline(w)
  <2>1. /\ Enqueue("cancel", FALSE, w)
        /\ [why |-> "cancel", readiness |-> FALSE, expected |-> w] \in Reset
      BY <1>4 DEF CancelDeadline, Reset
  <2> QED
      BY <1>1, <1>2, <2>1, EnqueueKeepsAttempts
<1> QED
    BY <1>3, <1>4

\* A message that is taken leaves the rest of its queue in order.
LEMMA TakeKeepsMail ==
    ASSUME IInv, NEW w \in Workers, NEW types, Take(w, types),
           UNCHANGED <<workers, thread>>
    PROVE  Mail'
<1>1. \A v \in Workers : outbox'[v] = IF v = w THEN Tail(outbox[w]) ELSE outbox[v]
    BY DEF Take, IInv, TypeOK
<1>2. outbox[w] \in Seq(ToPool) /\ outbox[w] # <<>>
    BY DEF Take, IInv, TypeOK
<1>3. \A j \in DOMAIN Tail(outbox[w]) :
         /\ j + 1 \in DOMAIN outbox[w] /\ Tail(outbox[w])[j] = outbox[w][j + 1]
         /\ j + 1 = Len(outbox[w]) => j = Len(Tail(outbox[w]))
    BY <1>2
<1>4. w \in workers
    BY <1>2 DEF IInv, Mail
<1>5. \A v \in Workers : Live(v)' <=> Live(v)
    BY DEF Live
<1>6. ASSUME NEW v \in Workers, v # w
      PROVE  /\ v \notin workers' => outbox'[v] = <<>>
             /\ \A j \in DOMAIN outbox'[v] :
                  outbox'[v][j].type = "exit" => (j = Len(outbox'[v]) /\ ~Live(v)')
    BY <1>1, <1>5, <1>6 DEF IInv, Mail
<1>7. ASSUME NEW j \in DOMAIN outbox'[w], outbox'[w][j].type = "exit"
      PROVE  j = Len(outbox'[w]) /\ ~Live(w)'
  <2>1. outbox'[w] = Tail(outbox[w])
      BY <1>1
  <2>2. /\ j + 1 \in DOMAIN outbox[w] /\ outbox[w][j + 1].type = "exit"
        /\ j + 1 = Len(outbox[w]) => j = Len(outbox'[w])
      BY <1>3, <1>7, <2>1
  <2>3. j + 1 = Len(outbox[w]) /\ ~Live(w)
      BY <2>2 DEF IInv, Mail
  <2> QED
      BY <1>5, <2>2, <2>3
<1> QED
    BY <1>4, <1>6, <1>7 DEF Mail

LEMMA MessageStep ==
    ASSUME IInv, NEW w \in Workers, OnReady(w) \/ OnAnswer(w) \/ OnStale(w)
    PROVE  Staffing' /\ Attempts' /\ Mail'
<1> USE AttemptsAssumption
<1>1. /\ UNCHANGED <<worker, closed, workers, lifecycle, killing, phase, thread>>
      /\ UNCHANGED readinessFailures \/ readinessFailures' < MaxReadyAttempts
    BY DEF OnReady, OnAnswer, OnStale, poolVars, resetVars
<1>2. Staffing'
    BY <1>1 DEF IInv, Staffing, Live
<1>3. Attempts'
    BY <1>1, SameChainKeepsAttempts DEF IInv
<1>4. \E types : Take(w, types)
    BY DEF OnReady, OnAnswer, OnStale
<1>5. Mail'
    BY <1>1, <1>4, TakeKeepsMail
<1> QED
    BY <1>2, <1>3, <1>5

LEMMA OnExitStep ==
    ASSUME IInv, NEW w \in Workers, OnExit(w)
    PROVE  Staffing' /\ Attempts' /\ Mail'
<1> USE DEF IInv
<1>1. /\ workers' = workers \ {w} /\ Failure(w)
      /\ UNCHANGED <<worker, closed, readinessFailures, killing, phase, thread>>
    BY DEF OnExit
<1>2. /\ outbox[w] \in Seq(ToPool) /\ outbox[w] # <<>> /\ Head(outbox[w]).type = "exit"
      /\ outbox' = [outbox EXCEPT ![w] = Tail(@)]
    BY DEF OnExit, Take, TypeOK
<1>3. 1 \in DOMAIN outbox[w] /\ outbox[w][1].type = "exit"
    BY <1>2
<1>4. ~Live(w) /\ Len(outbox[w]) = 1
    BY <1>3 DEF Mail
<1>5. \A v \in Workers : outbox'[v] = IF v = w THEN <<>> ELSE outbox[v]
  <2>1. Tail(outbox[w]) \in Seq(ToPool) /\ Len(Tail(outbox[w])) = 0
      BY <1>2, <1>4
  <2>2. Tail(outbox[w]) = <<>>
      BY <2>1, EmptySeq
  <2> QED
      BY <1>2, <2>2 DEF TypeOK
<1>6. \A v \in Workers : Live(v)' <=> Live(v)
    BY <1>1 DEF Live
<1>7. Staffing'
    BY <1>1, <1>4, <1>6 DEF Staffing
<1>8. Attempts'
    BY <1>1, FailureKeepsAttempts
<1>9. Mail'
    BY <1>1, <1>5, <1>6 DEF Mail
<1> QED
    BY <1>7, <1>8, <1>9

\* A living thread adds a message; only with its death is it the last one.
LEMMA EmitKeepsMail ==
    ASSUME IInv, NEW w \in Workers, NEW m \in ToPool, Live(w),
           Emit(w, m), UNCHANGED workers,
           \A v \in Workers : Live(v)' => Live(v),
           m.type = "exit" => ~Live(w)'
    PROVE  Mail'
<1>1. outbox[w] \in Seq(ToPool)
    BY DEF IInv, TypeOK
<1>2. \A v \in Workers : outbox'[v] = IF v = w THEN Append(outbox[w], m) ELSE outbox[v]
    BY DEF Emit, IInv, TypeOK
<1>3. w \in workers /\ \A j \in DOMAIN outbox[w] : outbox[w][j].type # "exit"
    BY DEF IInv, Staffing, Mail
<1>4. \A j \in DOMAIN Append(outbox[w], m) :
         \/ j \in DOMAIN outbox[w] /\ Append(outbox[w], m)[j] = outbox[w][j]
         \/ j = Len(Append(outbox[w], m)) /\ Append(outbox[w], m)[j] = m
    BY <1>1
<1> QED
    BY <1>2, <1>3, <1>4 DEF IInv, Mail

LEMMA ThreadSteps == IInv /\ ThreadStep => Staffing' /\ Attempts' /\ Mail'
<1> SUFFICES ASSUME IInv, NEW w \in Workers,
                    WorkerBoots(w) \/ WorkerReceives(w) \/ WorkerAnswers(w) \/ WorkerDies(w)
             PROVE  Staffing' /\ Attempts' /\ Mail'
    BY DEF ThreadStep
<1>1. UNCHANGED <<worker, closed, readinessFailures, workers, lifecycle, killing, phase>>
    BY DEF WorkerBoots, WorkerReceives, WorkerAnswers, WorkerDies, poolVars, resetVars
<1>2. Live(w) /\ \A v \in Workers : Live(v)' => Live(v)
    BY DEF WorkerBoots, WorkerReceives, WorkerAnswers, WorkerDies, Live, IInv, TypeOK
<1>3. Staffing'
    BY <1>1, <1>2 DEF IInv, Staffing
<1>4. Attempts'
    BY <1>1, SameChainKeepsAttempts DEF IInv
<1>5. CASE UNCHANGED <<thread, outbox>>
    BY <1>1, <1>2, <1>3, <1>4, <1>5 DEF IInv, Mail
<1>6. ASSUME NEW m \in ToPool, Emit(w, m), m.type = "exit" => ~Live(w)' PROVE Mail'
    BY <1>1, <1>2, <1>6, EmitKeepsMail
<1>7. CASE WorkerBoots(w)
  <2>1. [type |-> "ready"] \in ToPool
      BY DEF ToPool
  <2>2. Mail'
      BY <1>6, <1>7, <2>1 DEF WorkerBoots
  <2> QED
      BY <1>3, <1>4, <2>2
<1>8. CASE WorkerReceives(w)
  <2>1. [type |-> "error", id |-> Head(inbox[w])] \in ToPool
      BY <1>8 DEF WorkerReceives, IInv, TypeOK, ToPool
  <2>2. CASE Emit(w, [type |-> "error", id |-> Head(inbox[w])])
      BY <1>3, <1>4, <1>6, <2>1, <2>2
  <2> QED
      BY <1>3, <1>4, <1>5, <1>8, <2>2 DEF WorkerReceives
<1>9. CASE WorkerAnswers(w)
  <2>1. running[w] \in Runs
      BY <1>9 DEF WorkerAnswers, IInv, TypeOK
  <2>2. ASSUME NEW t \in {"result", "error"}, Emit(w, [type |-> t, id |-> running[w]])
        PROVE  Mail'
    <3>1. [type |-> t, id |-> running[w]] \in ToPool
        BY <2>1 DEF ToPool
    <3> QED
        BY <1>6, <2>2, <3>1
  <2> QED
      BY <1>3, <1>4, <1>9, <2>2 DEF WorkerAnswers
<1>10. CASE WorkerDies(w)
  <2>1. [type |-> "exit"] \in ToPool
      BY DEF ToPool
  <2>2. ~Live(w)'
      BY <1>10 DEF WorkerDies, Live, IInv, TypeOK
  <2>3. Mail'
      BY <1>6, <1>10, <2>1, <2>2 DEF WorkerDies
  <2> QED
      BY <1>3, <1>4, <2>3
<1> QED
    BY <1>7, <1>8, <1>9, <1>10

-------------------------------------------------------------------------------
LEMMA StepInvariant == IInv /\ [Next]_vars => IInv'
<1> SUFFICES ASSUME IInv, [Next]_vars PROVE IInv'
    OBVIOUS
<1>1. CASE Call
    BY <1>1, CallTypes, CallStep DEF IInv
<1>2. CASE ResetBegin \/ ResetEnd
    BY <1>2, ResetTypes, ResetBeginStep, ResetEndStep DEF IInv
<1>3. ASSUME NEW w \in Workers,
             \/ Terminated(w) \/ ReadyDeadline(w) \/ CancelDeadline(w)
             \/ OnReady(w) \/ OnAnswer(w) \/ OnStale(w) \/ OnExit(w)
      PROVE  IInv'
  <2>1. TypeOK'
      BY <1>3, EventTypes DEF IInv
  <2>2. Staffing' /\ Attempts' /\ Mail'
      BY <1>3, TerminatedStep, DeadlineStep, MessageStep, OnExitStep
  <2> QED
      BY <2>1, <2>2 DEF IInv
<1>4. CASE ThreadStep
    BY <1>4, ThreadTypes, ThreadSteps DEF IInv
<1>5. CASE UNCHANGED vars
  <2>1. /\ UNCHANGED <<worker, ready, closed, degraded, readinessFailures, workers, resetting>>
        /\ UNCHANGED <<active, dispatched, cancelled, nextId, cancelTimer, readyTimer>>
        /\ UNCHANGED <<lifecycle, killing, phase, thread, running, inbox, outbox>>
      BY <1>5 DEF vars, poolVars, runVars, timerVars, resetVars, threadVars
  <2>2. TypeOK'
      BY <2>1 DEF IInv, TypeOK
  <2>3. Staffing' /\ Mail'
      BY <2>1 DEF IInv, Staffing, Mail, Live
  <2>4. Attempts'
      BY <2>1, SameChainKeepsAttempts DEF IInv
  <2> QED
      BY <2>2, <2>3, <2>4 DEF IInv
<1> QED
    BY <1>1, <1>2, <1>3, <1>4, <1>5 DEF Next, PoolStep

\* The invariant that the theorems rest on.
THEOREM PoolInductive == Spec => []IInv
<1>1. Init => IInv
    BY InitInvariant
<1>2. IInv /\ [Next]_vars => IInv'
    BY StepInvariant
<1> QED
    BY <1>1, <1>2, PTL DEF Spec

\* The variables keep their types, and with them a worker that never becomes
\* ready is replaced only up to maxWorkerReadyAttempts (reset, syncWorkerPool.ts).
THEOREM PoolTypeCorrect == Spec => []TypeOK
<1>1. IInv => TypeOK
    BY DEF IInv
<1> QED
    BY <1>1, PoolInductive, PTL

\* Whatever is called, fails or expires, and in whatever order, no two sync
\* workers are alive (reset and spawn, syncWorkerPool.ts).
THEOREM WorkersAreExclusive == Spec => []OneWorkerAtATime
<1>1. IInv => OneWorkerAtATime
    BY DEF IInv, TypeOK, Staffing, OneWorkerAtATime
<1> QED
    BY <1>1, PoolInductive, PTL
===============================================================================
