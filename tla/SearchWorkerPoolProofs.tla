------------------------- MODULE SearchWorkerPoolProofs -------------------------
(***************************************************************************)
(* Theorems about SearchWorkerPool, for any number of threads, tasks and   *)
(* attempts.  Chain says which workers the queued resets expect, in which  *)
(* order; Staffing which threads may be alive during a reset; Posted where *)
(* a task may be, from the call to its answer.                             *)
(***************************************************************************)
EXTENDS SearchWorkerPool, SequenceTheorems, TLAPS

RoleEntry(j, r) == j \in DOMAIN lifecycle /\ lifecycle[j].kind = r
Current(j, r)   == RoleEntry(j, r) /\ lifecycle[j].expected = worker[r]

\* A living thread is in the set, which holds the worker of the role and those
\* that the reset under way waits for.
Staffing ==
    /\ \A r \in Roles : worker[r] # NoWorker => Role(worker[r]) = r
    /\ \A w \in Workers : Live(w) => w \in workers
    /\ \A w \in workers : w = worker[Role(w)] \/ w \in killing
    /\ \A w \in killing : worker[Role(w)] = NoWorker
    /\ \A v, w \in killing : Role(v) = Role(w) => v = w
    /\ phase = "idle" => killing = {}
    /\ phase = "terminating" =>
         /\ lifecycle # <<>>
         /\ Head(lifecycle) = Whole => (cache = "none" /\ \A r \in Roles : worker[r] = NoWorker)
         /\ \A r \in Roles : Head(lifecycle).kind = r => worker[r] = NoWorker

\* The chain has one whole reset at most.  What expects a former worker of a
\* role expects the same one, and comes before what expects the present one;
\* nothing is spawned while a whole reset waits.
Chain ==
    /\ resetQueued <=> \E j \in DOMAIN lifecycle : lifecycle[j] = Whole
    /\ \A i, j \in DOMAIN lifecycle : (lifecycle[i] = Whole /\ lifecycle[j] = Whole) => i = j
    /\ \A r \in Roles : \A i, j \in DOMAIN lifecycle :
         (RoleEntry(i, r) /\ RoleEntry(j, r)) =>
           /\ Role(lifecycle[i].expected) = r
           /\ (~Current(i, r) /\ ~Current(j, r)) => lifecycle[i].expected = lifecycle[j].expected
           /\ (i < j /\ Current(i, r)) => Current(j, r)
    /\ \A r \in Roles : \A i, j \in DOMAIN lifecycle :
         (i < j /\ lifecycle[i] = Whole /\ RoleEntry(j, r)) =>
            (worker[r] = NoWorker \/ Current(j, r))

\* A worker is never spawned after the last attempt.
Attempts ==
    /\ \A r \in Roles : worker[r] # NoWorker => failures[r] < MaxReadyAttempts
    /\ phase = "terminating" => \A r \in Roles :
         (Head(lifecycle) = Whole \/ (Head(lifecycle).kind = r /\ ~Head(lifecycle).readiness))
            => failures[r] < MaxReadyAttempts

\* Who is blamed, and that a role without a thread is about to get one.
Blame ==
    \A r \in Roles : \A j \in DOMAIN lifecycle : Current(j, r) => worker[r] \in blamed

Coverage ==
    /\ closed => resetQueued \/ \A r \in Roles : worker[r] = NoWorker
    /\ ~closed => \A r \in Roles :
         \/ worker[r] # NoWorker \/ degraded[r] \/ resetQueued
         \/ (phase = "terminating" /\ Head(lifecycle).kind = r)
    /\ \A r \in Roles : degraded[r] => worker[r] = NoWorker
    /\ ~resetQueued => (cache # "outdated" /\ \A r \in Roles : worker[r] \notin outdated)

\* The exit of a thread is its last message.
Mail ==
    \A w \in Workers :
      /\ w \notin workers => outbox[w] = <<>>
      /\ ~Live(w) => jobs[w] = <<>>
      /\ \A j \in DOMAIN outbox[w] :
           outbox[w][j].type = "exit" => (j = Len(outbox[w]) /\ ~Live(w))
\* A task is timed while it is active, and active only with a worker.
Timed ==
    \A r \in Roles :
      /\ (active[r] # NoTask) <=> (deadlineTimer[r] # NoTimer)
      /\ deadlineTimer[r] # NoTimer =>
           (deadlineTimer[r] = <<active[r], worker[r]>> /\ worker[r] # NoWorker)
      /\ ready[r] => worker[r] # NoWorker
      /\ readyTimer[r] # NoWorker => readyTimer[r] = worker[r]

\* A worker that is not heard any more has its reset coming; one that is not
\* ready starts against its deadline.
Coming(r) == closed \/ \E j \in DOMAIN lifecycle : Current(j, r)
Startable(r) ==
    worker[r] # NoWorker =>
      /\ (worker[r] \in resetting \/ worker[r] \notin workers) => Coming(r)
      /\ ready[r] \/ readyTimer[r] # NoWorker \/ Coming(r)
      /\ (queue[r] # <<>> /\ active[r] = NoTask /\ ready[r]) => Coming(r)
Started == \A r \in Roles : Startable(r)

Settling(r, t) ==
    \E w \in {r} \X Names :
       \/ \E j \in DOMAIN jobs[w] : jobs[w][j].id = t
       \/ \E j \in DOMAIN outbox[w] : Answering(outbox[w][j], t)

\* A waiting task has been posted to nobody.  Of the active one there is a posted
\* task or an answer at the worker of the role, but not both.
Waiting(r) ==
    /\ \A i \in DOMAIN queue[r] : queue[r][i] # active[r] /\ ~Settling(r, queue[r][i])
    /\ \A i, j \in DOMAIN queue[r] : queue[r][i] = queue[r][j] => i = j
AtWorker(w, t) ==
    /\ \A i \in DOMAIN jobs[w] : jobs[w][i].late \/ jobs[w][i].id = t
    /\ \A i, j \in DOMAIN jobs[w] : (~jobs[w][i].late /\ ~jobs[w][j].late) => i = j
    /\ \A i \in DOMAIN jobs[w] : \A j \in DOMAIN outbox[w] :
         ~jobs[w][i].late => ~Answering(outbox[w][j], t)
Posting(r) ==
    /\ Waiting(r)
    /\ \A w \in {r} \X Names : \A i \in DOMAIN jobs[w] : jobs[w][i].late => jobs[w][i].id # active[r]
    /\ worker[r] # NoWorker => AtWorker(worker[r], active[r])
Posted == \A r \in Roles : Posting(r)

\* A name is left for a role without a worker when nothing is being terminated.
NameLeft ==
    (phase = "terminating" /\ killing = {}) =>
        \A r \in Roles : worker[r] # NoWorker \/ Fresh(r) # {}

PoolInv == SearchTypeOK /\ Staffing /\ Chain /\ Attempts /\ Blame /\ Coverage /\ Mail /\ Timed

-------------------------------------------------------------------------------
(***************************************************************************)
(* Names and ids.                                                          *)
(***************************************************************************)
LEMMA WorkerFacts ==
    /\ NoWorker \notin Workers /\ NoTimer \notin Tasks \X Workers
    /\ \A w \in Workers : Role(w) \in Roles /\ w \in {Role(w)} \X Names
    /\ \A r \in Roles : \A w \in {r} \X Names : w \in Workers /\ Role(w) = r
    /\ "search" \in Roles /\ "diagnostics" \in Roles /\ "all" \notin Roles
    /\ \A r \in Roles : r = "search" \/ r = "diagnostics"
    BY DEF Workers, NoWorker, NoTimer, Roles, Role

LEMMA ResetFacts ==
    /\ Whole.kind = "all"
    /\ \A h \in {Whole} \cup RoleResets :
         /\ (h = Whole) <=> (h.kind = "all")
         /\ h # Whole => h \in RoleResets /\ h.kind \in Roles
                         /\ h.readiness \in BOOLEAN /\ h.expected \in Workers
    BY DEF Whole, RoleResets, Roles

\* The resets of a role in the chain.
LEMMA EntryFacts ==
    ASSUME SearchTypeOK
    PROVE  \A r \in Roles : \A j \in DOMAIN lifecycle : lifecycle[j].kind = r =>
              /\ lifecycle[j] # Whole /\ lifecycle[j].expected \in Workers
              /\ lifecycle[j].expected # NoWorker
<1>1. \A j \in DOMAIN lifecycle : lifecycle[j] \in {Whole} \cup RoleResets
    BY DEF SearchTypeOK
<1> QED
    BY <1>1, ResetFacts, WorkerFacts

LEMMA TaskFacts == NoTask \notin Tasks /\ Tasks \subseteq Nat
    BY SearchBoundsAssumption DEF Tasks, NoTask

LEMMA NextIdIsFree ==
    ASSUME NEW r \in Roles, FreeIds(r) # {}
    PROVE  NextId(r) \in Tasks /\ ~Mentioned(NextId(r))
<1>1. FreeIds(r) \subseteq Tasks /\ FreeIds(r) \subseteq Nat
    BY TaskFacts DEF FreeIds, Tasks
<1>2. NextId(r) \in FreeIds(r)
    BY DEF NextId
<1> QED
    BY <1>1, <1>2 DEF FreeIds

\* A sequence is a function on the numbers up to its length.
LEMMA ElementFacts ==
    ASSUME NEW S, NEW s \in Seq(S)
    PROVE  Len(s) \in Nat /\ DOMAIN s = 1..Len(s) /\ \A i \in DOMAIN s : s[i] \in S
    OBVIOUS

\* A sequence with one element more.
LEMMA AppendFacts ==
    ASSUME NEW S, NEW s \in Seq(S), NEW m \in S
    PROVE  /\ Append(s, m) \in Seq(S) /\ Append(s, m) # <<>>
           /\ Len(Append(s, m)) = Len(s) + 1 /\ Len(s) \in Nat
           /\ \A j \in DOMAIN s : /\ j \in 1..Len(s) /\ j \in DOMAIN Append(s, m)
                                  /\ Append(s, m)[j] = s[j]
           /\ Len(s) + 1 \in DOMAIN Append(s, m) /\ Append(s, m)[Len(s) + 1] = m
           /\ \A j \in DOMAIN Append(s, m) : j \in DOMAIN s \/ j = Len(s) + 1
           /\ s # <<>> => Head(Append(s, m)) = Head(s)
           /\ s = <<>> => Head(Append(s, m)) = m
    OBVIOUS

\* A sequence without its first element.
LEMMA TailFacts ==
    ASSUME NEW S, NEW s \in Seq(S), s # <<>>
    PROVE  /\ Tail(s) \in Seq(S) /\ Head(s) \in S /\ Head(s) = s[1] /\ 1 \in DOMAIN s
           /\ Len(Tail(s)) = Len(s) - 1 /\ Len(s) \in Nat \ {0}
           /\ \A j \in DOMAIN Tail(s) :
                j \in Nat \ {0} /\ j + 1 \in DOMAIN s /\ Tail(s)[j] = s[j + 1]
           /\ \A j \in DOMAIN s : j \in 1..Len(s) /\ (j # 1 => j - 1 \in DOMAIN Tail(s))
           /\ Tail(s) # <<>> => Head(Tail(s)) = s[2] /\ 2 \in DOMAIN s
    OBVIOUS

\* While a role has no worker, all resets of the role expect the same one.
LEMMA ANameIsLeft == PoolInv => NameLeft
<1> SUFFICES ASSUME PoolInv, phase = "terminating", killing = {},
                    NEW r \in Roles, worker[r] = NoWorker
             PROVE  Fresh(r) # {}
    BY DEF NameLeft
<1> USE DEF PoolInv
<1>1. \A w \in {r} \X Names : w \notin workers /\ ~Live(w)
    BY WorkerFacts DEF Staffing
<1>2. \A i, j \in DOMAIN lifecycle :
         (lifecycle[i].kind = r /\ lifecycle[j].kind = r) =>
            lifecycle[i].expected = lifecycle[j].expected
  <2>1. \A i \in DOMAIN lifecycle : lifecycle[i].kind = r => lifecycle[i].expected # NoWorker
      BY WorkerFacts, ResetFacts DEF SearchTypeOK
  <2> QED
      BY <2>1 DEF Chain, Current, RoleEntry
<1>3. \A i \in DOMAIN lifecycle : lifecycle[i] # Whole =>
         /\ lifecycle[i].kind = Role(lifecycle[i].expected)
         /\ lifecycle[i].expected \in Workers
  <2>1. \A i \in DOMAIN lifecycle : lifecycle[i] # Whole =>
           lifecycle[i].kind \in Roles /\ lifecycle[i].expected \in Workers
      BY ResetFacts DEF SearchTypeOK
  <2>2. \A q \in Roles : \A i \in DOMAIN lifecycle :
           lifecycle[i].kind = q => Role(lifecycle[i].expected) = q
      BY DEF Chain, RoleEntry
  <2> QED
      BY <2>1, <2>2
<1>4. \A v, w \in Expected : (v \in {r} \X Names /\ w \in {r} \X Names) => v = w
    BY <1>2, <1>3, WorkerFacts DEF Expected
<1>5. PICK m, n \in Names : m # n
    BY NamesAssumption
<1>6. <<r, m>> \in {r} \X Names /\ <<r, n>> \in {r} \X Names /\ <<r, m>> # <<r, n>>
    BY <1>5
<1>7. \E w \in {r} \X Names : w \notin Expected
    BY <1>4, <1>6
<1> QED
    BY <1>1, <1>7 DEF Fresh

-------------------------------------------------------------------------------
LEMMA PoolInit == Init => PoolInv
<1> SUFFICES ASSUME Init PROVE PoolInv
    OBVIOUS
<1> USE WorkerFacts, SearchBoundsAssumption, NamesAssumption
<1>1. /\ \A r \in Roles : worker[r] \in {r} \X Names
      /\ worker \in [Roles -> Workers]
      /\ workers \subseteq Workers
    BY DEF Init, Workers
<1>2. SearchTypeOK
  <2>1. /\ active \in [Roles -> Tasks \cup {NoTask}] /\ queue \in [Roles -> Seq(Tasks)]
        /\ deadlineTimer \in [Roles -> (Tasks \X Workers) \cup {NoTimer}]
        /\ lifecycle \in Seq({Whole} \cup RoleResets)
      BY DEF Init
  <2>2. /\ jobs \in [Workers -> Seq([id : Tasks, late : BOOLEAN])]
        /\ outbox \in [Workers -> Seq(ToPool)]
      BY DEF Init
  <2>3. thread \in [Workers -> {"booting", "up", "dead"}]
      BY DEF Init
  <2>4. {ready, degraded} \subseteq [Roles -> BOOLEAN] /\ {closed, resetQueued} \subseteq BOOLEAN
      BY DEF Init
  <2>5. failures \in [Roles -> 0..MaxReadyAttempts]
      BY DEF Init
  <2>6. {workers, resetting, killing, outdated, blamed} \subseteq SUBSET Workers
      BY <1>1 DEF Init
  <2> QED
      BY <1>1, <2>1, <2>2, <2>3, <2>4, <2>5, <2>6 DEF Init, SearchTypeOK
<1>3. Staffing
    BY <1>1 DEF Init, Staffing, Live
<1>4. Chain /\ Attempts /\ Blame /\ Coverage
    BY <1>1 DEF Init, Chain, Attempts, Blame, Coverage, RoleEntry, Current
<1>5. Mail
    BY DEF Init, Mail
<1>6. Timed
    BY DEF Init, Timed
<1> QED
    BY <1>2, <1>3, <1>4, <1>5, <1>6 DEF PoolInv

-------------------------------------------------------------------------------
(***************************************************************************)
(* The tasks.                                                              *)
(***************************************************************************)
\* A step of the tasks: no worker is replaced, no reset queued.
LEMMA TaskFrame ==
    ASSUME PoolInv, UNCHANGED <<worker, failures, degraded, poolVars, resetVars, thread>>,
           cache' \in {cache, "none"}
    PROVE  Staffing' /\ Chain' /\ Attempts' /\ Blame' /\ Coverage'
<1> USE DEF PoolInv, poolVars, resetVars
<1>1. Staffing'
    BY DEF Staffing, Live
<1>2. Chain'
    BY DEF Chain, RoleEntry, Current
<1>3. Attempts'
    BY DEF Attempts
<1>4. Blame'
    BY DEF Blame, RoleEntry, Current
<1>5. Coverage'
    BY DEF Coverage
<1> QED
    BY <1>1, <1>2, <1>3, <1>4, <1>5

\* What pump() does with a queue q and an active task a of the role r.
Pumped(r, q, a) ==
    /\ \A s \in Roles \ {r} : /\ active'[s] = active[s] /\ queue'[s] = queue[s]
                              /\ deadlineTimer'[s] = deadlineTimer[s]
    /\ \A w \in Workers : (w # worker[r] \/ ~Live(w)) => jobs'[w] = jobs[w]
    /\ \/ /\ ready[r] /\ worker[r] \in Workers /\ a = NoTask /\ ~closed /\ q # <<>>
          /\ active'[r] = Head(q) /\ queue'[r] = Tail(q) /\ Head(q) \in Tasks
          /\ deadlineTimer'[r] = <<Head(q), worker[r]>>
          /\ Live(worker[r]) =>
               jobs'[worker[r]] = Append(jobs[worker[r]], [id |-> Head(q), late |-> FALSE])
       \/ /\ ~(ready[r] /\ worker[r] # NoWorker /\ a = NoTask /\ ~closed /\ q # <<>>)
          /\ active'[r] = a /\ queue'[r] = q /\ jobs' = jobs
          /\ deadlineTimer'[r] = IF a = NoTask THEN NoTimer ELSE deadlineTimer[r]

LEMMA PumpFacts ==
    ASSUME SearchTypeOK, Staffing, NEW r \in Roles, NEW q \in Seq(Tasks), NEW a \in Tasks \cup {NoTask},
           Pump(r, q, a)
    PROVE  /\ active' \in [Roles -> Tasks \cup {NoTask}] /\ queue' \in [Roles -> Seq(Tasks)]
           /\ deadlineTimer' \in [Roles -> (Tasks \X Workers) \cup {NoTimer}]
           /\ jobs' \in [Workers -> Seq([id : Tasks, late : BOOLEAN])]
           /\ Pumped(r, q, a)
<1> USE WorkerFacts DEF SearchTypeOK
<1>1. CASE ready[r] /\ worker[r] # NoWorker /\ a = NoTask /\ ~closed /\ q # <<>>
  <2>1. /\ active' = [active EXCEPT ![r] = Head(q)] /\ queue' = [queue EXCEPT ![r] = Tail(q)]
        /\ deadlineTimer' = [deadlineTimer EXCEPT ![r] = <<Head(q), worker[r]>>]
        /\ Post(worker[r], Head(q))
      BY <1>1 DEF Pump
  <2>2. Head(q) \in Tasks /\ Tail(q) \in Seq(Tasks) /\ worker[r] \in Workers
      BY <1>1
  <2> DEFINE m == [id |-> Head(q), late |-> FALSE]
             w == worker[r]
  <2>3. m \in [id : Tasks, late : BOOLEAN]
      BY <2>2
  <2>4. jobs' = [jobs EXCEPT ![w] = IF Live(w) THEN Append(jobs[w], m) ELSE jobs[w]]
      BY <2>1 DEF Post
  <2>5. jobs[w] \in Seq([id : Tasks, late : BOOLEAN])
      BY <2>2
  <2>6. Append(jobs[w], m) \in Seq([id : Tasks, late : BOOLEAN])
      BY <2>3, <2>5, AppendFacts
  <2>7. jobs' \in [Workers -> Seq([id : Tasks, late : BOOLEAN])]
      BY <2>2, <2>4, <2>5, <2>6
  <2>8. Live(w) => jobs'[w] = Append(jobs[w], m)
      BY <2>2, <2>4
  <2>9. \A v \in Workers : (v # w \/ ~Live(v)) => jobs'[v] = jobs[v]
      BY <2>4
  <2>10. /\ active' \in [Roles -> Tasks \cup {NoTask}] /\ queue' \in [Roles -> Seq(Tasks)]
         /\ deadlineTimer' \in [Roles -> (Tasks \X Workers) \cup {NoTimer}]
      BY <2>1, <2>2
  <2>11. /\ active'[r] = Head(q) /\ queue'[r] = Tail(q)
         /\ deadlineTimer'[r] = <<Head(q), worker[r]>>
         /\ \A s \in Roles \ {r} : /\ active'[s] = active[s] /\ queue'[s] = queue[s]
                                   /\ deadlineTimer'[s] = deadlineTimer[s]
      BY <2>1
  <2> QED
      BY <1>1, <2>2, <2>7, <2>8, <2>9, <2>10, <2>11 DEF Pumped
<1>2. CASE ~(ready[r] /\ worker[r] # NoWorker /\ a = NoTask /\ ~closed /\ q # <<>>)
  <2>1. /\ active' = [active EXCEPT ![r] = a] /\ queue' = [queue EXCEPT ![r] = q]
        /\ deadlineTimer' = [deadlineTimer EXCEPT ![r] = IF a = NoTask THEN NoTimer ELSE @]
        /\ jobs' = jobs
      BY <1>2 DEF Pump
  <2>2. /\ active' \in [Roles -> Tasks \cup {NoTask}] /\ queue' \in [Roles -> Seq(Tasks)]
        /\ deadlineTimer' \in [Roles -> (Tasks \X Workers) \cup {NoTimer}]
      BY <2>1
  <2>3. /\ active'[r] = a /\ queue'[r] = q
        /\ deadlineTimer'[r] = IF a = NoTask THEN NoTimer ELSE deadlineTimer[r]
        /\ \A s \in Roles \ {r} : /\ active'[s] = active[s] /\ queue'[s] = queue[s]
                                  /\ deadlineTimer'[s] = deadlineTimer[s]
      BY <2>1
  <2> QED
      BY <1>2, <2>1, <2>2, <2>3 DEF Pumped
<1> QED
    BY <1>1, <1>2

\* pump() with the active task, or with none after its answer.
LEMMA PumpKeepsTimed ==
    ASSUME PoolInv, NEW r \in Roles, NEW q \in Seq(Tasks), NEW a \in {active[r], NoTask},
           Pump(r, q, a), UNCHANGED <<worker, ready, readyTimer>>
    PROVE  Timed'
<1> USE WorkerFacts, TaskFacts DEF PoolInv
<1>1. a \in Tasks \cup {NoTask}
    BY DEF SearchTypeOK
<1>2. /\ \A s \in Roles \ {r} : /\ active'[s] = active[s] /\ deadlineTimer'[s] = deadlineTimer[s]
      /\ \/ /\ worker[r] \in Workers /\ Head(q) \in Tasks
            /\ active'[r] = Head(q) /\ deadlineTimer'[r] = <<Head(q), worker[r]>>
         \/ /\ active'[r] = a
            /\ deadlineTimer'[r] = IF a = NoTask THEN NoTimer ELSE deadlineTimer[r]
  <2>1. Pumped(r, q, a)
      BY <1>1, PumpFacts
  <2> QED
      BY <2>1 DEF Pumped
<1>3. ASSUME NEW s \in Roles
      PROVE  /\ (active'[s] # NoTask) <=> (deadlineTimer'[s] # NoTimer)
             /\ deadlineTimer'[s] # NoTimer =>
                  (deadlineTimer'[s] = <<active'[s], worker[s]>> /\ worker[s] # NoWorker)
  <2>1. CASE s # r
      BY <1>2, <2>1 DEF Timed
  <2>2. CASE /\ s = r /\ worker[r] \in Workers /\ Head(q) \in Tasks
             /\ active'[r] = Head(q) /\ deadlineTimer'[r] = <<Head(q), worker[r]>>
      BY <2>2 DEF NoTimer
  <2>3. CASE /\ s = r /\ active'[r] = a
             /\ deadlineTimer'[r] = IF a = NoTask THEN NoTimer ELSE deadlineTimer[r]
      BY <2>3 DEF Timed
  <2> QED
      BY <1>2, <2>1, <2>2, <2>3
<1> QED
    BY <1>3 DEF Timed

\* Nobody posts to a dead thread.
LEMMA PumpKeepsMail ==
    ASSUME PoolInv, NEW r \in Roles, NEW q \in Seq(Tasks), NEW a \in Tasks \cup {NoTask},
           Pump(r, q, a), UNCHANGED <<workers, thread>>,
           \A w \in Workers :
             /\ w \notin workers => outbox'[w] = <<>>
             /\ \A j \in DOMAIN outbox'[w] :
                  outbox'[w][j].type = "exit" => (j = Len(outbox'[w]) /\ ~Live(w))
    PROVE  Mail'
<1> USE DEF PoolInv
<1>1. \A w \in Workers : (w # worker[r] \/ ~Live(w)) => jobs'[w] = jobs[w]
    BY PumpFacts DEF Pumped
<1>2. \A w \in Workers : Live(w)' <=> Live(w)
    BY DEF Live
<1> QED
    BY <1>1, <1>2 DEF Mail

LEMMA SearchStep == PoolInv /\ Search => PoolInv'
<1> SUFFICES ASSUME PoolInv, Search PROVE PoolInv'
    OBVIOUS
<1> USE WorkerFacts DEF PoolInv
<1> DEFINE r == "search"
           q == Append(queue[r], NextId(r))
<1>1. /\ FreeIds(r) # {} /\ Pump(r, q, active[r])
      /\ UNCHANGED <<roleVars, poolVars, cache, resetVars, thread, outbox>>
    BY DEF Search, Accepts
<1>2. q \in Seq(Tasks) /\ active[r] \in Tasks \cup {NoTask}
    BY <1>1, NextIdIsFree DEF SearchTypeOK
<1> HIDE DEF q
<1>3. /\ active' \in [Roles -> Tasks \cup {NoTask}] /\ queue' \in [Roles -> Seq(Tasks)]
      /\ deadlineTimer' \in [Roles -> (Tasks \X Workers) \cup {NoTimer}]
      /\ jobs' \in [Workers -> Seq([id : Tasks, late : BOOLEAN])]
    BY <1>1, <1>2, PumpFacts
<1>4. SearchTypeOK'
    BY <1>1, <1>3 DEF SearchTypeOK, roleVars, poolVars, resetVars
<1>5. Staffing' /\ Chain' /\ Attempts' /\ Blame' /\ Coverage'
    BY <1>1, TaskFrame DEF roleVars
<1>6. Timed'
    BY <1>1, <1>2, PumpKeepsTimed DEF roleVars
<1>7. Mail'
    BY <1>1, <1>2, PumpKeepsMail DEF Mail, poolVars
<1> QED
    BY <1>4, <1>5, <1>6, <1>7

LEMMA DiagnosticsStep ==
    ASSUME PoolInv, NEW fresh \in BOOLEAN, Diagnostics(fresh)
    PROVE  PoolInv'
<1> USE WorkerFacts DEF PoolInv
<1> DEFINE r == "diagnostics"
           q == <<NextId(r)>>
<1>1. /\ FreeIds(r) # {} /\ cache' \in {cache, "none"}
      /\ UNCHANGED <<roleVars, poolVars, resetVars, thread, outbox>>
    BY DEF Diagnostics, Accepts
<1>2. Staffing' /\ Chain' /\ Attempts' /\ Blame' /\ Coverage'
    BY <1>1, TaskFrame DEF roleVars
<1>3. CASE Pump(r, q, NoTask)
  <2>1. q \in Seq(Tasks)
      BY <1>1, NextIdIsFree
  <2> HIDE DEF q
  <2>2. /\ active' \in [Roles -> Tasks \cup {NoTask}] /\ queue' \in [Roles -> Seq(Tasks)]
        /\ deadlineTimer' \in [Roles -> (Tasks \X Workers) \cup {NoTimer}]
        /\ jobs' \in [Workers -> Seq([id : Tasks, late : BOOLEAN])]
      BY <1>3, <2>1, PumpFacts
  <2>3. SearchTypeOK'
      BY <1>1, <2>2 DEF SearchTypeOK, roleVars, poolVars, resetVars
  <2>4. Timed'
      BY <1>1, <1>3, <2>1, PumpKeepsTimed DEF roleVars
  <2>5. Mail'
      BY <1>1, <1>3, <2>1, PumpKeepsMail DEF Mail, poolVars
  <2> QED
      BY <1>2, <2>3, <2>4, <2>5
<1>4. CASE UNCHANGED <<taskVars, jobs>>
  <2>1. SearchTypeOK'
      BY <1>1, <1>4 DEF SearchTypeOK, roleVars, poolVars, resetVars, taskVars
  <2>2. Timed'
      BY <1>1, <1>4 DEF Timed, roleVars, taskVars
  <2>3. Mail'
      BY <1>1, <1>4 DEF Mail, Live, poolVars
  <2> QED
      BY <1>2, <2>1, <2>2, <2>3
<1> QED
    BY <1>3, <1>4 DEF Diagnostics

-------------------------------------------------------------------------------
(***************************************************************************)
(* restart() and close().                                                  *)
(***************************************************************************)
\* The whole reset joins the chain, or is there already.
LEMMA WholeQueued ==
    ASSUME PoolInv, EnqueueReset, UNCHANGED <<worker, blamed>>
    PROVE  /\ lifecycle' \in Seq({Whole} \cup RoleResets)
           /\ Chain' /\ Blame' /\ resetQueued'
           /\ lifecycle # <<>> => lifecycle' # <<>> /\ Head(lifecycle') = Head(lifecycle)
<1> USE ResetFacts, WorkerFacts DEF PoolInv
<1>1. lifecycle \in Seq({Whole} \cup RoleResets) /\ resetQueued \in BOOLEAN /\ resetQueued' = TRUE
    BY DEF SearchTypeOK, EnqueueReset
<1>2. CASE resetQueued
  <2>1. lifecycle' = lifecycle
      BY <1>2 DEF EnqueueReset
  <2>2. Chain'
      BY <1>1, <1>2, <2>1 DEF Chain, RoleEntry, Current
  <2>3. Blame'
      BY <2>1 DEF Blame, RoleEntry, Current
  <2> QED
      BY <1>1, <2>1, <2>2, <2>3
<1>3. CASE ~resetQueued
  <2> DEFINE n == Len(lifecycle) + 1
  <2>1. lifecycle' = Append(lifecycle, Whole)
      BY <1>3 DEF EnqueueReset
  <2>2. /\ lifecycle' \in Seq({Whole} \cup RoleResets) /\ lifecycle' # <<>>
        /\ \A j \in DOMAIN lifecycle : /\ j \in 1..Len(lifecycle) /\ j \in DOMAIN lifecycle'
                                       /\ lifecycle'[j] = lifecycle[j]
        /\ n \in DOMAIN lifecycle' /\ lifecycle'[n] = Whole /\ n \in Nat
        /\ \A j \in DOMAIN lifecycle' : j \in DOMAIN lifecycle \/ j = n
        /\ lifecycle # <<>> => Head(lifecycle') = Head(lifecycle)
      BY <1>1, <2>1, AppendFacts
  <2> HIDE DEF n
  <2>3. \A j \in DOMAIN lifecycle : lifecycle[j] # Whole
      BY <1>3 DEF Chain
  <2>4. \A r \in Roles : \A j \in DOMAIN lifecycle' :
           RoleEntry(j, r)' => j \in DOMAIN lifecycle /\ RoleEntry(j, r)
      BY <2>2 DEF RoleEntry
  <2>5. \A r \in Roles : \A j \in DOMAIN lifecycle : Current(j, r)' <=> Current(j, r)
      BY <2>2 DEF RoleEntry, Current
  <2>6. \A i \in DOMAIN lifecycle' : lifecycle'[i] = Whole => i = n
      BY <2>2, <2>3
  <2>7. \A r \in Roles : \A i, j \in DOMAIN lifecycle' :
         (RoleEntry(i, r) /\ RoleEntry(j, r))' =>
           /\ Role(lifecycle'[i].expected) = r
           /\ (~Current(i, r) /\ ~Current(j, r))' => lifecycle'[i].expected = lifecycle'[j].expected
           /\ (i < j /\ Current(i, r)') => Current(j, r)'
      BY <2>2, <2>4, <2>5 DEF Chain
  <2>8. \A r \in Roles : \A i, j \in DOMAIN lifecycle' :
         ~(i < j /\ lifecycle'[i] = Whole /\ RoleEntry(j, r)')
    <3>1. \A j \in DOMAIN lifecycle : j < n
        BY <1>1, <2>2 DEF n
    <3>2. \A r \in Roles : \A j \in DOMAIN lifecycle' : RoleEntry(j, r)' => j \in Nat /\ j < n
        BY <2>2, <2>4, <3>1
    <3>3. n \in Nat
        BY <2>2
    <3> QED
        BY <2>6, <3>2, <3>3
  <2>9. Chain'
      BY <1>1, <2>2, <2>6, <2>7, <2>8 DEF Chain
  <2>10. Blame'
      BY <2>4, <2>5 DEF Blame, Current
  <2> QED
      BY <1>1, <2>2, <2>9, <2>10
<1> QED
    BY <1>1, <1>2, <1>3

LEMMA RestartCloseStep == PoolInv /\ (Restart \/ Close) => PoolInv'
<1> SUFFICES ASSUME PoolInv, Restart \/ Close PROVE PoolInv'
    OBVIOUS
<1> USE WorkerFacts DEF PoolInv
<1>1. /\ UNCHANGED <<worker, ready, degraded, failures, readyTimer, active, queue, deadlineTimer>>
      /\ UNCHANGED <<workers, resetting, blamed, killing, phase, thread, jobs, outbox>>
      /\ EnqueueReset
    BY DEF Restart, Close, roleVars, taskVars, threadVars
<1>2. /\ closed' \in BOOLEAN /\ outdated' \subseteq Workers
      /\ cache' \in {"none", "current", "outdated"}
      /\ cache = "none" => cache' = "none"
    BY DEF Restart, Close, SearchTypeOK
<1>3. /\ lifecycle' \in Seq({Whole} \cup RoleResets)
      /\ Chain' /\ Blame' /\ resetQueued'
      /\ lifecycle # <<>> => lifecycle' # <<>> /\ Head(lifecycle') = Head(lifecycle)
    BY <1>1, WholeQueued
<1>4. resetQueued' = TRUE
    BY <1>1 DEF EnqueueReset
<1>5. SearchTypeOK'
  <2>1. {closed, resetQueued}' \subseteq BOOLEAN
      BY <1>2, <1>4
  <2>2. {workers, resetting, killing, outdated, blamed}' \subseteq SUBSET Workers
      BY <1>1, <1>2 DEF SearchTypeOK
  <2> QED
      BY <1>1, <1>2, <1>3, <2>1, <2>2 DEF SearchTypeOK
<1>6. Staffing'
    BY <1>1, <1>2, <1>3 DEF Staffing, Live
<1>7. Attempts'
    BY <1>1, <1>3 DEF Attempts, Staffing
<1>8. Coverage'
    BY <1>1, <1>3 DEF Coverage
<1>9. Mail'
    BY <1>1 DEF Mail, Live
<1>10. Timed'
    BY <1>1 DEF Timed
<1> QED
    BY <1>3, <1>5, <1>6, <1>7, <1>8, <1>9, <1>10

-------------------------------------------------------------------------------
(***************************************************************************)
(* The resets.                                                             *)
(***************************************************************************)
\* Which roles S and threads K a reset is about, and how it counts the failures.
ResetBegins(S, K) ==
    /\ S \subseteq Roles /\ K \subseteq Workers
    /\ phase = "idle" /\ lifecycle # <<>> /\ ResetRoles(S, K)
    /\ \A r \in S : \A i, j \in DOMAIN lifecycle :
          (RoleEntry(i, r) /\ RoleEntry(j, r)) => lifecycle[i].expected = lifecycle[j].expected
    /\ \A w \in workers : Role(w) \in S => w \in K
    /\ \A w \in K : Role(w) \in S
    /\ \A v, w \in K : Role(v) = Role(w) => v = w
    /\ \A r \in Roles : Head(lifecycle).kind = r => r \in S
    /\ Head(lifecycle) = Whole => S = Roles
    /\ failures' \in [Roles -> 0..MaxReadyAttempts]
    /\ \A r \in Roles \ S : failures'[r] = failures[r] /\ degraded'[r] = degraded[r]
    /\ \A r \in Roles : (Head(lifecycle) = Whole
                          \/ (Head(lifecycle).kind = r /\ ~Head(lifecycle).readiness))
                            => failures'[r] < MaxReadyAttempts
    /\ degraded' \in [Roles -> BOOLEAN]
    /\ \A r \in Roles : degraded'[r] => degraded[r]
    /\ \A r \in S : degraded'[r] \/ resetQueued \/ Head(lifecycle).kind = r

\* The roles S lose their workers K, and their tasks are rejected.
LEMMA ResetRolesStep ==
    ASSUME PoolInv, NEW S, NEW K, ResetBegins(S, K)
    PROVE  PoolInv'
<1> USE WorkerFacts DEF PoolInv, ResetBegins
<1>1. /\ \A r \in S : ~ready'[r] /\ worker'[r] = NoWorker /\ readyTimer'[r] = NoWorker
                      /\ active'[r] = NoTask /\ queue'[r] = <<>> /\ deadlineTimer'[r] = NoTimer
      /\ \A r \in Roles \ S :
            /\ (ready'[r] <=> ready[r]) /\ worker'[r] = worker[r] /\ readyTimer'[r] = readyTimer[r]
            /\ active'[r] = active[r] /\ queue'[r] = queue[r] /\ deadlineTimer'[r] = deadlineTimer[r]
    BY DEF ResetRoles
<1>2. /\ cache' = IF "diagnostics" \in S THEN "none" ELSE cache
      /\ resetting' = resetting \cup K /\ killing' = K /\ phase' = "terminating"
      /\ UNCHANGED <<closed, workers, outdated, blamed, lifecycle, resetQueued, thread, jobs, outbox>>
    BY DEF ResetRoles, threadVars
<1>3. SearchTypeOK'
  <2>1. /\ worker' \in [Roles -> Workers \cup {NoWorker}]
        /\ readyTimer' \in [Roles -> Workers \cup {NoWorker}]
        /\ ready' \in [Roles -> BOOLEAN]
      BY DEF ResetRoles, SearchTypeOK
  <2>2. /\ active' \in [Roles -> Tasks \cup {NoTask}] /\ queue' \in [Roles -> Seq(Tasks)]
        /\ deadlineTimer' \in [Roles -> (Tasks \X Workers) \cup {NoTimer}]
      BY DEF ResetRoles, SearchTypeOK
  <2>3. {workers, resetting, killing, outdated, blamed}' \subseteq SUBSET Workers
      BY <1>2 DEF SearchTypeOK
  <2>4. {ready, degraded}' \subseteq [Roles -> BOOLEAN]
      BY <2>1
  <2> QED
      BY <1>2, <2>1, <2>2, <2>3, <2>4 DEF SearchTypeOK
<1>4. Staffing'
  <2>1. \A w \in K : worker'[Role(w)] = NoWorker
      BY <1>1
  <2>2. \A w \in workers : w = worker[Role(w)]
      BY DEF Staffing
  <2>3. \A v, w \in K : Role(v) = Role(w) => v = w
      OBVIOUS
  <2>4. \A w \in workers : w = worker'[Role(w)] \/ w \in K
      BY <1>1, <2>2 DEF SearchTypeOK
  <2>5. Head(lifecycle) = Whole => cache' = "none" /\ \A r \in Roles : worker'[r] = NoWorker
      BY <1>1, <1>2
  <2>6. \A r \in Roles : Head(lifecycle).kind = r => worker'[r] = NoWorker
      BY <1>1
  <2>7. \A r \in Roles : worker'[r] # NoWorker => Role(worker'[r]) = r
      BY <1>1 DEF Staffing
  <2> QED
      BY <1>2, <2>1, <2>3, <2>4, <2>5, <2>6, <2>7 DEF Staffing, Live
<1>5. Chain'
  <2>1. \A r \in Roles \ S : \A j \in DOMAIN lifecycle : Current(j, r)' <=> Current(j, r)
      BY <1>1, <1>2 DEF Current, RoleEntry
  <2>2. \A r \in Roles : \A j \in DOMAIN lifecycle : RoleEntry(j, r)' <=> RoleEntry(j, r)
      BY <1>2 DEF RoleEntry
  <2>3. \A r \in S : \A j \in DOMAIN lifecycle : ~Current(j, r)'
      BY <1>1, <1>2, EntryFacts DEF Current, RoleEntry
  <2>4. \A r \in S : \A i, j \in DOMAIN lifecycle :
         (RoleEntry(i, r) /\ RoleEntry(j, r))' =>
           /\ Role(lifecycle[i].expected) = r
           /\ lifecycle[i].expected = lifecycle[j].expected
      BY <2>2 DEF Chain
  <2> QED
      BY <1>1, <1>2, <2>1, <2>2, <2>3, <2>4 DEF Chain
<1>6. Attempts'
    BY <1>1, <1>2 DEF Attempts
<1>7. Blame'
  <2>1. \A r \in S : \A j \in DOMAIN lifecycle : ~Current(j, r)'
      BY <1>1, <1>2, EntryFacts DEF Current, RoleEntry
  <2>2. \A r \in Roles \ S : \A j \in DOMAIN lifecycle : Current(j, r)' <=> Current(j, r)
      BY <1>1, <1>2 DEF Current, RoleEntry
  <2> QED
      BY <1>1, <1>2, <2>1, <2>2 DEF Blame
<1>8. Coverage'
  <2>1. ~resetQueued => (cache' # "outdated" /\ \A r \in Roles : worker'[r] \notin outdated)
    <3>1. NoWorker \notin outdated
        BY DEF SearchTypeOK
    <3> QED
        BY <1>1, <1>2, <3>1 DEF Coverage
  <2>2. \A r \in Roles : degraded'[r] => worker'[r] = NoWorker
      BY <1>1 DEF Coverage
  <2>3. closed => resetQueued \/ \A r \in Roles : worker'[r] = NoWorker
      BY <1>1 DEF Coverage
  <2>4. ~closed => \A r \in Roles : \/ worker'[r] # NoWorker \/ degraded'[r] \/ resetQueued
                                    \/ Head(lifecycle).kind = r
      BY <1>1 DEF Coverage
  <2> QED
      BY <1>2, <2>1, <2>2, <2>3, <2>4 DEF Coverage
<1>9. Mail'
    BY <1>2 DEF Mail, Live
<1>10. Timed'
    BY <1>1 DEF Timed
<1> QED
    BY <1>3, <1>4, <1>5, <1>6, <1>7, <1>8, <1>9, <1>10

LEMMA BeginAllStep == PoolInv /\ BeginAll => PoolInv'
<1> SUFFICES ASSUME PoolInv, BeginAll PROVE PoolInv'
    OBVIOUS
<1> USE WorkerFacts, ResetFacts, SearchBoundsAssumption DEF PoolInv
<1>1. /\ phase = "idle" /\ lifecycle # <<>> /\ Head(lifecycle) = Whole
      /\ failures' = [r \in Roles |-> 0] /\ degraded' = [r \in Roles |-> FALSE]
      /\ ResetRoles(Roles, workers)
      /\ lifecycle \in Seq({Whole} \cup RoleResets)
    BY DEF BeginAll, SearchTypeOK
<1>2. /\ 1 \in DOMAIN lifecycle /\ lifecycle[1] = Whole
      /\ \A j \in DOMAIN lifecycle : j \in Nat /\ (j # 1 => 1 < j)
    BY <1>1
<1>3. resetQueued
    BY <1>2 DEF Chain
<1>4. \A r \in Roles : \A j \in DOMAIN lifecycle : RoleEntry(j, r) => 1 < j
    BY <1>2 DEF RoleEntry
<1>5. ASSUME NEW r \in Roles, NEW i \in DOMAIN lifecycle, NEW j \in DOMAIN lifecycle,
             RoleEntry(i, r), RoleEntry(j, r)
      PROVE  lifecycle[i].expected = lifecycle[j].expected
  <2>1. (worker[r] = NoWorker \/ Current(i, r)) /\ (worker[r] = NoWorker \/ Current(j, r))
      BY <1>2, <1>4, <1>5 DEF Chain
  <2>2. lifecycle[i].expected # NoWorker /\ lifecycle[j].expected # NoWorker
      BY <1>1, <1>5 DEF RoleEntry
  <2> QED
      BY <1>5, <2>1, <2>2 DEF Chain, Current
<1>6. /\ \A w \in workers : Role(w) \in Roles
      /\ Roles \in SUBSET Roles /\ workers \in SUBSET Workers
      /\ \A v, w \in workers : Role(v) = Role(w) => v = w
  <2>1. workers \subseteq Workers
      BY DEF SearchTypeOK
  <2>2. \A w \in workers : w = worker[Role(w)]
      BY <1>1 DEF Staffing
  <2> QED
      BY <2>1, <2>2
<1>7. /\ failures' \in [Roles -> 0..MaxReadyAttempts] /\ degraded' \in [Roles -> BOOLEAN]
      /\ \A r \in Roles : failures'[r] < MaxReadyAttempts /\ ~degraded'[r]
    BY <1>1
<1>8. ResetBegins(Roles, workers)
    BY <1>1, <1>3, <1>5, <1>6, <1>7 DEF ResetBegins
<1> HIDE DEF PoolInv
<1> QED
    BY <1>8, ResetRolesStep

LEMMA BeginRoleStep ==
    ASSUME PoolInv, NEW r \in Roles, BeginRole(r)
    PROVE  PoolInv'
<1> USE WorkerFacts, ResetFacts, SearchBoundsAssumption DEF PoolInv
<1> DEFINE h == Head(lifecycle)
<1>1. /\ phase = "idle" /\ lifecycle # <<>> /\ h.kind = r
      /\ worker[r] = h.expected
      /\ failures' = [failures EXCEPT ![r] = @ + (IF h.readiness THEN 1 ELSE 0)]
      /\ ResetRoles({r}, {worker[r]})
      /\ degraded' = degraded
      /\ lifecycle \in Seq({Whole} \cup RoleResets)
    BY DEF BeginRole, RoleReset, SearchTypeOK
<1>2. /\ 1 \in DOMAIN lifecycle /\ lifecycle[1] = h /\ h \in {Whole} \cup RoleResets
      /\ \A j \in DOMAIN lifecycle : j \in Nat /\ (j # 1 => 1 < j)
    BY <1>1
<1>3. h # Whole /\ worker[r] \in Workers /\ h.readiness \in BOOLEAN
    BY <1>1, <1>2
<1> HIDE DEF h
<1>4. Current(1, r) /\ \A j \in DOMAIN lifecycle : RoleEntry(j, r) => Current(j, r)
    BY <1>1, <1>2 DEF Chain, Current, RoleEntry
<1>5. \A s \in {r} : \A i, j \in DOMAIN lifecycle :
         (RoleEntry(i, s) /\ RoleEntry(j, s)) => lifecycle[i].expected = lifecycle[j].expected
    BY <1>4 DEF Current
<1>6. /\ {r} \in SUBSET Roles /\ {worker[r]} \in SUBSET Workers
      /\ \A w \in workers : Role(w) \in {r} => w \in {worker[r]}
      /\ \A w \in {worker[r]} : Role(w) \in {r}
      /\ \A v, w \in {worker[r]} : Role(v) = Role(w) => v = w
  <2>1. Role(worker[r]) = r
      BY <1>1, <1>2, <1>4 DEF Chain, Current
  <2> QED
      BY <1>1, <1>3, <2>1 DEF SearchTypeOK, Staffing
<1>7. /\ failures' \in [Roles -> 0..MaxReadyAttempts] /\ degraded' \in [Roles -> BOOLEAN]
      /\ \A s \in Roles \ {r} : failures'[s] = failures[s] /\ degraded'[s] = degraded[s]
      /\ ~h.readiness => failures'[r] < MaxReadyAttempts
  <2>1. failures[r] \in 0..MaxReadyAttempts /\ failures[r] < MaxReadyAttempts
      BY <1>3 DEF Attempts, SearchTypeOK
  <2>2. (IF h.readiness THEN 1 ELSE 0) \in {0, 1}
      OBVIOUS
  <2>3. failures' \in [Roles -> 0..MaxReadyAttempts]
      BY <1>1, <2>1, <2>2 DEF SearchTypeOK
  <2>4. ~h.readiness => failures'[r] = failures[r]
      BY <1>1, <2>1 DEF SearchTypeOK
  <2> QED
      BY <1>1, <2>1, <2>3, <2>4 DEF SearchTypeOK
<1>8. \A s \in Roles : (h = Whole \/ (h.kind = s /\ ~h.readiness)) => failures'[s] < MaxReadyAttempts
    BY <1>1, <1>3, <1>7
<1>9. /\ \A s \in Roles : h.kind = s => s \in {r}
      /\ \A s \in Roles : degraded'[s] => degraded[s]
      /\ \A s \in {r} : degraded'[s] \/ resetQueued \/ h.kind = s
    BY <1>1
<1>10. h = Head(lifecycle)
    BY DEF h
<1>11. ResetBegins({r}, {worker[r]})
    BY <1>1, <1>3, <1>5, <1>6, <1>7, <1>8, <1>9, <1>10 DEF ResetBegins
<1> HIDE DEF PoolInv
<1> QED
    BY <1>11, ResetRolesStep

\* The first reset has been performed; workers are spawned under new names, and
\* only when no whole reset is left.
LEMMA ChainShrinks ==
    ASSUME PoolInv, lifecycle # <<>>, lifecycle' = Tail(lifecycle),
           resetQueued' <=> (resetQueued /\ Head(lifecycle) # Whole),
           \A r \in Roles :
              \/ worker'[r] = worker[r] /\ (worker[r] \in blamed => worker'[r] \in blamed')
              \/ ~resetQueued' /\ worker[r] = NoWorker /\ worker'[r] \in Fresh(r)
    PROVE  Chain' /\ Blame'
<1> USE WorkerFacts, ResetFacts DEF PoolInv
<1>1. /\ lifecycle \in Seq({Whole} \cup RoleResets) /\ lifecycle' \in Seq({Whole} \cup RoleResets)
      /\ Head(lifecycle) = lifecycle[1] /\ 1 \in DOMAIN lifecycle
      /\ \A j \in DOMAIN lifecycle' :
           j \in Nat \ {0} /\ j + 1 \in DOMAIN lifecycle /\ lifecycle'[j] = lifecycle[j + 1]
      /\ \A j \in DOMAIN lifecycle : j \in Nat /\ (j # 1 => j - 1 \in DOMAIN lifecycle')
      /\ \A j \in DOMAIN lifecycle : lifecycle[j] \in {Whole} \cup RoleResets
    BY TailFacts DEF SearchTypeOK
<1>2. \A r \in Roles : \A j \in DOMAIN lifecycle' :
         RoleEntry(j, r)' <=> RoleEntry(j + 1, r)
    BY <1>1 DEF RoleEntry
<1>3. ASSUME NEW r \in Roles, worker'[r] = worker[r]
      PROVE  \A j \in DOMAIN lifecycle' : Current(j, r)' <=> Current(j + 1, r)
    BY <1>1, <1>2, <1>3 DEF Current
<1>4. ASSUME NEW r \in Roles, worker[r] = NoWorker, worker'[r] \in Fresh(r)
      PROVE  \A j \in DOMAIN lifecycle' : ~Current(j, r)' /\ ~Current(j + 1, r)
  <2>1. ASSUME NEW j \in DOMAIN lifecycle, RoleEntry(j, r)
        PROVE  lifecycle[j].expected \in Workers /\ lifecycle[j].expected # worker'[r]
    <3>1. lifecycle[j] # Whole /\ lifecycle[j].expected \in Workers
        BY <1>1, <2>1 DEF RoleEntry
    <3>2. lifecycle[j].expected \in Expected
        BY <3>1 DEF Expected
    <3> QED
        BY <1>4, <3>1, <3>2 DEF Fresh
  <2> QED
      BY <1>1, <1>2, <1>4, <2>1 DEF Current, RoleEntry
<1>5. ASSUME NEW r \in Roles, NEW i \in DOMAIN lifecycle', NEW j \in DOMAIN lifecycle',
             RoleEntry(i, r)', RoleEntry(j, r)'
      PROVE  /\ Role(lifecycle'[i].expected) = r
             /\ (~Current(i, r) /\ ~Current(j, r))' => lifecycle'[i].expected = lifecycle'[j].expected
             /\ (i < j /\ Current(i, r)') => Current(j, r)'
  <2>1. /\ i + 1 \in DOMAIN lifecycle /\ j + 1 \in DOMAIN lifecycle
        /\ lifecycle'[i] = lifecycle[i + 1] /\ lifecycle'[j] = lifecycle[j + 1]
        /\ i \in Nat /\ j \in Nat /\ (i < j => i + 1 < j + 1)
        /\ RoleEntry(i + 1, r) /\ RoleEntry(j + 1, r)
      BY <1>1, <1>2, <1>5
  <2>2. /\ Role(lifecycle[i + 1].expected) = r
        /\ (~Current(i + 1, r) /\ ~Current(j + 1, r))
             => lifecycle[i + 1].expected = lifecycle[j + 1].expected
        /\ (i + 1 < j + 1 /\ Current(i + 1, r)) => Current(j + 1, r)
      BY <2>1 DEF Chain
  <2> QED
      BY <1>3, <1>4, <2>1, <2>2
<1>6. ASSUME NEW r \in Roles, NEW i \in DOMAIN lifecycle', NEW j \in DOMAIN lifecycle',
             i < j, lifecycle'[i] = Whole, RoleEntry(j, r)'
      PROVE  worker'[r] = NoWorker \/ Current(j, r)'
  <2>1. /\ i + 1 \in DOMAIN lifecycle /\ j + 1 \in DOMAIN lifecycle
        /\ lifecycle[i + 1] = Whole /\ i + 1 < j + 1 /\ RoleEntry(j + 1, r) /\ i + 1 # 1
      BY <1>1, <1>2, <1>6
  <2>2. resetQueued /\ lifecycle[1] # Whole
      BY <1>1, <2>1 DEF Chain
  <2>3. worker[r] = NoWorker \/ Current(j + 1, r)
      BY <2>1 DEF Chain
  <2>4. worker'[r] = worker[r]
      BY <1>1, <2>2
  <2> QED
      BY <1>3, <2>3, <2>4
<1>7. resetQueued' <=> \E j \in DOMAIN lifecycle' : lifecycle'[j] = Whole
  <2>1. ASSUME resetQueued' PROVE \E j \in DOMAIN lifecycle' : lifecycle'[j] = Whole
    <3>1. PICK j \in DOMAIN lifecycle : lifecycle[j] = Whole
        BY <2>1 DEF Chain
    <3>2. j # 1 /\ j - 1 \in DOMAIN lifecycle' /\ lifecycle'[j - 1] = lifecycle[(j - 1) + 1]
        BY <1>1, <2>1, <3>1
    <3>3. (j - 1) + 1 = j
        BY <1>1
    <3> QED
        BY <3>1, <3>2, <3>3
  <2>2. ASSUME NEW j \in DOMAIN lifecycle', lifecycle'[j] = Whole PROVE resetQueued'
    <3>1. j + 1 \in DOMAIN lifecycle /\ lifecycle[j + 1] = Whole /\ j + 1 # 1
        BY <1>1, <2>2
    <3> QED
        BY <1>1, <3>1 DEF Chain
  <2> QED
      BY <2>1, <2>2
<1>8. \A i, j \in DOMAIN lifecycle' : (lifecycle'[i] = Whole /\ lifecycle'[j] = Whole) => i = j
    BY <1>1 DEF Chain
<1>9. Chain'
    BY <1>5, <1>6, <1>7, <1>8 DEF Chain
<1>10. Blame'
    BY <1>1, <1>3, <1>4 DEF Blame
<1> QED
    BY <1>9, <1>10

LEMMA SkipRoleStep ==
    ASSUME PoolInv, NEW r \in Roles, SkipRole(r)
    PROVE  PoolInv'
<1> USE WorkerFacts, ResetFacts DEF PoolInv
<1>1. /\ phase = "idle" /\ lifecycle # <<>> /\ Head(lifecycle).kind = r
      /\ worker[r] # Head(lifecycle).expected /\ lifecycle' = Tail(lifecycle)
      /\ UNCHANGED <<roleVars, taskVars, poolVars, cache, resetQueued, killing, phase, threadVars>>
      /\ lifecycle \in Seq({Whole} \cup RoleResets)
    BY DEF SkipRole, RoleReset, SearchTypeOK
<1>2. /\ lifecycle' \in Seq({Whole} \cup RoleResets)
      /\ Head(lifecycle) = lifecycle[1] /\ lifecycle[1] # Whole
      /\ \A j \in DOMAIN lifecycle' :
           j \in Nat \ {0} /\ j + 1 \in DOMAIN lifecycle /\ lifecycle'[j] = lifecycle[j + 1]
      /\ \A j \in DOMAIN lifecycle : j \in Nat /\ (j # 1 => j - 1 \in DOMAIN lifecycle')
    BY <1>1, TailFacts
<1>3. SearchTypeOK'
    BY <1>1, <1>2 DEF SearchTypeOK, roleVars, taskVars, poolVars, threadVars
<1>4. Staffing'
    BY <1>1 DEF Staffing, Live, roleVars, poolVars, threadVars
<1>5. Chain' /\ Blame'
  <2>1. /\ \A s \in Roles : worker'[s] = worker[s] /\ (worker[s] \in blamed => worker'[s] \in blamed')
        /\ resetQueued' <=> (resetQueued /\ Head(lifecycle) # Whole)
      BY <1>1, <1>2 DEF roleVars, poolVars
  <2> HIDE DEF PoolInv
  <2> QED
      BY <1>1, <2>1, ChainShrinks
<1>6. Attempts'
    BY <1>1 DEF Attempts, roleVars
<1>7. Coverage'
    BY <1>1 DEF Coverage, roleVars, poolVars
<1>8. Mail'
    BY <1>1 DEF Mail, Live, poolVars, threadVars
<1>9. Timed'
    BY <1>1 DEF Timed, roleVars, taskVars
<1> QED
    BY <1>3, <1>4, <1>5, <1>6, <1>7, <1>8, <1>9

LEMMA TerminatedStep ==
    ASSUME PoolInv, NEW w \in Workers, Terminated(w)
    PROVE  PoolInv'
<1> USE WorkerFacts DEF PoolInv
<1>1. /\ w \in killing /\ killing' = killing \ {w} /\ workers' = workers \ {w}
      /\ resetting' = resetting \ {w} /\ outdated' = outdated \ {w} /\ blamed' = blamed \ {w}
      /\ UNCHANGED <<worker, ready, degraded, failures, readyTimer, active, queue, deadlineTimer>>
      /\ UNCHANGED <<closed, cache, lifecycle, resetQueued, phase>>
      /\ thread' = [thread EXCEPT ![w] = "dead"]
      /\ jobs' = [jobs EXCEPT ![w] = <<>>] /\ outbox' = [outbox EXCEPT ![w] = <<>>]
    BY DEF Terminated, roleVars, taskVars
<1>2. phase = "terminating" /\ worker[Role(w)] = NoWorker
    BY <1>1 DEF Staffing, SearchTypeOK
<1>3. /\ \A v \in Workers : Live(v)' => v # w /\ Live(v)
      /\ \A v \in Workers : v # w => (Live(v)' <=> Live(v)) /\ jobs'[v] = jobs[v] /\ outbox'[v] = outbox[v]
      /\ jobs'[w] = <<>> /\ outbox'[w] = <<>>
    BY <1>1 DEF Live, SearchTypeOK
<1>4. SearchTypeOK'
  <2>1. {workers, resetting, killing, outdated, blamed}' \subseteq SUBSET Workers
      BY <1>1 DEF SearchTypeOK
  <2>2. thread' \in [Workers -> {"booting", "up", "dead"}]
      BY <1>1 DEF SearchTypeOK
  <2>3. jobs' \in [Workers -> Seq([id : Tasks, late : BOOLEAN])]
    <3> DEFINE M == Seq([id : Tasks, late : BOOLEAN])
    <3>1. jobs \in [Workers -> M] /\ <<>> \in M
        BY EmptySeq DEF SearchTypeOK
    <3> HIDE DEF M
    <3>2. jobs' \in [Workers -> M]
        BY <1>1, <3>1
    <3> QED
        BY <3>2 DEF M
  <2>4. outbox' \in [Workers -> Seq(ToPool)]
    <3> DEFINE M == Seq(ToPool)
    <3>1. outbox \in [Workers -> M] /\ <<>> \in M
        BY EmptySeq DEF SearchTypeOK
    <3> HIDE DEF M
    <3>2. outbox' \in [Workers -> M]
        BY <1>1, <3>1
    <3> QED
        BY <3>2 DEF M
  <2> QED
      BY <1>1, <2>1, <2>2, <2>3, <2>4 DEF SearchTypeOK
<1>5. Staffing'
    BY <1>1, <1>2, <1>3 DEF Staffing
<1>6. Chain' /\ Attempts' /\ Coverage'
    BY <1>1 DEF Chain, RoleEntry, Current, Attempts, Coverage
<1>7. Blame'
  <2>1. \A r \in Roles : \A j \in DOMAIN lifecycle : Current(j, r)' => worker[r] # w
      BY <1>1, <1>2 DEF Current, RoleEntry, Chain
  <2> QED
      BY <1>1, <2>1 DEF Blame, Current, RoleEntry
<1>8. Mail'
    BY <1>1, <1>3 DEF Mail
<1>9. Timed'
    BY <1>1 DEF Timed
<1> QED
    BY <1>4, <1>5, <1>6, <1>7, <1>8, <1>9

\* What spawn() for the roles S does, and how its threads are called.
Spawned(S, new) ==
    /\ \A r \in S : worker'[r] \in Fresh(r) /\ worker'[r] \in new
                    /\ readyTimer'[r] = worker'[r] /\ ~degraded'[r]
    /\ \A w \in new : Role(w) \in S /\ w = worker'[Role(w)] /\ w \in Fresh(Role(w))
    /\ \A r \in Roles \ S : /\ worker'[r] = worker[r] /\ readyTimer'[r] = readyTimer[r]
                            /\ (degraded'[r] <=> degraded[r])
    /\ worker' \in [Roles -> Workers \cup {NoWorker}]
    /\ readyTimer' \in [Roles -> Workers \cup {NoWorker}]
    /\ degraded' \in [Roles -> BOOLEAN]
    /\ workers' = workers \cup new
    /\ thread' = [w \in Workers |-> IF w \in new THEN "booting" ELSE thread[w]]
    /\ resetting' = resetting \ new /\ outdated' = outdated \ new /\ blamed' = blamed \ new

LEMMA SpawnFacts ==
    ASSUME SearchTypeOK, NEW S, S \subseteq Roles, \A r \in S : Fresh(r) # {}, Spawn(S)
    PROVE  \E new \in SUBSET Workers : Spawned(S, new)
<1> USE WorkerFacts
<1> DEFINE name == [r \in S |-> CHOOSE w \in Fresh(r) : TRUE]
           new  == {name[r] : r \in S}
<1>1. \A r \in S : name[r] \in Fresh(r)
    OBVIOUS
<1>2. \A r \in S : name[r] \in {r} \X Names /\ Role(name[r]) = r /\ name[r] \in Workers
    BY <1>1 DEF Fresh
<1>3. new \in SUBSET Workers
    BY <1>2
<1>4. /\ worker' = [r \in Roles |-> IF r \in S THEN name[r] ELSE worker[r]]
      /\ readyTimer' = [r \in Roles |-> IF r \in S THEN name[r] ELSE readyTimer[r]]
      /\ degraded' = [r \in Roles |-> degraded[r] /\ r \notin S]
      /\ workers' = workers \cup new
      /\ thread' = [w \in Workers |-> IF w \in new THEN "booting" ELSE thread[w]]
      /\ resetting' = resetting \ new /\ outdated' = outdated \ new /\ blamed' = blamed \ new
    BY DEF Spawn
<1>5. \A w \in new : \E r \in S : w = name[r]
    OBVIOUS
<1>6. \A r \in S : name[r] \in new
    OBVIOUS
<1> HIDE DEF name, new
<1>7. /\ worker' \in [Roles -> Workers \cup {NoWorker}]
      /\ readyTimer' \in [Roles -> Workers \cup {NoWorker}]
      /\ degraded' \in [Roles -> BOOLEAN]
    BY <1>2, <1>4 DEF SearchTypeOK
<1>8. \A r \in S : worker'[r] = name[r] /\ readyTimer'[r] = name[r] /\ ~degraded'[r]
    BY <1>4
<1>9. \A w \in new : Role(w) \in S /\ w = worker'[Role(w)] /\ w \in Fresh(Role(w))
    BY <1>1, <1>2, <1>5, <1>8
<1>10. \A r \in Roles \ S : /\ worker'[r] = worker[r] /\ readyTimer'[r] = readyTimer[r]
                            /\ (degraded'[r] <=> degraded[r])
    BY <1>4
<1> WITNESS new \in SUBSET Workers
<1> QED
    BY <1>1, <1>4, <1>6, <1>7, <1>8, <1>9, <1>10 DEF Spawned

\* What every end of a reset has in common.
LEMMA EndResetFacts ==
    ASSUME PoolInv, EndReset
    PROVE  /\ phase = "terminating" /\ killing = {} /\ killing' = {} /\ phase' = "idle"
           /\ lifecycle # <<>> /\ lifecycle' = Tail(lifecycle)
           /\ lifecycle' \in Seq({Whole} \cup RoleResets)
           /\ resetQueued' \in BOOLEAN
           /\ resetQueued' <=> (resetQueued /\ Head(lifecycle) # Whole)
           /\ Head(lifecycle) \in {Whole} \cup RoleResets
           /\ Head(lifecycle) = Whole => resetQueued
           /\ UNCHANGED <<ready, failures, closed, cache, jobs, outbox, active, queue, deadlineTimer>>
<1>1. /\ phase = "terminating" /\ killing = {} /\ killing' = killing /\ phase' = "idle"
      /\ lifecycle' = Tail(lifecycle)
      /\ resetQueued' = (resetQueued /\ Head(lifecycle) # Whole)
      /\ UNCHANGED <<ready, failures, closed, cache, jobs, outbox, active, queue, deadlineTimer>>
    BY DEF EndReset, taskVars
<1>2. lifecycle \in Seq({Whole} \cup RoleResets) /\ lifecycle # <<>> /\ resetQueued \in BOOLEAN
    BY <1>1 DEF PoolInv, SearchTypeOK, Staffing
<1>3. /\ lifecycle' \in Seq({Whole} \cup RoleResets)
      /\ Head(lifecycle) \in {Whole} \cup RoleResets
      /\ Head(lifecycle) = lifecycle[1] /\ 1 \in DOMAIN lifecycle
    BY <1>1, <1>2, TailFacts
<1>4. Head(lifecycle) = Whole => resetQueued
    BY <1>3 DEF PoolInv, Chain
<1> QED
    BY <1>1, <1>2, <1>3, <1>4

\* The reset ends without a new worker: the pool is closed, a whole reset is to
\* come, or the role is given up.
LEMMA NothingSpawnedStep ==
    ASSUME PoolInv, EndReset, NothingSpawned,
           degraded' \in [Roles -> BOOLEAN],
           \A r \in Roles : degraded[r] => degraded'[r],
           \A r \in Roles : degraded'[r] => worker[r] = NoWorker,
           \/ closed \/ (resetQueued /\ Head(lifecycle) # Whole)
           \/ Head(lifecycle) # Whole /\ \A r \in Roles : Head(lifecycle).kind = r => degraded'[r]
    PROVE  PoolInv'
<1> USE WorkerFacts DEF PoolInv
<1>1. /\ phase = "terminating" /\ killing = {} /\ killing' = {} /\ phase' = "idle"
      /\ lifecycle # <<>> /\ lifecycle' = Tail(lifecycle)
      /\ lifecycle' \in Seq({Whole} \cup RoleResets)
      /\ resetQueued' \in BOOLEAN
      /\ resetQueued' <=> (resetQueued /\ Head(lifecycle) # Whole)
      /\ Head(lifecycle) \in {Whole} \cup RoleResets
      /\ Head(lifecycle) = Whole => resetQueued
      /\ UNCHANGED <<ready, failures, closed, cache, jobs, outbox, active, queue, deadlineTimer>>
    BY EndResetFacts
<1>2. UNCHANGED <<worker, readyTimer, workers, resetting, outdated, blamed, thread>>
    BY DEF NothingSpawned
<1>3. SearchTypeOK'
  <2>1. {workers, resetting, killing, outdated, blamed}' \subseteq SUBSET Workers
      BY <1>1, <1>2 DEF SearchTypeOK
  <2>2. {closed, resetQueued}' \subseteq BOOLEAN /\ {ready, degraded}' \subseteq [Roles -> BOOLEAN]
      BY <1>1 DEF SearchTypeOK
  <2> QED
      BY <1>1, <1>2, <2>1, <2>2 DEF SearchTypeOK
<1>4. Staffing'
    BY <1>1, <1>2 DEF Staffing, Live
<1>5. Chain' /\ Blame'
  <2>1. \A r \in Roles : worker'[r] = worker[r] /\ (worker[r] \in blamed => worker'[r] \in blamed')
      BY <1>2
  <2> HIDE DEF PoolInv
  <2> QED
      BY <1>1, <2>1, ChainShrinks
<1>6. Attempts'
    BY <1>1, <1>2 DEF Attempts
<1>7. Coverage'
  <2>1. Head(lifecycle) = Whole => (cache = "none" /\ \A r \in Roles : worker[r] = NoWorker)
      BY <1>1 DEF Staffing
  <2>2. NoWorker \notin outdated
      BY DEF SearchTypeOK
  <2>3. ~resetQueued' => (cache # "outdated" /\ \A r \in Roles : worker[r] \notin outdated)
      BY <1>1, <2>1, <2>2 DEF Coverage
  <2>4. closed => resetQueued' \/ \A r \in Roles : worker[r] = NoWorker
      BY <1>1, <2>1 DEF Coverage
  <2>5. ~closed => \A r \in Roles : worker[r] # NoWorker \/ degraded'[r] \/ resetQueued'
      BY <1>1 DEF Coverage
  <2> QED
      BY <1>1, <1>2, <2>3, <2>4, <2>5 DEF Coverage
<1>8. Mail'
    BY <1>1, <1>2 DEF Mail, Live
<1>9. Timed'
    BY <1>1, <1>2 DEF Timed
<1> QED
    BY <1>3, <1>4, <1>5, <1>6, <1>7, <1>8, <1>9

\* The roles S get new workers: all of them after a whole reset, which left none.
LEMMA SpawnedStep ==
    ASSUME PoolInv, EndReset, NEW S, S \subseteq Roles, Spawn(S), ~closed,
           \/ Head(lifecycle) = Whole /\ S = Roles
           \/ /\ Head(lifecycle) # Whole /\ ~resetQueued /\ S = {Head(lifecycle).kind}
              /\ ~GivesUp(Head(lifecycle))
    PROVE  PoolInv'
<1> USE WorkerFacts, ResetFacts DEF PoolInv
<1>1. /\ phase = "terminating" /\ killing = {} /\ killing' = {} /\ phase' = "idle"
      /\ lifecycle # <<>> /\ lifecycle' = Tail(lifecycle)
      /\ lifecycle' \in Seq({Whole} \cup RoleResets)
      /\ resetQueued' \in BOOLEAN
      /\ resetQueued' <=> (resetQueued /\ Head(lifecycle) # Whole)
      /\ Head(lifecycle) \in {Whole} \cup RoleResets
      /\ Head(lifecycle) = Whole => resetQueued
      /\ UNCHANGED <<ready, failures, closed, cache, jobs, outbox, active, queue, deadlineTimer>>
    BY EndResetFacts
<1>2. /\ ~resetQueued'
      /\ \A r \in S : worker[r] = NoWorker
    BY <1>1 DEF Staffing
<1>3. \A r \in S : Fresh(r) # {}
    BY <1>1, <1>2, ANameIsLeft DEF NameLeft
<1> PICK new \in SUBSET Workers : Spawned(S, new)
    BY <1>3, SpawnFacts DEF PoolInv
<1>4. /\ \A r \in S : worker'[r] \in Fresh(r) /\ worker'[r] \in new
                      /\ readyTimer'[r] = worker'[r] /\ ~degraded'[r]
      /\ \A w \in new : Role(w) \in S /\ w = worker'[Role(w)] /\ w \in Fresh(Role(w))
      /\ \A r \in Roles \ S : /\ worker'[r] = worker[r] /\ readyTimer'[r] = readyTimer[r]
                              /\ (degraded'[r] <=> degraded[r])
      /\ worker' \in [Roles -> Workers \cup {NoWorker}]
      /\ readyTimer' \in [Roles -> Workers \cup {NoWorker}]
      /\ degraded' \in [Roles -> BOOLEAN]
      /\ workers' = workers \cup new
      /\ thread' = [w \in Workers |-> IF w \in new THEN "booting" ELSE thread[w]]
      /\ resetting' = resetting \ new /\ outdated' = outdated \ new /\ blamed' = blamed \ new
    BY DEF Spawned
<1>5. \A w \in new : w \notin workers /\ ~Live(w)
    BY <1>4 DEF Fresh
<1>6. SearchTypeOK'
  <2>1. {workers, resetting, killing, outdated, blamed}' \subseteq SUBSET Workers
    <3>1. {workers, resetting, killing, outdated, blamed} \subseteq SUBSET Workers
        BY DEF SearchTypeOK
    <3>2. /\ workers' \subseteq Workers /\ resetting' \subseteq Workers /\ outdated' \subseteq Workers
          /\ blamed' \subseteq Workers /\ killing' = {}
        BY <1>1, <1>4, <3>1
    <3> QED
        BY <3>2
  <2>2. {closed, resetQueued}' \subseteq BOOLEAN /\ {ready, degraded}' \subseteq [Roles -> BOOLEAN]
    <3>1. /\ degraded' \in [Roles -> BOOLEAN] /\ ready' = ready /\ closed' = closed
          /\ resetQueued' \in BOOLEAN
        BY <1>1, <1>4
    <3>2. ready \in [Roles -> BOOLEAN] /\ closed \in BOOLEAN
        BY DEF SearchTypeOK
    <3> QED
        BY <3>1, <3>2
  <2>3. thread' \in [Workers -> {"booting", "up", "dead"}]
    <3>1. thread \in [Workers -> {"booting", "up", "dead"}]
        BY DEF SearchTypeOK
    <3> QED
        BY <1>4, <3>1
  <2> QED
      BY <1>1, <1>4, <2>1, <2>2, <2>3 DEF SearchTypeOK
<1>7. Staffing'
  <2>1. \A w \in Workers : Live(w)' => w \in new \/ Live(w)
      BY <1>4 DEF Live
  <2>2. \A w \in workers : w = worker[Role(w)] /\ w # NoWorker
      BY <1>1 DEF Staffing, SearchTypeOK
  <2>3. \A w \in workers : w = worker'[Role(w)]
    <3>1. \A w \in workers : Role(w) \in Roles \ S
        BY <1>2, <2>2 DEF SearchTypeOK
    <3> QED
        BY <1>4, <2>2, <3>1
  <2>4. \A r \in Roles : worker'[r] # NoWorker => Role(worker'[r]) = r
      BY <1>4 DEF Staffing, Fresh
  <2>5. /\ \A w \in Workers : Live(w)' => w \in workers'
        /\ \A w \in workers' : w = worker'[Role(w)]
      BY <1>4, <2>1, <2>3 DEF Staffing
  <2> QED
      BY <1>1, <2>4, <2>5 DEF Staffing
<1>8. Chain' /\ Blame'
  <2>1. \A r \in Roles \ S : worker[r] # NoWorker => worker[r] \notin new
      BY <1>4 DEF Staffing
  <2>2. \A r \in Roles \ S : worker[r] \in blamed => worker'[r] \in blamed'
      BY <1>4, <2>1 DEF SearchTypeOK
  <2>3. \A r \in Roles :
          \/ worker'[r] = worker[r] /\ (worker[r] \in blamed => worker'[r] \in blamed')
          \/ ~resetQueued' /\ worker[r] = NoWorker /\ worker'[r] \in Fresh(r)
      BY <1>2, <1>4, <2>2
  <2> HIDE DEF PoolInv
  <2> QED
      BY <1>1, <2>3, ChainShrinks
<1>9. Attempts'
  <2>1. \A r \in S : failures[r] < MaxReadyAttempts
    <3>1. \A r \in Roles : failures[r] \in 0..MaxReadyAttempts
        BY DEF SearchTypeOK
    <3>2. CASE Head(lifecycle) = Whole
        BY <1>1, <3>2 DEF Attempts
    <3>3. CASE Head(lifecycle) # Whole /\ S = {Head(lifecycle).kind}
      <4>1. ~Head(lifecycle).readiness \/ failures[Head(lifecycle).kind] < MaxReadyAttempts
          BY <1>1, <3>1, <3>3, SearchBoundsAssumption DEF GivesUp
      <4> QED
          BY <1>1, <3>3, <4>1 DEF Attempts
    <3> QED
        BY <3>2, <3>3
  <2> QED
      BY <1>1, <1>4, <2>1 DEF Attempts
<1>10. Coverage'
  <2>1. \A r \in S : worker'[r] \in Workers /\ worker'[r] \in new
      BY <1>4 DEF Fresh
  <2>2. Head(lifecycle) = Whole => cache = "none" /\ S = Roles
      BY <1>1 DEF Staffing
  <2>3. Head(lifecycle) # Whole => cache # "outdated" /\ \A r \in Roles : worker[r] \notin outdated
      BY <1>1 DEF Coverage
  <2>4. cache # "outdated" /\ \A r \in Roles : worker'[r] \notin outdated'
      BY <1>4, <2>1, <2>2, <2>3
  <2>5. \A r \in Roles : worker'[r] # NoWorker \/ degraded'[r]
    <3>1. \A r \in Roles \ S : worker[r] # NoWorker \/ degraded[r]
        BY <1>1, ResetFacts DEF Coverage
    <3> QED
        BY <1>4, <2>1, <3>1
  <2>6. \A r \in Roles : degraded'[r] => worker'[r] = NoWorker
      BY <1>4 DEF Coverage
  <2> QED
      BY <1>1, <2>4, <2>5, <2>6 DEF Coverage
<1>11. Mail'
  <2>1. \A w \in Workers : Live(w) => Live(w)'
      BY <1>4, <1>5 DEF Live
  <2>2. \A w \in Workers : w \notin workers' => w \notin workers /\ w \notin new
      BY <1>4
  <2>3. \A w \in new : w \notin workers /\ outbox[w] = <<>>
      BY <1>5 DEF Mail
  <2>4. \A w \in Workers : ~Live(w)' => ~Live(w)
      BY <2>1
  <2>5. ASSUME NEW w \in Workers, NEW j \in DOMAIN outbox[w], outbox[w][j].type = "exit"
        PROVE  j = Len(outbox[w]) /\ ~Live(w)'
    <3>1. w \notin new
        BY <2>3, <2>5
    <3>2. Live(w)' <=> Live(w)
        BY <1>4, <3>1 DEF Live
    <3> QED
        BY <2>5, <3>2 DEF Mail
  <2> QED
      BY <1>1, <2>2, <2>4, <2>5 DEF Mail
<1>12. Timed'
  <2>1. \A r \in S : worker'[r] \in Workers /\ deadlineTimer[r] = NoTimer /\ active[r] = NoTask
      BY <1>2, <1>4 DEF Fresh, Timed
  <2>2. ASSUME NEW r \in Roles
        PROVE  /\ (active[r] # NoTask) <=> (deadlineTimer[r] # NoTimer)
               /\ deadlineTimer[r] # NoTimer =>
                    (deadlineTimer[r] = <<active[r], worker'[r]>> /\ worker'[r] # NoWorker)
               /\ ready[r] => worker'[r] # NoWorker
               /\ readyTimer'[r] # NoWorker => readyTimer'[r] = worker'[r]
    <3>1. CASE r \in S
        BY <1>4, <2>1, <3>1
    <3>2. CASE r \in Roles \ S
        BY <1>4, <3>2 DEF Timed
    <3> QED
        BY <3>1, <3>2
  <2> QED
      BY <1>1, <2>2 DEF Timed
<1> QED
    BY <1>6, <1>7, <1>8, <1>9, <1>10, <1>11, <1>12

LEMMA EndResetStep == PoolInv /\ EndReset => PoolInv'
<1> SUFFICES ASSUME PoolInv, EndReset PROVE PoolInv'
    OBVIOUS
<1> USE ResetFacts
<1> DEFINE h == Head(lifecycle)
<1>1. /\ phase = "terminating" /\ killing = {} /\ lifecycle # <<>>
      /\ h \in {Whole} \cup RoleResets
      /\ closed \in BOOLEAN /\ resetQueued \in BOOLEAN /\ degraded \in [Roles -> BOOLEAN]
      /\ \A r \in Roles : degraded[r] => worker[r] = NoWorker
      /\ \A r \in Roles : h.kind = r => worker[r] = NoWorker
      /\ CASE closed \/ (h # Whole /\ resetQueued) -> NothingSpawned /\ UNCHANGED degraded
           [] ~closed /\ h = Whole -> Spawn(Roles)
           [] ~closed /\ h # Whole /\ ~resetQueued /\ GivesUp(h) ->
                 degraded' = [degraded EXCEPT ![h.kind] = TRUE] /\ NothingSpawned
           [] OTHER -> Spawn({h.kind})
    BY EndResetFacts DEF EndReset, PoolInv, SearchTypeOK, Coverage, Staffing
<1>2. CASE closed \/ (h # Whole /\ resetQueued)
  <2>1. NothingSpawned /\ degraded' = degraded
      BY <1>1, <1>2
  <2> QED
      BY <1>1, <1>2, <2>1, NothingSpawnedStep
<1>3. CASE ~closed /\ h = Whole
  <2>1. Spawn(Roles)
      BY <1>1, <1>3
  <2> QED
      BY <1>3, <2>1, SpawnedStep
<1>4. CASE ~closed /\ h # Whole /\ ~resetQueued /\ GivesUp(h)
  <2>1. degraded' = [degraded EXCEPT ![h.kind] = TRUE] /\ NothingSpawned
      BY <1>1, <1>4
  <2>2. h.kind \in Roles
      BY <1>1, <1>4
  <2>3. /\ degraded' \in [Roles -> BOOLEAN] /\ degraded'[h.kind]
        /\ \A r \in Roles : degraded[r] => degraded'[r]
        /\ \A r \in Roles : degraded'[r] => worker[r] = NoWorker
        /\ \A r \in Roles : h.kind = r => degraded'[r]
      BY <1>1, <2>1, <2>2
  <2> QED
      BY <1>4, <2>1, <2>3, NothingSpawnedStep
<1>5. CASE ~closed /\ h # Whole /\ ~resetQueued /\ ~GivesUp(h)
  <2>1. Spawn({h.kind})
      BY <1>1, <1>5
  <2>2. {h.kind} \subseteq Roles
      BY <1>1, <1>5
  <2> QED
      BY <1>5, <2>1, <2>2, SpawnedStep
<1> QED
    BY <1>1, <1>2, <1>3, <1>4, <1>5

-------------------------------------------------------------------------------
(***************************************************************************)
(* Timers and messages.                                                    *)
(***************************************************************************)
\* A reset that expects the present worker of a role joins the chain.
LEMMA RoleResetQueued ==
    ASSUME PoolInv, NEW r \in Roles, worker[r] # NoWorker, NEW b \in BOOLEAN,
           lifecycle' = Append(lifecycle, [kind |-> r, readiness |-> b, expected |-> worker[r]]),
           UNCHANGED <<worker, resetQueued>>, blamed' = blamed \cup {worker[r]}
    PROVE  /\ lifecycle' \in Seq({Whole} \cup RoleResets)
           /\ Chain' /\ Blame'
           /\ lifecycle # <<>> => lifecycle' # <<>> /\ Head(lifecycle') = Head(lifecycle)
<1> USE ResetFacts, WorkerFacts DEF PoolInv
<1> DEFINE m == [kind |-> r, readiness |-> b, expected |-> worker[r]]
<1>1. worker[r] \in Workers /\ Role(worker[r]) = r
    BY DEF SearchTypeOK, Staffing
<1>2. m \in RoleResets /\ m # Whole /\ m.kind = r /\ m.expected = worker[r]
    BY <1>1 DEF RoleResets, Whole
<1>3. lifecycle' = Append(lifecycle, m)
    OBVIOUS
<1> HIDE DEF m
<1>4. lifecycle \in Seq({Whole} \cup RoleResets) /\ m \in {Whole} \cup RoleResets
    BY <1>2 DEF SearchTypeOK
<1> PICK n \in Nat : n = Len(lifecycle) + 1
    BY <1>4
<1>5. /\ lifecycle' \in Seq({Whole} \cup RoleResets) /\ lifecycle' # <<>>
      /\ \A j \in DOMAIN lifecycle : /\ j \in 1..Len(lifecycle) /\ j \in DOMAIN lifecycle'
                                     /\ lifecycle'[j] = lifecycle[j]
      /\ n \in DOMAIN lifecycle' /\ lifecycle'[n] = m /\ n \in Nat
      /\ \A j \in DOMAIN lifecycle' : j \in DOMAIN lifecycle \/ j = n
      /\ lifecycle # <<>> => Head(lifecycle') = Head(lifecycle)
    BY <1>3, <1>4, AppendFacts
<1>6. \A j \in DOMAIN lifecycle : j \in Nat /\ j < n
    BY <1>4, <1>5
<1>7. \A s \in Roles : \A j \in DOMAIN lifecycle :
         (RoleEntry(j, s)' <=> RoleEntry(j, s)) /\ (Current(j, s)' <=> Current(j, s))
    BY <1>5 DEF RoleEntry, Current
<1>8. \A s \in Roles : (RoleEntry(n, s)' => s = r) /\ Current(n, r)'
    BY <1>2, <1>5 DEF RoleEntry, Current
<1>9. ASSUME NEW s \in Roles, NEW i \in DOMAIN lifecycle', NEW j \in DOMAIN lifecycle',
             RoleEntry(i, s)', RoleEntry(j, s)'
      PROVE  /\ Role(lifecycle'[i].expected) = s
             /\ (~Current(i, s) /\ ~Current(j, s))' => lifecycle'[i].expected = lifecycle'[j].expected
             /\ (i < j /\ Current(i, s)') => Current(j, s)'
  <2>1. CASE i \in DOMAIN lifecycle /\ j \in DOMAIN lifecycle
      BY <1>5, <1>7, <1>9, <2>1 DEF Chain
  <2>2. CASE i \in DOMAIN lifecycle /\ j = n
    <3>1. s = r /\ Current(j, s)' /\ RoleEntry(i, s)
        BY <1>7, <1>8, <1>9, <2>2
    <3> QED
        BY <1>5, <2>2, <3>1 DEF Chain
  <2>3. CASE i = n
    <3>1. s = r /\ Current(i, s)' /\ ~(i < j)
        BY <1>5, <1>6, <1>8, <1>9, <2>3
    <3> QED
        BY <1>1, <1>2, <1>5, <2>3, <3>1
  <2> QED
      BY <1>5, <2>1, <2>2, <2>3
<1>10. ASSUME NEW s \in Roles, NEW i \in DOMAIN lifecycle', NEW j \in DOMAIN lifecycle',
              i < j, lifecycle'[i] = Whole, RoleEntry(j, s)'
       PROVE  worker'[s] = NoWorker \/ Current(j, s)'
  <2>1. i \in DOMAIN lifecycle /\ lifecycle[i] = Whole
      BY <1>2, <1>5, <1>10
  <2>2. CASE j \in DOMAIN lifecycle
      BY <1>7, <1>10, <2>1, <2>2 DEF Chain
  <2>3. CASE j = n
      BY <1>8, <1>10, <2>3
  <2> QED
      BY <1>5, <2>2, <2>3
<1>11. (\E j \in DOMAIN lifecycle' : lifecycle'[j] = Whole)
          <=> (\E j \in DOMAIN lifecycle : lifecycle[j] = Whole)
    BY <1>2, <1>5
<1>12. \A i, j \in DOMAIN lifecycle' : (lifecycle'[i] = Whole /\ lifecycle'[j] = Whole) => i = j
    BY <1>2, <1>5 DEF Chain
<1>13. Chain'
    BY <1>9, <1>10, <1>11, <1>12 DEF Chain
<1>14. \A s \in Roles : \A j \in DOMAIN lifecycle' : Current(j, s)' => s = r \/ Current(j, s)
    BY <1>5, <1>7, <1>8 DEF Current
<1>15. Blame'
    BY <1>14 DEF Blame, Current
<1> QED
    BY <1>5, <1>13, <1>15

\* onWorkerFailure() resets the role of a present worker, once.
LEMMA FailureFacts ==
    ASSUME PoolInv, NEW w \in Workers, Failure(w), UNCHANGED <<worker, resetQueued>>
    PROVE  /\ lifecycle' \in Seq({Whole} \cup RoleResets)
           /\ Chain' /\ Blame'
           /\ lifecycle # <<>> => lifecycle' # <<>> /\ Head(lifecycle') = Head(lifecycle)
           /\ resetting' \subseteq Workers /\ blamed' \subseteq Workers
<1> USE WorkerFacts
<1>1. /\ lifecycle \in Seq({Whole} \cup RoleResets) /\ resetting \subseteq Workers /\ blamed \subseteq Workers
      /\ ready \in [Roles -> BOOLEAN]
    BY DEF PoolInv, SearchTypeOK
<1>2. CASE UNCHANGED <<resetting, blamed, lifecycle>>
  <2>1. Chain' /\ Blame'
      BY <1>2 DEF PoolInv, Chain, Blame, RoleEntry, Current
  <2> QED
      BY <1>1, <1>2, <2>1
<1>3. CASE ~(closed \/ w \in resetting \/ worker[Role(w)] # w)
  <2> DEFINE r == Role(w)
             b == ~ready[r]
  <2>1. /\ resetting' = resetting \cup {w} /\ blamed' = blamed \cup {w}
        /\ lifecycle' = Append(lifecycle, [kind |-> r, readiness |-> b, expected |-> w])
        /\ worker[r] = w /\ r \in Roles /\ w # NoWorker
      BY <1>3 DEF Failure
  <2>2. b \in BOOLEAN
      BY <1>1, <2>1
  <2> HIDE DEF r, b
  <2>3. /\ lifecycle' \in Seq({Whole} \cup RoleResets)
        /\ Chain' /\ Blame'
        /\ lifecycle # <<>> => lifecycle' # <<>> /\ Head(lifecycle') = Head(lifecycle)
      BY <2>1, <2>2, RoleResetQueued
  <2> QED
      BY <1>1, <2>1, <2>3
<1> QED
    BY <1>2, <1>3 DEF Failure

\* A step that neither replaces a worker nor performs a reset.
LEMMA EventFrame ==
    ASSUME PoolInv, UNCHANGED <<worker, closed, outdated, resetQueued, killing, phase>>,
           \A w \in Workers : Live(w)' => Live(w) /\ w \in workers',
           workers' \subseteq workers,
           lifecycle # <<>> => lifecycle' # <<>> /\ Head(lifecycle') = Head(lifecycle),
           \A r \in Roles : failures'[r] = failures[r] \/ failures'[r] = 0,
           \A r \in Roles : degraded'[r] <=> degraded[r],
           \/ cache' \in {cache, "none"}
           \/ (~resetQueued => cache' # "outdated") /\ \E r \in Roles : worker[r] # NoWorker
    PROVE  Staffing' /\ Attempts' /\ Coverage'
<1> USE WorkerFacts, SearchBoundsAssumption DEF PoolInv
<1>1. Staffing'
  <2>1. (phase = "terminating" /\ Head(lifecycle) = Whole) => cache' = "none"
      BY DEF Staffing
  <2> QED
      BY <2>1 DEF Staffing
<1>2. phase = "terminating" => lifecycle # <<>>
    BY DEF Staffing
<1>3. Attempts'
    BY <1>2 DEF Attempts
<1>4. Coverage'
    BY <1>2 DEF Coverage
<1> QED
    BY <1>1, <1>3, <1>4

LEMMA ReadyDeadlineStep ==
    ASSUME PoolInv, NEW r \in Roles, ReadyDeadline(r)
    PROVE  PoolInv'
<1> USE WorkerFacts DEF PoolInv
<1> DEFINE w == readyTimer[r]
<1>1. /\ w \in Workers /\ Failure(w) /\ readyTimer' = [readyTimer EXCEPT ![r] = NoWorker]
      /\ UNCHANGED <<worker, ready, degraded, failures, active, queue, deadlineTimer, closed>>
      /\ UNCHANGED <<workers, outdated, cache, resetQueued, killing, phase, thread, jobs, outbox>>
    BY DEF ReadyDeadline, SearchTypeOK, taskVars, threadVars
<1> HIDE DEF w
<1>2. /\ lifecycle' \in Seq({Whole} \cup RoleResets)
      /\ Chain' /\ Blame'
      /\ lifecycle # <<>> => lifecycle' # <<>> /\ Head(lifecycle') = Head(lifecycle)
      /\ resetting' \subseteq Workers /\ blamed' \subseteq Workers
    BY <1>1, FailureFacts
<1>3. SearchTypeOK'
  <2>1. {workers, resetting, killing, outdated, blamed}' \subseteq SUBSET Workers
      BY <1>1, <1>2 DEF SearchTypeOK
  <2> QED
      BY <1>1, <1>2, <2>1 DEF SearchTypeOK
<1>4. Staffing' /\ Attempts' /\ Coverage'
  <2>1. \A v \in Workers : Live(v)' => Live(v) /\ v \in workers'
      BY <1>1 DEF Live, Staffing
  <2> QED
      BY <1>1, <1>2, <2>1, EventFrame
<1>5. Mail'
    BY <1>1 DEF Mail, Live
<1>6. Timed'
    BY <1>1 DEF Timed, SearchTypeOK
<1> QED
    BY <1>2, <1>3, <1>4, <1>5, <1>6

LEMMA DeadlineStep ==
    ASSUME PoolInv, NEW r \in Roles, Deadline(r)
    PROVE  PoolInv'
<1> USE WorkerFacts, TaskFacts DEF PoolInv
<1> DEFINE J == Seq([id : Tasks, late : BOOLEAN])
<1>1. /\ deadlineTimer[r] = <<active[r], worker[r]>> /\ active[r] \in Tasks /\ worker[r] \in Workers
      /\ deadlineTimer[r] # NoTimer
    BY DEF Deadline, Timed, SearchTypeOK
<1>2. /\ active' = [active EXCEPT ![r] = IF @ = active[r] THEN NoTask ELSE @]
      /\ jobs' = [jobs EXCEPT ![worker[r]] = [i \in DOMAIN jobs[worker[r]] |->
                     IF jobs[worker[r]][i].id = active[r] THEN [id |-> active[r], late |-> TRUE]
                     ELSE jobs[worker[r]][i]]]
      /\ lifecycle' = Append(lifecycle, [kind |-> r, readiness |-> FALSE, expected |-> worker[r]])
      /\ blamed' = blamed \cup {worker[r]}
      /\ deadlineTimer' = [deadlineTimer EXCEPT ![r] = NoTimer]
      /\ UNCHANGED <<worker, ready, degraded, failures, readyTimer, queue, closed, workers, resetting>>
      /\ UNCHANGED <<outdated, cache, resetQueued, killing, phase, thread, outbox>>
    BY <1>1 DEF Deadline, roleVars
<1>3. /\ lifecycle' \in Seq({Whole} \cup RoleResets)
      /\ Chain' /\ Blame'
      /\ lifecycle # <<>> => lifecycle' # <<>> /\ Head(lifecycle') = Head(lifecycle)
    BY <1>1, <1>2, RoleResetQueued
<1>4. jobs' \in [Workers -> J] /\ \A v \in Workers : jobs[v] = <<>> => jobs'[v] = <<>>
  <2> DEFINE s == jobs[worker[r]]
             u == [i \in DOMAIN s |-> IF s[i].id = active[r] THEN [id |-> active[r], late |-> TRUE]
                                      ELSE s[i]]
  <2>1. jobs \in [Workers -> J] /\ s \in J
      BY <1>1 DEF SearchTypeOK
  <2>2. u \in J /\ (s = <<>> => u = <<>>)
    <3>1. Len(s) \in Nat /\ DOMAIN s = 1..Len(s)
          /\ \A i \in DOMAIN s : s[i] \in [id : Tasks, late : BOOLEAN]
      <4>1. s \in Seq([id : Tasks, late : BOOLEAN])
          BY <2>1
      <4> HIDE DEF s
      <4> QED
          BY <4>1, ElementFacts
    <3>2. [id |-> active[r], late |-> TRUE] \in [id : Tasks, late : BOOLEAN]
        BY <1>1
    <3> HIDE DEF s
    <3>3. u \in [1..Len(s) -> [id : Tasks, late : BOOLEAN]]
        BY <3>1, <3>2
    <3>4. u \in J
        BY <3>1, <3>3, IsASeq
    <3>5. s = <<>> => DOMAIN u = 1..0
        BY <3>1
    <3>6. s = <<>> => u = <<>>
        BY <3>4, <3>5
    <3> QED
        BY <3>4, <3>6
  <2>3. jobs' = [jobs EXCEPT ![worker[r]] = u]
      BY <1>2
  <2> HIDE DEF u, J
  <2> QED
      BY <1>1, <2>1, <2>2, <2>3
<1>5. SearchTypeOK'
  <2>1. {workers, resetting, killing, outdated, blamed}' \subseteq SUBSET Workers
      BY <1>1, <1>2 DEF SearchTypeOK
  <2>2. /\ active' \in [Roles -> Tasks \cup {NoTask}]
        /\ deadlineTimer' \in [Roles -> (Tasks \X Workers) \cup {NoTimer}]
      BY <1>2 DEF SearchTypeOK
  <2> QED
      BY <1>2, <1>3, <1>4, <2>1, <2>2 DEF SearchTypeOK
<1>6. Staffing' /\ Attempts' /\ Coverage'
  <2>1. \A v \in Workers : Live(v)' => Live(v) /\ v \in workers'
      BY <1>2 DEF Live, Staffing
  <2> QED
      BY <1>2, <1>3, <2>1, EventFrame
<1>7. Mail'
    BY <1>2, <1>4 DEF Mail, Live
<1>8. Timed'
  <2>1. active'[r] = NoTask /\ deadlineTimer'[r] = NoTimer
      BY <1>2 DEF SearchTypeOK
  <2>2. \A s \in Roles \ {r} : active'[s] = active[s] /\ deadlineTimer'[s] = deadlineTimer[s]
      BY <1>2
  <2> QED
      BY <1>2, <2>1, <2>2 DEF Timed
<1> QED
    BY <1>3, <1>5, <1>6, <1>7, <1>8

\* What is left in the ports when a message has been taken.
LEMMA TakeFacts ==
    ASSUME PoolInv, NEW w \in Workers, NEW types, Take(w, types)
    PROVE  /\ outbox' \in [Workers -> Seq(ToPool)]
           /\ Head(outbox[w]) \in ToPool /\ Head(outbox[w]).type \in types
           /\ \A v \in Workers : v \notin workers => outbox'[v] = <<>>
           /\ \A v \in Workers : \A j \in DOMAIN outbox'[v] :
                outbox'[v][j].type = "exit" => (j = Len(outbox'[v]) /\ ~Live(v))
           /\ Head(outbox[w]).type = "exit" => (outbox'[w] = <<>> /\ ~Live(w))
<1> USE DEF PoolInv
<1>1. /\ outbox \in [Workers -> Seq(ToPool)] /\ outbox[w] # <<>> /\ outbox[w] \in Seq(ToPool)
      /\ outbox' = [outbox EXCEPT ![w] = Tail(outbox[w])] /\ Head(outbox[w]).type \in types
    BY DEF Take, SearchTypeOK
<1>2. /\ Tail(outbox[w]) \in Seq(ToPool) /\ Head(outbox[w]) \in ToPool
      /\ Head(outbox[w]) = outbox[w][1] /\ 1 \in DOMAIN outbox[w]
      /\ Len(Tail(outbox[w])) = Len(outbox[w]) - 1 /\ Len(outbox[w]) \in Nat \ {0}
      /\ \A j \in DOMAIN Tail(outbox[w]) :
           j \in Nat \ {0} /\ j + 1 \in DOMAIN outbox[w] /\ Tail(outbox[w])[j] = outbox[w][j + 1]
    BY <1>1, TailFacts
<1>3. outbox'[w] = Tail(outbox[w]) /\ \A v \in Workers \ {w} : outbox'[v] = outbox[v]
    BY <1>1
<1>4. outbox' \in [Workers -> Seq(ToPool)]
    BY <1>1, <1>2
<1>5. \A v \in Workers : v \notin workers => outbox'[v] = <<>>
    BY <1>1, <1>3 DEF Mail
<1>6. ASSUME NEW j \in DOMAIN outbox'[w], outbox'[w][j].type = "exit"
      PROVE  j = Len(outbox'[w]) /\ ~Live(w)
  <2>1. /\ j \in Nat /\ j + 1 \in DOMAIN outbox[w] /\ outbox[w][j + 1].type = "exit"
        /\ Len(outbox'[w]) = Len(outbox[w]) - 1
      BY <1>2, <1>3, <1>6
  <2>2. j + 1 = Len(outbox[w]) /\ ~Live(w)
      BY <2>1 DEF Mail
  <2> QED
      BY <1>2, <2>1, <2>2
<1>7. \A v \in Workers : \A j \in DOMAIN outbox'[v] :
         outbox'[v][j].type = "exit" => (j = Len(outbox'[v]) /\ ~Live(v))
    BY <1>3, <1>6 DEF Mail
<1>8. ASSUME Head(outbox[w]).type = "exit" PROVE outbox'[w] = <<>> /\ ~Live(w)
  <2>1. 1 = Len(outbox[w]) /\ ~Live(w)
      BY <1>2, <1>8 DEF Mail
  <2>2. Len(outbox'[w]) = 0 /\ outbox'[w] \in Seq(ToPool)
      BY <1>2, <1>3, <2>1
  <2> QED
      BY <2>1, <2>2
<1> QED
    BY <1>1, <1>2, <1>4, <1>5, <1>7, <1>8

LEMMA OnReadyStep ==
    ASSUME PoolInv, NEW w \in Workers, OnReady(w)
    PROVE  PoolInv'
<1> USE WorkerFacts, TaskFacts DEF PoolInv
<1> DEFINE r == Role(w)
<1>1. /\ Take(w, {"ready"}) /\ worker[r] = w /\ r \in Roles
      /\ readyTimer' = [readyTimer EXCEPT ![r] = NoWorker]
      /\ ready' = [ready EXCEPT ![r] = TRUE]
      /\ degraded' = [degraded EXCEPT ![r] = FALSE]
      /\ failures' = [failures EXCEPT ![r] = 0]
      /\ UNCHANGED <<worker, closed, workers, resetting, outdated, blamed, cache>>
      /\ UNCHANGED <<lifecycle, resetQueued, killing, phase, thread>>
    BY DEF OnReady, Heard, poolVars, resetVars
<1>2. IF active[r] = NoTask /\ queue[r] # <<>>
      THEN /\ active' = [active EXCEPT ![r] = Head(queue[r])]
           /\ queue' = [queue EXCEPT ![r] = Tail(queue[r])]
           /\ deadlineTimer' = [deadlineTimer EXCEPT ![r] = <<Head(queue[r]), w>>]
           /\ Post(w, Head(queue[r]))
      ELSE UNCHANGED <<active, queue, deadlineTimer, jobs>>
    BY DEF OnReady, taskVars
<1> HIDE DEF r
<1>3. /\ outbox' \in [Workers -> Seq(ToPool)]
      /\ \A v \in Workers : v \notin workers => outbox'[v] = <<>>
      /\ \A v \in Workers : \A j \in DOMAIN outbox'[v] :
            outbox'[v][j].type = "exit" => (j = Len(outbox'[v]) /\ ~Live(v))
    BY <1>1, TakeFacts
<1>4. ~degraded[r] /\ \A s \in Roles : degraded'[s] <=> degraded[s]
  <2>1. ~degraded[r]
      BY <1>1 DEF Coverage
  <2> QED
      BY <1>1, <2>1 DEF SearchTypeOK
<1>5. /\ active' \in [Roles -> Tasks \cup {NoTask}] /\ queue' \in [Roles -> Seq(Tasks)]
      /\ deadlineTimer' \in [Roles -> (Tasks \X Workers) \cup {NoTimer}]
      /\ jobs' \in [Workers -> Seq([id : Tasks, late : BOOLEAN])]
      /\ \A v \in Workers : ~Live(v) => jobs'[v] = jobs[v]
      /\ \A s \in Roles \ {r} : active'[s] = active[s] /\ deadlineTimer'[s] = deadlineTimer[s]
      /\ \/ active'[r] = active[r] /\ deadlineTimer'[r] = deadlineTimer[r]
         \/ active'[r] \in Tasks /\ deadlineTimer'[r] = <<active'[r], w>>
  <2>1. CASE active[r] = NoTask /\ queue[r] # <<>>
    <3> DEFINE J == Seq([id : Tasks, late : BOOLEAN])
               m == [id |-> Head(queue[r]), late |-> FALSE]
    <3>1. Head(queue[r]) \in Tasks /\ Tail(queue[r]) \in Seq(Tasks)
        BY <1>1, <2>1 DEF SearchTypeOK
    <3>2. jobs \in [Workers -> J] /\ jobs[w] \in J
        BY DEF SearchTypeOK
    <3>3. Append(jobs[w], m) \in J
      <4>1. m \in [id : Tasks, late : BOOLEAN]
          BY <3>1
      <4>2. jobs[w] \in Seq([id : Tasks, late : BOOLEAN])
          BY <3>2
      <4> QED
          BY <4>1, <4>2, AppendFacts
    <3>4. jobs' = [jobs EXCEPT ![w] = IF Live(w) THEN Append(jobs[w], m) ELSE jobs[w]]
        BY <1>2, <2>1 DEF Post
    <3> HIDE DEF m, J
    <3>5. jobs' \in [Workers -> J] /\ \A v \in Workers : ~Live(v) => jobs'[v] = jobs[v]
        BY <3>2, <3>3, <3>4
    <3>6. /\ active' = [active EXCEPT ![r] = Head(queue[r])]
          /\ queue' = [queue EXCEPT ![r] = Tail(queue[r])]
          /\ deadlineTimer' = [deadlineTimer EXCEPT ![r] = <<Head(queue[r]), w>>]
        BY <1>2, <2>1
    <3>7. /\ active' \in [Roles -> Tasks \cup {NoTask}] /\ queue' \in [Roles -> Seq(Tasks)]
          /\ deadlineTimer' \in [Roles -> (Tasks \X Workers) \cup {NoTimer}]
      <4>1. active' \in [Roles -> Tasks \cup {NoTask}]
          BY <3>1, <3>6 DEF SearchTypeOK
      <4>2. queue' \in [Roles -> Seq(Tasks)]
          BY <3>1, <3>6 DEF SearchTypeOK
      <4>3. <<Head(queue[r]), w>> \in Tasks \X Workers
          BY <3>1
      <4>4. deadlineTimer' \in [Roles -> (Tasks \X Workers) \cup {NoTimer}]
          BY <3>6, <4>3 DEF SearchTypeOK
      <4> QED
          BY <4>1, <4>2, <4>4
    <3>8. /\ \A s \in Roles \ {r} : active'[s] = active[s] /\ deadlineTimer'[s] = deadlineTimer[s]
          /\ active'[r] = Head(queue[r]) /\ deadlineTimer'[r] = <<Head(queue[r]), w>>
        BY <1>1, <3>6 DEF SearchTypeOK
    <3> QED
        BY <3>1, <3>5, <3>7, <3>8 DEF J
  <2>2. CASE UNCHANGED <<active, queue, deadlineTimer, jobs>>
      BY <2>2 DEF SearchTypeOK
  <2> QED
      BY <1>2, <2>1, <2>2
<1>6. SearchTypeOK'
  <2>1. {workers, resetting, killing, outdated, blamed}' \subseteq SUBSET Workers
      BY <1>1 DEF SearchTypeOK
  <2>2. /\ {ready, degraded}' \subseteq [Roles -> BOOLEAN]
        /\ failures' \in [Roles -> 0..MaxReadyAttempts]
        /\ readyTimer' \in [Roles -> Workers \cup {NoWorker}]
      BY <1>1, SearchBoundsAssumption DEF SearchTypeOK
  <2> QED
      BY <1>1, <1>3, <1>5, <2>1, <2>2 DEF SearchTypeOK
<1>7. Staffing' /\ Attempts' /\ Coverage'
  <2>1. \A v \in Workers : Live(v)' => Live(v) /\ v \in workers'
      BY <1>1 DEF Live, Staffing
  <2>2. \A s \in Roles : failures'[s] = failures[s] \/ failures'[s] = 0
      BY <1>1 DEF SearchTypeOK
  <2> QED
      BY <1>1, <1>4, <2>1, <2>2, EventFrame
<1>8. Chain' /\ Blame'
    BY <1>1 DEF Chain, Blame, RoleEntry, Current
<1>9. Mail'
    BY <1>1, <1>3, <1>5 DEF Mail, Live
<1>10. Timed'
  <2>1. /\ ready'[r] /\ readyTimer'[r] = NoWorker /\ w # NoWorker
        /\ \A s \in Roles \ {r} : (ready'[s] <=> ready[s]) /\ readyTimer'[s] = readyTimer[s]
      BY <1>1 DEF SearchTypeOK
  <2>2. ASSUME NEW s \in Roles
        PROVE  /\ (active'[s] # NoTask) <=> (deadlineTimer'[s] # NoTimer)
               /\ deadlineTimer'[s] # NoTimer =>
                    (deadlineTimer'[s] = <<active'[s], worker[s]>> /\ worker[s] # NoWorker)
    <3>1. CASE active'[s] = active[s] /\ deadlineTimer'[s] = deadlineTimer[s]
        BY <3>1 DEF Timed
    <3>2. CASE s = r /\ active'[r] \in Tasks /\ deadlineTimer'[r] = <<active'[r], w>>
        BY <1>1, <2>1, <3>2 DEF NoTimer
    <3> QED
        BY <1>5, <3>1, <3>2
  <2> QED
      BY <1>1, <2>1, <2>2 DEF Timed
<1> QED
    BY <1>6, <1>7, <1>8, <1>9, <1>10

LEMMA OnAnswerStep ==
    ASSUME PoolInv, NEW w \in Workers, OnAnswer(w)
    PROVE  PoolInv'
<1> USE WorkerFacts, TaskFacts DEF PoolInv
<1> DEFINE r == Role(w)
           q == queue[r]
<1>1. /\ Take(w, {"result", "error"}) /\ worker[r] = w /\ r \in Roles
      /\ Pump(r, q, NoTask)
      /\ UNCHANGED <<worker, ready, degraded, failures, readyTimer, closed, workers, resetting>>
      /\ UNCHANGED <<outdated, blamed, lifecycle, resetQueued, killing, phase, thread>>
    BY DEF OnAnswer, Heard, roleVars, poolVars, resetVars
<1>2. /\ cache' \in {"none", "current", "outdated"}
      /\ cache' \in {cache, "none"} \/ (cache' = "outdated" => w \in outdated)
    BY DEF OnAnswer, SearchTypeOK
<1>3. q \in Seq(Tasks) /\ NoTask \in Tasks \cup {NoTask}
    BY <1>1 DEF SearchTypeOK
<1> HIDE DEF r, q
<1>4. /\ outbox' \in [Workers -> Seq(ToPool)]
      /\ \A v \in Workers : v \notin workers => outbox'[v] = <<>>
      /\ \A v \in Workers : \A j \in DOMAIN outbox'[v] :
            outbox'[v][j].type = "exit" => (j = Len(outbox'[v]) /\ ~Live(v))
    BY <1>1, TakeFacts
<1>5. /\ active' \in [Roles -> Tasks \cup {NoTask}] /\ queue' \in [Roles -> Seq(Tasks)]
      /\ deadlineTimer' \in [Roles -> (Tasks \X Workers) \cup {NoTimer}]
      /\ jobs' \in [Workers -> Seq([id : Tasks, late : BOOLEAN])]
    BY <1>1, <1>3, PumpFacts
<1>6. SearchTypeOK'
    BY <1>1, <1>2, <1>4, <1>5 DEF SearchTypeOK
<1>7. Staffing' /\ Attempts' /\ Coverage'
  <2>1. \A v \in Workers : Live(v)' => Live(v) /\ v \in workers'
      BY <1>1 DEF Live, Staffing
  <2>2. \/ cache' \in {cache, "none"}
        \/ (~resetQueued => cache' # "outdated") /\ \E s \in Roles : worker[s] # NoWorker
      BY <1>1, <1>2 DEF Coverage
  <2> QED
      BY <1>1, <2>1, <2>2, EventFrame
<1>8. Chain' /\ Blame'
    BY <1>1 DEF Chain, Blame, RoleEntry, Current
<1>9. Mail'
    BY <1>1, <1>3, <1>4, PumpKeepsMail
<1>10. Timed'
    BY <1>1, <1>3, PumpKeepsTimed
<1> QED
    BY <1>6, <1>7, <1>8, <1>9, <1>10

LEMMA OnStaleStep ==
    ASSUME PoolInv, NEW w \in Workers, OnStale(w)
    PROVE  PoolInv'
<1> USE WorkerFacts DEF PoolInv
<1>1. /\ Take(w, {"ready", "result", "error"})
      /\ UNCHANGED <<roleVars, taskVars, poolVars, cache, resetVars, thread, jobs>>
    BY DEF OnStale
<1>2. /\ outbox' \in [Workers -> Seq(ToPool)]
      /\ \A v \in Workers : v \notin workers => outbox'[v] = <<>>
      /\ \A v \in Workers : \A j \in DOMAIN outbox'[v] :
            outbox'[v][j].type = "exit" => (j = Len(outbox'[v]) /\ ~Live(v))
    BY <1>1, TakeFacts
<1>3. SearchTypeOK'
    BY <1>1, <1>2 DEF SearchTypeOK, roleVars, taskVars, poolVars, resetVars
<1>4. Staffing' /\ Chain' /\ Attempts' /\ Blame' /\ Coverage'
    BY <1>1, TaskFrame DEF roleVars
<1>5. Mail'
    BY <1>1, <1>2 DEF Mail, Live, poolVars
<1>6. Timed'
    BY <1>1 DEF Timed, roleVars, taskVars
<1> QED
    BY <1>3, <1>4, <1>5, <1>6

LEMMA OnFailureStep ==
    ASSUME PoolInv, NEW w \in Workers, OnFailure(w)
    PROVE  PoolInv'
<1> USE WorkerFacts DEF PoolInv
<1>1. /\ Take(w, {"failure", "exit"}) /\ Failure(w)
      /\ workers' = IF Head(outbox[w]).type = "exit" THEN workers \ {w} ELSE workers
      /\ UNCHANGED <<worker, ready, degraded, failures, readyTimer, active, queue, deadlineTimer>>
      /\ UNCHANGED <<closed, outdated, cache, resetQueued, killing, phase, thread, jobs>>
    BY DEF OnFailure, roleVars, taskVars
<1>2. /\ outbox' \in [Workers -> Seq(ToPool)]
      /\ \A v \in Workers : v \notin workers => outbox'[v] = <<>>
      /\ \A v \in Workers : \A j \in DOMAIN outbox'[v] :
            outbox'[v][j].type = "exit" => (j = Len(outbox'[v]) /\ ~Live(v))
      /\ Head(outbox[w]).type = "exit" => (outbox'[w] = <<>> /\ ~Live(w))
    BY <1>1, TakeFacts
<1>3. /\ lifecycle' \in Seq({Whole} \cup RoleResets)
      /\ Chain' /\ Blame'
      /\ lifecycle # <<>> => lifecycle' # <<>> /\ Head(lifecycle') = Head(lifecycle)
      /\ resetting' \subseteq Workers /\ blamed' \subseteq Workers
    BY <1>1, FailureFacts
<1>4. workers' \subseteq workers /\ \A v \in workers : v \in workers' \/ (v = w /\ outbox'[v] = <<>> /\ ~Live(v))
    BY <1>1, <1>2
<1>5. SearchTypeOK'
  <2>1. {workers, resetting, killing, outdated, blamed}' \subseteq SUBSET Workers
      BY <1>1, <1>3, <1>4 DEF SearchTypeOK
  <2> QED
      BY <1>1, <1>2, <1>3, <2>1 DEF SearchTypeOK
<1>6. Staffing' /\ Attempts' /\ Coverage'
  <2>1. \A v \in Workers : Live(v)' => Live(v) /\ v \in workers'
      BY <1>1, <1>4 DEF Live, Staffing
  <2> QED
      BY <1>1, <1>3, <1>4, <2>1, EventFrame
<1>7. Mail'
    BY <1>1, <1>2, <1>4 DEF Mail, Live
<1>8. Timed'
    BY <1>1 DEF Timed
<1> QED
    BY <1>3, <1>5, <1>6, <1>7, <1>8

-------------------------------------------------------------------------------
(***************************************************************************)
(* The threads.                                                            *)
(***************************************************************************)
\* A sequence with more at its end.
LEMMA ConcatFacts ==
    ASSUME NEW S, NEW s \in Seq(S), NEW t \in Seq(S)
    PROVE  /\ s \o t \in Seq(S) /\ Len(s \o t) = Len(s) + Len(t) /\ Len(s) \in Nat /\ Len(t) \in Nat
           /\ \A j \in DOMAIN (s \o t) :
                \/ j \in DOMAIN s /\ (s \o t)[j] = s[j]
                \/ \E k \in DOMAIN t : j = Len(s) + k /\ (s \o t)[j] = t[k]
<1> DEFINE u == s \o t
<1>1. /\ u \in Seq(S) /\ Len(u) = Len(s) + Len(t) /\ Len(s) \in Nat /\ Len(t) \in Nat
      /\ DOMAIN s = 1..Len(s) /\ DOMAIN t = 1..Len(t) /\ DOMAIN u = 1..Len(s) + Len(t)
      /\ \A j \in 1..Len(s) + Len(t) : u[j] = IF j \leq Len(s) THEN s[j] ELSE t[j - Len(s)]
    OBVIOUS
<1> HIDE DEF u
<1>2. ASSUME NEW j \in DOMAIN u
      PROVE  \/ j \in DOMAIN s /\ u[j] = s[j]
             \/ \E k \in DOMAIN t : j = Len(s) + k /\ u[j] = t[k]
  <2>1. CASE j \leq Len(s)
      BY <1>1, <2>1
  <2>2. CASE ~(j \leq Len(s))
    <3>1. j - Len(s) \in DOMAIN t /\ j = Len(s) + (j - Len(s)) /\ u[j] = t[j - Len(s)]
        BY <1>1, <2>2
    <3> QED
        BY <3>1
  <2> QED
      BY <2>1, <2>2
<1> QED
    BY <1>1, <1>2 DEF u

\* A sequence without one of its elements.
LEMMA RemoveFacts ==
    ASSUME NEW S, NEW s \in Seq(S), NEW i \in DOMAIN s
    PROVE  /\ RemoveAt(s, i) \in Seq(S) /\ Len(RemoveAt(s, i)) = Len(s) - 1
           /\ \A j \in DOMAIN RemoveAt(s, i) :
                \/ j \in DOMAIN s /\ j < i /\ RemoveAt(s, i)[j] = s[j]
                \/ j + 1 \in DOMAIN s /\ i < j + 1 /\ RemoveAt(s, i)[j] = s[j + 1]
<1> DEFINE a == SubSeq(s, 1, i - 1)
           b == SubSeq(s, i + 1, Len(s))
<1>1. Len(s) \in Nat /\ DOMAIN s = 1..Len(s) /\ i \in 1..Len(s) /\ \A j \in DOMAIN s : s[j] \in S
    BY ElementFacts
<1>2. a \in Seq(S) /\ Len(a) = i - 1 /\ \A j \in 1..i - 1 : a[j] = s[j]
    BY <1>1, SubSeqProperties
<1>3. b \in Seq(S) /\ Len(b) = Len(s) - i /\ \A j \in 1..Len(s) - i : b[j] = s[j + i]
    BY <1>1, SubSeqProperties
<1>4. RemoveAt(s, i) = a \o b
    BY DEF RemoveAt
<1> HIDE DEF a, b
<1>5. /\ a \o b \in Seq(S) /\ Len(a \o b) = Len(s) - 1
      /\ DOMAIN (a \o b) = 1..Len(s) - 1
      /\ \A j \in 1..Len(s) - 1 : (a \o b)[j] = IF j \leq i - 1 THEN a[j] ELSE b[j - (i - 1)]
  <2>1. Len(a) + Len(b) = Len(s) - 1 /\ Len(a) = i - 1 /\ Len(a) \in Nat /\ Len(b) \in Nat
      BY <1>1, <1>2, <1>3
  <2>2. /\ a \o b \in Seq(S) /\ Len(a \o b) = Len(a) + Len(b)
        /\ \A j \in 1..Len(a) + Len(b) : (a \o b)[j] = IF j \leq Len(a) THEN a[j] ELSE b[j - Len(a)]
      BY <1>2, <1>3, ConcatProperties
  <2>3. DOMAIN (a \o b) = 1..Len(a \o b)
      BY <2>2
  <2> QED
      BY <2>1, <2>2, <2>3
<1>6. \A j \in 1..Len(s) - 1 :
        \/ j \in 1..Len(s) /\ j < i /\ (a \o b)[j] = s[j]
        \/ j + 1 \in 1..Len(s) /\ i < j + 1 /\ (a \o b)[j] = s[j + 1]
  <2> SUFFICES ASSUME NEW j \in 1..Len(s) - 1
               PROVE  \/ j \in 1..Len(s) /\ j < i /\ (a \o b)[j] = s[j]
                      \/ j + 1 \in 1..Len(s) /\ i < j + 1 /\ (a \o b)[j] = s[j + 1]
      OBVIOUS
  <2>1. CASE j < i
    <3>1. j \leq i - 1 /\ j \in 1..i - 1 /\ j \in 1..Len(s)
        BY <1>1, <2>1
    <3> QED
        BY <1>2, <1>5, <2>1, <3>1
  <2>2. CASE ~(j < i)
    <3>1. /\ ~(j \leq i - 1) /\ j - (i - 1) \in 1..Len(s) - i /\ j - (i - 1) + i = j + 1
          /\ j + 1 \in 1..Len(s) /\ i < j + 1
        BY <1>1, <2>2
    <3>2. (a \o b)[j] = b[j - (i - 1)] /\ b[j - (i - 1)] = s[j - (i - 1) + i]
        BY <1>3, <1>5, <3>1
    <3> QED
        BY <3>1, <3>2
  <2> QED
      BY <2>1, <2>2
<1> QED
    BY <1>1, <1>4, <1>5, <1>6

\* A living thread sends messages; an exit is the last one, and the thread is dead.
LEMMA EmitFacts ==
    ASSUME PoolInv, NEW w \in Workers, Live(w), NEW ms \in Seq(ToPool), Emit(w, ms), workers' = workers,
           \A k \in DOMAIN ms : ms[k].type = "exit" => (k = Len(ms) /\ ~Live(w)'),
           \A v \in Workers \ {w} : Live(v)' <=> Live(v)
    PROVE  /\ outbox' \in [Workers -> Seq(ToPool)]
           /\ \A v \in Workers :
                /\ v \notin workers' => outbox'[v] = <<>>
                /\ \A j \in DOMAIN outbox'[v] :
                     outbox'[v][j].type = "exit" => (j = Len(outbox'[v]) /\ ~Live(v)')
<1> USE DEF PoolInv
<1>1. outbox \in [Workers -> Seq(ToPool)] /\ outbox[w] \in Seq(ToPool) /\ w \in workers
    BY DEF SearchTypeOK, Staffing
<1>2. outbox' = [outbox EXCEPT ![w] = outbox[w] \o ms]
    BY DEF Emit
<1>3. /\ outbox[w] \o ms \in Seq(ToPool)
      /\ Len(outbox[w] \o ms) = Len(outbox[w]) + Len(ms)
      /\ \A j \in DOMAIN (outbox[w] \o ms) :
            \/ j \in DOMAIN outbox[w] /\ (outbox[w] \o ms)[j] = outbox[w][j]
            \/ \E k \in DOMAIN ms : j = Len(outbox[w]) + k /\ (outbox[w] \o ms)[j] = ms[k]
    BY <1>1, ConcatFacts
<1>4. outbox'[w] = outbox[w] \o ms /\ \A v \in Workers \ {w} : outbox'[v] = outbox[v]
    BY <1>1, <1>2
<1>5. outbox' \in [Workers -> Seq(ToPool)]
    BY <1>1, <1>2, <1>3
<1>6. ASSUME NEW j \in DOMAIN outbox'[w], outbox'[w][j].type = "exit"
      PROVE  j = Len(outbox'[w]) /\ ~Live(w)'
  <2>1. \/ j \in DOMAIN outbox[w] /\ outbox'[w][j] = outbox[w][j]
        \/ \E k \in DOMAIN ms : j = Len(outbox[w]) + k /\ outbox'[w][j] = ms[k]
      BY <1>3, <1>4, <1>6
  <2>2. ~(j \in DOMAIN outbox[w] /\ outbox'[w][j] = outbox[w][j])
      BY <1>6 DEF Mail
  <2>3. PICK k \in DOMAIN ms : j = Len(outbox[w]) + k /\ outbox'[w][j] = ms[k]
      BY <2>1, <2>2
  <2>4. k = Len(ms) /\ ~Live(w)'
      BY <1>6, <2>3
  <2> QED
      BY <1>3, <1>4, <2>3, <2>4
<1>7. \A v \in Workers \ {w} : \A j \in DOMAIN outbox'[v] :
         outbox'[v][j].type = "exit" => (j = Len(outbox'[v]) /\ ~Live(v)')
    BY <1>4 DEF Mail
<1>8. \A v \in Workers : v \notin workers' => outbox'[v] = <<>>
    BY <1>1, <1>4 DEF Mail
<1> QED
    BY <1>5, <1>6, <1>7, <1>8

\* A step of a thread changes nothing of the pool.
LEMMA ThreadFrame ==
    ASSUME PoolInv, UNCHANGED <<roleVars, taskVars, poolVars, cache, resetVars>>,
           thread' \in [Workers -> {"booting", "up", "dead"}],
           \A v \in Workers : Live(v)' => Live(v),
           jobs' \in [Workers -> Seq([id : Tasks, late : BOOLEAN])],
           outbox' \in [Workers -> Seq(ToPool)],
           \A v \in Workers : ~Live(v)' => jobs'[v] = <<>>,
           \A v \in Workers :
              /\ v \notin workers' => outbox'[v] = <<>>
              /\ \A j \in DOMAIN outbox'[v] :
                   outbox'[v][j].type = "exit" => (j = Len(outbox'[v]) /\ ~Live(v)')
    PROVE  PoolInv'
<1> USE WorkerFacts DEF PoolInv
<1>1. SearchTypeOK'
    BY DEF SearchTypeOK, roleVars, taskVars, poolVars, resetVars
<1>2. Staffing' /\ Attempts' /\ Coverage'
  <2>1. UNCHANGED <<worker, closed, outdated, resetQueued, killing, phase, workers, lifecycle,
                    failures, degraded, cache>>
      BY DEF roleVars, poolVars, resetVars
  <2>2. \A v \in Workers : Live(v)' => Live(v) /\ v \in workers'
      BY <2>1 DEF Staffing
  <2> QED
      BY <2>1, <2>2, EventFrame
<1>3. Chain' /\ Blame'
    BY DEF Chain, Blame, RoleEntry, Current, roleVars, poolVars, resetVars
<1>4. Mail'
    BY DEF Mail
<1>5. Timed'
    BY DEF Timed, roleVars, taskVars
<1> QED
    BY <1>1, <1>2, <1>3, <1>4, <1>5

LEMMA WorkerBootsStep ==
    ASSUME PoolInv, NEW w \in Workers, WorkerBoots(w)
    PROVE  PoolInv'
<1> DEFINE ms == <<[type |-> "ready"]>>
<1>1. /\ thread[w] = "booting" /\ thread' = [thread EXCEPT ![w] = "up"] /\ Emit(w, ms)
      /\ UNCHANGED <<roleVars, taskVars, poolVars, cache, resetVars, jobs>>
      /\ thread \in [Workers -> {"booting", "up", "dead"}]
      /\ jobs \in [Workers -> Seq([id : Tasks, late : BOOLEAN])]
    BY DEF WorkerBoots, PoolInv, SearchTypeOK
<1>2. ms \in Seq(ToPool) /\ \A k \in DOMAIN ms : ms[k].type # "exit"
    BY DEF ToPool
<1> HIDE DEF ms
<1>3. /\ thread' \in [Workers -> {"booting", "up", "dead"}]
      /\ Live(w) /\ \A v \in Workers : Live(v)' <=> Live(v)
    BY <1>1 DEF Live
<1>4. workers' = workers
    BY <1>1 DEF poolVars
<1>5. /\ outbox' \in [Workers -> Seq(ToPool)]
      /\ \A v \in Workers :
           /\ v \notin workers' => outbox'[v] = <<>>
           /\ \A j \in DOMAIN outbox'[v] :
                outbox'[v][j].type = "exit" => (j = Len(outbox'[v]) /\ ~Live(v)')
    BY <1>1, <1>2, <1>3, <1>4, EmitFacts
<1>6. \A v \in Workers : ~Live(v)' => jobs'[v] = <<>>
    BY <1>1, <1>3 DEF PoolInv, Mail
<1> QED
    BY <1>1, <1>3, <1>5, <1>6, ThreadFrame

LEMMA WorkerAnswersStep ==
    ASSUME PoolInv, NEW w \in Workers, WorkerAnswers(w)
    PROVE  PoolInv'
<1> DEFINE J == Seq([id : Tasks, late : BOOLEAN])
<1>1. PICK i \in DOMAIN jobs[w], t \in {"result", "error"} :
         /\ jobs' = [jobs EXCEPT ![w] = RemoveAt(jobs[w], i)]
         /\ Emit(w, <<[type |-> t, id |-> jobs[w][i].id]>>)
    BY DEF WorkerAnswers
<1>2. /\ thread[w] = "up" /\ UNCHANGED <<roleVars, taskVars, poolVars, cache, resetVars, thread>>
      /\ thread \in [Workers -> {"booting", "up", "dead"}]
      /\ jobs \in [Workers -> J]
    BY DEF WorkerAnswers, PoolInv, SearchTypeOK
<1> DEFINE m == [type |-> t, id |-> jobs[w][i].id]
<1>3. jobs[w] \in Seq([id : Tasks, late : BOOLEAN])
    BY <1>2
<1>4. jobs[w][i] \in [id : Tasks, late : BOOLEAN] /\ RemoveAt(jobs[w], i) \in J
    BY <1>3, ElementFacts, RemoveFacts
<1>5. <<m>> \in Seq(ToPool) /\ \A k \in DOMAIN <<m>> : <<m>>[k].type # "exit"
  <2>1. m \in ToPool /\ m.type # "exit"
      BY <1>4 DEF ToPool
  <2> HIDE DEF m
  <2> QED
      BY <2>1
<1> DEFINE ms == <<m>>
<1>6. ms \in Seq(ToPool) /\ Emit(w, ms) /\ \A k \in DOMAIN ms : ms[k].type # "exit"
    BY <1>1, <1>5
<1> HIDE DEF ms, J
<1>7. Live(w) /\ \A v \in Workers : Live(v)' <=> Live(v)
    BY <1>2 DEF Live
<1>8. workers' = workers
    BY <1>2 DEF poolVars
<1>9. /\ outbox' \in [Workers -> Seq(ToPool)]
      /\ \A v \in Workers :
           /\ v \notin workers' => outbox'[v] = <<>>
           /\ \A j \in DOMAIN outbox'[v] :
                outbox'[v][j].type = "exit" => (j = Len(outbox'[v]) /\ ~Live(v)')
    BY <1>6, <1>7, <1>8, EmitFacts
<1>10. jobs' \in [Workers -> J]
    BY <1>1, <1>2, <1>4
<1>11. \A v \in Workers : ~Live(v)' => jobs'[v] = <<>>
    BY <1>1, <1>2, <1>7 DEF PoolInv, Mail
<1> QED
    BY <1>2, <1>7, <1>9, <1>10, <1>11, ThreadFrame DEF J

\* The exit after what the thread has sent before it.
LEMMA ExitFacts ==
    ASSUME NEW sent \in Seq(ToPool), \A k \in DOMAIN sent : sent[k].type # "exit"
    PROVE  LET ms == sent \o <<[type |-> "exit"]>>
           IN  ms \in Seq(ToPool) /\ \A k \in DOMAIN ms : ms[k].type = "exit" => k = Len(ms)
<1> DEFINE final == <<[type |-> "exit"]>>
<1>1. final \in Seq(ToPool) /\ Len(final) = 1 /\ DOMAIN final = {1}
  <2>1. [type |-> "exit"] \in ToPool
      BY DEF ToPool
  <2> QED
      BY <2>1
<1> HIDE DEF final
<1>2. /\ sent \o final \in Seq(ToPool) /\ Len(sent \o final) = Len(sent) + Len(final)
      /\ Len(sent) \in Nat /\ Len(final) \in Nat
      /\ \A j \in DOMAIN (sent \o final) :
           \/ j \in DOMAIN sent /\ (sent \o final)[j] = sent[j]
           \/ \E k \in DOMAIN final : j = Len(sent) + k /\ (sent \o final)[j] = final[k]
    BY <1>1, ConcatFacts
<1> QED
    BY <1>1, <1>2 DEF final

LEMMA WorkerDiesStep ==
    ASSUME PoolInv, NEW w \in Workers, WorkerDies(w)
    PROVE  PoolInv'
<1> DEFINE J == Seq([id : Tasks, late : BOOLEAN])
<1>1. PICK error \in {<<>>, <<[type |-> "failure"]>>} : Emit(w, error \o <<[type |-> "exit"]>>)
    BY DEF WorkerDies
<1>2. /\ Live(w) /\ thread' = [thread EXCEPT ![w] = "dead"] /\ jobs' = [jobs EXCEPT ![w] = <<>>]
      /\ UNCHANGED <<roleVars, taskVars, poolVars, cache, resetVars>>
      /\ thread \in [Workers -> {"booting", "up", "dead"}] /\ jobs \in [Workers -> J]
    BY DEF WorkerDies, PoolInv, SearchTypeOK
<1> DEFINE ms == error \o <<[type |-> "exit"]>>
<1>3. ms \in Seq(ToPool) /\ \A k \in DOMAIN ms : ms[k].type = "exit" => k = Len(ms)
  <2>1. error \in Seq(ToPool) /\ \A k \in DOMAIN error : error[k].type # "exit"
    <3>1. CASE error = <<>>
        BY <3>1
    <3>2. CASE error = <<[type |-> "failure"]>>
      <4>1. [type |-> "failure"] \in ToPool
          BY DEF ToPool
      <4> QED
          BY <3>2, <4>1
    <3> QED
        BY <3>1, <3>2
  <2> QED
      BY <2>1, ExitFacts
<1>4. Emit(w, ms)
    BY <1>1
<1> HIDE DEF ms
<1>5. /\ thread' \in [Workers -> {"booting", "up", "dead"}]
      /\ ~Live(w)' /\ \A v \in Workers \ {w} : Live(v)' <=> Live(v)
    BY <1>2 DEF Live
<1>6. workers' = workers
    BY <1>2 DEF poolVars
<1>7. /\ outbox' \in [Workers -> Seq(ToPool)]
      /\ \A v \in Workers :
           /\ v \notin workers' => outbox'[v] = <<>>
           /\ \A j \in DOMAIN outbox'[v] :
                outbox'[v][j].type = "exit" => (j = Len(outbox'[v]) /\ ~Live(v)')
    BY <1>2, <1>3, <1>4, <1>5, <1>6, EmitFacts
<1>8. <<>> \in J
    BY EmptySeq
<1> HIDE DEF J
<1>9. jobs' \in [Workers -> J]
    BY <1>2, <1>8
<1>10. \A v \in Workers : ~Live(v)' => jobs'[v] = <<>>
    BY <1>2, <1>5 DEF PoolInv, Mail
<1>11. \A v \in Workers : Live(v)' => Live(v)
    BY <1>2, <1>5
<1> QED
    BY <1>2, <1>5, <1>7, <1>9, <1>10, <1>11, ThreadFrame DEF J

-------------------------------------------------------------------------------
(***************************************************************************)
(* The invariant.                                                          *)
(***************************************************************************)
LEMMA PoolStep == PoolInv /\ [Next]_vars => PoolInv'
<1> SUFFICES ASSUME PoolInv, [Next]_vars PROVE PoolInv'
    OBVIOUS
<1>1. CASE Search
    BY <1>1, SearchStep
<1>2. ASSUME NEW fresh \in BOOLEAN, Diagnostics(fresh) PROVE PoolInv'
    BY <1>2, DiagnosticsStep
<1>3. CASE Restart \/ Close
    BY <1>3, RestartCloseStep
<1>4. CASE BeginAll
    BY <1>4, BeginAllStep
<1>5. CASE EndReset
    BY <1>5, EndResetStep
<1>6. ASSUME NEW r \in Roles, BeginRole(r) \/ SkipRole(r) PROVE PoolInv'
    BY <1>6, BeginRoleStep, SkipRoleStep
<1>7. ASSUME NEW w \in Workers, Terminated(w) PROVE PoolInv'
    BY <1>7, TerminatedStep
<1>8. ASSUME NEW r \in Roles, Event(r) PROVE PoolInv'
  <2>1. CASE ReadyDeadline(r)
      BY <2>1, ReadyDeadlineStep
  <2>2. CASE Deadline(r)
      BY <2>2, DeadlineStep
  <2>3. ASSUME NEW w \in {r} \X Names, OnReady(w) \/ OnAnswer(w) \/ OnStale(w) \/ OnFailure(w)
        PROVE  PoolInv'
    <3>1. w \in Workers
        BY WorkerFacts
    <3> QED
        BY <2>3, <3>1, OnReadyStep, OnAnswerStep, OnStaleStep, OnFailureStep
  <2> QED
      BY <1>8, <2>1, <2>2, <2>3 DEF Event
<1>9. ASSUME NEW w \in Workers, WorkerBoots(w) \/ WorkerAnswers(w) \/ WorkerDies(w) PROVE PoolInv'
    BY <1>9, WorkerBootsStep, WorkerAnswersStep, WorkerDiesStep
<1>10. CASE UNCHANGED vars
  <2> USE <1>10 DEF PoolInv, vars, roleVars, taskVars, poolVars, resetVars, threadVars
  <2>1. SearchTypeOK'
      BY DEF SearchTypeOK
  <2>2. Staffing' /\ Chain' /\ Attempts' /\ Blame' /\ Coverage'
      BY TaskFrame
  <2>3. Mail' /\ Timed'
      BY DEF Mail, Timed, Live
  <2> QED
      BY <2>1, <2>2, <2>3
<1> QED
    BY <1>1, <1>2, <1>3, <1>4, <1>5, <1>6, <1>7, <1>8, <1>9, <1>10 DEF Next, ResetStep

\* In every reachable state the bookkeeping of the pool is consistent: the chain of
\* resets, the threads it waits for, the workers it expects and blames, timers and mail.
THEOREM SearchPoolInductive == Spec => []PoolInv
<1>1. Init => PoolInv
    BY PoolInit
<1>2. PoolInv /\ [Next]_vars => PoolInv'
    BY PoolStep
<1> QED
    BY <1>1, <1>2, PTL DEF Spec

\* The state of the pool has its types, for any number of threads, tasks and attempts.
THEOREM SearchTypeCorrect == Spec => []SearchTypeOK
<1>1. PoolInv => SearchTypeOK
    BY DEF PoolInv
<1> QED
    BY <1>1, SearchPoolInductive, PTL

\* A role never has two living threads: a reset spawns one only after those before
\* it have been terminated, and a thread outside the set is dead.
THEOREM NoSecondWorker == Spec => []OneWorkerPerRole
<1>1. PoolInv => OneWorkerPerRole
  <2> SUFFICES ASSUME PoolInv, NEW v \in Workers, NEW w \in Workers,
                      Live(v), Live(w), Role(v) = Role(w)
               PROVE  v = w
      BY DEF OneWorkerPerRole
  <2>1. /\ v \in workers /\ w \in workers
        /\ v = worker[Role(v)] \/ v \in killing
        /\ w = worker[Role(w)] \/ w \in killing
      BY DEF PoolInv, Staffing
  <2>2. \A u \in killing : worker[Role(u)] = NoWorker
      BY DEF PoolInv, Staffing
  <2>3. CASE v \in killing /\ w \in killing
      BY <2>3 DEF PoolInv, Staffing
  <2> QED
      BY <2>1, <2>2, <2>3, WorkerFacts
<1> QED
    BY <1>1, SearchPoolInductive, PTL

\* When the chain of resets is empty each role has a worker or is degraded, and a
\* closed pool has no thread left.
THEOREM StaffedAtRest == Spec => []AtRestStaffed
<1>1. PoolInv => AtRestStaffed
  <2> SUFFICES ASSUME PoolInv, lifecycle = <<>>
               PROVE  IF closed THEN workers = {}
                      ELSE \A r \in Roles : worker[r] # NoWorker \/ degraded[r]
      BY DEF AtRestStaffed
  <2> USE DEF PoolInv
  <2>1. phase = "idle" /\ killing = {} /\ ~resetQueued
      BY DEF SearchTypeOK, Staffing, Chain
  <2>2. CASE closed
    <3>1. \A r \in Roles : worker[r] = NoWorker
        BY <2>1, <2>2 DEF Coverage
    <3>2. \A w \in workers : w \in Workers /\ w = worker[Role(w)]
        BY <2>1 DEF SearchTypeOK, Staffing
    <3> QED
        BY <2>2, <3>1, <3>2, WorkerFacts
  <2>3. CASE ~closed
      BY <2>1, <2>3 DEF Coverage
  <2> QED
      BY <2>2, <2>3
<1> QED
    BY <1>1, SearchPoolInductive, PTL

\* After restart() and its reset neither a worker nor cached diagnostics of a former
\* configuration are left.
THEOREM FormerConfigurationGone == Spec => []OldConfigurationIsGone
<1>1. PoolInv => OldConfigurationIsGone
    BY DEF PoolInv, Coverage, OldConfigurationIsGone
<1> QED
    BY <1>1, SearchPoolInductive, PTL

\* The reset of a role terminates the worker it was queued for, which has failed or
\* overrun a deadline, and none that has replaced it.
THEOREM CulpritIsReset == Spec => ResetHitsTheCulprit
<1> DEFINE A == \A r \in Roles : (RoleReset(r) /\ phase' = "terminating") => killing' \subseteq blamed
<1>1. PoolInv /\ [Next]_vars => [A]_vars
  <2> SUFFICES ASSUME PoolInv, Next, NEW r \in Roles, RoleReset(r), phase' = "terminating"
               PROVE  killing' \subseteq blamed
      BY DEF vars, resetVars
  <2> USE WorkerFacts, ResetFacts
  <2>1. phase = "idle" /\ lifecycle # <<>> /\ Head(lifecycle).kind = r /\ killing = {}
      BY DEF RoleReset, PoolInv, Staffing
  <2>2. CASE \E s \in Roles : BeginRole(s)
    <3>1. PICK s \in Roles : BeginRole(s)
        BY <2>2
    <3>2. s = r /\ worker[r] = Head(lifecycle).expected /\ killing' = {worker[r]}
        BY <2>1, <3>1 DEF BeginRole, RoleReset, ResetRoles
    <3>3. Current(1, r)
      <4>1. lifecycle \in Seq({Whole} \cup RoleResets)
          BY DEF PoolInv, SearchTypeOK
      <4>2. Head(lifecycle) = lifecycle[1] /\ 1 \in DOMAIN lifecycle
          BY <2>1, <4>1, TailFacts
      <4> QED
          BY <2>1, <3>2, <4>2 DEF Current, RoleEntry
    <3> QED
        BY <3>2, <3>3 DEF PoolInv, Blame, Current, RoleEntry
  <2>3. ~BeginAll
      BY <2>1 DEF BeginAll
  <2>4. CASE killing' = killing
      BY <2>1, <2>4
  <2>5. ASSUME NEW w \in Workers, Terminated(w) PROVE killing' = {}
      BY <2>1, <2>5 DEF Terminated
  <2>6. CASE Search \/ (\E fresh \in BOOLEAN : Diagnostics(fresh)) \/ Restart \/ Close
      BY <2>1, <2>6 DEF Search, Diagnostics, Restart, Close, resetVars
  <2>7. CASE EndReset \/ \E s \in Roles : SkipRole(s)
      BY <2>1, <2>7 DEF EndReset, SkipRole
  <2>8. CASE \E s \in Roles : Event(s)
      BY <2>1, <2>8 DEF Event, ReadyDeadline, Deadline, OnReady, OnAnswer, OnStale, OnFailure, resetVars
  <2>9. CASE \E w \in Workers : WorkerBoots(w) \/ WorkerAnswers(w) \/ WorkerDies(w)
      BY <2>1, <2>9 DEF WorkerBoots, WorkerAnswers, WorkerDies, resetVars
  <2> QED
      BY <2>2, <2>3, <2>5, <2>6, <2>7, <2>8, <2>9 DEF Next, ResetStep
<1> HIDE DEF A
<1>2. Spec => [][A]_vars
    BY <1>1, SearchPoolInductive, PTL DEF Spec
<1> QED
    BY <1>2 DEF A, ResetHitsTheCulprit

-------------------------------------------------------------------------------
(***************************************************************************)
(* Nothing waits for ever without a timer or a reset.                      *)
(***************************************************************************)
\* A reset to come stays to come when another is queued or performed.
LEMMA ComingStays ==
    ASSUME SearchTypeOK, NEW r \in Roles, worker'[r] = worker[r], closed => closed', Coming(r),
           \/ lifecycle' = lifecycle
           \/ \E m \in {Whole} \cup RoleResets : lifecycle' = Append(lifecycle, m)
           \/ lifecycle # <<>> /\ lifecycle' = Tail(lifecycle) /\ ~Current(1, r)
    PROVE  Coming(r)'
<1>1. CASE closed
    BY <1>1 DEF Coming
<1>2. CASE \E j \in DOMAIN lifecycle : Current(j, r)
  <2>1. PICK j \in DOMAIN lifecycle : Current(j, r)
      BY <1>2
  <2>2. lifecycle \in Seq({Whole} \cup RoleResets)
      BY DEF SearchTypeOK
  <2>3. CASE lifecycle' = lifecycle
      BY <2>1, <2>3 DEF Coming, Current, RoleEntry
  <2>4. CASE \E m \in {Whole} \cup RoleResets : lifecycle' = Append(lifecycle, m)
    <3>1. j \in DOMAIN lifecycle' /\ lifecycle'[j] = lifecycle[j]
        BY <2>2, <2>4, AppendFacts
    <3> QED
        BY <2>1, <3>1 DEF Coming, Current, RoleEntry
  <2>5. CASE lifecycle # <<>> /\ lifecycle' = Tail(lifecycle) /\ ~Current(1, r)
    <3>1. j # 1
        BY <2>1, <2>5
    <3>2. j - 1 \in DOMAIN lifecycle' /\ lifecycle'[j - 1] = lifecycle[(j - 1) + 1] /\ (j - 1) + 1 = j
        BY <2>2, <2>5, <3>1, TailFacts
    <3>3. PICK k \in DOMAIN lifecycle' : lifecycle'[k] = lifecycle[j]
        BY <3>2
    <3> QED
        BY <2>1, <3>3 DEF Coming, Current, RoleEntry
  <2> QED
      BY <2>3, <2>4, <2>5
<1> QED
    BY <1>1, <1>2 DEF Coming

\* A role whose worker, timer and tasks a step leaves alone.
LEMMA StaysStartable ==
    ASSUME SearchTypeOK, Started, NEW r \in Roles,
           worker'[r] = worker[r], closed => closed',
           \/ lifecycle' = lifecycle
           \/ \E m \in {Whole} \cup RoleResets : lifecycle' = Append(lifecycle, m)
           \/ lifecycle # <<>> /\ lifecycle' = Tail(lifecycle) /\ ~Current(1, r),
           worker[r] \in resetting' => worker[r] \in resetting,
           worker[r] \notin workers' => worker[r] \notin workers,
           ready'[r] <=> ready[r], readyTimer'[r] = readyTimer[r],
           \/ active'[r] = active[r] /\ queue'[r] = queue[r]
           \/ active'[r] # NoTask \/ queue'[r] = <<>> \/ ~ready[r] \/ closed
    PROVE  Startable(r)'
<1>1. Coming(r) => Coming(r)'
    BY ComingStays
<1>2. closed => Coming(r)
    BY DEF Coming
<1> QED
    BY <1>1, <1>2 DEF Started, Startable

\* pump() leaves nothing behind that it could have posted.
LEMMA PumpStarts ==
    ASSUME PoolInv, Started, NEW r \in Roles, NEW q \in Seq(Tasks), NEW a \in Tasks \cup {NoTask},
           Pump(r, q, a), UNCHANGED <<worker, closed, lifecycle, resetting, workers, ready, readyTimer>>
    PROVE  Started'
<1> USE TaskFacts
<1>1. Pumped(r, q, a) /\ SearchTypeOK
    BY PumpFacts DEF PoolInv
<1>2. ASSUME NEW s \in Roles PROVE Startable(s)'
  <2>1. CASE s # r
      BY <1>1, <2>1, StaysStartable DEF Pumped
  <2>2. CASE s = r /\ worker[r] # NoWorker
    <3>1. active'[r] # NoTask \/ queue'[r] = <<>> \/ ~ready[r] \/ closed
        BY <1>1, <2>2 DEF Pumped
    <3> QED
        BY <1>1, <2>2, <3>1, StaysStartable
  <2>3. CASE worker[s] = NoWorker
      BY <2>3 DEF Startable
  <2> QED
      BY <2>1, <2>2, <2>3
<1> QED
    BY <1>2 DEF Started

\* onWorkerFailure() leaves a reset of the role to come, or the worker was replaced.
LEMMA FailureStarts ==
    ASSUME PoolInv, Started, NEW w \in Workers, Failure(w),
           UNCHANGED <<worker, closed, active, queue, ready>>,
           \A v \in Workers : v # w => (v \in workers => v \in workers'),
           \A r \in Roles : worker[r] # w => readyTimer'[r] = readyTimer[r]
    PROVE  Started'
<1> USE WorkerFacts
<1>1. SearchTypeOK /\ \A r \in Roles : worker[r] # NoWorker => worker[r] \in Workers /\ Role(worker[r]) = r
  <2>1. SearchTypeOK /\ Staffing
      BY DEF PoolInv
  <2>2. \A r \in Roles : worker[r] # NoWorker => worker[r] \in Workers
      BY <2>1 DEF SearchTypeOK
  <2> QED
      BY <2>1, <2>2 DEF Staffing
<1>2. \/ lifecycle' = lifecycle
      \/ \E m \in {Whole} \cup RoleResets : lifecycle' = Append(lifecycle, m)
  <2>1. CASE closed \/ w \in resetting \/ worker[Role(w)] # w
      BY <2>1 DEF Failure
  <2>2. CASE ~(closed \/ w \in resetting \/ worker[Role(w)] # w)
    <3> DEFINE m == [kind |-> Role(w), readiness |-> ~ready[Role(w)], expected |-> w]
    <3>1. (~ready[Role(w)]) \in BOOLEAN
        BY <1>1 DEF SearchTypeOK
    <3>2. m \in RoleResets
        BY <3>1 DEF RoleResets
    <3>3. lifecycle' = Append(lifecycle, m)
        BY <2>2 DEF Failure
    <3> QED
        BY <3>2, <3>3
  <2> QED
      BY <2>1, <2>2
<1>3. ASSUME NEW r \in Roles, worker[r] # NoWorker PROVE Startable(r)'
  <2>1. CASE worker[r] # w
    <3>1. worker[r] \in resetting' => worker[r] \in resetting
        BY <2>1 DEF Failure
    <3> QED
        BY <1>1, <1>2, <1>3, <2>1, <3>1, StaysStartable
  <2>2. CASE worker[r] = w /\ Coming(r)
    <3>1. Coming(r)'
        BY <1>1, <1>2, <2>2, ComingStays
    <3> QED
        BY <3>1 DEF Startable
  <2>3. CASE worker[r] = w /\ ~Coming(r)
    <3>1. ~closed /\ w \notin resetting /\ r = Role(w)
        BY <1>1, <1>3, <2>3 DEF Started, Startable, Coming
    <3>2. lifecycle' = Append(lifecycle, [kind |-> r, readiness |-> ~ready[r], expected |-> w])
        BY <2>3, <3>1 DEF Failure
    <3>3. (~ready[r]) \in BOOLEAN /\ lifecycle \in Seq({Whole} \cup RoleResets)
        BY <1>1 DEF SearchTypeOK
    <3> DEFINE m == [kind |-> r, readiness |-> ~ready[r], expected |-> w]
    <3>4. m \in {Whole} \cup RoleResets /\ m.kind = r /\ m.expected = w
        BY <3>3 DEF RoleResets
    <3> HIDE DEF m
    <3>5. \E j \in DOMAIN lifecycle' : lifecycle'[j] = m
      <4>1. lifecycle' = Append(lifecycle, m)
          BY <3>2 DEF m
      <4> QED
          BY <3>3, <3>4, <4>1, AppendFacts
    <3> QED
        BY <2>3, <3>4, <3>5 DEF Startable, Coming, Current, RoleEntry
  <2> QED
      BY <2>1, <2>2, <2>3
<1>4. \A r \in Roles : worker[r] = NoWorker => Startable(r)'
    BY DEF Startable
<1> QED
    BY <1>3, <1>4 DEF Started

LEMMA StartedInit == Init => Started
<1> SUFFICES ASSUME Init, NEW r \in Roles PROVE Startable(r)
    BY DEF Started
<1>1. worker[r] \in workers /\ worker[r] \notin resetting /\ readyTimer[r] = worker[r] /\ queue[r] = <<>>
    BY DEF Init
<1> QED
    BY <1>1 DEF Startable

LEMMA SearchStarts == PoolInv /\ Started /\ Search => Started'
<1> SUFFICES ASSUME PoolInv, Started, Search PROVE Started'
    OBVIOUS
<1> DEFINE r == "search"
           q == Append(queue[r], NextId(r))
<1>1. /\ FreeIds(r) # {} /\ Pump(r, q, active[r])
      /\ UNCHANGED <<worker, closed, lifecycle, resetting, workers, ready, readyTimer>>
    BY DEF Search, Accepts, roleVars, poolVars, resetVars
<1>2. q \in Seq(Tasks) /\ active[r] \in Tasks \cup {NoTask} /\ r \in Roles
    BY <1>1, NextIdIsFree, WorkerFacts DEF PoolInv, SearchTypeOK
<1> HIDE DEF q
<1> QED
    BY <1>1, <1>2, PumpStarts

LEMMA DiagnosticsStarts ==
    ASSUME PoolInv, Started, NEW fresh \in BOOLEAN, Diagnostics(fresh)
    PROVE  Started'
<1> DEFINE r == "diagnostics"
           q == <<NextId(r)>>
<1>1. /\ FreeIds(r) # {} /\ r \in Roles
      /\ UNCHANGED <<worker, closed, lifecycle, resetting, workers, ready, readyTimer>>
    BY WorkerFacts DEF Diagnostics, Accepts, roleVars, poolVars, resetVars
<1>2. CASE Pump(r, q, NoTask)
  <2>1. q \in Seq(Tasks) /\ NoTask \in Tasks \cup {NoTask}
      BY <1>1, NextIdIsFree
  <2> HIDE DEF q
  <2> QED
      BY <1>1, <1>2, <2>1, PumpStarts
<1>3. CASE UNCHANGED <<taskVars, jobs>>
    BY <1>1, <1>3 DEF Started, Startable, Coming, Current, RoleEntry, taskVars
<1> QED
    BY <1>2, <1>3 DEF Diagnostics

LEMMA RestartCloseStarts == PoolInv /\ Started /\ (Restart \/ Close) => Started'
<1> SUFFICES ASSUME PoolInv, Started, Restart \/ Close, NEW r \in Roles PROVE Startable(r)'
    BY DEF Started
<1>1. /\ UNCHANGED <<worker, resetting, workers, ready, readyTimer, active, queue>>
      /\ closed => closed'
      /\ lifecycle' = IF resetQueued THEN lifecycle ELSE Append(lifecycle, Whole)
      /\ SearchTypeOK
    BY DEF Restart, Close, EnqueueReset, roleVars, taskVars, PoolInv
<1>2. \/ lifecycle' = lifecycle
      \/ \E m \in {Whole} \cup RoleResets : lifecycle' = Append(lifecycle, m)
    BY <1>1
<1> QED
    BY <1>1, <1>2, StaysStartable

LEMMA BeginStarts ==
    ASSUME PoolInv, Started, BeginAll \/ \E r \in Roles : BeginRole(r)
    PROVE  Started'
<1> USE WorkerFacts
<1>1. SearchTypeOK
    BY DEF PoolInv
<1>2. PICK S \in SUBSET Roles, K \in SUBSET Workers :
         /\ ResetRoles(S, K)
         /\ \A w \in K : Role(w) \in S
  <2>1. CASE BeginAll
    <3>1. workers \in SUBSET Workers /\ \A w \in workers : Role(w) \in Roles
        BY <1>1 DEF SearchTypeOK
    <3>2. ResetRoles(Roles, workers) /\ Roles \in SUBSET Roles
        BY <2>1 DEF BeginAll
    <3> QED
        BY <3>1, <3>2
  <2>2. ASSUME NEW r \in Roles, BeginRole(r)
        PROVE  \E S \in SUBSET Roles, K \in SUBSET Workers :
                  ResetRoles(S, K) /\ \A w \in K : Role(w) \in S
    <3>1. ResetRoles({r}, {worker[r]}) /\ lifecycle # <<>>
          /\ worker[r] = Head(lifecycle).expected /\ Head(lifecycle).kind = r
        BY <2>2 DEF BeginRole, RoleReset
    <3>2. worker[r] \in Workers /\ Role(worker[r]) = r
      <4>1. lifecycle \in Seq({Whole} \cup RoleResets) /\ Head(lifecycle) \in {Whole} \cup RoleResets
          BY <1>1, <3>1, TailFacts DEF SearchTypeOK
      <4>2. worker[r] \in Workers
          BY <3>1, <4>1, ResetFacts
      <4> QED
          BY <4>2 DEF PoolInv, Staffing
    <3>3. {r} \in SUBSET Roles /\ {worker[r]} \in SUBSET Workers
        BY <3>2
    <3> QED
        BY <3>1, <3>2, <3>3
  <2> QED
      BY <2>1, <2>2
<1>3. /\ \A r \in S : worker'[r] = NoWorker
      /\ \A r \in Roles \ S :
            /\ (ready'[r] <=> ready[r]) /\ worker'[r] = worker[r] /\ readyTimer'[r] = readyTimer[r]
            /\ active'[r] = active[r] /\ queue'[r] = queue[r]
      /\ resetting' = resetting \cup K
      /\ UNCHANGED <<closed, workers, lifecycle>>
    BY <1>2 DEF ResetRoles
<1>4. ASSUME NEW r \in Roles \ S PROVE Startable(r)'
  <2>1. worker[r] \notin K \/ worker[r] = NoWorker
      BY <1>2 DEF PoolInv, Staffing
  <2>2. CASE worker[r] = NoWorker
      BY <1>3, <2>2 DEF Startable
  <2>3. CASE worker[r] \notin K
      BY <1>1, <1>3, <2>3, StaysStartable
  <2> QED
      BY <2>1, <2>2, <2>3
<1> QED
    BY <1>3, <1>4 DEF Started, Startable

LEMMA SkipStarts ==
    ASSUME PoolInv, Started, NEW r \in Roles, SkipRole(r)
    PROVE  Started'
<1>1. /\ lifecycle # <<>> /\ Head(lifecycle).kind = r /\ worker[r] # Head(lifecycle).expected
      /\ lifecycle' = Tail(lifecycle) /\ SearchTypeOK
      /\ UNCHANGED <<worker, ready, readyTimer, active, queue, closed, workers, resetting>>
    BY DEF SkipRole, RoleReset, roleVars, taskVars, poolVars, PoolInv
<1>2. Head(lifecycle) = lifecycle[1]
    BY <1>1, TailFacts DEF SearchTypeOK
<1>3. \A s \in Roles : ~Current(1, s)
    BY <1>1, <1>2 DEF Current, RoleEntry
<1>4. \A s \in Roles : Startable(s)'
    BY <1>1, <1>3, StaysStartable
<1> QED
    BY <1>4 DEF Started

LEMMA TerminatedStarts ==
    ASSUME PoolInv, Started, NEW w \in Workers, Terminated(w)
    PROVE  Started'
<1> USE WorkerFacts
<1>1. /\ w \in killing /\ workers' = workers \ {w} /\ resetting' = resetting \ {w}
      /\ UNCHANGED <<worker, ready, readyTimer, active, queue, closed, lifecycle>> /\ SearchTypeOK
    BY DEF Terminated, roleVars, taskVars, PoolInv
<1>2. \A r \in Roles : worker[r] # w
    BY <1>1 DEF PoolInv, Staffing
<1>3. \A r \in Roles : Startable(r)'
    BY <1>1, <1>2, StaysStartable
<1> QED
    BY <1>3 DEF Started

LEMMA EndResetStarts == PoolInv /\ Started /\ EndReset => Started'
<1> SUFFICES ASSUME PoolInv, Started, EndReset PROVE Started'
    OBVIOUS
<1> USE WorkerFacts, ResetFacts
<1> DEFINE h == Head(lifecycle)
<1>1. /\ phase = "terminating" /\ killing = {}
      /\ lifecycle # <<>> /\ lifecycle' = Tail(lifecycle)
      /\ h \in {Whole} \cup RoleResets
      /\ UNCHANGED <<ready, closed, active, queue>> /\ SearchTypeOK
    BY EndResetFacts DEF PoolInv
<1>2. \A r \in Roles : (h = Whole \/ h.kind = r) => worker[r] = NoWorker /\ ~ready[r]
    BY <1>1 DEF PoolInv, Staffing, Timed
<1>3. h = lifecycle[1]
    BY <1>1, TailFacts DEF SearchTypeOK
<1>4. \A r \in Roles : worker[r] # NoWorker => ~Current(1, r)
    BY <1>1, <1>2, <1>3 DEF Current, RoleEntry
<1>5. CASE NothingSpawned
  <2>1. ASSUME NEW r \in Roles, worker[r] # NoWorker PROVE Startable(r)'
      BY <1>1, <1>4, <1>5, <2>1, StaysStartable DEF NothingSpawned
  <2>2. \A r \in Roles : worker[r] = NoWorker => Startable(r)'
      BY <1>5 DEF NothingSpawned, Startable
  <2> QED
      BY <2>1, <2>2 DEF Started
<1>6. ASSUME NEW S \in SUBSET Roles, Spawn(S), \A r \in S : h = Whole \/ h.kind = r
      PROVE  Started'
  <2>1. \A r \in S : Fresh(r) # {}
      BY <1>1, <1>2, <1>6, ANameIsLeft DEF NameLeft
  <2> PICK new \in SUBSET Workers : Spawned(S, new)
      BY <1>1, <1>6, <2>1, SpawnFacts
  <2>2. /\ \A r \in S : worker'[r] \in new /\ readyTimer'[r] = worker'[r]
        /\ \A w \in new : Role(w) \in S
        /\ \A r \in Roles \ S : worker'[r] = worker[r] /\ readyTimer'[r] = readyTimer[r]
        /\ workers' = workers \cup new /\ resetting' = resetting \ new
      BY DEF Spawned
  <2>3. \A r \in S : Startable(r)'
      BY <1>1, <1>2, <1>6, <2>2 DEF Startable
  <2>4. ASSUME NEW r \in Roles \ S, worker[r] # NoWorker PROVE Startable(r)'
      BY <1>1, <1>4, <2>2, <2>4, StaysStartable
  <2>5. \A r \in Roles \ S : worker[r] = NoWorker => Startable(r)'
      BY <2>2 DEF Startable
  <2> QED
      BY <2>3, <2>4, <2>5 DEF Started
<1>7. CASE Spawn(Roles) /\ h = Whole
    BY <1>6, <1>7
<1>8. CASE Spawn({h.kind}) /\ h # Whole
  <2>1. {h.kind} \in SUBSET Roles
      BY <1>1, <1>8
  <2> QED
      BY <1>6, <1>8, <2>1
<1> QED
  <2>1. NothingSpawned \/ (Spawn(Roles) /\ h = Whole) \/ (Spawn({h.kind}) /\ h # Whole)
      BY <1>1 DEF EndReset, SearchTypeOK
  <2> QED
      BY <1>5, <1>7, <1>8, <2>1

LEMMA EventStarts ==
    ASSUME PoolInv, Started, NEW r \in Roles, Event(r)
    PROVE  Started'
<1> USE WorkerFacts, TaskFacts
<1>1. CASE ReadyDeadline(r)
  <2>1. /\ readyTimer[r] \in Workers /\ readyTimer[r] = worker[r] /\ Failure(readyTimer[r])
        /\ readyTimer' = [readyTimer EXCEPT ![r] = NoWorker]
        /\ UNCHANGED <<worker, closed, active, queue, ready, workers>>
      BY <1>1 DEF ReadyDeadline, PoolInv, SearchTypeOK, Timed, taskVars
  <2>2. \A s \in Roles : worker[s] # readyTimer[r] => readyTimer'[s] = readyTimer[s]
      BY <2>1
  <2> QED
      BY <2>1, <2>2, FailureStarts
<1>2. CASE Deadline(r)
  <2> DEFINE m == [kind |-> r, readiness |-> FALSE, expected |-> worker[r]]
  <2>1. /\ deadlineTimer[r] = <<active[r], worker[r]>> /\ worker[r] \in Workers
      BY <1>2 DEF Deadline, PoolInv, Timed, SearchTypeOK
  <2>2. /\ lifecycle' = Append(lifecycle, m) /\ SearchTypeOK
        /\ active' = [active EXCEPT ![r] = IF @ = active[r] THEN NoTask ELSE @]
        /\ UNCHANGED <<worker, ready, readyTimer, queue, closed, workers, resetting>>
      BY <1>2, <2>1 DEF Deadline, PoolInv, roleVars
  <2>3. m \in {Whole} \cup RoleResets /\ m.kind = r /\ m.expected = worker[r]
      BY <2>1 DEF RoleResets
  <2> HIDE DEF m
  <2>4. \E j \in DOMAIN lifecycle' : lifecycle'[j] = m
      BY <2>2, <2>3, AppendFacts DEF SearchTypeOK
  <2>5. Startable(r)'
      BY <2>2, <2>3, <2>4 DEF Startable, Coming, Current, RoleEntry
  <2>6. ASSUME NEW s \in Roles \ {r} PROVE Startable(s)'
    <3>1. active'[s] = active[s]
        BY <2>2
    <3> QED
        BY <2>2, <2>3, <3>1, StaysStartable
  <2> QED
      BY <2>5, <2>6 DEF Started
<1>3. ASSUME NEW w \in Workers, OnReady(w) PROVE Started'
  <2> DEFINE s == Role(w)
  <2>1. /\ worker[s] = w /\ w \notin resetting /\ s \in Roles /\ w # NoWorker /\ SearchTypeOK
        /\ readyTimer' = [readyTimer EXCEPT ![s] = NoWorker]
        /\ ready' = [ready EXCEPT ![s] = TRUE]
        /\ UNCHANGED <<worker, closed, workers, resetting, lifecycle>>
      BY <1>3 DEF OnReady, Heard, PoolInv, poolVars, resetVars
  <2>2. \/ /\ active' = [active EXCEPT ![s] = Head(queue[s])]
           /\ queue' = [queue EXCEPT ![s] = Tail(queue[s])] /\ queue[s] # <<>>
        \/ UNCHANGED <<active, queue>> /\ (active[s] # NoTask \/ queue[s] = <<>>)
      BY <1>3 DEF OnReady, taskVars
  <2> HIDE DEF s
  <2>3. /\ \A u \in Roles \ {s} : /\ active'[u] = active[u] /\ queue'[u] = queue[u]
                                  /\ (ready'[u] <=> ready[u]) /\ readyTimer'[u] = readyTimer[u]
        /\ active'[s] # NoTask \/ queue'[s] = <<>>
        /\ ready'[s]
    <3>1. /\ active \in [Roles -> Tasks \cup {NoTask}] /\ queue \in [Roles -> Seq(Tasks)]
          /\ ready \in [Roles -> BOOLEAN] /\ readyTimer \in [Roles -> Workers \cup {NoWorker}]
        BY <2>1 DEF SearchTypeOK
    <3>2. /\ ready'[s]
          /\ \A u \in Roles \ {s} : (ready'[u] <=> ready[u]) /\ readyTimer'[u] = readyTimer[u]
        BY <2>1, <3>1
    <3>3. CASE /\ active' = [active EXCEPT ![s] = Head(queue[s])]
               /\ queue' = [queue EXCEPT ![s] = Tail(queue[s])] /\ queue[s] # <<>>
      <4>1. Head(queue[s]) \in Tasks
          BY <2>1, <3>1, <3>3
      <4> QED
          BY <2>1, <3>1, <3>2, <3>3, <4>1, NamesAssumption
    <3>4. CASE UNCHANGED <<active, queue>> /\ (active[s] # NoTask \/ queue[s] = <<>>)
        BY <3>2, <3>4
    <3> QED
        BY <2>2, <3>3, <3>4
  <2>4. Startable(s)'
    <3>1. Coming(s)' <=> Coming(s)
        BY <2>1 DEF Coming, Current, RoleEntry
    <3> QED
        BY <2>1, <2>3, <3>1 DEF Started, Startable
  <2>5. \A u \in Roles \ {s} : Startable(u)'
      BY <2>1, <2>3, StaysStartable
  <2> QED
      BY <2>4, <2>5 DEF Started
<1>4. ASSUME NEW w \in Workers, OnAnswer(w) PROVE Started'
  <2> DEFINE s == Role(w)
             q == queue[s]
  <2>1. /\ Pump(s, q, NoTask) /\ s \in Roles /\ NoTask \in Tasks \cup {NoTask}
        /\ UNCHANGED <<worker, closed, lifecycle, resetting, workers, ready, readyTimer>>
      BY <1>4 DEF OnAnswer, roleVars, poolVars, resetVars
  <2>2. q \in Seq(Tasks)
      BY <2>1 DEF PoolInv, SearchTypeOK
  <2> HIDE DEF s, q
  <2> QED
      BY <2>1, <2>2, PumpStarts
<1>5. ASSUME NEW w \in Workers, OnStale(w) PROVE Started'
    BY <1>5 DEF OnStale, Started, Startable, Coming, Current, RoleEntry,
                roleVars, taskVars, poolVars, resetVars
<1>6. ASSUME NEW w \in Workers, OnFailure(w) PROVE Started'
  <2>1. /\ Failure(w) /\ workers' \in {workers, workers \ {w}}
        /\ UNCHANGED <<worker, closed, active, queue, ready, readyTimer>>
      BY <1>6 DEF OnFailure, roleVars, taskVars
  <2> QED
      BY <2>1, FailureStarts
<1>7. ASSUME NEW w \in {r} \X Names, OnReady(w) \/ OnAnswer(w) \/ OnStale(w) \/ OnFailure(w)
      PROVE  Started'
  <2>1. w \in Workers
      OBVIOUS
  <2> QED
      BY <1>3, <1>4, <1>5, <1>6, <1>7, <2>1
<1> QED
    BY <1>1, <1>2, <1>7 DEF Event

LEMMA StartedStep == PoolInv /\ Started /\ [Next]_vars => Started'
<1> SUFFICES ASSUME PoolInv, Started, [Next]_vars PROVE Started'
    OBVIOUS
<1>1. CASE Search
    BY <1>1, SearchStarts
<1>2. ASSUME NEW fresh \in BOOLEAN, Diagnostics(fresh) PROVE Started'
    BY <1>2, DiagnosticsStarts
<1>3. CASE Restart \/ Close
    BY <1>3, RestartCloseStarts
<1>4. CASE BeginAll \/ \E r \in Roles : BeginRole(r)
    BY <1>4, BeginStarts
<1>5. CASE EndReset
    BY <1>5, EndResetStarts
<1>6. ASSUME NEW r \in Roles, SkipRole(r) PROVE Started'
    BY <1>6, SkipStarts
<1>7. ASSUME NEW w \in Workers, Terminated(w) PROVE Started'
    BY <1>7, TerminatedStarts
<1>8. ASSUME NEW r \in Roles, Event(r) PROVE Started'
    BY <1>8, EventStarts
<1>9. CASE \E w \in Workers : WorkerBoots(w) \/ WorkerAnswers(w) \/ WorkerDies(w)
  <2>1. UNCHANGED <<worker, closed, lifecycle, resetting, workers, ready, readyTimer, active, queue>>
      BY <1>9 DEF WorkerBoots, WorkerAnswers, WorkerDies, roleVars, taskVars, poolVars, resetVars
  <2> QED
      BY <2>1 DEF Started, Startable, Coming, Current, RoleEntry
<1>10. CASE UNCHANGED vars
    BY <1>10 DEF vars, roleVars, taskVars, poolVars, resetVars,
                 Started, Startable, Coming, Current, RoleEntry
<1> QED
    BY <1>1, <1>2, <1>3, <1>4, <1>5, <1>6, <1>7, <1>8, <1>9, <1>10 DEF Next, ResetStep

\* An accepted search or diagnostics always has something that settles it: a deadline,
\* the deadline of a starting worker, or a reset that is queued or under way.
THEOREM SearchIsNotStranded == Spec => []NoSearchIsStranded
<1>1. Init => Started
    BY StartedInit
<1>2. PoolInv /\ Started /\ [Next]_vars => Started'
    BY StartedStep
<1>3. PoolInv /\ Started => NoSearchIsStranded
  <2> SUFFICES ASSUME PoolInv, Started, NEW r \in Roles, active[r] # NoTask \/ queue[r] # <<>>,
                      ~degraded[r], ~closed, deadlineTimer[r] = NoTimer, readyTimer[r] = NoWorker,
                      ~(phase = "terminating" /\ Head(lifecycle).kind = r)
               PROVE  \E j \in DOMAIN lifecycle : lifecycle[j] = Whole \/ lifecycle[j].expected = worker[r]
      BY DEF NoSearchIsStranded
  <2>1. active[r] = NoTask /\ queue[r] # <<>>
      BY DEF PoolInv, Timed
  <2>2. CASE worker[r] = NoWorker
    <3>1. resetQueued
        BY <2>2 DEF PoolInv, Coverage
    <3> QED
        BY <3>1 DEF PoolInv, Chain
  <2>3. CASE worker[r] # NoWorker
    <3>1. Coming(r)
        BY <2>1, <2>3 DEF Started, Startable
    <3> QED
        BY <3>1 DEF Coming, Current
  <2> QED
      BY <2>2, <2>3
<1> QED
    BY <1>1, <1>2, <1>3, SearchPoolInductive, PTL DEF Spec

-------------------------------------------------------------------------------
(***************************************************************************)
(* Which task a worker executes.                                           *)
(***************************************************************************)
\* The answers in the port of v are among those that were there before.
FewerAnswers(v) ==
    \A j \in DOMAIN outbox'[v] : outbox'[v][j].type \in {"result", "error"} =>
        \E k \in DOMAIN outbox[v] : outbox[v][k] = outbox'[v][j]

\* What has been posted to a thread.
LEMMA JobFacts ==
    ASSUME SearchTypeOK, NEW w \in Workers
    PROVE  /\ jobs[w] \in Seq([id : Tasks, late : BOOLEAN])
           /\ DOMAIN jobs[w] = 1..Len(jobs[w]) /\ Len(jobs[w]) \in Nat
           /\ \A i \in DOMAIN jobs[w] : /\ jobs[w][i] \in [id : Tasks, late : BOOLEAN]
                                        /\ jobs[w][i].id \in Tasks /\ jobs[w][i].id # NoTask
<1>1. PICK s \in Seq([id : Tasks, late : BOOLEAN]) : s = jobs[w]
    BY DEF SearchTypeOK
<1>2. /\ DOMAIN s = 1..Len(s) /\ Len(s) \in Nat
      /\ \A i \in DOMAIN s : s[i] \in [id : Tasks, late : BOOLEAN]
    BY ElementFacts
<1>3. \A i \in DOMAIN s : s[i].id \in Tasks /\ s[i].id # NoTask
    BY <1>2, TaskFacts
<1> QED
    BY <1>1, <1>2, <1>3

LEMMA TakeKeepsAnswers ==
    ASSUME SearchTypeOK, NEW w \in Workers, NEW types, Take(w, types)
    PROVE  \A v \in Workers : FewerAnswers(v)
<1>1. /\ outbox \in [Workers -> Seq(ToPool)] /\ outbox[w] # <<>>
      /\ outbox' = [outbox EXCEPT ![w] = Tail(outbox[w])]
    BY DEF Take, SearchTypeOK
<1>2. \A j \in DOMAIN Tail(outbox[w]) :
         j + 1 \in DOMAIN outbox[w] /\ Tail(outbox[w])[j] = outbox[w][j + 1]
    BY <1>1, TailFacts
<1>3. outbox'[w] = Tail(outbox[w]) /\ \A v \in Workers \ {w} : outbox'[v] = outbox[v]
    BY <1>1
<1>4. FewerAnswers(w)
  <2>1. ASSUME NEW j \in DOMAIN outbox'[w]
        PROVE  \E k \in DOMAIN outbox[w] : outbox[w][k] = outbox'[w][j]
    <3>1. PICK k \in DOMAIN outbox[w] : k = j + 1 /\ outbox'[w][j] = outbox[w][k]
        BY <1>2, <1>3
    <3> QED
        BY <3>1
  <2> QED
      BY <2>1 DEF FewerAnswers
<1>5. \A v \in Workers \ {w} : FewerAnswers(v)
    BY <1>3 DEF FewerAnswers
<1> QED
    BY <1>4, <1>5

LEMMA EmitAddsNoAnswer ==
    ASSUME SearchTypeOK, NEW w \in Workers, NEW ms \in Seq(ToPool), Emit(w, ms),
           \A k \in DOMAIN ms : ms[k].type \notin {"result", "error"}
    PROVE  \A v \in Workers : FewerAnswers(v)
<1>1. outbox \in [Workers -> Seq(ToPool)] /\ outbox' = [outbox EXCEPT ![w] = outbox[w] \o ms]
    BY DEF Emit, SearchTypeOK
<1>2. \A j \in DOMAIN (outbox[w] \o ms) :
            \/ j \in DOMAIN outbox[w] /\ (outbox[w] \o ms)[j] = outbox[w][j]
            \/ \E k \in DOMAIN ms : j = Len(outbox[w]) + k /\ (outbox[w] \o ms)[j] = ms[k]
    BY <1>1, ConcatFacts
<1>3. outbox'[w] = outbox[w] \o ms /\ \A v \in Workers \ {w} : outbox'[v] = outbox[v]
    BY <1>1
<1>4. FewerAnswers(w)
  <2>1. ASSUME NEW j \in DOMAIN outbox'[w], outbox'[w][j].type \in {"result", "error"}
        PROVE  j \in DOMAIN outbox[w] /\ outbox[w][j] = outbox'[w][j]
      BY <1>2, <1>3, <2>1
  <2> QED
      BY <2>1 DEF FewerAnswers
<1>5. \A v \in Workers \ {w} : FewerAnswers(v)
    BY <1>3 DEF FewerAnswers
<1> QED
    BY <1>4, <1>5

\* A role whose tasks, posted tasks and answers a step leaves alone or drops.
LEMMA StaysPosted ==
    ASSUME SearchTypeOK, Posted, NEW r \in Roles,
           \A w \in {r} \X Names : FewerAnswers(w) /\ jobs'[w] \in {jobs[w], <<>>},
           worker[r] # NoWorker => worker[r] \in {r} \X Names,
           \/ /\ active'[r] = active[r] /\ queue'[r] = queue[r]
              /\ worker'[r] = worker[r] \/ worker'[r] = NoWorker \/ jobs'[worker'[r]] = <<>>
           \/ active'[r] = NoTask /\ queue'[r] = <<>> /\ worker'[r] = NoWorker
    PROVE  Posting(r)'
<1> USE TaskFacts
<1>1. Posting(r) /\ jobs \in [Workers -> Seq([id : Tasks, late : BOOLEAN])]
    BY DEF Posted, SearchTypeOK
<1>2. \A w \in {r} \X Names : \A i \in DOMAIN jobs'[w] : i \in DOMAIN jobs[w] /\ jobs'[w][i] = jobs[w][i]
    OBVIOUS
<1>3. ASSUME NEW t, Settling(r, t)' PROVE Settling(r, t)
    BY <1>2, <1>3 DEF Settling, FewerAnswers, Answering
<1>4. CASE /\ active'[r] = active[r] /\ queue'[r] = queue[r]
           /\ worker'[r] = worker[r] \/ worker'[r] = NoWorker \/ jobs'[worker'[r]] = <<>>
  <2>1. Waiting(r)'
      BY <1>1, <1>3, <1>4 DEF Posting, Waiting
  <2>2. \A w \in {r} \X Names : \A i \in DOMAIN jobs'[w] : jobs'[w][i].late => jobs'[w][i].id # active'[r]
      BY <1>1, <1>2, <1>4 DEF Posting
  <2>3. CASE worker'[r] = worker[r] /\ worker[r] # NoWorker
    <3>1. AtWorker(worker[r], active[r])
        BY <1>1, <2>3 DEF Posting
    <3> PICK w \in {r} \X Names : w = worker[r]
        BY <2>3
    <3>2. AtWorker(w, active[r])'
      <4>1. \A i \in DOMAIN jobs'[w] : \A j \in DOMAIN outbox'[w] :
               ~jobs'[w][i].late => ~Answering(outbox'[w][j], active'[r])
          BY <1>2, <1>4, <3>1 DEF AtWorker, FewerAnswers, Answering
      <4> QED
          BY <1>2, <1>4, <3>1, <4>1 DEF AtWorker
    <3> QED
        BY <2>1, <2>2, <2>3, <3>2 DEF Posting
  <2>4. CASE worker'[r] = NoWorker
      BY <2>1, <2>2, <2>4 DEF Posting
  <2>5. CASE jobs'[worker'[r]] = <<>>
    <3>1. AtWorker(worker[r], active[r])'
        BY <2>5 DEF AtWorker
    <3> QED
        BY <2>1, <2>2, <3>1 DEF Posting
  <2> QED
      BY <1>4, <2>3, <2>4, <2>5
<1>5. CASE active'[r] = NoTask /\ queue'[r] = <<>> /\ worker'[r] = NoWorker
  <2>1. Waiting(r)'
      BY <1>5 DEF Waiting
  <2>2. \A w \in {r} \X Names : w \in Workers
      BY WorkerFacts
  <2>3. \A w \in {r} \X Names : \A i \in DOMAIN jobs[w] : jobs[w][i].id \in Tasks
      BY <2>2, JobFacts
  <2>4. \A w \in {r} \X Names : \A i \in DOMAIN jobs'[w] : jobs'[w][i].id # active'[r]
      BY <1>2, <1>5, <2>3
  <2> QED
      BY <1>5, <2>1, <2>4 DEF Posting
<1> QED
    BY <1>4, <1>5

\* The queue q of a role, whose active task is a, before a task may be posted.
Postable(r, q, a) ==
    /\ \A i \in DOMAIN q : q[i] # a /\ ~Settling(r, q[i])
    /\ \A i, j \in DOMAIN q : q[i] = q[j] => i = j
    /\ (a = NoTask /\ worker[r] # NoWorker) => \A i \in DOMAIN jobs[worker[r]] : jobs[worker[r]][i].late

\* What posting the head of q to the worker of the role does.
PostsHead(r, q) ==
    /\ q # <<>> /\ active'[r] = Head(q) /\ queue'[r] = Tail(q) /\ worker[r] \in Workers
    /\ \/ jobs'[worker[r]] = jobs[worker[r]]
       \/ jobs'[worker[r]] = Append(jobs[worker[r]], [id |-> Head(q), late |-> FALSE])

LEMMA TaskPosted ==
    ASSUME PoolInv, Posted, NEW r \in Roles, NEW q \in Seq(Tasks), NEW a \in {active[r], NoTask},
           Postable(r, q, a), worker' = worker, \A v \in Workers : FewerAnswers(v),
           \A s \in Roles \ {r} : active'[s] = active[s] /\ queue'[s] = queue[s],
           \A v \in Workers : v # worker[r] => jobs'[v] = jobs[v],
           \/ active'[r] = a /\ queue'[r] = q /\ jobs' = jobs
           \/ a = NoTask /\ PostsHead(r, q)
    PROVE  Posted'
<1> USE TaskFacts, WorkerFacts
<1>1. /\ SearchTypeOK /\ Posting(r)
      /\ \A s \in Roles : worker[s] # NoWorker => worker[s] \in {s} \X Names
  <2>1. \A s \in Roles : worker[s] # NoWorker => worker[s] \in Workers
      BY DEF PoolInv, SearchTypeOK
  <2>2. \A s \in Roles : worker[s] # NoWorker => Role(worker[s]) = s
      BY DEF PoolInv, Staffing
  <2> QED
      BY <2>1, <2>2 DEF PoolInv, Posted
<1>2. ASSUME NEW s \in Roles \ {r} PROVE Posting(s)'
  <2>1. \A w \in {s} \X Names : w \in Workers /\ w # worker[r]
      BY <1>1
  <2>2. \A w \in {s} \X Names : FewerAnswers(w) /\ jobs'[w] \in {jobs[w], <<>>}
      BY <2>1
  <2> QED
      BY <1>1, <2>2, StaysPosted
<1>3. \A w \in {r} \X Names : \A i \in DOMAIN jobs[w] : jobs[w][i].id \in Tasks
  <2>1. \A w \in {r} \X Names : w \in Workers
      OBVIOUS
  <2> QED
      BY <1>1, <2>1, JobFacts
<1>4. CASE active'[r] = a /\ queue'[r] = q /\ jobs' = jobs
  <2>1. ASSUME NEW t, Settling(r, t)' PROVE Settling(r, t)
      BY <1>4, <2>1 DEF Settling, FewerAnswers, Answering
  <2>2. Waiting(r)'
      BY <1>4, <2>1 DEF Postable, Waiting
  <2>3. \A w \in {r} \X Names : \A i \in DOMAIN jobs[w] : jobs[w][i].late => jobs[w][i].id # a
      BY <1>1, <1>3 DEF Posting
  <2>4. ASSUME NEW w \in {r} \X Names, w = worker[r] PROVE AtWorker(w, a)'
    <3>1. CASE a = NoTask
        BY <1>4, <2>4, <3>1 DEF AtWorker, Postable
    <3>2. CASE a = active[r]
      <4>1. AtWorker(w, a)
          BY <1>1, <2>4, <3>2 DEF Posting
      <4> QED
          BY <1>4, <4>1 DEF AtWorker, FewerAnswers, Answering
    <3> QED
        BY <3>1, <3>2
  <2>5. worker[r] # NoWorker => AtWorker(worker[r], active[r])'
    <3> SUFFICES ASSUME worker[r] # NoWorker PROVE AtWorker(worker[r], active[r])'
        OBVIOUS
    <3>1. PICK w \in {r} \X Names : w = worker[r]
        BY <1>1
    <3> QED
        BY <1>4, <2>4, <3>1 DEF AtWorker
  <2>6. Posting(r)'
      BY <1>4, <2>2, <2>3, <2>5 DEF Posting
  <2> QED
      BY <1>2, <2>6 DEF Posted
<1>5. CASE a = NoTask /\ PostsHead(r, q)
  <2>1. PICK w \in {r} \X Names : w = worker[r]
      BY <1>1, <1>5 DEF PostsHead
  <2>2. PICK h \in Tasks : h = Head(q)
      BY <1>5, TailFacts DEF PostsHead
  <2>3. PICK k \in Nat : k = Len(jobs[w]) + 1
      BY <1>1, <2>1 DEF SearchTypeOK
  <2>4. /\ \A i \in DOMAIN jobs'[w] :
             \/ i \in DOMAIN jobs[w] /\ jobs'[w][i] = jobs[w][i] /\ jobs[w][i].late
             \/ i = k /\ jobs'[w][i] = [id |-> h, late |-> FALSE]
        /\ \A v \in {r} \X Names \ {w} : jobs'[v] = jobs[v]
    <3> DEFINE m == [id |-> h, late |-> FALSE]
    <3>1. jobs[w] \in Seq([id : Tasks, late : BOOLEAN]) /\ m \in [id : Tasks, late : BOOLEAN]
        BY <1>1, <2>1 DEF SearchTypeOK
    <3> HIDE DEF m
    <3>2. jobs'[w] = jobs[w] \/ jobs'[w] = Append(jobs[w], m)
        BY <1>5, <2>1, <2>2 DEF PostsHead, m
    <3>3. \A i \in DOMAIN Append(jobs[w], m) :
             \/ i \in DOMAIN jobs[w] /\ Append(jobs[w], m)[i] = jobs[w][i]
             \/ i = k /\ Append(jobs[w], m)[i] = m
        BY <2>3, <3>1, AppendFacts
    <3>4. \A i \in DOMAIN jobs[w] : jobs[w][i].late
        BY <1>5, <2>1 DEF Postable
    <3>5. \A v \in {r} \X Names \ {w} : jobs'[v] = jobs[v]
        BY <2>1
    <3> QED
        BY <3>2, <3>3, <3>4, <3>5 DEF m
  <2>5. /\ active'[r] = h /\ queue'[r] = Tail(q) /\ q[1] = h /\ 1 \in DOMAIN q
        /\ \A i \in DOMAIN Tail(q) : i + 1 \in DOMAIN q /\ i + 1 # 1 /\ Tail(q)[i] = q[i + 1]
    <3>1. /\ Head(q) = q[1] /\ 1 \in DOMAIN q
          /\ \A i \in DOMAIN Tail(q) : i \in Nat \ {0} /\ i + 1 \in DOMAIN q /\ Tail(q)[i] = q[i + 1]
        BY <1>5, TailFacts DEF PostsHead
    <3> QED
        BY <1>5, <2>2, <3>1 DEF PostsHead
  <2>6. ~Settling(r, h)
      BY <2>5 DEF Postable
  <2>7. ASSUME NEW t \in Tasks, Settling(r, t)', t # h PROVE Settling(r, t)
    <3>1. PICK v \in {r} \X Names : \/ \E j \in DOMAIN jobs'[v] : jobs'[v][j].id = t
                                    \/ \E j \in DOMAIN outbox'[v] : Answering(outbox'[v][j], t)
        BY <2>7 DEF Settling
    <3>2. CASE \E j \in DOMAIN jobs'[v] : jobs'[v][j].id = t
        BY <2>4, <2>7, <3>2 DEF Settling
    <3>3. CASE \E j \in DOMAIN outbox'[v] : Answering(outbox'[v][j], t)
        BY <3>3 DEF Settling, FewerAnswers, Answering
    <3> QED
        BY <3>1, <3>2, <3>3
  <2>8. Waiting(r)'
    <3>1. ASSUME NEW i \in DOMAIN Tail(q) PROVE Tail(q)[i] # h /\ ~Settling(r, Tail(q)[i])'
      <4>1. PICK t : t = Tail(q)[i]
          OBVIOUS
      <4>2. t = q[i + 1] /\ t # h /\ t \in Tasks /\ ~Settling(r, t)
          BY <2>5, <4>1, ElementFacts DEF Postable
      <4>3. ~Settling(r, t)'
          BY <2>7, <4>2
      <4> QED
          BY <4>1, <4>2, <4>3 DEF Settling
    <3>2. \A i, j \in DOMAIN Tail(q) : Tail(q)[i] = Tail(q)[j] => i = j
      <4>1. \A i \in DOMAIN Tail(q) : i \in Nat
          BY <1>5, TailFacts DEF PostsHead
      <4> QED
          BY <2>5, <4>1 DEF Postable
    <3> QED
        BY <2>5, <3>1, <3>2 DEF Waiting
  <2>9. \A v \in {r} \X Names : \A i \in DOMAIN jobs'[v] : jobs'[v][i].late => jobs'[v][i].id # h
      BY <2>4, <2>6 DEF Settling
  <2>10. AtWorker(w, h)'
    <3>1. \A j \in DOMAIN outbox'[w] : ~Answering(outbox'[w][j], h)
        BY <2>6 DEF Settling, FewerAnswers, Answering
    <3>2. \A i \in DOMAIN jobs'[w] : jobs'[w][i].late \/ (i = k /\ jobs'[w][i].id = h)
        BY <2>4
    <3> QED
        BY <3>1, <3>2 DEF AtWorker
  <2>11. Posting(r)'
      BY <2>1, <2>5, <2>8, <2>9, <2>10 DEF Posting, AtWorker
  <2> QED
      BY <1>2, <2>11 DEF Posted
<1> QED
    BY <1>4, <1>5

\* pump() with a queue and an active task that may be posted.
LEMMA PumpPosts ==
    ASSUME PoolInv, Posted, NEW r \in Roles, NEW q \in Seq(Tasks), NEW a \in {active[r], NoTask},
           Pump(r, q, a), Postable(r, q, a), worker' = worker, \A v \in Workers : FewerAnswers(v)
    PROVE  Posted'
<1>1. a \in Tasks \cup {NoTask} /\ SearchTypeOK /\ Staffing
    BY DEF PoolInv, SearchTypeOK
<1>2. Pumped(r, q, a)
    BY <1>1, PumpFacts
<1>3. /\ \A s \in Roles \ {r} : active'[s] = active[s] /\ queue'[s] = queue[s]
      /\ \A v \in Workers : v # worker[r] => jobs'[v] = jobs[v]
      /\ \/ active'[r] = a /\ queue'[r] = q /\ jobs' = jobs
         \/ a = NoTask /\ PostsHead(r, q)
    BY <1>2 DEF Pumped, PostsHead
<1> QED
    BY <1>3, TaskPosted

\* The id of a new task is used nowhere.
LEMMA NextIdIsNew ==
    ASSUME NEW r \in Roles, FreeIds(r) # {}
    PROVE  /\ NextId(r) \in Tasks
           /\ \A s \in Roles : /\ NextId(r) # active[s] /\ ~Settling(s, NextId(r))
                               /\ \A i \in DOMAIN queue[s] : queue[s][i] # NextId(r)
<1> DEFINE t == NextId(r)
<1>1. t \in Tasks /\ ~Mentioned(t)
    BY NextIdIsFree
<1> HIDE DEF t
<1>2. /\ \A s \in Roles : t # active[s] /\ t \notin ToSet(queue[s])
      /\ \A w \in Workers : /\ \A j \in ToSet(jobs[w]) : j.id # t
                            /\ \A m \in ToSet(outbox[w]) : ~Answering(m, t)
    BY <1>1 DEF Mentioned, Outstanding
<1>3. \A s \in Roles : \A i \in DOMAIN queue[s] : queue[s][i] # t
    BY <1>2 DEF ToSet
<1>4. \A s \in Roles : ~Settling(s, t)
    BY <1>2, WorkerFacts DEF Settling, ToSet
<1> QED
    BY <1>1, <1>2, <1>3, <1>4 DEF t

LEMMA PostedInit == Init => Posted
<1> SUFFICES ASSUME Init, NEW r \in Roles PROVE Posting(r)
    BY DEF Posted
<1>1. /\ queue[r] = <<>> /\ worker[r] \in Workers
      /\ \A w \in Workers : jobs[w] = <<>>
    BY NamesAssumption DEF Init, Workers
<1>2. \A w \in {r} \X Names : jobs[w] = <<>>
    BY <1>1, WorkerFacts
<1> QED
    BY <1>1, <1>2 DEF Posting, Waiting, AtWorker

LEMMA SearchPosts == PoolInv /\ Posted /\ Search => Posted'
<1> SUFFICES ASSUME PoolInv, Posted, Search PROVE Posted'
    OBVIOUS
<1> USE TaskFacts
<1> DEFINE r == "search"
           q == Append(queue[r], NextId(r))
<1>1. /\ FreeIds(r) # {} /\ Pump(r, q, active[r]) /\ worker' = worker /\ outbox' = outbox /\ r \in Roles
    BY WorkerFacts DEF Search, Accepts, roleVars
<1>2. Posting(r) /\ queue[r] \in Seq(Tasks) /\ NextId(r) \in Tasks
    BY <1>1, NextIdIsNew DEF PoolInv, SearchTypeOK, Posted
<1> DEFINE n == Len(queue[r]) + 1
<1>3. /\ q \in Seq(Tasks) /\ q[n] = NextId(r)
      /\ \A i \in DOMAIN q : (i \in DOMAIN queue[r] /\ q[i] = queue[r][i]) \/ i = n
    BY <1>2, AppendFacts
<1> HIDE DEF q, n
<1>4. Postable(r, q, active[r])
  <2>1. \A i \in DOMAIN q : q[i] # active[r] /\ ~Settling(r, q[i])
      BY <1>1, <1>2, <1>3, NextIdIsNew DEF Posting, Waiting
  <2>2. \A i, j \in DOMAIN q : q[i] = q[j] => i = j
      BY <1>1, <1>2, <1>3, NextIdIsNew DEF Posting, Waiting
  <2>3. ASSUME active[r] = NoTask, worker[r] # NoWorker, NEW i \in DOMAIN jobs[worker[r]]
        PROVE  jobs[worker[r]][i].late
    <3>1. jobs[worker[r]][i].id \in Tasks
      <4>1. worker[r] \in Workers /\ SearchTypeOK
          BY <1>1, <2>3 DEF PoolInv, SearchTypeOK
      <4> QED
          BY <2>3, <4>1, JobFacts
    <3> QED
        BY <1>2, <2>3, <3>1 DEF Posting, AtWorker
  <2> QED
      BY <2>1, <2>2, <2>3 DEF Postable
<1>5. \A v \in Workers : FewerAnswers(v)
    BY <1>1 DEF FewerAnswers
<1> QED
    BY <1>1, <1>3, <1>4, <1>5, PumpPosts

\* Without an active task all that a worker executes has been rejected.
LEMMA IdleIsLate ==
    ASSUME PoolInv, Posted, NEW r \in Roles, active[r] = NoTask, worker[r] # NoWorker
    PROVE  \A i \in DOMAIN jobs[worker[r]] : jobs[worker[r]][i].late
<1>1. SearchTypeOK
    BY DEF PoolInv
<1>2. worker[r] \in Workers
    BY <1>1 DEF SearchTypeOK
<1>3. \A i \in DOMAIN jobs[worker[r]] : jobs[worker[r]][i].id # NoTask
    BY <1>1, <1>2, JobFacts
<1> QED
    BY <1>3 DEF Posted, Posting, AtWorker

\* A step that leaves the tasks alone, whatever it replaces or drops.
LEMMA FramePosts ==
    ASSUME PoolInv, Posted, UNCHANGED <<active, queue>>,
           \A w \in Workers : FewerAnswers(w) /\ jobs'[w] \in {jobs[w], <<>>},
           \A r \in Roles : \/ worker'[r] = worker[r] \/ worker'[r] = NoWorker
                            \/ jobs'[worker'[r]] = <<>>
    PROVE  Posted'
<1>1. ASSUME NEW r \in Roles PROVE Posting(r)'
  <2>1. \A w \in {r} \X Names : FewerAnswers(w) /\ jobs'[w] \in {jobs[w], <<>>}
      BY WorkerFacts
  <2>2. worker[r] # NoWorker => worker[r] \in {r} \X Names
    <3>1. worker[r] # NoWorker => worker[r] \in Workers
        BY DEF PoolInv, SearchTypeOK
    <3> QED
        BY <3>1, WorkerFacts DEF PoolInv, Staffing
  <2> QED
      BY <2>1, <2>2, StaysPosted DEF PoolInv
<1> QED
    BY <1>1 DEF Posted

LEMMA DiagnosticsPosts ==
    ASSUME PoolInv, Posted, NEW fresh \in BOOLEAN, Diagnostics(fresh)
    PROVE  Posted'
<1> USE TaskFacts
<1> DEFINE r == "diagnostics"
           q == <<NextId(r)>>
<1>1. FreeIds(r) # {} /\ worker' = worker /\ outbox' = outbox /\ r \in Roles
    BY WorkerFacts DEF Diagnostics, Accepts, roleVars
<1>2. \A v \in Workers : FewerAnswers(v)
    BY <1>1 DEF FewerAnswers
<1>3. CASE Pump(r, q, NoTask) /\ Busy(r) = 0
  <2>1. active[r] = NoTask
      BY <1>3 DEF Busy
  <2>2. q \in Seq(Tasks) /\ DOMAIN q = {1} /\ q[1] = NextId(r)
      BY <1>1, NextIdIsNew
  <2> HIDE DEF q
  <2>3. Postable(r, q, NoTask)
      BY <1>1, <2>1, <2>2, NextIdIsNew, IdleIsLate DEF Postable
  <2> QED
      BY <1>1, <1>2, <1>3, <2>1, <2>2, <2>3, PumpPosts
<1>4. CASE UNCHANGED <<taskVars, jobs>>
    BY <1>1, <1>2, <1>4, FramePosts DEF taskVars
<1> QED
    BY <1>3, <1>4 DEF Diagnostics

LEMMA BeginPosts ==
    ASSUME PoolInv, Posted, BeginAll \/ \E r \in Roles : BeginRole(r)
    PROVE  Posted'
<1>1. PICK S, K : ResetRoles(S, K)
    BY DEF BeginAll, BeginRole
<1>2. /\ \A r \in Roles : \/ r \in S /\ active'[r] = NoTask /\ queue'[r] = <<>> /\ worker'[r] = NoWorker
                          \/ active'[r] = active[r] /\ queue'[r] = queue[r] /\ worker'[r] = worker[r]
      /\ jobs' = jobs /\ outbox' = outbox
    BY <1>1 DEF ResetRoles, threadVars
<1>3. ASSUME NEW r \in Roles PROVE Posting(r)'
  <2>1. \A w \in {r} \X Names : FewerAnswers(w) /\ jobs'[w] \in {jobs[w], <<>>}
      BY <1>2 DEF FewerAnswers
  <2>2. worker[r] # NoWorker => worker[r] \in {r} \X Names
    <3>1. worker[r] # NoWorker => worker[r] \in Workers
        BY DEF PoolInv, SearchTypeOK
    <3> QED
        BY <3>1, WorkerFacts DEF PoolInv, Staffing
  <2> QED
      BY <1>2, <2>1, <2>2, StaysPosted DEF PoolInv
<1> QED
    BY <1>3 DEF Posted

LEMMA EndResetPosts == PoolInv /\ Posted /\ EndReset => Posted'
<1> SUFFICES ASSUME PoolInv, Posted, EndReset PROVE Posted'
    OBVIOUS
<1> USE WorkerFacts, ResetFacts
<1> DEFINE h == Head(lifecycle)
<1>1. /\ phase = "terminating" /\ killing = {} /\ lifecycle # <<>>
      /\ h \in {Whole} \cup RoleResets
      /\ UNCHANGED <<jobs, outbox, active, queue>> /\ SearchTypeOK
    BY EndResetFacts DEF PoolInv
<1>2. \A w \in Workers : FewerAnswers(w) /\ jobs'[w] \in {jobs[w], <<>>}
    BY <1>1 DEF FewerAnswers
<1>3. CASE NothingSpawned
    BY <1>1, <1>2, <1>3, FramePosts DEF NothingSpawned
<1>4. ASSUME NEW S \in SUBSET Roles, Spawn(S), \A r \in S : h = Whole \/ h.kind = r
      PROVE  Posted'
  <2>1. \A r \in S : Fresh(r) # {}
      BY <1>1, <1>4, ANameIsLeft DEF NameLeft, PoolInv, Staffing
  <2> PICK new \in SUBSET Workers : Spawned(S, new)
      BY <1>1, <1>4, <2>1, SpawnFacts
  <2>2. \A r \in S : jobs'[worker'[r]] = <<>>
      BY <1>1 DEF Spawned, Fresh, PoolInv, Mail
  <2>3. \A r \in Roles \ S : worker'[r] = worker[r]
      BY DEF Spawned
  <2> QED
      BY <1>1, <1>2, <2>2, <2>3, FramePosts
<1>5. CASE Spawn(Roles) /\ h = Whole
    BY <1>4, <1>5
<1>6. CASE Spawn({h.kind}) /\ h # Whole
  <2>1. {h.kind} \in SUBSET Roles
      BY <1>1, <1>6
  <2> QED
      BY <1>4, <1>6, <2>1
<1>7. NothingSpawned \/ (Spawn(Roles) /\ h = Whole) \/ (Spawn({h.kind}) /\ h # Whole)
    BY <1>1 DEF EndReset, SearchTypeOK
<1> QED
    BY <1>3, <1>5, <1>6, <1>7

\* A rejected task is late, and no other of its worker was on time.
LEMMA DeadlinePosts ==
    ASSUME PoolInv, Posted, NEW r \in Roles, Deadline(r)
    PROVE  Posted'
<1> USE WorkerFacts, TaskFacts
<1>1. /\ deadlineTimer[r] = <<active[r], worker[r]>> /\ active[r] \in Tasks /\ worker[r] \in Workers
      /\ SearchTypeOK /\ Posting(r) /\ Role(worker[r]) = r
  <2>1. SearchTypeOK /\ Posting(r)
      BY DEF PoolInv, Posted
  <2>2. deadlineTimer[r] = <<active[r], worker[r]>> /\ worker[r] # NoWorker /\ active[r] # NoTask
      BY DEF Deadline, PoolInv, Timed
  <2>3. active[r] \in Tasks /\ worker[r] \in Workers
      BY <2>1, <2>2 DEF SearchTypeOK
  <2> QED
      BY <2>1, <2>2, <2>3 DEF PoolInv, Staffing
<1>2. PICK w \in {r} \X Names : w = worker[r]
    BY <1>1
<1>3. PICK t \in Tasks : t = active[r]
    BY <1>1
<1>4. /\ active' = [active EXCEPT ![r] = IF @ = t THEN NoTask ELSE @]
      /\ jobs' = [jobs EXCEPT ![w] = [i \in DOMAIN @ |->
                     IF @[i].id = t THEN [id |-> t, late |-> TRUE] ELSE @[i]]]
      /\ UNCHANGED <<queue, outbox, worker>>
    BY <1>1, <1>2, <1>3 DEF Deadline, roleVars
<1>5. /\ active'[r] = NoTask /\ \A s \in Roles \ {r} : active'[s] = active[s]
      /\ DOMAIN jobs'[w] = DOMAIN jobs[w]
      /\ \A i \in DOMAIN jobs[w] :
            jobs'[w][i] = IF jobs[w][i].id = t THEN [id |-> t, late |-> TRUE] ELSE jobs[w][i]
      /\ \A v \in Workers \ {w} : jobs'[v] = jobs[v]
    BY <1>1, <1>3, <1>4 DEF SearchTypeOK
<1>6. \A v \in Workers : FewerAnswers(v)
    BY <1>4 DEF FewerAnswers
<1>7. ASSUME NEW s \in Roles \ {r} PROVE Posting(s)'
  <2>1. \A v \in {s} \X Names : FewerAnswers(v) /\ jobs'[v] \in {jobs[v], <<>>}
      BY <1>5, <1>6
  <2>2. worker[s] # NoWorker => worker[s] \in {s} \X Names
    <3>1. worker[s] # NoWorker => worker[s] \in Workers
        BY <1>1 DEF SearchTypeOK
    <3> QED
        BY <3>1 DEF PoolInv, Staffing
  <2> QED
      BY <1>1, <1>4, <1>5, <2>1, <2>2, StaysPosted
<1>8. \A v \in {r} \X Names : /\ DOMAIN jobs'[v] = DOMAIN jobs[v]
                              /\ \A i \in DOMAIN jobs[v] : jobs'[v][i].id = jobs[v][i].id
    BY <1>5
<1>9. ASSUME NEW u, Settling(r, u)' PROVE Settling(r, u)
  <2>1. PICK v \in {r} \X Names : \/ \E j \in DOMAIN jobs'[v] : jobs'[v][j].id = u
                                  \/ \E j \in DOMAIN outbox'[v] : Answering(outbox'[v][j], u)
      BY <1>9 DEF Settling
  <2>2. CASE \E j \in DOMAIN jobs'[v] : jobs'[v][j].id = u
      BY <1>8, <2>2 DEF Settling
  <2>3. CASE \E j \in DOMAIN outbox'[v] : Answering(outbox'[v][j], u)
      BY <1>4, <2>3 DEF Settling
  <2> QED
      BY <2>1, <2>2, <2>3
<1>10. Waiting(r)'
  <2>1. \A i \in DOMAIN queue[r] : queue[r][i] # NoTask
      BY <1>1, ElementFacts DEF SearchTypeOK
  <2> QED
      BY <1>1, <1>4, <1>5, <1>9, <2>1 DEF Posting, Waiting
<1>11. \A v \in {r} \X Names : \A i \in DOMAIN jobs'[v] : jobs'[v][i].id # NoTask
  <2>1. \A v \in {r} \X Names : v \in Workers
      OBVIOUS
  <2>2. \A v \in {r} \X Names : \A i \in DOMAIN jobs[v] : jobs[v][i].id # NoTask
      BY <1>1, <2>1, JobFacts
  <2> QED
      BY <1>8, <2>2
<1>12. \A i \in DOMAIN jobs'[w] : jobs'[w][i].late
    BY <1>1, <1>2, <1>3, <1>5 DEF Posting, AtWorker
<1>13. Posting(r)'
  <2>1. worker'[r] = w /\ active'[r] = NoTask
      BY <1>2, <1>4, <1>5
  <2>2. AtWorker(worker[r], active[r])'
      BY <1>12, <2>1 DEF AtWorker
  <2> QED
      BY <1>10, <1>11, <2>1, <2>2 DEF Posting
<1> QED
    BY <1>7, <1>13 DEF Posted

LEMMA OnReadyPosts ==
    ASSUME PoolInv, Posted, NEW w \in Workers, OnReady(w)
    PROVE  Posted'
<1> USE WorkerFacts, TaskFacts
<1> DEFINE r == Role(w)
<1>1. /\ Take(w, {"ready"}) /\ worker[r] = w /\ r \in Roles /\ worker' = worker /\ SearchTypeOK
    BY DEF OnReady, Heard, PoolInv
<1>2. IF active[r] = NoTask /\ queue[r] # <<>>
      THEN /\ active' = [active EXCEPT ![r] = Head(queue[r])]
           /\ queue' = [queue EXCEPT ![r] = Tail(queue[r])]
           /\ Post(w, Head(queue[r]))
      ELSE UNCHANGED <<active, queue, jobs>>
    BY DEF OnReady, taskVars
<1> HIDE DEF r
<1>3. \A v \in Workers : FewerAnswers(v)
    BY <1>1, TakeKeepsAnswers
<1>4. CASE UNCHANGED <<active, queue, jobs>>
    BY <1>1, <1>3, <1>4, FramePosts
<1>5. CASE active[r] = NoTask /\ queue[r] # <<>>
  <2> DEFINE q == queue[r]
  <2>1. q \in Seq(Tasks) /\ Postable(r, q, NoTask)
    <3>1. q \in Seq(Tasks)
        BY <1>1 DEF SearchTypeOK
    <3>2. \A i \in DOMAIN jobs[worker[r]] : jobs[worker[r]][i].late
        BY <1>1, <1>5, IdleIsLate
    <3> QED
        BY <1>1, <1>5, <3>1, <3>2 DEF Postable, Posted, Posting, Waiting
  <2>2. /\ active' = [active EXCEPT ![r] = Head(q)] /\ queue' = [queue EXCEPT ![r] = Tail(q)]
        /\ jobs' = [jobs EXCEPT ![w] = IF Live(w) THEN Append(@, [id |-> Head(q), late |-> FALSE]) ELSE @]
      BY <1>2, <1>5 DEF Post
  <2>3. /\ \A s \in Roles \ {r} : active'[s] = active[s] /\ queue'[s] = queue[s]
        /\ \A v \in Workers : v # worker[r] => jobs'[v] = jobs[v]
        /\ PostsHead(r, q)
    <3>1. /\ active'[r] = Head(q) /\ queue'[r] = Tail(q)
          /\ \A s \in Roles \ {r} : active'[s] = active[s] /\ queue'[s] = queue[s]
        BY <1>1, <2>2 DEF SearchTypeOK
    <3>2. /\ \/ jobs'[w] = jobs[w] \/ jobs'[w] = Append(jobs[w], [id |-> Head(q), late |-> FALSE])
          /\ \A v \in Workers : v # w => jobs'[v] = jobs[v]
        BY <1>1, <2>2 DEF SearchTypeOK
    <3> QED
        BY <1>1, <1>5, <3>1, <3>2 DEF PostsHead
  <2> HIDE DEF q
  <2> QED
      BY <1>1, <1>3, <1>5, <2>1, <2>3, TaskPosted
<1> QED
    BY <1>2, <1>4, <1>5

LEMMA OnAnswerPosts ==
    ASSUME PoolInv, Posted, NEW w \in Workers, OnAnswer(w)
    PROVE  Posted'
<1> USE WorkerFacts, TaskFacts
<1> DEFINE r == Role(w)
           q == queue[r]
<1>1. /\ Take(w, {"result", "error"}) /\ worker[r] = w /\ r \in Roles /\ worker' = worker
      /\ Head(outbox[w]).id = active[r] /\ Pump(r, q, NoTask) /\ SearchTypeOK
    BY DEF OnAnswer, Heard, PoolInv, roleVars
<1>2. q \in Seq(Tasks) /\ Posting(r)
    BY <1>1 DEF SearchTypeOK, Posted
<1>3. 1 \in DOMAIN outbox[w] /\ Answering(outbox[w][1], active[r])
  <2>1. outbox[w] \in Seq(ToPool) /\ outbox[w] # <<>> /\ Head(outbox[w]).type \in {"result", "error"}
      BY <1>1 DEF Take, SearchTypeOK
  <2>2. 1 \in DOMAIN outbox[w] /\ Head(outbox[w]) = outbox[w][1]
      BY <2>1, TailFacts
  <2> QED
      BY <1>1, <2>1, <2>2 DEF Answering
<1>4. \A i \in DOMAIN jobs[w] : jobs[w][i].late
    BY <1>1, <1>2, <1>3 DEF Posting, AtWorker
<1>5. \A i \in DOMAIN q : q[i] # NoTask
    BY <1>2, ElementFacts
<1>6. Postable(r, q, NoTask)
    BY <1>1, <1>2, <1>4, <1>5 DEF Postable, Posting, Waiting
<1>7. \A v \in Workers : FewerAnswers(v)
    BY <1>1, TakeKeepsAnswers
<1> HIDE DEF r, q
<1> QED
    BY <1>1, <1>2, <1>6, <1>7, PumpPosts

\* The answer takes the place of the task: its id stays where the worker is.
LEMMA WorkerAnswersPosts ==
    ASSUME PoolInv, Posted, NEW w \in Workers, WorkerAnswers(w)
    PROVE  Posted'
<1> USE WorkerFacts
<1>1. PICK i \in DOMAIN jobs[w], t \in {"result", "error"} :
         /\ jobs' = [jobs EXCEPT ![w] = RemoveAt(jobs[w], i)]
         /\ Emit(w, <<[type |-> t, id |-> jobs[w][i].id]>>)
    BY DEF WorkerAnswers
<1>2. UNCHANGED <<worker, active, queue>> /\ SearchTypeOK
    BY DEF WorkerAnswers, roleVars, taskVars, PoolInv
<1>3. PICK d \in Tasks : d = jobs[w][i].id
    BY <1>2, JobFacts
<1> DEFINE m == [type |-> t, id |-> d]
           ms == <<m>>
<1>4. ms \in Seq(ToPool) /\ DOMAIN ms = {1} /\ ms[1] = m
  <2>1. m \in ToPool
      BY <1>3 DEF ToPool
  <2> HIDE DEF m
  <2> QED
      BY <2>1
<1>5. /\ outbox'[w] = outbox[w] \o ms
      /\ \A v \in Workers \ {w} : outbox'[v] = outbox[v] /\ jobs'[v] = jobs[v]
      /\ jobs'[w] = RemoveAt(jobs[w], i)
  <2>1. outbox' = [outbox EXCEPT ![w] = outbox[w] \o ms]
      BY <1>1, <1>3 DEF Emit
  <2> QED
      BY <1>1, <1>2, <2>1 DEF SearchTypeOK
<1>6. \A j \in DOMAIN jobs'[w] : \/ j \in DOMAIN jobs[w] /\ j < i /\ jobs'[w][j] = jobs[w][j]
                                 \/ j + 1 \in DOMAIN jobs[w] /\ i < j + 1 /\ jobs'[w][j] = jobs[w][j + 1]
  <2>1. PICK s \in Seq([id : Tasks, late : BOOLEAN]) : s = jobs[w]
      BY <1>2 DEF SearchTypeOK
  <2>2. i \in DOMAIN s
      BY <2>1
  <2>3. \A j \in DOMAIN RemoveAt(s, i) :
           \/ j \in DOMAIN s /\ j < i /\ RemoveAt(s, i)[j] = s[j]
           \/ j + 1 \in DOMAIN s /\ i < j + 1 /\ RemoveAt(s, i)[j] = s[j + 1]
      BY <2>2, RemoveFacts
  <2> QED
      BY <1>5, <2>1, <2>3
<1> HIDE DEF ms
<1>7. \A j \in DOMAIN outbox'[w] :
         (j \in DOMAIN outbox[w] /\ outbox'[w][j] = outbox[w][j]) \/ outbox'[w][j] = m
  <2>1. outbox[w] \in Seq(ToPool)
      BY <1>2 DEF SearchTypeOK
  <2>2. \A j \in DOMAIN (outbox[w] \o ms) :
            \/ j \in DOMAIN outbox[w] /\ (outbox[w] \o ms)[j] = outbox[w][j]
            \/ \E k \in DOMAIN ms : j = Len(outbox[w]) + k /\ (outbox[w] \o ms)[j] = ms[k]
      BY <1>4, <2>1, ConcatFacts
  <2> QED
      BY <1>4, <1>5, <2>2
<1> HIDE DEF m
<1>8. \A u : Answering(m, u) => u = d
    BY DEF Answering, m
<1>9. \A j \in DOMAIN jobs'[w] : \E k \in DOMAIN jobs[w] : k # i /\ jobs'[w][j] = jobs[w][k]
  <2>1. DOMAIN jobs[w] = 1..Len(jobs[w]) /\ Len(jobs[w]) \in Nat
      BY <1>2, JobFacts
  <2> QED
      BY <1>6, <2>1
<1>10. ASSUME NEW s \in Roles, s # Role(w) PROVE Posting(s)'
  <2>1. \A v \in {s} \X Names : FewerAnswers(v) /\ jobs'[v] \in {jobs[v], <<>>}
      BY <1>5, <1>10 DEF FewerAnswers
  <2>2. worker[s] # NoWorker => worker[s] \in {s} \X Names
    <3>1. worker[s] # NoWorker => worker[s] \in Workers
        BY <1>2 DEF SearchTypeOK
    <3> QED
        BY <3>1 DEF PoolInv, Staffing
  <2> QED
      BY <1>2, <2>1, <2>2, StaysPosted
<1> PICK r \in Roles : r = Role(w)
    OBVIOUS
<1>11. w \in {r} \X Names /\ Posting(r)
    BY DEF Posted
<1>12. ASSUME NEW u, Settling(r, u)' PROVE Settling(r, u)
  <2>1. PICK v \in {r} \X Names : \/ \E j \in DOMAIN jobs'[v] : jobs'[v][j].id = u
                                  \/ \E j \in DOMAIN outbox'[v] : Answering(outbox'[v][j], u)
      BY <1>12 DEF Settling
  <2>2. CASE v # w
      BY <1>5, <2>1, <2>2 DEF Settling
  <2>3. CASE v = w /\ \E j \in DOMAIN jobs'[v] : jobs'[v][j].id = u
      BY <1>9, <2>3 DEF Settling
  <2>4. CASE v = w /\ \E j \in DOMAIN outbox'[v] : Answering(outbox'[v][j], u)
    <3>1. PICK j \in DOMAIN outbox'[w] : Answering(outbox'[w][j], u)
        BY <2>4
    <3>2. CASE j \in DOMAIN outbox[w] /\ outbox'[w][j] = outbox[w][j]
        BY <1>11, <3>1, <3>2 DEF Settling
    <3>3. CASE outbox'[w][j] = m
        BY <1>3, <1>8, <1>11, <3>1, <3>3 DEF Settling
    <3> QED
        BY <1>7, <3>2, <3>3
  <2> QED
      BY <2>1, <2>2, <2>3, <2>4
<1>13. Waiting(r)'
    BY <1>2, <1>11, <1>12 DEF Posting, Waiting
<1>14. \A v \in {r} \X Names : \A j \in DOMAIN jobs'[v] : jobs'[v][j].late => jobs'[v][j].id # active[r]
    BY <1>5, <1>9, <1>11 DEF Posting
<1>15. CASE worker[r] = w
  <2>1. AtWorker(w, active[r])
      BY <1>11, <1>15 DEF Posting
  <2>2. \A j \in DOMAIN jobs'[w] : jobs'[w][j].late \/ jobs'[w][j].id = active[r]
      BY <1>9, <2>1 DEF AtWorker
  <2>3. ASSUME NEW j \in DOMAIN jobs'[w], NEW k \in DOMAIN jobs'[w],
               ~jobs'[w][j].late, ~jobs'[w][k].late
        PROVE  j = k
    <3>1. DOMAIN jobs[w] = 1..Len(jobs[w]) /\ Len(jobs[w]) \in Nat
        BY <1>2, JobFacts
    <3>2. j \in Int /\ k \in Int
      <4>1. PICK s \in Seq([id : Tasks, late : BOOLEAN]) : s = jobs'[w]
        <5>1. jobs[w] \in Seq([id : Tasks, late : BOOLEAN])
            BY <1>2, JobFacts
        <5> QED
            BY <1>5, <5>1, RemoveFacts
      <4> QED
          BY <4>1, ElementFacts
    <3>3. \A x, y \in DOMAIN jobs[w] : (~jobs[w][x].late /\ ~jobs[w][y].late) => x = y
        BY <2>1 DEF AtWorker
    <3>4. PICK x \in {j, j + 1} : x \in DOMAIN jobs[w] /\ ~jobs[w][x].late /\ (x = j => j < i)
                                  /\ (x = j + 1 => i < j + 1)
        BY <1>6, <2>3, <3>2
    <3>5. PICK y \in {k, k + 1} : y \in DOMAIN jobs[w] /\ ~jobs[w][y].late /\ (y = k => k < i)
                                  /\ (y = k + 1 => i < k + 1)
        BY <1>6, <2>3, <3>2
    <3>6. x = y
        BY <3>3, <3>4, <3>5
    <3> QED
        BY <3>1, <3>2, <3>4, <3>5, <3>6
  <2>4. ASSUME NEW j \in DOMAIN jobs'[w], NEW k \in DOMAIN outbox'[w], ~jobs'[w][j].late
        PROVE  ~Answering(outbox'[w][k], active[r])
    <3>1. PICK l \in DOMAIN jobs[w] : l # i /\ jobs'[w][j] = jobs[w][l]
        BY <1>9
    <3>2. ~jobs[w][l].late /\ jobs[w][i].late
        BY <2>1, <2>4, <3>1 DEF AtWorker
    <3>3. d # active[r]
        BY <1>3, <1>11, <3>2 DEF Posting
    <3>4. CASE outbox'[w][k] = m
        BY <1>8, <3>3, <3>4
    <3>5. CASE k \in DOMAIN outbox[w] /\ outbox'[w][k] = outbox[w][k]
        BY <2>1, <3>2, <3>5 DEF AtWorker
    <3> QED
        BY <1>7, <3>4, <3>5
  <2>5. AtWorker(w, active[r])'
      BY <1>2, <2>2, <2>3, <2>4 DEF AtWorker
  <2>6. worker'[r] = w /\ active'[r] = active[r]
      BY <1>2, <1>15
  <2>7. AtWorker(worker[r], active[r])'
      BY <2>5, <2>6 DEF AtWorker
  <2>8. Posting(r)'
      BY <1>13, <1>14, <2>6, <2>7 DEF Posting
  <2> QED
      BY <1>10, <2>8 DEF Posted
<1>16. CASE worker[r] # w
  <2>1. worker[r] # NoWorker => AtWorker(worker[r], active[r])'
    <3> SUFFICES ASSUME worker[r] # NoWorker PROVE AtWorker(worker[r], active[r])'
        OBVIOUS
    <3>1. worker[r] \in Workers
        BY <1>2 DEF SearchTypeOK
    <3>2. jobs'[worker[r]] = jobs[worker[r]] /\ outbox'[worker[r]] = outbox[worker[r]]
        BY <1>5, <1>16, <3>1
    <3>3. AtWorker(worker[r], active[r])
        BY <1>11 DEF Posting
    <3> QED
        BY <1>2, <3>2, <3>3 DEF AtWorker
  <2> QED
      BY <1>2, <1>10, <1>13, <1>14, <2>1 DEF Posted, Posting
<1> QED
    BY <1>15, <1>16

LEMMA PostedStep == PoolInv /\ Posted /\ [Next]_vars => Posted'
<1> SUFFICES ASSUME PoolInv, Posted, [Next]_vars PROVE Posted'
    OBVIOUS
<1> USE WorkerFacts
<1>1. SearchTypeOK
    BY DEF PoolInv
<1>2. CASE Search
    BY <1>2, SearchPosts
<1>3. ASSUME NEW fresh \in BOOLEAN, Diagnostics(fresh) PROVE Posted'
    BY <1>3, DiagnosticsPosts
<1>4. CASE Restart \/ Close \/ \E r \in Roles : SkipRole(r)
  <2>1. UNCHANGED <<worker, active, queue, jobs, outbox>>
      BY <1>4 DEF Restart, Close, SkipRole, roleVars, taskVars, threadVars
  <2>2. \A w \in Workers : FewerAnswers(w)
      BY <2>1 DEF FewerAnswers
  <2> QED
      BY <2>1, <2>2, FramePosts
<1>5. CASE BeginAll \/ \E r \in Roles : BeginRole(r)
    BY <1>5, BeginPosts
<1>6. CASE EndReset
    BY <1>6, EndResetPosts
<1>7. ASSUME NEW w \in Workers, Terminated(w) PROVE Posted'
  <2>1. /\ UNCHANGED <<worker, active, queue>>
        /\ jobs' = [jobs EXCEPT ![w] = <<>>] /\ outbox' = [outbox EXCEPT ![w] = <<>>]
      BY <1>7 DEF Terminated, roleVars, taskVars
  <2>2. \A v \in Workers : /\ outbox'[v] = outbox[v] \/ outbox'[v] = <<>>
                           /\ jobs'[v] \in {jobs[v], <<>>}
      BY <1>1, <2>1 DEF SearchTypeOK
  <2>3. \A v \in Workers : FewerAnswers(v)
      BY <2>2 DEF FewerAnswers
  <2> QED
      BY <2>1, <2>2, <2>3, FramePosts
<1>8. ASSUME NEW r \in Roles, Event(r) PROVE Posted'
  <2>1. CASE ReadyDeadline(r)
    <3>1. UNCHANGED <<worker, active, queue, jobs, outbox>>
        BY <2>1 DEF ReadyDeadline, taskVars, threadVars
    <3>2. \A w \in Workers : FewerAnswers(w)
        BY <3>1 DEF FewerAnswers
    <3> QED
        BY <3>1, <3>2, FramePosts
  <2>2. CASE Deadline(r)
      BY <2>2, DeadlinePosts
  <2>3. ASSUME NEW w \in Workers, OnStale(w) \/ OnFailure(w) PROVE Posted'
    <3>1. UNCHANGED <<worker, active, queue, jobs>>
        BY <2>3 DEF OnStale, OnFailure, roleVars, taskVars
    <3>2. \A v \in Workers : FewerAnswers(v)
        BY <1>1, <2>3, TakeKeepsAnswers DEF OnStale, OnFailure
    <3> QED
        BY <3>1, <3>2, FramePosts
  <2>4. ASSUME NEW w \in {r} \X Names, OnReady(w) \/ OnAnswer(w) \/ OnStale(w) \/ OnFailure(w)
        PROVE  Posted'
    <3>1. w \in Workers
        OBVIOUS
    <3> QED
        BY <2>3, <2>4, <3>1, OnReadyPosts, OnAnswerPosts
  <2> QED
      BY <1>8, <2>1, <2>2, <2>4 DEF Event
<1>9. ASSUME NEW w \in Workers, WorkerBoots(w) PROVE Posted'
  <2> DEFINE ms == <<[type |-> "ready"]>>
  <2>1. Emit(w, ms) /\ UNCHANGED <<worker, active, queue, jobs>>
      BY <1>9 DEF WorkerBoots, roleVars, taskVars
  <2>2. ms \in Seq(ToPool) /\ \A k \in DOMAIN ms : ms[k].type \notin {"result", "error"}
      BY DEF ToPool
  <2> HIDE DEF ms
  <2>3. \A v \in Workers : FewerAnswers(v)
      BY <1>1, <2>1, <2>2, EmitAddsNoAnswer
  <2> QED
      BY <2>1, <2>3, FramePosts
<1>10. ASSUME NEW w \in Workers, WorkerAnswers(w) PROVE Posted'
    BY <1>10, WorkerAnswersPosts
<1>11. ASSUME NEW w \in Workers, WorkerDies(w) PROVE Posted'
  <2>1. PICK sent \in {<<>>, <<[type |-> "failure"]>>} : Emit(w, sent \o <<[type |-> "exit"]>>)
      BY <1>11 DEF WorkerDies
  <2>2. jobs' = [jobs EXCEPT ![w] = <<>>] /\ UNCHANGED <<worker, active, queue>>
      BY <1>11 DEF WorkerDies, roleVars, taskVars
  <2>3. /\ sent \o <<[type |-> "exit"]>> \in Seq(ToPool)
        /\ \A k \in DOMAIN (sent \o <<[type |-> "exit"]>>) :
              (sent \o <<[type |-> "exit"]>>)[k].type \notin {"result", "error"}
    <3>1. [type |-> "failure"] \in ToPool /\ [type |-> "exit"] \in ToPool
        BY DEF ToPool
    <3>2. CASE sent = <<>>
        BY <3>1, <3>2
    <3>3. CASE sent = <<[type |-> "failure"]>>
        BY <3>1, <3>3
    <3> QED
        BY <3>2, <3>3
  <2>4. \A v \in Workers : FewerAnswers(v)
      BY <1>1, <2>1, <2>3, EmitAddsNoAnswer
  <2>5. \A v \in Workers : jobs'[v] \in {jobs[v], <<>>}
      BY <1>1, <2>2 DEF SearchTypeOK
  <2> QED
      BY <2>2, <2>4, <2>5, FramePosts
<1>12. CASE UNCHANGED vars
  <2>1. UNCHANGED <<worker, active, queue, jobs, outbox>>
      BY <1>12 DEF vars, roleVars, taskVars, threadVars
  <2>2. \A w \in Workers : FewerAnswers(w)
      BY <2>1 DEF FewerAnswers
  <2> QED
      BY <2>1, <2>2, FramePosts
<1> QED
    BY <1>2, <1>3, <1>4, <1>5, <1>6, <1>7, <1>8, <1>9, <1>10, <1>11, <1>12 DEF Next, ResetStep

\* What a worker that is heard still executes is the active task of its role, or was
\* rejected at its deadline: no answer is taken for the answer to another task.
THEOREM NoTaskIsForgotten == Spec => []NothingRunsForgotten
<1>1. Init => Posted
    BY PostedInit
<1>2. PoolInv /\ Posted /\ [Next]_vars => Posted'
    BY PostedStep
<1>3. PoolInv /\ Posted => NothingRunsForgotten
  <2> SUFFICES ASSUME PoolInv, Posted, NEW w \in Workers, Heard(w), NEW j \in ToSet(jobs[w])
               PROVE  j.late \/ j.id = active[Role(w)]
      BY DEF NothingRunsForgotten
  <2>1. PICK i \in DOMAIN jobs[w] : j = jobs[w][i]
      BY DEF ToSet
  <2>2. worker[Role(w)] = w /\ Role(w) \in Roles /\ w # NoWorker
      BY WorkerFacts DEF Heard
  <2>3. AtWorker(w, active[Role(w)])
      BY <2>2 DEF Posted, Posting
  <2> QED
      BY <2>1, <2>3 DEF AtWorker
<1> QED
    BY <1>1, <1>2, <1>3, SearchPoolInductive, PTL DEF Spec

===============================================================================
